------------------------------- MODULE MCVenue -------------------------------
(***************************************************************************)
(* An instance for TLC of three views of the Moltbook side, which share no *)
(* state: the runtime, the daily budgets and the verification of one       *)
(* write.  A behavior is one of one of them.  Budgets are run for posts    *)
(* only, for comments only, and for one of each.  The challenges name two  *)
(* operands in several spellings, with or without another count, one that  *)
(* is read inexactly, a divisor of zero, or nothing that the rules can     *)
(* read.                                                                   *)
(***************************************************************************)
EXTENDS MoltbookRuntime, DailyBudget, Verification, TLC

CONSTANTS
  p1, p2, p3, c1, c2, c3,
  Parts  \* the views that a run takes

VARIABLE part

venueVars == <<part, vars, budgetVars, clientVars>>

\* What a behavior of the budgets may plan.
Planned ==
  [posts |-> {p1, p2, p3}, comments |-> {c1, c2, c3}, both |-> {p1, c1}]

MCPosts == Planned.posts
MCComments == Planned.comments

VenueInit ==
  /\ part \in Parts
  /\ Init /\ BudgetInit /\ ClientInit
  /\ part # "verification" => config = [autoVerify |-> TRUE, model |-> TRUE]

VenueNext ==
  /\ \/ part = "runtime" /\ Next /\ UNCHANGED <<budgetVars, clientVars>>
     \/ /\ part \in DOMAIN Planned /\ BudgetNext /\ write' \subseteq Planned[part]
        /\ UNCHANGED <<vars, clientVars>>
     \/ part = "verification" /\ ClientNext /\ UNCHANGED <<vars, budgetVars>>
  /\ UNCHANGED part

VenueSpec == VenueInit /\ [][VenueNext]_venueVars

TwoApart == [new \in BOOLEAN |-> 2]
OneADay == [new \in BOOLEAN |-> 1]
OneOrTwo == [new \in BOOLEAN |-> IF new THEN 1 ELSE 2]

----------------------------------------------------------------------------
\* Challenges.

\* A word that is read as the number v together with the next n - 1, and as none alone.
Wide(n, v) == [widths \in {n} |-> v]

\* The number v in n words, as tens and units where it has both.
Split(v, n) == [i \in 1..n |-> IF i = 1 THEN Wide(n, v) ELSE NotNumber]

Spelling(v, tens, units) ==
  IF v < 20 \/ v % 10 = 0 THEN Split(v, tens)
  ELSE Split(v - (v % 10), tens) \o Split(v % 10, units)

\* A number word that is read as itself and, inexactly, together with the next word.
Attached(v) == <<[n \in 1..2 |-> v], NotNumber>>

Operands(operation) ==
  CASE operation = "plus" -> <<23, 14>>
    [] operation = "divided" -> <<17, 6>>
    [] OTHER -> <<15, 31>>

Asked(operation, x, y, left, right) ==
  [words |-> left \o x \o <<NotNumber>> \o y \o right, said |-> {operation}]

Text(operation, t, u, left, right) ==
  LET a == Operands(operation)[1]
      b == Operands(operation)[2]
  IN Asked(operation, Spelling(a, t, u), Spelling(b, u, t), left, right)

Unread == [words |-> <<NotNumber>>, said |-> {}]
Short == Asked("plus", Split(5, 1), Split(3, 1), <<>>, <<>>)
Inexact == Asked("minus", Attached(20), Split(3, 1), <<>>, <<>>)
ByZero == Asked("divided", Split(5, 1), Split(0, 1), <<>>, <<>>)
Miscounted == Asked("plus", Split(5, 1), Split(3, 1), <<>>, <<Wide(1, 9)>>)

MCChallenges ==
  {[texts |-> <<Text(op, t, u, left, right)>>, regular |-> TRUE,
    truth |-> Apply(op, Operands(op)[1], Operands(op)[2])] :
     op \in Operations, t \in 1..3, u \in {1, 2},
     left \in {<<Wide(1, 1), NotNumber>>}, right \in {<<>>, <<NotNumber, Wide(1, 2)>>}}
  \cup {[texts |-> <<Unread, Short>>, truth |-> 800, regular |-> TRUE],
        [texts |-> <<Inexact>>, truth |-> 1700, regular |-> TRUE],
        [texts |-> <<ByZero, Short>>, truth |-> 800, regular |-> FALSE],
        [texts |-> <<Unread>>, truth |-> 800, regular |-> FALSE],
        [texts |-> <<Miscounted>>, truth |-> 800, regular |-> FALSE]}

----------------------------------------------------------------------------

Symmetry == Permutations(Writes) \cup Permutations(Votes)

BudgetSymmetry == Symmetry \cup Permutations({p2, p3}) \cup Permutations({c2, c3})

\* The type invariant of the view that moves; the others have not moved.
TypesOK ==
  CASE part = "runtime" -> TypeOK
    [] part = "verification" -> ClientTypeOK
    [] OTHER -> BudgetTypeOK
=============================================================================

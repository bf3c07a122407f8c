----------------------------- MODULE MCWriting ------------------------------
(***************************************************************************)
(* An instance for TLC of two views of the Moltbook side, which share no   *)
(* state: the runtime, and the drafting of what it writes.  A behavior is  *)
(* one of one of them.  A post, a reply and two agents are on offer, and   *)
(* two of the three wordings have one sense.                               *)
(***************************************************************************)
EXTENDS MoltbookRuntime, Drafting, TLC

VARIABLE view

writingVars == <<view, vars, draftVars>>

MCActionType ==
  [o \in {"post", "reply", "agent1", "agent2"} |->
     CASE o = "post" -> "create_post" [] o = "reply" -> "reply_to_activity"
       [] OTHER -> "follow_agent"]

MCSense == [w \in {"x", "x again", "y"} |-> IF w = "y" THEN "y" ELSE "x"]

ViewInit ==
  /\ view \in {"runtime", "drafting"} /\ Init /\ DraftingInit
  /\ view = "runtime" => tracked

ViewNext ==
  /\ \/ view = "runtime" /\ Next /\ UNCHANGED draftVars
     \/ view = "drafting" /\ DraftingNext /\ UNCHANGED vars
  /\ UNCHANGED view

ViewSpec == ViewInit /\ [][ViewNext]_writingVars

Symmetry == Permutations(Writes) \cup Permutations(Votes)
=============================================================================

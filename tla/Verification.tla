---------------------------- MODULE Verification ----------------------------
(***************************************************************************)
(* One write of the Moltbook agent through MoltbookApiClient.  The site    *)
(* hides what is published until the client has answered an arithmetic     *)
(* challenge, which it reads with rules of its own and then with a         *)
(* language model.  Whatever fails fails the attempt, the record of a      *)
(* success too, and the executor may publish the content again.            *)
(***************************************************************************)
EXTENDS Integers, SequencesExt

CONSTANTS
  Challenges,  \* challenges of the site: texts as words, with the true answer
  Guesses,     \* answers of a language model
  JobAttempts, \* attempts of the job
  MaxLostOutcomes  \* bound of the model on answers, and records of a success, that are lost

\* A word of a text is what it reads as: at each width at which it and the words that
\* follow, written together, match a number word or are digits, the number.  A match may
\* be inexact ("twentyto" is 20), and a stop word is not joined with others.  Numbers
\* are whole: a text has no sign, and decimals are left out.
Word == UNION {[widths -> Nat] : widths \in SUBSET (1..3)}
NotNumber == [n \in {} |-> 0]

ASSUME VerificationAssumption ==
  {JobAttempts, MaxLostOutcomes} \subseteq Nat /\ JobAttempts > 0

VARIABLES
  config,    \* autoVerify, and whether there is a verificationLlmProvider (model)
  step,      \* what the client does next
  attempt,   \* job.attempts
  challenge, \* of what it has published
  answer,    \* its next answer
  answers,   \* how many it has sent for this challenge
  outcome,   \* of the job
  copies,    \* external: what was published, and whether it is shown
  lostOutcomes \* answers of the site, and records of a success, that were lost

clientVars == <<config, step, attempt, challenge, answer, answers, outcome, copies, lostOutcomes>>

None == "none"
NoChallenge == [texts |-> <<>>, truth |-> 0, regular |-> FALSE]

ClientInit ==
  /\ config \in [autoVerify : BOOLEAN, model : BOOLEAN]
  /\ step = "publish" /\ attempt = 1 /\ outcome = None
  /\ challenge = NoChallenge /\ answer = 0 /\ answers = 0
  /\ copies = <<>> /\ lostOutcomes = 0

----------------------------------------------------------------------------
\* Reading a challenge.

\* Three words are tried, then two, then one.
Widths(words, i) ==
  IF i > Len(words) THEN {} ELSE {n \in 1..3 : n \in DOMAIN words[i] /\ i + n - 1 <= Len(words)}

Widest(widths) == CHOOSE n \in widths : \A m \in widths : m <= n

NumberAt(words, i) ==
  LET widths == Widths(words, i)
  IN IF widths = {} THEN [found |-> FALSE, value |-> 0, consumed |-> 1]
     ELSE [found |-> TRUE, value |-> words[i][Widest(widths)], consumed |-> Widest(widths)]

Joined_AboveTwenty(first, second) ==
  /\ first.value > 20 /\ first.value % 10 = 0
  /\ second.found /\ second.value \in 1..9

\* Tens and the units after them are one number.
Joined(first, second) ==
  /\ first.value >= 20 /\ first.value % 10 = 0
  /\ second.found /\ second.value \in 1..9

ExtractNumbers(words) ==
  LET from[i \in 1..Len(words) + 6] ==
        IF i > Len(words) THEN <<>>
        ELSE LET first == NumberAt(words, i)
                 second == NumberAt(words, i + first.consumed)
             IN IF first.found /\ Joined(first, second)
                THEN <<first.value + second.value>>
                       \o from[i + first.consumed + second.consumed]
                ELSE (IF first.found THEN <<first.value>> ELSE <<>>) \o from[i + first.consumed]
  IN from[1]

\* The two largest numbers, the earlier one of equal ones, in the order of the text.
SelectOperands(numbers) ==
  LET before(i, j) == numbers[i] > numbers[j] \/ (numbers[i] = numbers[j] /\ i < j)
      chosen == {i \in DOMAIN numbers : Cardinality({j \in DOMAIN numbers : before(j, i)}) < 2}
      first == CHOOSE i \in chosen : \A j \in chosen : i <= j
      second == CHOOSE i \in chosen : \A j \in chosen : i >= j
  IN <<numbers[first], numbers[second]>>

\* In hundredths: an answer has two decimals.  (Where a quotient lies halfway between two
\* of these, the code may round it down.)
Apply(operation, left, right) ==
  CASE operation = "minus" -> 100 * (left - right)
    [] operation = "plus" -> 100 * (left + right)
    [] operation = "times" -> 100 * left * right
    [] operation = "divided" -> (200 * left + right) \div (2 * right)

\* Words of subtraction count before those of addition, these before multiplication, and
\* division comes last.
DetectOperation(said) ==
  IF "minus" \in said THEN "minus"
  ELSE IF "plus" \in said THEN "plus"
  ELSE IF "times" \in said THEN "times"
  ELSE IF "divided" \in said THEN "divided" ELSE None

\* A quotient must be finite.
Readable(text) ==
  LET numbers == ExtractNumbers(text.words)
      operation == DetectOperation(text.said)
  IN /\ Len(numbers) >= 2 /\ operation # None
     /\ operation = "divided" => SelectOperands(numbers)[2] # 0

Solved(text) ==
  LET operands == SelectOperands(ExtractNumbers(text.words))
  IN Apply(DetectOperation(text.said), operands[1], operands[2])

\* The text is read as it is, or else without repeated letters.
Variants(c) == {i \in DOMAIN c.texts : Readable(c.texts[i])}

Solution(c) == Solved(c.texts[CHOOSE i \in Variants(c) : \A j \in Variants(c) : i <= j])

----------------------------------------------------------------------------
\* The requests.

Fails == step' = "failed" /\ UNCHANGED <<challenge, answer, answers>>

PublishContent_Strict ==
  /\ step = "publish"
  /\ \E c \in Challenges \cup {NoChallenge} :
       /\ copies' = Append(copies, [challenge |-> c, shown |-> c = NoChallenge, answers |-> 0])
       /\ IF c = NoChallenge THEN Fails
          ELSE challenge' = c /\ answers' = 0 /\ UNCHANGED answer /\ step' = "solve"
  /\ UNCHANGED <<config, attempt, outcome, lostOutcomes>>

PublishContent ==
  /\ step = "publish"
  /\ \E c \in Challenges \cup {NoChallenge} :
       /\ copies' = Append(copies, [challenge |-> c, shown |-> c = NoChallenge, answers |-> 0])
       /\ \/ /\ challenge' = c /\ answers' = 0 /\ UNCHANGED answer
             /\ step' = IF config.autoVerify /\ c # NoChallenge THEN "solve" ELSE "posted"
             /\ UNCHANGED lostOutcomes
          \/ Fails /\ lostOutcomes < MaxLostOutcomes /\ lostOutcomes' = lostOutcomes + 1
  /\ UNCHANGED <<config, attempt, outcome>>

PublishRefused ==
  /\ step = "publish" /\ Fails
  /\ UNCHANGED <<config, attempt, outcome, copies, lostOutcomes>>

Solve ==
  /\ step = "solve" /\ Variants(challenge) # {}
  /\ answer' = Solution(challenge) /\ step' = "verify"
  /\ UNCHANGED <<config, attempt, challenge, answers, outcome, copies, lostOutcomes>>

\* The rules cannot read it.
Unsolved ==
  /\ step = "solve" /\ Variants(challenge) = {}
  /\ IF config.model THEN step' = "ask" /\ UNCHANGED <<challenge, answer, answers>> ELSE Fails
  /\ UNCHANGED <<config, attempt, outcome, copies, lostOutcomes>>

Ask ==
  /\ step = "ask"
  /\ \/ answer' \in Guesses /\ step' = "verify" /\ UNCHANGED <<challenge, answers>>
     \/ Fails
  /\ UNCHANGED <<config, attempt, outcome, copies, lostOutcomes>>

Current == copies[Len(copies)]

Again == config.model /\ answers' < 3

\* An answer and what the site makes of it.  After an incorrect one the model is asked,
\* twice at most; after any other error the attempt has failed.
Verify ==
  /\ step = "verify"
  /\ LET right == answer = challenge.truth
     IN \/ \* It is accepted or refused.
           /\ answers' = answers + 1 /\ UNCHANGED <<challenge, answer, lostOutcomes>>
           /\ step' = IF right THEN "posted" ELSE IF Again THEN "ask" ELSE "failed"
           /\ copies' = [copies EXCEPT ![Len(copies)].shown = right, ![Len(copies)].answers = @ + 1]
        \/ \* It is not taken.
           Fails /\ UNCHANGED <<copies, lostOutcomes>>
        \/ \* The site's answer is lost.
           /\ Fails /\ lostOutcomes < MaxLostOutcomes /\ lostOutcomes' = lostOutcomes + 1
           /\ copies' = [copies EXCEPT ![Len(copies)].shown = right, ![Len(copies)].answers = @ + 1]
  /\ UNCHANGED <<config, attempt, outcome>>

\* The outcome is recorded, or the record throws: what is published is shown by then, and
\* the attempt has failed all the same.
RecordOutcome ==
  /\ step = "posted"
  /\ \/ step' = "end" /\ outcome' = "posted" /\ UNCHANGED lostOutcomes
     \/ /\ step' = "failed" /\ UNCHANGED outcome
        /\ lostOutcomes < MaxLostOutcomes /\ lostOutcomes' = lostOutcomes + 1
  /\ UNCHANGED <<config, attempt, challenge, answer, answers, copies>>

\* The executor queues the job again, unless this was its last attempt or the words of
\* the error rule that out.
RecordFailure ==
  /\ step = "failed" /\ UNCHANGED <<config, challenge, answer, answers, copies, lostOutcomes>>
  /\ \/ attempt < JobAttempts /\ attempt' = attempt + 1 /\ step' = "publish" /\ UNCHANGED outcome
     \/ outcome' = "failed" /\ step' = "end" /\ UNCHANGED attempt

\* Another job is not the matter of this model.
End == step = "end" /\ UNCHANGED clientVars

ClientNext ==
  \/ PublishContent \/ PublishRefused \/ Solve \/ Unsolved \/ Ask \/ Verify \/ RecordOutcome \/ RecordFailure
  \/ End

ClientSpec == ClientInit /\ [][ClientNext]_clientVars

----------------------------------------------------------------------------
\* How the site is known to write a challenge.

Operations == {"minus", "plus", "times", "divided"}

\* All of these words, and no more, are read as the number v.
IsNumber(words, v) ==
  /\ words # <<>> /\ DOMAIN words[1] # {}
  /\ Widest(DOMAIN words[1]) = Len(words) /\ words[1][Len(words)] = v

\* An operand is one number, or its tens and its units are one each.
Spelled(words, v) ==
  \/ IsNumber(words, v)
  \/ \E tens, units \in Seq(Word), t \in Nat, u \in 1..9 :
       /\ words = tens \o units /\ v = t + u
       /\ IsNumber(tens, t) /\ t >= 20 /\ t % 10 = 0 /\ IsNumber(units, u)

\* What stands next to the operands: words that say nothing of a number, and counts up to
\* n, which are not joined with the words that follow.
Beside(n) == {x \in Word : DOMAIN x \subseteq {1} /\ \A m \in DOMAIN x : x[m] <= n}

\* Two operands, however they are split, with smaller counts around them.  Between two
\* numbers of which one is an operand, a word says nothing of a number.
Asks(words, a, b) ==
  \E n \in 0..19 : n < a /\ n < b /\
    \E left, between, right \in Seq(Beside(n)), x, y \in Seq(Word) :
      /\ words = left \o x \o between \o y \o right
      /\ Spelled(x, a) /\ Spelled(y, b)
      /\ between # <<>> /\ between[1] = NotNumber
      /\ right = <<>> \/ right[1] = NotNumber

\* A challenge is read as texts.  One of them asks for the true answer with words of one
\* operation; those before it name none.
Texts == [words : Seq(Word), said : SUBSET Operations]

Regular(c) ==
  /\ c.texts \in Seq(Texts)
  /\ \E i \in 1..Len(c.texts), operation \in Operations, a, b \in Nat :
       /\ Asks(c.texts[i].words, a, b) /\ c.texts[i].said = {operation}
       /\ operation = "divided" => (200 * a) % (2 * b) # b
       /\ c.truth = Apply(operation, a, b)
       /\ \A j \in 1..i - 1 : c.texts[j].said = {}

----------------------------------------------------------------------------
\* Properties.

Shown == {i \in DOMAIN copies : copies[i].shown}

ClientTypeOK ==
  /\ step \in {"publish", "solve", "ask", "verify", "posted", "failed", "end"}
  /\ attempt \in 1..JobAttempts /\ Len(copies) <= attempt
  /\ challenge \in Challenges \cup {NoChallenge}
  /\ step \in {"solve", "ask", "verify"} => challenge = Current.challenge /\ challenge # NoChallenge
  /\ outcome \in {None, "posted", "failed"} /\ (step = "end" <=> outcome # None)
  /\ answers \in 0..3 /\ lostOutcomes \in 0..MaxLostOutcomes

\* Rules of the client answer a challenge rightly whose operands each read as one number,
\* in however many words, as tens and units or inexactly, where there are at most smaller
\* counts next to them and no quotient lies halfway between two answers.
RulesAreRight ==
  \A c \in {challenge} \ {NoChallenge} : c.regular => Variants(c) # {} /\ Solution(c) = c.truth

\* Retries and their outcome: what is published once more was not shown before, so that
\* hidden copies only are left; the job is recorded as posted only if its last copy is
\* shown, and as failed only if none is; no copy gets a fourth answer, and none that is
\* shown another one.  The exceptions are answers of the site that were lost and successes
\* of which the record failed: each of them may leave one more copy that is shown.
OutcomeIsTrue ==
  /\ Cardinality(Shown) <= 1 + lostOutcomes
  /\ outcome = "posted" /\ config.autoVerify => Current.shown
  /\ outcome = "failed" => Cardinality(Shown) <= lostOutcomes
  /\ \A i \in DOMAIN copies : copies[i].answers <= 3
  /\ step \in {"solve", "ask", "verify"} => ~Current.shown
=============================================================================

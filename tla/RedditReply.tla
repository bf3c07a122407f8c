----------------------------- MODULE RedditReply -----------------------------
(***************************************************************************)
(* One reply on Reddit after the other, from the answer of the language    *)
(* model to the record of what became of it: the draft with its checks and *)
(* its three attempts, the check before publication, the controller that   *)
(* sends it, the retries, and the look at the public thread.               *)
(*                                                                         *)
(* Several lists of forbidden words are involved.  A text has words of at  *)
(* most one of them, and of a text that is too long they may stand in the  *)
(* part that is cut off.  RedditRuntime has the queue and its limits.      *)
(***************************************************************************)
EXTENDS Integers, Sequences

CONSTANTS
  MaxRequests, \* MAX_LLM_DRAFT_ATTEMPTS
  MaxTries     \* maxAttempts of the executor

ASSUME ReplyAssumption == {MaxRequests, MaxTries} \subseteq Nat \ {0}

Controller == {"manual", "api", "unofficial", "reddapi", "browser"}
ReplyKind == {"comment_on_post", "reply_to_comment"}

VARIABLES
  setup,    \* the controller, whether the layout opens with a hook, and whether
            \* the profile locks its layout
  target,   \* the kind of the reply, and whether another comment of the thread
            \* opens with the same words
  phase,    \* what happens next to the reply
  requests, \* the answers asked for
  content,  \* the last text, NoText when there is none
  fault,    \* what was wrong with the last answer
  tries,    \* the attempts to publish it
  copies,   \* external: the copies on Reddit, in order
  doubts,   \* how many tries sent a copy and ended in an error
  record,   \* what was recorded of it
  hidden    \* an earlier reply to the subreddit is on record as hidden

replyVars == <<setup, target, phase, requests, content, fault, tries, copies, doubts,
               record, hidden>>

draftPart == <<requests, content, fault>>
sentPart == <<tries, copies, doubts>>
standing == <<setup, target, hidden>>

----------------------------------------------------------------------------
\* Texts.  "link" is a URL; "draft" are words that only the draft may not have
\* ("pm me", "book a call"), "venue" those that are only refused at publication
\* ("learn more", "try it"), "both" those that are refused in both places.

Words == {"none", "link", "draft", "venue", "both", "alias"}

Text ==
  {t \in [long : BOOLEAN, words : Words, inTail : BOOLEAN, shape : {"fluff", "flat", "hook"}] :
     /\ t.inTail => t.long /\ t.words # "none"
     /\ t.shape = "fluff" => ~t.long /\ t.words = "none"}

NoText == [long |-> FALSE, words |-> "none", inTail |-> FALSE, shape |-> "empty"]
NoRecord == [status |-> "none", read |-> FALSE, link |-> "none"]

ReplyInit ==
  /\ setup \in [controller : Controller, hook : BOOLEAN, locked : BOOLEAN]
  /\ target \in [kind : ReplyKind, echo : BOOLEAN]
  /\ phase = "draft" /\ requests = 0 /\ content = NoText /\ fault = "none"
  /\ tries = 0 /\ copies = <<>> /\ doubts = 0 /\ record = NoRecord
  /\ hidden = FALSE

\* After a hidden reply the layout is a plain paragraph, unless the profile locks it.
HookIsRequired == setup.hook /\ (setup.locked \/ ~hidden)

\* The rules in the order in which validateRedditDraft looks at them.
Rules == <<"link", "length", "marketing", "alias", "fluff", "hook">>

Breaks(t) ==
  [link |-> t.words = "link", length |-> t.long,
   marketing |-> t.words \in {"draft", "both"}, alias |-> t.words = "alias",
   fluff |-> t.shape = "fluff", hook |-> HookIsRequired /\ t.shape # "hook"]

Verdict(t) ==
  LET broken == {n \in DOMAIN Rules : Breaks(t)[Rules[n]]}
  IN IF broken = {} THEN "fine"
     ELSE Rules[CHOOSE n \in broken : \A m \in broken : n <= m]

\* Marketing and aliases end the drafting at once; a link, which the profile
\* refuses in other words, does not.
IsForbidden(verdict) == verdict \in {"marketing", "alias"}

----------------------------------------------------------------------------
\* Drafting.

DraftReply ==
  /\ phase = "draft" /\ requests < MaxRequests
  /\ requests' = requests + 1
  /\ \/ /\ phase' = "undrafted" /\ UNCHANGED <<content, fault>>
     \/ /\ fault' = "empty" /\ UNCHANGED <<content, phase>>
     \/ \E t \in Text :
          /\ content' = t /\ fault' = Verdict(t)
          /\ phase' = IF fault' = "fine" THEN "queued"
                      ELSE IF IsForbidden(fault') THEN "undrafted" ELSE "draft"
  /\ UNCHANGED <<sentPart, record, standing>>

\* A cut at a sentence or a word may leave a hook, or what is none.
Trimmed(t) ==
  {u \in Text :
     /\ ~u.long /\ u.shape # "fluff"
     /\ u.words = IF t.inTail THEN "none" ELSE t.words}

TrimLast_Unchecked ==
  /\ phase = "draft" /\ requests = MaxRequests
  /\ IF fault = "length"
     THEN /\ content' \in Trimmed(content) /\ fault' = "fine" /\ phase' = "queued"
     ELSE phase' = "undrafted" /\ UNCHANGED <<content, fault>>
  /\ UNCHANGED <<requests, sentPart, record, standing>>

\* The last text is cut only if the last answer was too long, and checked again.
TrimLast ==
  /\ phase = "draft" /\ requests = MaxRequests
  /\ IF fault = "length"
     THEN /\ content' \in Trimmed(content) /\ fault' = Verdict(content')
          /\ phase' = IF fault' = "fine" THEN "queued" ELSE "undrafted"
     ELSE phase' = "undrafted" /\ UNCHANGED <<content, fault>>
  /\ UNCHANGED <<requests, sentPart, record, standing>>

----------------------------------------------------------------------------
\* Publication.  Whether a failure is retried depends on the words of its message.

Try == phase = "queued" /\ tries' = tries + 1 /\ UNCHANGED <<draftPart, standing>>

GiveUpOrRetry(retryable) ==
  /\ phase' = IF retryable /\ tries' < MaxTries THEN "queued" ELSE "failed"
  /\ UNCHANGED record

Fail(retryable) == GiveUpOrRetry(retryable) /\ UNCHANGED <<copies, doubts>>

\* Whether a copy is shown to others, and listed by a read of the thread: among the
\* newest 100 comments, at most 8 deep, under comments that have a body.
Copy == [shown : BOOLEAN, listed : BOOLEAN]

Sent == \E c \in Copy : copies' = Append(copies, c)

\* The answer is lost, or cannot be read, after the copy was sent.
Doubt(retryable) == Sent /\ doubts' = doubts + 1 /\ GiveUpOrRetry(retryable)

Done(link) ==
  /\ phase' = "check" /\ record' = [NoRecord EXCEPT !.link = link]
  /\ UNCHANGED doubts

\* "must not" is among the words that are not retried.
VenueRefuses == content.words \in {"link", "venue", "both", "alias"}

RefuseAutopublish == Try /\ VenueRefuses /\ Fail(FALSE)

\* The message of the manual controller has none of those words, its code has.
RefuseManually == Try /\ ~VenueRefuses /\ setup.controller = "manual" /\ Fail(TRUE)

\* A queued job has no URL and a reply names no post: "requires".
HasAddress ==
  setup.controller \in {"reddapi", "browser"} => target.kind = "comment_on_post"

RefuseAddress == Try /\ ~VenueRefuses /\ ~HasAddress /\ Fail(FALSE)

Via(c) == Try /\ ~VenueRefuses /\ HasAddress /\ setup.controller = c

\* A token or a key that is missing is not retried, nor an answer with such words.
Rejected == \E retryable \in BOOLEAN : Fail(retryable)

PublishViaApi ==
  /\ Via("api")
  /\ Rejected \/ Doubt(TRUE) \/ (Sent /\ Done("own"))

\* The thing that Reddit answers with may be wrapped, and is not unwrapped.
PublishViaUnofficial ==
  /\ Via("unofficial")
  /\ Rejected \/ Doubt(TRUE) \/ (Sent /\ \E link \in {"own", "none"} : Done(link))

PublishViaReddapi ==
  /\ Via("reddapi")
  /\ Rejected \/ (\E retryable \in BOOLEAN : Doubt(retryable)) \/ (Sent /\ Done("post"))

\* A comment with the same opening is waited for, which may be an own one or not;
\* only without any the time runs out.  Then the page is looked at once more.
OnPage == {link \in {"own", "echo"} : IF link = "own" THEN copies' # <<>> ELSE target.echo}

FindOnPage(sent) ==
  \/ ~target.echo /\ doubts' = doubts + sent /\ GiveUpOrRetry(TRUE)
  \/ \E retryable \in BOOLEAN :
       OnPage # {} /\ doubts' = doubts + sent /\ GiveUpOrRetry(retryable)
  \/ \E link \in OnPage : Done(link)

\* Submitting the form may have no effect.
PublishViaBrowser ==
  /\ Via("browser")
  /\ \/ Rejected
     \/ Sent /\ FindOnPage(1)
     \/ UNCHANGED copies /\ FindOnPage(0)

Submit == RefuseAutopublish \/ RefuseManually \/ RefuseAddress \/ PublishViaApi
          \/ PublishViaUnofficial \/ PublishViaReddapi \/ PublishViaBrowser

----------------------------------------------------------------------------
\* The look at the public thread, which is recorded.

InThread(c) == c.shown /\ c.listed

\* A comment matches by its id or by its opening, so one of someone else does too.
IsVisible == target.echo \/ \E i \in DOMAIN copies : InThread(copies[i])

CheckVisibility ==
  /\ phase = "check" /\ phase' = "recorded"
  /\ \E read \in BOOLEAN :
       record' = [record EXCEPT !.read = read,
                                !.status = IF read /\ ~IsVisible THEN "spam_filtered" ELSE "posted"]
  /\ UNCHANGED <<draftPart, sentPart, standing>>

NextSession ==
  /\ phase \in {"undrafted", "failed", "recorded"}
  /\ hidden' = (hidden \/ record.status = "spam_filtered")
  /\ target' \in [kind : ReplyKind, echo : BOOLEAN]
  /\ phase' = "draft" /\ requests' = 0 /\ content' = NoText /\ fault' = "none"
  /\ tries' = 0 /\ copies' = <<>> /\ doubts' = 0 /\ record' = NoRecord
  /\ UNCHANGED setup

ReplyNext == DraftReply \/ TrimLast \/ Submit \/ CheckVisibility \/ NextSession

ReplySpec == ReplyInit /\ [][ReplyNext]_replyVars

----------------------------------------------------------------------------
\* Properties.

\* No more answers and tries than allowed; a text is kept as soon as there is one.
ReplyTypeOK ==
  /\ phase \in {"draft", "undrafted", "queued", "failed", "check", "recorded"}
  /\ requests \in 0..MaxRequests /\ tries \in 0..MaxTries /\ doubts \in 0..tries
  /\ content \in Text \cup {NoText} /\ hidden \in BOOLEAN
  /\ \A i \in DOMAIN copies : copies[i] \in Copy

\* What is queued keeps the rules of drafting in its final form, and what reaches
\* Reddit has no word of any list.
DraftIsLegal ==
  /\ phase \in {"queued", "check"} => Verdict(content) = "fine"
  /\ copies # <<>> => content.words = "none" /\ ~content.long

\* A second copy is only sent after a try that ended in doubt, and a job that is
\* given up has left no other copies.
CopiesAreCounted ==
  /\ Len(copies) <= doubts + 1
  /\ phase \in {"queued", "failed"} => Len(copies) = doubts

\* What the record says of a thread that was read is so, another comment with the
\* same opening apart; and without that a reply is not recorded that was not sent.
RecordIsTrue ==
  phase = "recorded" =>
    /\ record.read => (record.status = "posted" <=> IsVisible)
    /\ copies # <<>> \/ (setup.controller = "browser" /\ target.echo)
    /\ record.link = "own" => copies # <<>>

\* What can never be sent is tried once, unless publishing is manual.
HopelessIsDropped ==
  tries > 1 => setup.controller = "manual" \/ (HasAddress /\ ~VenueRefuses)

\* All of the above, from the answers of the model to the records.
ReplyIsSound == DraftIsLegal /\ CopiesAreCounted /\ RecordIsTrue /\ HopelessIsDropped
=============================================================================

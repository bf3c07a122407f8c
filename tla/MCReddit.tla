------------------------------ MODULE MCReddit ------------------------------
(***************************************************************************)
(* An instance for TLC of three views of the Reddit side, which share no   *)
(* state: the runtime, where every post or comment has at most one queued  *)
(* upvote; the scan for items to reply to, in one thread with two          *)
(* comments and one with none; and the way of one reply after the other    *)
(* to Reddit.  A behavior is one of one of them.                           *)
(***************************************************************************)
EXTENDS RedditRuntime, RedditScan, RedditReply

CONSTANTS w1, w2, v1, t1, t2, r1, r2

VARIABLE view

redditVars == <<view, vars, scanVars, replyVars>>

ThingOf == [v \in {v1} |-> w1]

OneThread == [r \in {r1, r2} |-> t1]
OneShort == [r \in {r1, r2} |-> IF r = r2 THEN "short" ELSE "long"]

Plain == [controller |-> "api", hook |-> FALSE, locked |-> FALSE]
OnPost == [kind |-> "comment_on_post", echo |-> FALSE]

RedditInit ==
  /\ view \in {"runtime", "scan", "reply"} /\ Init /\ ScanInit /\ ReplyInit
  /\ view = "scan" \/ byPlace
  /\ view = "reply" \/ (setup = Plain /\ target = OnPost)

RedditNext ==
  /\ \/ view = "runtime" /\ Next /\ UNCHANGED <<scanVars, replyVars>>
     \/ view = "scan" /\ ScanNext /\ UNCHANGED <<vars, replyVars>>
     \/ view = "reply" /\ ReplyNext /\ UNCHANGED <<vars, scanVars>>
  /\ UNCHANGED view

RedditSpec == RedditInit /\ [][RedditNext]_redditVars

\* The type invariant of the view that moves; the others have not moved.
TypesOK ==
  CASE view = "runtime" -> TypeOK [] view = "scan" -> ScanTypeOK [] view = "reply" -> ReplyTypeOK
=============================================================================

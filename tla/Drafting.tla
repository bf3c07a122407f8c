------------------------------ MODULE Drafting ------------------------------
(***************************************************************************)
(* From a plan to a written text, on the Moltbook side.  A heartbeat takes *)
(* a bundle of the actions on offer, asks the language model for the text  *)
(* of at most one write, shapes and checks that text, and queues it; what  *)
(* is published later is remembered, and a text must not repeat it.        *)
(*                                                                         *)
(* The model may answer anything or fail.  A text has a sense, which is    *)
(* what similarity compares, and pieces: "proof" is a concrete proof       *)
(* point, "link" the tracked URL of this write, "other" another URL,       *)
(* "code" inline code, and "cut" the piece a limit cuts through.           *)
(*                                                                         *)
(* MoltbookRuntime has the queue and its executor in detail; here a write  *)
(* is published and recorded in one step, or dropped.                      *)
(***************************************************************************)
EXTENDS Integers, Sequences, FiniteSets, FiniteSetsExt, SequencesExt, Functions

CONSTANTS
  Offerable, ActionType, \* what a heartbeat can be offered, and its type
  Asking,          \* those of them whose target asks for a resource
  Wordings, Sense, \* texts, and what each is about
  MaxUpvotes, MaxFollows,
  MaxPost, MinReply, MaxReply, \* lengths, in pieces
  MaxArtifacts,    \* MAX_RECENT_GENERATED_ARTIFACTS
  MaxFingerprints, \* MAX_CREATED_POST_FINGERPRINTS
  MaxBackfill,     \* MOLTBOOK_BACKFILL_POST_LIMIT
  MaxPublished, MaxUnsent \* bounds of the model on writes and on queued jobs

Authored == {"create_post", "comment_on_post", "reply_to_activity"}

ASSUME DraftingAssumption ==
  /\ ActionType \in [Offerable -> Authored \cup {"upvote_post", "follow_agent", "inspect_dms"}]
  \* All posts have the id "create-post".
  /\ \A o, p \in Offerable : {ActionType[o], ActionType[p]} = {"create_post"} => o = p
  /\ IsFiniteSet(Offerable)
  /\ Asking \subseteq Offerable /\ Sense \in [Wordings -> Wordings]
  /\ {MaxUpvotes, MaxFollows, MinReply, MaxReply, MaxArtifacts, MaxFingerprints} \subseteq Nat
  /\ {MaxBackfill, MaxPublished, MaxUnsent} \subseteq Nat
  /\ MaxPost \in Nat /\ MaxPost > 1

VARIABLES
  tracked,   \* a base URL for tracked links is configured
  turn,      \* what the heartbeat does next, "idle" when there is none
  bundle,    \* the actions it selected
  toWrite,   \* the writes it may ask a text for
  drafted,   \* the write it has just queued, with its text: one or none
  unsent,    \* the queued jobs, with the wording of each write
  published, \* external: the writes published, in order
  artifacts  \* recentGeneratedArtifacts: see Remembered

draftVars == <<tracked, turn, bundle, toWrite, drafted, unsent, published, artifacts>>

OfType(types) == {o \in Offerable : ActionType[o] \in types}

Writing == OfType(Authored)

\* A write as it was recorded, by its place in the order of publication, or as
\* it was found later among the recent posts of the account.
Remembered == (1..Len(published)) \X {"recorded", "found"}

DraftingInit ==
  /\ tracked \in BOOLEAN /\ turn = "idle" /\ bundle = {} /\ toWrite = {} /\ drafted = {}
  /\ unsent = {} /\ published = <<>> /\ artifacts = {}

Keep == UNCHANGED <<tracked, published>>

EndHeartbeat == turn' = "idle" /\ bundle' = {} /\ toWrite' = {}

----------------------------------------------------------------------------
\* What is remembered.

\* The newest ones; those of the same time in either order.
Newest(S) ==
  {T \in kSubset(IF Cardinality(S) < MaxArtifacts THEN Cardinality(S) ELSE MaxArtifacts, S) :
     \A a \in T, b \in S \ T : a[1] >= b[1]}

PostsPublished == {i \in DOMAIN published : ActionType[published[i].id] = "create_post"}

LastPosts(n) == {i \in PostsPublished : Cardinality({j \in PostsPublished : j > i}) < n}

\* The recent posts of the account, where they can be read, are added to what is
\* remembered.  A post that was recorded is added again, under its own id, and
\* what is too old to be kept is cut again at once.
SyncAccountHealth ==
  /\ turn = "idle"
  /\ artifacts' \in Newest(artifacts) \cup Newest(artifacts \cup LastPosts(MaxBackfill) \X {"found"})
  /\ turn' = "plan" /\ drafted' = {} /\ UNCHANGED <<bundle, toWrite, unsent>> /\ Keep

----------------------------------------------------------------------------
\* The bundle.

Queued(o) == \E job \in unsent : job.id = o

WrittenBefore == {published[i].id : i \in DOMAIN published} \ OfType({"create_post"})

\* A post is offered whenever one may be written, even while one is queued.
Offers ==
  {S \in SUBSET Offerable :
     /\ \A o \in S : ActionType[o] = "create_post" \/ ~Queued(o)
     /\ S \cap WrittenBefore = {}
     /\ Cardinality(S \cap OfType({"upvote_post"})) <= MaxUpvotes
     /\ Cardinality(S \cap OfType({"follow_agent"})) <= MaxFollows}

\* As many of a type as are allowed: which ones depends on scores or on the order
\* of the answer.
Capped(S, type, limit) ==
  LET all == S \cap OfType({type})
  IN kSubset(IF Cardinality(all) < limit THEN Cardinality(all) ELSE limit, all)

WithoutContent(S) ==
  {U \cup F \cup D : U \in Capped(S, "upvote_post", MaxUpvotes),
                     F \in Capped(S, "follow_agent", MaxFollows),
                     D \in Capped(S, "inspect_dms", 1)}

OneOf(S) == kSubset(IF S = {} THEN 0 ELSE 1, S)

\* Without a usable answer: all that needs no content, and the best of the writes
\* that is not a post.
FallbackBundles(offered) ==
  {N \cup W : N \in WithoutContent(offered), W \in OneOf(offered \cap OfType(Authored \ {"create_post"}))}

\* An answer with more than one write is not used, nor one that names nothing on
\* offer; an empty one defers everything.
SanitizedBundles(offered) ==
  UNION {{N \cup (ids \cap Writing) : N \in WithoutContent(ids)} :
           ids \in {S \in SUBSET offered : Cardinality(S \cap Writing) <= 1}}

SelectBundle ==
  /\ turn = "plan"
  /\ \E offered \in Offers :
     \E selected \in FallbackBundles(offered) \cup SanitizedBundles(offered) :
       /\ bundle' = selected
       /\ toWrite' = (offered \ selected) \cap Writing
  /\ turn' = "enqueue" /\ drafted' = {} /\ UNCHANGED <<unsent, artifacts>> /\ Keep

Unsent(o, wording) == [id |-> o, wording |-> wording]

NoWording == "none"

\* Authors of comments are followed too, within what the bundle has left, when
\* there are comments to reply to.
FollowsToo ==
  LET left == MaxFollows - Cardinality(bundle \cap OfType({"follow_agent"}))
      others == {o \in OfType({"follow_agent"}) \ bundle : ~Queued(o)}
  IN IF bundle \cap OfType({"reply_to_activity"}) = {} THEN {{}}
     ELSE {F \in SUBSET others : Cardinality(F) <= left}

\* The write of the bundle, where it can be written: comments and replies may have
\* to wait, and then a deferred post takes their place; of the comments on a post
\* of ours the model finds one worth a reply, or none.
EnqueueJobs ==
  /\ turn = "enqueue"
  /\ \E commenting \in BOOLEAN :
       LET post == OfType({"create_post"})
           write == bundle \cap Writing
           allowed == IF commenting THEN write ELSE write \cap post
       IN /\ \E follows \in IF commenting THEN FollowsToo ELSE {{}} :
               LET ready == {o \in (bundle \ Writing) \cup follows : ActionType[o] # "inspect_dms"}
               IN /\ bundle' = bundle \cup follows
                  /\ unsent' = unsent \cup {Unsent(o, NoWording) : o \in {q \in ready : ~Queued(q)}}
          /\ toWrite' \in IF allowed # write THEN {toWrite \cap post}
                          ELSE {allowed} \cup (IF allowed \cap OfType({"reply_to_activity"}) = {}
                                               THEN {} ELSE {{}})
  /\ Cardinality(unsent') <= MaxUnsent
  /\ turn' = IF toWrite' = {} THEN "idle" ELSE "draft"
  /\ drafted' = {} /\ UNCHANGED artifacts /\ Keep

----------------------------------------------------------------------------
\* The text.

Bodies(o) ==
  UNION {[1..n -> IF ActionType[o] = "create_post" THEN {"plain", "proof", "link"}
                  ELSE {"plain", "code", "link", "other"}] :
           n \in 0..(IF ActionType[o] = "create_post" THEN MaxPost ELSE MaxReply)}

\* What the model can answer; a title is for posts.
Answers(o) ==
  [title : IF ActionType[o] = "create_post" THEN {"none", "plain", "proof"} ELSE {"none"},
   wording : Wordings, body : Bodies(o)]

HasLink(o) == tracked /\ (ActionType[o] = "create_post" \/ o \in Asking)

\* Only posts must have one; a comment gets one only from the model itself.
LinkRequired(o) == tracked /\ ActionType[o] = "create_post"

NormalizeContent(o, body) ==
  IF ActionType[o] = "create_post" THEN body
  ELSE [i \in DOMAIN body |-> IF body[i] = "code" THEN "plain" ELSE body[i]]

\* At the end, or after the first paragraph.
ApplyCta(o, body) ==
  IF ~LinkRequired(o) \/ Contains(body, "link") \/ body = <<>> THEN {body}
  ELSE {Append(body, "link"), InsertAt(body, IF Len(body) > 1 THEN 2 ELSE 1 + Len(body), "link")}

TrimToLimit(s, n) == IF Len(s) <= n THEN s ELSE Append(SubSeq(s, 1, n - 1), "cut")

\* The link is put back at the end, where it may already be in the middle.
TrimPostContent(o, body) ==
  IF ActionType[o] # "create_post" \/ Len(body) <= MaxPost THEN body
  ELSE IF HasLink(o) /\ Contains(body, "link")
       THEN TrimToLimit(IF Last(body) = "link" THEN Front(body) ELSE body, MaxPost - 1) \o <<"link">>
       ELSE TrimToLimit(body, MaxPost)

\* The limit may cut the proof point off a title.
TrimTitle(title) == IF title = "proof" THEN {"proof", "plain"} ELSE {title}

Shaped(o, answer) ==
  {[title |-> t, wording |-> answer.wording, body |-> TrimPostContent(o, b)] :
     t \in TrimTitle(answer.title), b \in ApplyCta(o, NormalizeContent(o, answer.body))}

HasProof(text) == text.title = "proof" \/ Contains(text.body, "proof")

\* The fingerprint of a post with a tracked link is never seen again, since every
\* link is new.
RepeatsFingerprint(text) ==
  /\ ~tracked
  /\ \E i \in LastPosts(MaxFingerprints) : published[i].wording = text.wording

\* A post is compared with all that is remembered, a comment or a reply with those
\* to the same target only.
RepeatsArtifact(o, text) ==
  \E a \in artifacts :
    /\ Sense[published[a[1]].wording] = Sense[text.wording]
    /\ ActionType[o] = "create_post" \/ published[a[1]].id = o

\* In the order of the code: "ok", "duplicate" and "unproven" are told apart by the
\* caller, and any other failure ends the heartbeat.  Wordings worn out in recent
\* posts may be refused.
Verdicts(o, text) ==
  LET post == ActionType[o] = "create_post"
  IN IF text.body = <<>> \/ (post /\ text.title = "none") THEN {"refused"}
     ELSE IF ~post /\ Len(text.body) > MaxReply THEN {"refused"}
     ELSE IF ActionType[o] = "reply_to_activity" /\ Len(text.body) < MinReply THEN {"refused"}
     ELSE IF post /\ RepeatsFingerprint(text) THEN {"duplicate"}
     ELSE IF RepeatsArtifact(o, text) THEN {"duplicate"}
     ELSE IF LinkRequired(o) /\ ~Contains(text.body, "link") THEN {"refused"}
     ELSE IF post /\ ~HasProof(text) THEN {"unproven"}
     ELSE IF HasLink(o) /\ ~Contains(text.body, "link") THEN {"refused"}
     ELSE IF ~post /\ Contains(text.body, "other") THEN {"refused"}
     ELSE IF ~post /\ ~HasLink(o) /\ Contains(text.body, "link") THEN {"refused"}
     ELSE IF post /\ PostsPublished # {} THEN {"ok", "refused"} ELSE {"ok"}

\* The order swapped: what is checked is not yet cut.
Finalized_TrimLast(o, answer) ==
  {<<v, [s EXCEPT !.body = TrimPostContent(o, @)]>> :
     v \in {"ok"}, s \in {t \in {[title |-> answer.title, wording |-> answer.wording, body |-> b] :
                                   b \in ApplyCta(o, NormalizeContent(o, answer.body))} :
                            "ok" \in Verdicts(o, t)}}

\* The verdicts on an answer, with the text they are on.
Finalized(o, answer) ==
  UNION {{<<v, text>> : v \in Verdicts(o, text)} : text \in Shaped(o, answer)}

\* A duplicate is skipped and a post without proof is asked for once more; a job of
\* the same action that is still queued keeps its text.
ChooseAndDraft ==
  /\ turn \in {"draft", "repair"}
  /\ \E o \in toWrite : \E answer \in Answers(o) : \E result \in Finalized(o, answer) :
       CASE result[1] = "ok" /\ ~Queued(o) ->
              /\ unsent' = unsent \cup {Unsent(o, result[2].wording)}
              /\ drafted' = {[id |-> o, text |-> result[2]]}
              /\ EndHeartbeat
         [] result[1] = "unproven" /\ turn = "draft" ->
              /\ turn' = "repair" /\ drafted' = {} /\ UNCHANGED <<bundle, toWrite, unsent>>
         [] OTHER -> /\ EndHeartbeat /\ drafted' = {} /\ UNCHANGED unsent
  /\ Cardinality(unsent') <= MaxUnsent
  /\ UNCHANGED artifacts /\ Keep

\* The model fails, declines every write or names none of them, or the run is
\* killed.
GiveUpWriting ==
  /\ turn # "idle" /\ EndHeartbeat /\ drafted' = {}
  /\ UNCHANGED <<unsent, artifacts>> /\ Keep

----------------------------------------------------------------------------
\* Between heartbeats.

PublishWriting ==
  /\ turn = "idle" /\ drafted' = {}
  /\ \E job \in unsent :
       /\ unsent' = unsent \ {job}
       /\ IF job.id \in Writing
          THEN /\ Len(published) < MaxPublished
               /\ published' = Append(published, job)
               /\ artifacts' \in Newest(artifacts \cup {<<Len(published'), "recorded">>})
          ELSE UNCHANGED <<published, artifacts>>
  /\ UNCHANGED <<tracked, turn, bundle, toWrite>>

DropUnsent ==
  /\ turn = "idle" /\ drafted' = {}
  /\ \E job \in unsent : unsent' = unsent \ {job}
  /\ UNCHANGED <<turn, bundle, toWrite, artifacts>> /\ Keep

DraftingNext ==
  \/ SyncAccountHealth \/ SelectBundle \/ EnqueueJobs \/ ChooseAndDraft \/ GiveUpWriting
  \/ PublishWriting \/ DropUnsent

DraftingSpec == DraftingInit /\ [][DraftingNext]_draftVars

----------------------------------------------------------------------------
\* Properties.

\* Artifacts are of published writes, and no more are kept than allowed.
DraftingTypeOK ==
  /\ artifacts \subseteq Remembered /\ Cardinality(artifacts) <= MaxArtifacts
  /\ turn \in {"idle", "plan", "enqueue", "draft", "repair"}
  /\ bundle \subseteq Offerable /\ toWrite \subseteq Writing
  /\ \A job \in unsent : job.id \in Offerable /\ job.wording \in Wordings \cup {NoWording}

\* What is queued keeps to the rules in its final form: a post has a title, a proof
\* point and its link within the limit, a comment no URL but the link it was asked
\* for.
TextIsLegal ==
  \A d \in drafted :
    LET text == d.text
    IN IF ActionType[d.id] = "create_post"
       THEN /\ text.title # "none" /\ HasProof(text)
            /\ Len(text.body) <= MaxPost /\ (tracked => Contains(text.body, "link"))
       ELSE /\ Len(text.body) <= MaxReply
            /\ ~Contains(text.body, "code") /\ ~Contains(text.body, "other")
            /\ Contains(text.body, "link") <=> HasLink(d.id)

\* How many artifacts the writes of some places become at most: posts are two.
Weight(places) == Cardinality(places) + Cardinality(places \cap PostsPublished)

\* Two posts of the same sense are so far apart that the first was forgotten, and
\* so are two of the same wording, unless tracked links make them differ.
PostsDiffer ==
  \A i, j \in PostsPublished :
    i < j /\ Sense[published[i].wording] = Sense[published[j].wording] =>
      /\ Weight(i + 1 .. j - 1) >= MaxArtifacts
      /\ \/ tracked \/ published[i].wording # published[j].wording
         \/ Cardinality(PostsPublished \cap (i + 1 .. j - 1)) >= MaxFingerprints

\* A heartbeat selects at most one write, and follows within its budget, those it
\* adds for comments included.
BundleIsSmall ==
  /\ Cardinality(bundle \cap Writing) <= 1
  /\ Cardinality(bundle \cap OfType({"follow_agent"})) <= MaxFollows

WritingIsSound ==
  DraftingTypeOK /\ TextIsLegal /\ PostsDiffer /\ BundleIsSmall
=============================================================================

----------------------------- MODULE MCServices -----------------------------
(***************************************************************************)
(* An instance for TLC of components that share no state: the prompt       *)
(* rotation of the outreach agent and its bridge to the language model,    *)
(* the attribution and the rate limits of the grant service, and the       *)
(* statistics of the contract.  A behavior is one of one of them, and the  *)
(* others stay in their initial states, which lets the posts of one and    *)
(* the refs of another be the same model values.  The rotation is run      *)
(* without faults, and with faults but for posts alone; the attribution    *)
(* without reports, and with reports but for fewer requests.               *)
(***************************************************************************)
EXTENDS PromptRotation, GrantAttribution, RateLimits, LlmBridge, MessageStats, TLC

CONSTANTS a1, a2, b1, b2

VARIABLE part

vars == <<part, rotationVars, attributionVars, rateVars, llmVars, statsVars>>

Init ==
  /\ part \in {"rotation", "faulty rotation", "attribution", "report",
              "rates", "bridge", "stats"}
  /\ RotationInit /\ AttributionInit /\ RateInit /\ LlmInit /\ StatsInit
  /\ part \notin {"attribution", "report"} => challenges = [w \in Wallet |-> NoChallenge]
  /\ part # "stats" =>
       block = [m \in Message |-> 0] /\ deployed = 0 /\ to = 0 /\ epoch = AllEpochs

Next ==
  /\ \/ /\ part \in {"rotation", "faulty rotation"} /\ RotationNext
        /\ part = "rotation" => faults' = 0
        /\ part = "faulty rotation" => on' \cap Reply = {}
        /\ UNCHANGED <<attributionVars, rateVars, llmVars, statsVars>>
     \/ /\ part \in {"attribution", "report"} /\ AttributionNext
        /\ part = "attribution" => report' = NoReport
        /\ part = "report" => arrived' <= 2
        /\ UNCHANGED <<rotationVars, rateVars, llmVars, statsVars>>
     \/ /\ part = "rates" /\ RateNext
        /\ UNCHANGED <<rotationVars, attributionVars, llmVars, statsVars>>
     \/ /\ part = "bridge" /\ LlmNext
        /\ UNCHANGED <<rotationVars, attributionVars, rateVars, statsVars>>
     \/ /\ part = "stats" /\ StatsNext
        /\ UNCHANGED <<rotationVars, attributionVars, rateVars, llmVars>>
  /\ UNCHANGED part

Spec == Init /\ [][Next]_vars

Limits == [bucket \in {"challenge", "claim"} |-> IF bucket = "challenge" THEN 2 ELSE 1]

\* Three messages, of which some have the same sender, epoch or number of chunks.
MCSender == <<"a", "a", "b">>
MCRecipient == <<"b", "a", "a">>
MCEpoch == <<1, 2, 2>>
MCChunks == <<2, 1, 3>>

Symmetry == Permutations({a1, a2}) \cup Permutations({b1, b2})

\* The type invariant of the component that moves; the others have not moved.
TypesOK ==
  CASE part \in {"rotation", "faulty rotation"} -> RotationTypeOK
    [] part \in {"attribution", "report"} -> AttributionTypeOK
    [] part = "rates" -> RateTypeOK
    [] part = "bridge" -> LlmTypeOK
    [] part = "stats" -> StatsTypeOK
=============================================================================

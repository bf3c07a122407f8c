---------------------------- MODULE GrantLedger ----------------------------
(***************************************************************************)
(* What the starter-grant service promises, without its tables, queue and  *)
(* failures: a wallet and an install reserve a grant together; a reserved  *)
(* grant is paid at most once; it is given back only when it was not paid, *)
(* and granted only when it was.  A granted wallet or install never        *)
(* reserves again.                                                         *)
(***************************************************************************)
EXTENDS Naturals

CONSTANTS Wallets, Installs

VARIABLES
  reserved, \* pairs <<wallet, install>> with a grant under way
  granted,  \* pairs whose grant is recorded
  paid      \* how often each wallet was paid

ledger == <<reserved, granted, paid>>

Held == reserved \cup granted

Init == reserved = {} /\ granted = {} /\ paid = [w \in Wallets |-> 0]

Reserve(w, i) ==
  /\ \A g \in Held : g[1] # w /\ g[2] # i
  /\ reserved' = reserved \cup {<<w, i>>}
  /\ UNCHANGED <<granted, paid>>

Pay(w) ==
  /\ paid[w] = 0
  /\ \E i \in Installs : <<w, i>> \in reserved
  /\ paid' = [paid EXCEPT ![w] = 1]
  /\ UNCHANGED <<reserved, granted>>

Grant(w, i) ==
  /\ <<w, i>> \in reserved /\ paid[w] = 1
  /\ reserved' = reserved \ {<<w, i>>}
  /\ granted' = granted \cup {<<w, i>>}
  /\ UNCHANGED paid

Release(w, i) ==
  /\ <<w, i>> \in reserved /\ paid[w] = 0
  /\ reserved' = reserved \ {<<w, i>>}
  /\ UNCHANGED <<granted, paid>>

Next ==
  \E w \in Wallets :
    \/ Pay(w)
    \/ \E i \in Installs : Reserve(w, i) \/ Grant(w, i) \/ Release(w, i)

Spec == Init /\ [][Next]_ledger
============================================================================

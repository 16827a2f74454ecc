----------------------------- MODULE OneShotGate -----------------------------
(***************************************************************************)
(* What a verifier of one-time challenges promises the application behind  *)
(* it, whatever its stores, its awaits and its failures do: a presentation *)
(* of a challenge it gave out is accepted or refused in one step and for   *)
(* good; it is accepted only when the ledger holds an authorization for    *)
(* that challenge, and no other presentation of it is.                     *)
(***************************************************************************)
CONSTANTS
  Challenge,  \* the challenges ever built
  Call,       \* the presentations ever made
  None        \* no challenge yet

VARIABLES
  given,      \* the challenges handed out
  backed,     \* those the ledger holds an authorization for
  presented,  \* the challenge of each presentation
  verdict     \* "none", "accepted" or "refused"

vars == <<given, backed, presented, verdict>>

Init ==
  /\ given = {} /\ backed = {}
  /\ presented = [v \in Call |-> None]
  /\ verdict   = [v \in Call |-> "none"]

Give(c) ==
  /\ c \notin given
  /\ given' = given \cup {c}
  /\ UNCHANGED <<backed, presented, verdict>>

Back(c) ==
  /\ c \in given
  /\ backed' = backed \cup {c}
  /\ UNCHANGED <<given, presented, verdict>>

Present(v, c) ==
  /\ presented[v] = None /\ c \in given
  /\ presented' = [presented EXCEPT ![v] = c]
  /\ UNCHANGED <<given, backed, verdict>>

Open == {v \in Call : presented[v] # None /\ verdict[v] = "none"}

Accept(v) ==
  /\ v \in Open
  /\ presented[v] \in backed
  /\ \A w \in Call : verdict[w] = "accepted" => presented[w] # presented[v]
  /\ verdict' = [verdict EXCEPT ![v] = "accepted"]
  /\ UNCHANGED <<given, backed, presented>>

(* A server that stops refuses every call it was serving.                  *)
Refuse(S) ==
  /\ verdict' = [v \in Call |-> IF v \in S THEN "refused" ELSE verdict[v]]
  /\ UNCHANGED <<given, backed, presented>>

Next ==
  \/ \E c \in Challenge : Give(c) \/ Back(c) \/ \E v \in Call : Present(v, c)
  \/ \E v \in Call : Accept(v)
  \/ \E S \in SUBSET Open : Refuse(S)

Spec == Init /\ [][Next]_vars
=============================================================================

---------------------------- MODULE AtomicService ----------------------------
(***************************************************************************)
(* What a service that keeps one state for many requests promises,         *)
(* whatever its stores, retries and failures: each request takes effect on *)
(* the state in one step, at most once, or is refused and changes nothing. *)
(* The operation may act on a clock reading taken some time before it      *)
(* takes effect; the random values it draws were never drawn before.       *)
(***************************************************************************)
EXTENDS Integers

CONSTANTS
  Request,             \* the requests ever made
  Operation,           \* what a request may ask
  Value,               \* what is drawn at random
  None,                \* no operation, no answer
  NewState,            \* the state of a service nobody has used
  Outcomes(_, _, _, _),\* operation, state, clock and unused values to outcomes
  Draws(_),            \* the values a result discloses
  Skew                 \* how far a server's clock may be off the reference

VARIABLES
  now,       \* the reference clock, in seconds
  state,     \* the service's state
  drawn,     \* the values results have disclosed
  operation, \* what each request asks
  phase,     \* "idle", "open", "served" or "refused"
  answer     \* the result of a served request

vars == <<now, state, drawn, operation, phase, answer>>

Init ==
  /\ now = 0
  /\ state = NewState
  /\ drawn = {}
  /\ operation = [p \in Request |-> None]
  /\ phase     = [p \in Request |-> "idle"]
  /\ answer    = [p \in Request |-> None]

Tick ==
  /\ now' \in {n \in Int : n > now}
  /\ UNCHANGED <<state, drawn, operation, phase, answer>>

Submit(p) ==
  /\ phase[p] = "idle"
  /\ operation'[p] \in Operation
  /\ operation' = [operation EXCEPT ![p] = operation'[p]]
  /\ phase' = [phase EXCEPT ![p] = "open"]
  /\ UNCHANGED <<now, state, drawn, answer>>

Serve(p) ==
  /\ phase[p] = "open"
  /\ \E t \in -Skew .. (now + Skew) :
     \E out \in Outcomes(operation[p], state, t, Value \ drawn) :
        /\ state' = out.authority
        /\ answer' = [answer EXCEPT ![p] = out.result]
        /\ drawn' = drawn \cup Draws(out.result)
  /\ phase' = [phase EXCEPT ![p] = "served"]
  /\ UNCHANGED <<now, operation>>

Refuse(p) ==
  /\ phase[p] = "open"
  /\ phase' = [phase EXCEPT ![p] = "refused"]
  /\ UNCHANGED <<now, state, drawn, operation, answer>>

Next == Tick \/ \E p \in Request : Submit(p) \/ Serve(p) \/ Refuse(p)

Spec == Init /\ [][Next]_vars
=============================================================================

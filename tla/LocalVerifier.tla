---------------------------- MODULE LocalVerifier ----------------------------
(***************************************************************************)
(* The in-process verifier of a signed credential: LocalVerifier of        *)
(* integrations/issuance/src/index.ts, as the holder page, the demo and    *)
(* the acceptance scripts use it, with the issuer's status it reads.       *)
(*                                                                         *)
(* Every operation runs without an await and so in one step, but it reads  *)
(* a clock, and verify reads it twice: before and after the signatures are *)
(* checked.  A clock is whatever the host says: nothing here relies on one *)
(* that never goes back, or on the holder and the verifier agreeing.       *)
(*                                                                         *)
(* A verifier stands for its domain, audience and policy; a context is the *)
(* challenge a holder is asked to sign, and a holder signs any.  Whether a *)
(* presentation is signed by its holder over the context it discloses, and *)
(* its credential by the pinned issuer, is what family.verifyHolder and    *)
(* validCredential check: only such presentations are in presentations.    *)
(***************************************************************************)
EXTENDS Integers, Sequences, FiniteSets

CONSTANTS
  Verifier,    \* the verifiers of the process
  Policy,      \* the policy each was constructed with
  Nonce,       \* what random32 draws, never twice
  Credential,  \* the credentials holders have
  Level,       \* claims.level
  IssuedAt,    \* credential.issuedAt
  ExpiresAt    \* credential.expiresAt

VARIABLES
  requests,       \* #requests of each verifier
  drawn,          \* the nonces drawn so far
  presentations,  \* what holders signed: PresentationWitness
  status,         \* what the status reader answers for each credential
  active,         \* whether it says the issuer is active
  accepted        \* history: the verifications that returned, in their order

vars == <<requests, drawn, presentations, status, active, accepted>>

MaxPending == 128
MaxLifetime == 300

Request == [nonce : Nonce, createdAt : Nat, expiresAt : Nat, used : BOOLEAN]
Context == [verifier : Verifier, nonce : Nonce, expiresAt : Nat]
Presentation == [cred : Credential, context : Context, createdAt : Nat]
Acceptance == [verifier : Verifier, presentation : Presentation, checked : Nat, after : Nat]

TypeOK ==
  /\ requests \in [Verifier -> SUBSET Request]
  /\ drawn \in SUBSET Nonce
  /\ presentations \in SUBSET Presentation
  /\ status \in [Credential -> {"unknown", "standing", "revoked"}]
  /\ active \in BOOLEAN
  /\ accepted \in Seq(Acceptance)

Init ==
  /\ requests = [v \in Verifier |-> {}]
  /\ drawn = {}
  /\ presentations = {}
  /\ status = [c \in Credential |-> "unknown"]
  /\ active = TRUE
  /\ accepted = <<>>

Unexpired(v, t) == {r \in requests[v] : r.expiresAt > t}

(* What is expired is dropped even if the table is still full and the call *)
(* throws.                                                                 *)
FullTable(v, t) ==
  /\ Cardinality(Unexpired(v, t)) >= MaxPending
  /\ requests' = [requests EXCEPT ![v] = Unexpired(v, t)]
  /\ UNCHANGED <<drawn, presentations, status, active, accepted>>

Drawn(t, lifetime, nonce) ==
  [nonce |-> nonce, createdAt |-> t, expiresAt |-> t + lifetime, used |-> FALSE]

Challenge(v, t, lifetime, nonce) ==
  /\ nonce \notin drawn
  /\ Cardinality(Unexpired(v, t)) < MaxPending
  /\ requests' = [requests EXCEPT ![v] = Unexpired(v, t) \cup {Drawn(t, lifetime, nonce)}]
  /\ drawn' = drawn \cup {nonce}
  /\ UNCHANGED <<presentations, status, active, accepted>>

(* Holder.present: the holder signs at the time its own clock shows.       *)
Present(c, context, t) ==
  /\ t < context.expiresAt
  /\ presentations' = presentations \cup
       {[cred |-> c, context |-> context, createdAt |-> t]}
  /\ UNCHANGED <<requests, drawn, status, active, accepted>>

(* The checks up to the signatures, at the first reading of the clock.     *)
Presentable(v, r, p, t) ==
  /\ r.nonce = p.context.nonce
  /\ ~ r.used
  /\ p.context.verifier = v /\ p.context.expiresAt = r.expiresAt
  /\ t < p.context.expiresAt
  /\ IssuedAt[p.cred] <= t /\ t < ExpiresAt[p.cred]
  /\ r.createdAt <= p.createdAt /\ p.createdAt <= t
  /\ Level[p.cred] >= Policy[v]

(* The checks after them: the clock and the status are read again.         *)
StillGood(r, p, after) ==
  /\ after < r.expiresAt /\ after < ExpiresAt[p.cred]
  /\ active /\ status[p.cred] = "standing"

(* A verification that throws changes nothing.                             *)
Verify(v, r, p, t, after) ==
  /\ Presentable(v, r, p, t)
  /\ StillGood(r, p, after)
  /\ requests' = [requests EXCEPT ![v] = (@ \ {r}) \cup {[r EXCEPT !.used = TRUE]}]
  /\ accepted' = Append(accepted,
       [verifier |-> v, presentation |-> p, checked |-> t, after |-> after])
  /\ UNCHANGED <<drawn, presentations, status, active>>

(* The issuer: a credential stands from its issue until it is revoked.     *)
SetStatus(c) ==
  /\ \/ status[c] = "unknown" /\ status' = [status EXCEPT ![c] = "standing"]
     \/ status[c] = "standing" /\ status' = [status EXCEPT ![c] = "revoked"]
  /\ UNCHANGED <<requests, drawn, presentations, active, accepted>>

Deactivate ==
  /\ active' = FALSE
  /\ UNCHANGED <<requests, drawn, presentations, status, accepted>>

Next ==
  \/ \E v \in Verifier, t \in Nat :
       \/ FullTable(v, t)
       \/ \E lifetime \in 1 .. MaxLifetime, nonce \in Nonce : Challenge(v, t, lifetime, nonce)
       \/ \E r \in requests[v], p \in presentations, after \in Nat : Verify(v, r, p, t, after)
  \/ \E c \in Credential, context \in Context, t \in Nat : Present(c, context, t)
  \/ \E c \in Credential : SetStatus(c)
  \/ Deactivate

Spec == Init /\ [][Next]_vars

(* A request is accepted once, over all verifiers: not again after it was  *)
(* dropped as expired, nor by a clock that went back, nor at the verifier  *)
(* of another application.                                                 *)
AcceptedOnce ==
  \A i, j \in DOMAIN accepted :
    accepted[i].presentation.context.nonce = accepted[j].presentation.context.nonce => i = j

(* What is accepted was signed less than five minutes before the answer,   *)
(* on the verifier's clock, for that verifier, by a credential that had    *)
(* not run out by then: the slow checks of verify cannot outlive either.   *)
AcceptedFresh ==
  \A i \in DOMAIN accepted :
    LET a == accepted[i] IN
    /\ a.presentation.context.verifier = a.verifier
    /\ a.after < a.presentation.createdAt + MaxLifetime
    /\ a.after < a.presentation.context.expiresAt
    /\ a.after < ExpiresAt[a.presentation.cred]

(* No number of challenges that nobody answers fills the memory.           *)
WithinLimit ==
  \A v \in Verifier : IsFiniteSet(requests[v]) /\ Cardinality(requests[v]) <= MaxPending
=============================================================================

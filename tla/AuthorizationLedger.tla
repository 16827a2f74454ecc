-------------------------- MODULE AuthorizationLedger --------------------------
(***************************************************************************)
(* The authorization contract on the Midnight ledger                       *)
(* (integrations/issuance/authorization.compact) and what an indexer shows *)
(* of it.                                                                  *)
(*                                                                         *)
(* The ledger is the sequence of the heads the contract went through: the  *)
(* block time and the public state after a block, or after each call when  *)
(* a block holds several (they share a time).  An indexer that lags, or an *)
(* answer that is late, is an earlier head.  A call is applied to the last *)
(* head however long its transaction was under way: the proof a holder     *)
(* made against an older root only fails the guard here.                   *)
(*                                                                         *)
(* A status root stands for the set of credentials whose leaf is in its    *)
(* tree: a root is a hash of that set once slots are fixed.  The signature *)
(* checks of verifyHolder, the registry and the two applications are left  *)
(* out: who holds a credential the issuer signed can present it.           *)
(***************************************************************************)
EXTENDS Integers, Sequences

CONSTANTS
  Credential,  \* the credentials the issuer ever signs
  Challenge,   \* the nonces verifiers ever draw
  ValidFrom,   \* credential.issuedAt
  ValidUntil,  \* credential.expiresAt
  Drift,       \* how far a block's time may be off the reference clock
  MaxTime,     \* model bound: the last second of the reference clock
  MaxHeads     \* model bound: the heads

ASSUME LedgerAssumption ==
  /\ ValidFrom \in [Credential -> Nat] /\ ValidUntil \in [Credential -> Nat]
  /\ Drift \in Nat /\ MaxTime \in Nat /\ MaxHeads \in Nat \ {0}

VARIABLES
  now,            \* the reference clock, in seconds
  heads,          \* the contract's public state, head by head
  authorizations  \* the successful calls of authorize

ledger == <<heads, authorizations>>

State == [time : Nat, active : BOOLEAN, root : SUBSET Credential, version : Nat]

(* The request key, the credential that proved it and the head it made.    *)
(* The credential is private: nothing the verifier does may depend on it.  *)
Authorization ==
  [challenge : Challenge, deadline : Nat, cred : Credential, head : Nat \ {0}]

LedgerTypeOK ==
  /\ now \in Nat
  /\ heads \in Seq(State) /\ heads # <<>>
  /\ authorizations \subseteq Authorization

(* The constructor: the root the issuer had when the contract was deployed. *)
LedgerInit ==
  /\ now = 0
  /\ \E root \in SUBSET Credential :
       heads = <<[time |-> 0, active |-> TRUE, root |-> root, version |-> 0]>>
  /\ authorizations = {}

Tick ==
  /\ now < MaxTime
  /\ now' = now + 1
  /\ UNCHANGED ledger

Last == heads[Len(heads)]

(* Block times never go back; their author's clock may be off.             *)
BlockTime == {t \in 0 .. (now + Drift) : t >= Last.time /\ t >= now - Drift}

Seal(head) ==
  /\ Len(heads) < MaxHeads
  /\ heads' = Append(heads, head)
  /\ UNCHANGED now

(* Blocks without a call to the contract.                                  *)
EmptyBlock ==
  /\ \E t \in BlockTime : Seal([Last EXCEPT !.time = t])
  /\ UNCHANGED authorizations

(* Only the administrator can call publishStatus and deactivate.           *)
PublishStatus(root) ==
  /\ Last.active
  /\ \E t \in BlockTime :
       Seal([Last EXCEPT !.time = t, !.root = root, !.version = Last.version + 1])
  /\ UNCHANGED authorizations

Deactivate ==
  /\ \E t \in BlockTime : Seal([Last EXCEPT !.time = t, !.active = FALSE])
  /\ UNCHANGED authorizations

Consumed(challenge, deadline) ==
  \E a \in authorizations : a.challenge = challenge /\ a.deadline = deadline

(* The request window starts at a time notBefore of the holder's choice,   *)
(* not before the credential was issued nor after the block.               *)
InWindow(cred, deadline, t) ==
  /\ ValidFrom[cred] <= t
  /\ t < deadline
  /\ deadline <= ValidUntil[cred]

Authorize(challenge, deadline, cred) ==
  /\ Last.active
  /\ cred \in Last.root
  /\ ~ Consumed(challenge, deadline)
  /\ \E t \in BlockTime :
       InWindow(cred, deadline, t) /\ Seal([Last EXCEPT !.time = t])
  /\ authorizations' = authorizations \cup
       {[challenge |-> challenge, deadline |-> deadline, cred |-> cred,
         head |-> Len(heads) + 1]}
=============================================================================

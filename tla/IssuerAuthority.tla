--------------------------- MODULE IssuerAuthority ---------------------------
(***************************************************************************)
(* The issuer's in-memory state and its synchronous operations:            *)
(* integrations/issuance/src/index.ts, class IssuerAuthority.              *)
(*                                                                         *)
(* An authority is a value, not a set of variables: every request          *)
(* deserialises one (fromState), applies one operation to it and           *)
(* serialises it again (exportState).  The modules of the stores hold the  *)
(* value; this one says what an operation makes of it.  A JavaScript Map   *)
(* is a total function whose value None means "no entry".  Keys, claims,   *)
(* levels and signatures are left out: a proof of possession is the name   *)
(* of the holder who made it.                                              *)
(***************************************************************************)
EXTENDS Integers, FiniteSets

CONSTANTS
  Challenge,     \* the 32 random bytes that name an approved offer
  Holder,        \* holder keys (method and public key)
  Credential,    \* credential ids: commitments drawn when a credential is signed
  None,          \* no entry, no holder, nothing yet
  OfferTTL,      \* seconds an offer can be enrolled with (300)
  RetryTTL,      \* seconds an issued enrollment can be retried (600)
  OfferLimit,    \* pending offers (128)
  RetryLimit,    \* retry receipts (128)
  IssuedLimit    \* status records (2048)

(* Challenges and credential ids are 32 random bytes: no two draws collide. *)
ASSUME AuthorityAssumption ==
  /\ IsFiniteSet(Challenge) /\ IsFiniteSet(Credential)
  /\ Challenge \cap Credential = {}
  /\ None \notin Challenge \cup Holder \cup Credential
  /\ {OfferTTL, RetryTTL, OfferLimit, RetryLimit, IssuedLimit} \subseteq Nat \ {0}

Offer == [createdAt : Int, holder : Holder \cup {None}]

(* A retry receipt: the holder of the enrollment context it was issued     *)
(* for, the credential it returns and the second it lapses.                *)
Receipt == [holder : Holder, cred : Credential, until : Int]

ASSUME NoneAssumption == None \notin Offer \cup Receipt

Authority ==
  [active    : BOOLEAN,
   offers    : [Challenge -> Offer \cup {None}],
   issued    : [Credential -> {"none", "valid", "revoked"}],
   completed : [Challenge -> Receipt \cup {None}]]

(* new IssuerAuthority(): a fresh key, nothing offered, nothing issued.    *)
NewAuthority ==
  [active    |-> TRUE,
   offers    |-> [c \in Challenge |-> None],
   issued    |-> [k \in Credential |-> "none"],
   completed |-> [c \in Challenge |-> None]]

(* An enrollment request: the context the holder signed (its challenge,    *)
(* holder, and whether issuer and expiry are those of the offer), the      *)
(* holder whose key made the proof, and the second the proof was made.     *)
Enrollment ==
  [challenge : Challenge, holder : Holder, signer : Holder,
   altered : BOOLEAN, createdAt : Int]

(* Map.set.                                                                *)
Put(map, key, value) == [map EXCEPT ![key] = value]

Pending(a)  == {c \in Challenge : a.offers[c] # None}
Receipts(a) == {c \in Challenge : a.completed[c] # None}
Issued(a)   == {k \in Credential : a.issued[k] # "none"}
Active(a)   == {k \in Credential : a.issued[k] = "valid"}

-----------------------------------------------------------------------------
(* approve: drop the offers whose time is up, then add one.                *)

PruneOffers(a, t) ==
  [a EXCEPT !.offers =
     [c \in Challenge |->
        IF a.offers[c] # None /\ a.offers[c].createdAt + OfferTTL <= t
        THEN None ELSE a.offers[c]]]

(* Mutant: the limit is off by one.                                        *)
LooseCanApprove(a, t) ==
  a.active /\ Cardinality(Pending(PruneOffers(a, t))) <= OfferLimit

CanApprove(a, t) ==
  /\ a.active
  /\ Cardinality(Pending(PruneOffers(a, t))) < OfferLimit

NewOffer(h, t) == [createdAt |-> t, holder |-> h]

AfterApprove(a, h, t, c) ==
  [PruneOffers(a, t) EXCEPT !.offers = Put(PruneOffers(a, t).offers, c, NewOffer(h, t))]

-----------------------------------------------------------------------------
(* issue: one shot, the offer is gone once a credential is signed.         *)

CanIssue(a, r, t) ==
  LET offer == a.offers[r.challenge]
  IN  /\ Cardinality(Issued(a)) < IssuedLimit
      /\ a.active
      /\ offer # None
      /\ t < offer.createdAt + OfferTTL
      /\ offer.holder \in {None, r.holder}
      /\ ~ r.altered
      /\ r.signer = r.holder
      /\ r.createdAt \in offer.createdAt .. t

AfterIssue(a, r, k) ==
  [a EXCEPT !.issued = Put(a.issued, k, "valid"),
            !.offers = Put(a.offers, r.challenge, None)]

-----------------------------------------------------------------------------
(* issueOrResume: drop the receipts whose time is up; a live receipt for   *)
(* the challenge is answered with its credential, else issue and leave a   *)
(* receipt.                                                                *)

PruneReceipts(a, t) ==
  [a EXCEPT !.completed =
     [c \in Challenge |->
        IF a.completed[c] # None /\ a.completed[c].until <= t
        THEN None ELSE a.completed[c]]]

(* Mutant: a retry is not compared with the context first enrolled.        *)
AnyonesCanResume(a, r, t) ==
  LET receipt == PruneReceipts(a, t).completed[r.challenge]
  IN  /\ a.active /\ receipt # None
      /\ r.signer = r.holder /\ r.createdAt <= t
      /\ a.issued[receipt.cred] # "revoked"

CanResume(a, r, t) ==
  LET receipt == PruneReceipts(a, t).completed[r.challenge]
  IN  /\ a.active
      /\ receipt # None
      /\ receipt.holder = r.holder
      /\ ~ r.altered
      /\ r.signer = r.holder
      /\ r.createdAt <= t
      /\ a.issued[receipt.cred] # "revoked"

CanEnroll(a, r, t) ==
  LET b == PruneReceipts(a, t)
  IN  /\ b.completed[r.challenge] = None
      /\ Cardinality(Receipts(b)) < RetryLimit
      /\ CanIssue(b, r, t)

(* Mutant: the credential is registered, but neither is the offer removed  *)
(* nor a receipt left.                                                     *)
ForgetfulAfterEnroll(a, r, t, k) ==
  [PruneReceipts(a, t) EXCEPT !.issued = Put(a.issued, k, "valid")]

(* Mutant: the receipt lapses with the offer.                              *)
BriefAfterEnroll(a, r, t, k) ==
  LET b == AfterIssue(PruneReceipts(a, t), r, k)
      receipt == [holder |-> r.holder, cred |-> k, until |-> t + OfferTTL]
  IN  [b EXCEPT !.completed = Put(b.completed, r.challenge, receipt)]

NewReceipt(r, t, k) == [holder |-> r.holder, cred |-> k, until |-> t + RetryTTL]

AfterEnroll(a, r, t, k) ==
  LET b == AfterIssue(PruneReceipts(a, t), r, k)
  IN  [b EXCEPT !.completed = Put(b.completed, r.challenge, NewReceipt(r, t, k))]

-----------------------------------------------------------------------------
(* revoke and deactivate: neither is ever undone, and a credential can be  *)
(* revoked after the issuer was deactivated.                               *)

CanRevoke(a, k) == a.issued[k] # "none"

AfterRevoke(a, k) == [a EXCEPT !.issued = Put(a.issued, k, "revoked")]

AfterDeactivate(a) == [a EXCEPT !.active = FALSE]

-----------------------------------------------------------------------------
(* What a request handler asks of the authority, and every way the         *)
(* authority can answer.  An outcome is the authority after the operation  *)
(* and the value returned; an operation that throws has no outcome.  The   *)
(* challenge of an offer and the id of a credential are random: they are   *)
(* drawn from fresh, the values nobody has drawn before.                   *)

Operation ==
  [kind : {"approve"}, holder : Holder] \cup
  [kind : {"issue"}, request : Enrollment] \cup
  [kind : {"revoke"}, cred : Credential] \cup
  [kind : {"deactivate", "read"}]

Result ==
  [kind : {"offer"}, challenge : Challenge] \cup
  [kind : {"credential"}, cred : Credential] \cup
  [kind : {"status"}, active : BOOLEAN, root : SUBSET Credential] \cup
  [kind : {"ok"}]

(* The random values a result discloses.                                   *)
Draws(r) ==
  CASE r.kind = "offer"      -> {r.challenge}
    [] r.kind = "credential" -> {r.cred}
    [] OTHER                 -> {}

ApproveOutcomes(o, a, t, fresh) ==
  {[authority |-> AfterApprove(a, o.holder, t, c),
    result    |-> [kind |-> "offer", challenge |-> c]] :
     c \in {d \in fresh \cap Challenge : CanApprove(a, t)}}

ResumeOutcomes(o, a, t) ==
  {[authority |-> PruneReceipts(a, t),
    result    |-> [kind |-> "credential", cred |-> k]] :
     k \in {j \in Credential : /\ CanResume(a, o.request, t)
                               /\ j = a.completed[o.request.challenge].cred}}

EnrollOutcomes(o, a, t, fresh) ==
  {[authority |-> AfterEnroll(a, o.request, t, k),
    result    |-> [kind |-> "credential", cred |-> k]] :
     k \in {j \in fresh \cap Credential : CanEnroll(a, o.request, t)}}

RevokeOutcomes(o, a) ==
  {[authority |-> AfterRevoke(a, k), result |-> [kind |-> "ok"]] :
     k \in {j \in {o.cred} : CanRevoke(a, j)}}

DeactivateOutcomes(a) ==
  {[authority |-> AfterDeactivate(a), result |-> [kind |-> "ok"]]}

(* The status of the registry, from which the root and the paths of the    *)
(* status tree are computed: the unrevoked credentials.                    *)
ReadOutcomes(a) ==
  {[authority |-> a,
    result    |-> [kind |-> "status", active |-> a.active, root |-> Active(a)]]}

Outcomes(o, a, t, fresh) ==
  CASE o.kind = "approve"    -> ApproveOutcomes(o, a, t, fresh)
    [] o.kind = "issue"      -> ResumeOutcomes(o, a, t) \cup EnrollOutcomes(o, a, t, fresh)
    [] o.kind = "revoke"     -> RevokeOutcomes(o, a)
    [] o.kind = "deactivate" -> DeactivateOutcomes(a)
    [] o.kind = "read"       -> ReadOutcomes(a)

(* The operation does not throw.                                           *)
Accepts(o, a, t) ==
  CASE o.kind = "approve" -> CanApprove(a, t)
    [] o.kind = "issue"   -> CanResume(a, o.request, t) \/ CanEnroll(a, o.request, t)
    [] o.kind = "revoke"  -> CanRevoke(a, o.cred)
    [] OTHER              -> TRUE

(* What fromState accepts back: a persisted authority over a limit could   *)
(* not be loaded again.                                                    *)
Loadable(a) ==
  /\ Cardinality(Pending(a)) <= OfferLimit
  /\ Cardinality(Receipts(a)) <= RetryLimit
=============================================================================

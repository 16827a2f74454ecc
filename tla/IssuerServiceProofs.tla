------------------------- MODULE IssuerServiceProofs -------------------------
(***************************************************************************)
(* Proofs about the hosted issuer, for every number of requests, replicas, *)
(* challenges, credentials and attempts and every capacity and lifetime.   *)
(***************************************************************************)
EXTENDS IssuerService, FiniteSetTheorems, TLAPS

-----------------------------------------------------------------------------
(* What the operations of an authority do, one lemma per kind.             *)

(* The fields of an operation and of a result are those of its kind.       *)
LEMMA OperationFields ==
  ASSUME NEW o \in Operation
  PROVE  /\ o.kind \in {"approve", "issue", "revoke", "deactivate", "read"}
         /\ o.kind = "approve" => o.holder \in Holder
         /\ o.kind = "issue"   => o.request \in Enrollment
         /\ o.kind = "revoke"  => o.cred \in Credential
BY DEF Operation

LEMMA ResultFields ==
  ASSUME NEW r \in Result
  PROVE  /\ r.kind \in {"offer", "credential", "status", "ok"}
         /\ r.kind = "offer"      => r.challenge \in Challenge
         /\ r.kind = "credential" => r.cred \in Credential
BY DEF Result

(* Pruning and the other updates keep an authority an authority.           *)
LEMMA UpdateTypes ==
  ASSUME NEW a \in Authority, NEW t \in Int
  PROVE  /\ PruneOffers(a, t) \in Authority
         /\ PruneReceipts(a, t) \in Authority
         /\ \A h \in Holder \cup {None}, c \in Challenge : AfterApprove(a, h, t, c) \in Authority
         /\ \A r \in Enrollment, k \in Credential :
              AfterIssue(a, r, k) \in Authority
         /\ \A k \in Credential : AfterRevoke(a, k) \in Authority
         /\ AfterDeactivate(a) \in Authority
<1>1. PruneOffers(a, t) \in Authority
  BY DEF PruneOffers, Authority
<1>2. PruneReceipts(a, t) \in Authority
  BY DEF PruneReceipts, Authority
<1>3. ASSUME NEW h \in Holder \cup {None}, NEW c \in Challenge
      PROVE  AfterApprove(a, h, t, c) \in Authority
  BY <1>1 DEF AfterApprove, NewOffer, Put, Authority, Offer
<1>4. ASSUME NEW r \in Enrollment, NEW k \in Credential
      PROVE  AfterIssue(a, r, k) \in Authority
  BY DEF AfterIssue, Put, Authority, Enrollment
<1>5. ASSUME NEW k \in Credential PROVE AfterRevoke(a, k) \in Authority
  BY DEF AfterRevoke, Put, Authority
<1>6. AfterDeactivate(a) \in Authority
  BY DEF AfterDeactivate, Authority
<1>. QED BY <1>1, <1>2, <1>3, <1>4, <1>5, <1>6

LEMMA EnrollType ==
  ASSUME NEW a \in Authority, NEW t \in Int, NEW r \in Enrollment, NEW k \in Credential
  PROVE  AfterEnroll(a, r, t, k) \in Authority
<1>. DEFINE b == AfterIssue(PruneReceipts(a, t), r, k)
            q == NewReceipt(r, t, k)
<1>1. b \in Authority
  BY UpdateTypes
<1>2. q \in Receipt
  BY AuthorityAssumption DEF NewReceipt, Receipt, Enrollment
<1>3. AfterEnroll(a, r, t, k) = [b EXCEPT !.completed = Put(b.completed, r.challenge, q)]
  BY DEF AfterEnroll
<1>. HIDE DEF b, q
<1>. QED BY <1>1, <1>2, <1>3 DEF Put, Authority, Enrollment

(* An outcome has two fields.                                              *)
LEMMA OutcomeRecord ==
  ASSUME NEW o \in Operation, NEW a \in Authority, NEW t \in Int, NEW fresh,
         NEW out \in Outcomes(o, a, t, fresh)
  PROVE  out = [authority |-> out.authority, result |-> out.result]
<1>. DEFINE shape == out = [authority |-> out.authority, result |-> out.result]
<1>1. \A b, r : out = [authority |-> b, result |-> r] => shape
  OBVIOUS
<1>2. CASE o.kind = "approve"
  BY <1>1, <1>2 DEF Outcomes, ApproveOutcomes
<1>3. CASE o.kind = "issue"
  BY <1>1, <1>3 DEF Outcomes, ResumeOutcomes, EnrollOutcomes
<1>4. CASE o.kind = "revoke"
  BY <1>1, <1>4 DEF Outcomes, RevokeOutcomes
<1>5. CASE o.kind = "deactivate"
  BY <1>1, <1>5 DEF Outcomes, DeactivateOutcomes
<1>6. CASE o.kind = "read"
  BY <1>1, <1>6 DEF Outcomes, ReadOutcomes
<1>. QED BY <1>2, <1>3, <1>4, <1>5, <1>6, OperationFields

(* An outcome is an authority and a result that fits the operation.        *)
LEMMA OutcomeTypes ==
  ASSUME NEW o \in Operation, NEW a \in Authority, NEW t \in Int, NEW fresh,
         NEW out \in Outcomes(o, a, t, fresh)
  PROVE  /\ out.authority \in Authority
         /\ out.result \in Result
         /\ out.result.kind = "offer" => o.kind = "approve"
         /\ out.result.kind = "credential" => o.kind = "issue"
<1>1. CASE o.kind = "approve"
  <2>1. PICK c \in Challenge :
          out = [authority |-> AfterApprove(a, o.holder, t, c),
                 result |-> [kind |-> "offer", challenge |-> c]]
    BY <1>1 DEF Outcomes, ApproveOutcomes
  <2>. QED BY <2>1, <1>1, OperationFields, UpdateTypes DEF Result
<1>2. CASE o.kind = "issue"
  <2>1. o.request \in Enrollment
    BY <1>2, OperationFields
  <2>2. out \in ResumeOutcomes(o, a, t) \/ out \in EnrollOutcomes(o, a, t, fresh)
    BY <1>2 DEF Outcomes
  <2>3. CASE out \in ResumeOutcomes(o, a, t)
    <3>1. PICK k \in Credential :
            out = [authority |-> PruneReceipts(a, t),
                   result |-> [kind |-> "credential", cred |-> k]]
      BY <2>3 DEF ResumeOutcomes
    <3>. QED BY <3>1, <1>2, UpdateTypes DEF Result
  <2>4. CASE out \in EnrollOutcomes(o, a, t, fresh)
    <3>1. PICK k \in Credential :
            out = [authority |-> AfterEnroll(a, o.request, t, k),
                   result |-> [kind |-> "credential", cred |-> k]]
      BY <2>4 DEF EnrollOutcomes
    <3>. QED BY <3>1, <2>1, <1>2, EnrollType DEF Result
  <2>. QED BY <2>2, <2>3, <2>4
<1>3. CASE o.kind = "revoke"
  <2>1. out = [authority |-> AfterRevoke(a, o.cred), result |-> [kind |-> "ok"]]
    BY <1>3 DEF Outcomes, RevokeOutcomes
  <2>. QED BY <2>1, <1>3, OperationFields, UpdateTypes DEF Result
<1>4. CASE o.kind = "deactivate"
  <2>1. out = [authority |-> AfterDeactivate(a), result |-> [kind |-> "ok"]]
    BY <1>4 DEF Outcomes, DeactivateOutcomes
  <2>. QED BY <2>1, UpdateTypes DEF Result
<1>5. CASE o.kind = "read"
  <2>1. out = [authority |-> a,
               result |-> [kind |-> "status", active |-> a.active, root |-> Active(a)]]
    BY <1>5 DEF Outcomes, ReadOutcomes
  <2>2. a.active \in BOOLEAN /\ Active(a) \in SUBSET Credential
    BY DEF Authority, Active
  <2>. QED BY <2>1, <2>2 DEF Result
<1>. QED BY <1>1, <1>2, <1>3, <1>4, <1>5, OperationFields
(* More values to draw from only add outcomes.                             *)
LEMMA OutcomesMonotone ==
  ASSUME NEW o \in Operation, NEW a \in Authority, NEW t \in Int, NEW few, NEW many, few \subseteq many
  PROVE  Outcomes(o, a, t, few) \subseteq Outcomes(o, a, t, many)
<1>1. ApproveOutcomes(o, a, t, few) \subseteq ApproveOutcomes(o, a, t, many)
  BY DEF ApproveOutcomes
<1>2. EnrollOutcomes(o, a, t, few) \subseteq EnrollOutcomes(o, a, t, many)
  BY DEF EnrollOutcomes
<1>. QED BY <1>1, <1>2, OperationFields DEF Outcomes

(* The cases of an outcome, in the terms of the operations.                *)
Approves(o, a, t, fresh, out) ==
  \E c \in Challenge :
    /\ c \in fresh
    /\ CanApprove(a, t)
    /\ out.authority = AfterApprove(a, o.holder, t, c)
    /\ out.result = [kind |-> "offer", challenge |-> c]

LEMMA ApproveCase ==
  ASSUME NEW o \in Operation, NEW a \in Authority, NEW t \in Int, NEW fresh,
         NEW out \in Outcomes(o, a, t, fresh), o.kind = "approve"
  PROVE  Approves(o, a, t, fresh, out)
BY DEF Outcomes, ApproveOutcomes, Approves

Resumes(o, a, t, out) ==
  \E k \in Credential :
    /\ CanResume(a, o.request, t)
    /\ k = a.completed[o.request.challenge].cred
    /\ out.authority = PruneReceipts(a, t)
    /\ out.result = [kind |-> "credential", cred |-> k]

Enrolls(o, a, t, fresh, out) ==
  \E k \in Credential :
    /\ k \in fresh
    /\ CanEnroll(a, o.request, t)
    /\ out.authority = AfterEnroll(a, o.request, t, k)
    /\ out.result = [kind |-> "credential", cred |-> k]

LEMMA IssueCase ==
  ASSUME NEW o \in Operation, NEW a \in Authority, NEW t \in Int, NEW fresh,
         NEW out \in Outcomes(o, a, t, fresh), o.kind = "issue"
  PROVE  Resumes(o, a, t, out) \/ Enrolls(o, a, t, fresh, out)
<1>1. CASE out \in ResumeOutcomes(o, a, t)
  BY <1>1 DEF ResumeOutcomes, Resumes
<1>2. CASE out \in EnrollOutcomes(o, a, t, fresh)
  BY <1>2 DEF EnrollOutcomes, Enrolls
<1>. QED BY <1>1, <1>2 DEF Outcomes

LEMMA OtherCases ==
  ASSUME NEW o \in Operation, NEW a \in Authority, NEW t \in Int, NEW fresh,
         NEW out \in Outcomes(o, a, t, fresh)
  PROVE  /\ o.kind = "revoke" =>
              /\ CanRevoke(a, o.cred)
              /\ out.authority = AfterRevoke(a, o.cred)
              /\ out.result = [kind |-> "ok"]
         /\ o.kind = "deactivate" =>
              /\ out.authority = AfterDeactivate(a)
              /\ out.result = [kind |-> "ok"]
         /\ o.kind = "read" =>
              /\ out.authority = a
              /\ out.result.kind = "status"
<1>1. CASE o.kind = "revoke"
  BY <1>1 DEF Outcomes, RevokeOutcomes
<1>2. CASE o.kind = "deactivate"
  BY <1>2 DEF Outcomes, DeactivateOutcomes
<1>3. CASE o.kind = "read"
  BY <1>3 DEF Outcomes, ReadOutcomes
<1>. QED BY <1>1, <1>2, <1>3

(* What each update leaves behind, field by field.                         *)
LEMMA ApproveEffect ==
  ASSUME NEW a \in Authority, NEW t \in Int, NEW h \in Holder \cup {None},
         NEW c \in Challenge
  PROVE  /\ AfterApprove(a, h, t, c).issued = a.issued
         /\ AfterApprove(a, h, t, c).active = a.active
         /\ AfterApprove(a, h, t, c).completed = a.completed
BY DEF AfterApprove, PruneOffers, Authority

LEMMA ApproveOffers ==
  ASSUME NEW a \in Authority, NEW t \in Int, NEW h \in Holder \cup {None},
         NEW c \in Challenge
  PROVE  AfterApprove(a, h, t, c).offers =
           Put(PruneOffers(a, t).offers, c, NewOffer(h, t))
BY DEF AfterApprove, PruneOffers, Authority

LEMMA PruneEffect ==
  ASSUME NEW a \in Authority, NEW t \in Int
  PROVE  /\ PruneReceipts(a, t).issued = a.issued
         /\ PruneReceipts(a, t).active = a.active
         /\ PruneReceipts(a, t).offers = a.offers
BY DEF PruneReceipts, Authority

LEMMA RevokeEffect ==
  ASSUME NEW a \in Authority, NEW k \in Credential
  PROVE  /\ AfterRevoke(a, k).issued = Put(a.issued, k, "revoked")
         /\ AfterRevoke(a, k).active = a.active
         /\ AfterRevoke(a, k).offers = a.offers
         /\ AfterRevoke(a, k).completed = a.completed
BY DEF AfterRevoke, Authority

LEMMA DeactivateEffect ==
  ASSUME NEW a \in Authority
  PROVE  /\ AfterDeactivate(a).issued = a.issued
         /\ AfterDeactivate(a).active = FALSE
         /\ AfterDeactivate(a).offers = a.offers
         /\ AfterDeactivate(a).completed = a.completed
BY DEF AfterDeactivate, Authority

LEMMA IssueEffect ==
  ASSUME NEW a \in Authority, NEW r \in Enrollment, NEW k \in Credential
  PROVE  /\ AfterIssue(a, r, k).issued = Put(a.issued, k, "valid")
         /\ AfterIssue(a, r, k).active = a.active
         /\ AfterIssue(a, r, k).offers = Put(a.offers, r.challenge, None)
         /\ AfterIssue(a, r, k).completed = a.completed
BY DEF AfterIssue, Authority

LEMMA EnrollEffect ==
  ASSUME NEW a \in Authority, NEW t \in Int, NEW r \in Enrollment, NEW k \in Credential
  PROVE  /\ AfterEnroll(a, r, t, k).issued = Put(a.issued, k, "valid")
         /\ AfterEnroll(a, r, t, k).active = a.active
         /\ AfterEnroll(a, r, t, k).offers = Put(a.offers, r.challenge, None)
         /\ AfterEnroll(a, r, t, k).completed =
              Put(PruneReceipts(a, t).completed, r.challenge, NewReceipt(r, t, k))
<1>. DEFINE b == PruneReceipts(a, t)
            d == AfterIssue(b, r, k)
            q == NewReceipt(r, t, k)
<1>1. b \in Authority /\ d \in Authority
  BY UpdateTypes
<1>2. AfterEnroll(a, r, t, k)
        = [d EXCEPT !.completed = Put(d.completed, r.challenge, q)]
  BY DEF AfterEnroll
<1>3. /\ d.issued = Put(b.issued, k, "valid")
      /\ d.active = b.active
      /\ d.offers = Put(b.offers, r.challenge, None)
      /\ d.completed = b.completed
  BY <1>1, IssueEffect
<1>4. b.issued = a.issued /\ b.active = a.active /\ b.offers = a.offers
  BY PruneEffect
<1>. HIDE DEF b, d, q
<1>5. /\ AfterEnroll(a, r, t, k).issued = d.issued
      /\ AfterEnroll(a, r, t, k).active = d.active
      /\ AfterEnroll(a, r, t, k).offers = d.offers
      /\ AfterEnroll(a, r, t, k).completed = Put(d.completed, r.challenge, q)
  BY <1>1, <1>2 DEF Authority
<1>6. /\ AfterEnroll(a, r, t, k).issued = Put(a.issued, k, "valid")
      /\ AfterEnroll(a, r, t, k).active = a.active
      /\ AfterEnroll(a, r, t, k).offers = Put(a.offers, r.challenge, None)
  BY <1>3, <1>4, <1>5
<1>7. AfterEnroll(a, r, t, k).completed = Put(b.completed, r.challenge, q)
  BY <1>3, <1>5
<1>. QED BY <1>6, <1>7 DEF b, q

(* No operation takes a status back.                                       *)
LEMMA OutcomeKeepsStatus ==
  ASSUME NEW o \in Operation, NEW a \in Authority, NEW t \in Int,
         NEW fresh, fresh \cap Credential \subseteq Credential \ Issued(a),
         NEW out \in Outcomes(o, a, t, fresh)
  PROVE  /\ Issued(a) \subseteq Issued(out.authority)
         /\ \A k \in Credential :
              a.issued[k] = "revoked" => out.authority.issued[k] = "revoked"
         /\ ~ a.active => ~ out.authority.active
<1>. DEFINE Keeps ==
       /\ Issued(a) \subseteq Issued(out.authority)
       /\ \A k \in Credential :
            a.issued[k] = "revoked" => out.authority.issued[k] = "revoked"
       /\ ~ a.active => ~ out.authority.active
<1>. SUFFICES Keeps
  OBVIOUS
<1>1. a.issued \in [Credential -> {"none", "valid", "revoked"}]
  BY DEF Authority
<1>2. CASE /\ out.authority.issued = a.issued
           /\ ~ a.active => ~ out.authority.active
  BY <1>2 DEF Issued
<1>3. ASSUME NEW k \in Credential, k \notin Issued(a),
             out.authority.issued = Put(a.issued, k, "valid"),
             out.authority.active = a.active
      PROVE  Keeps
  BY <1>1, <1>3 DEF Issued, Put
<1>4. ASSUME NEW k \in Credential,
             out.authority.issued = Put(a.issued, k, "revoked"),
             out.authority.active = a.active
      PROVE  Keeps
  BY <1>1, <1>4 DEF Issued, Put
<1>. HIDE DEF Keeps
<1>5. CASE o.kind = "approve"
  <2>0. Approves(o, a, t, fresh, out)
    BY <1>5, ApproveCase
  <2>1. PICK c \in Challenge : out.authority = AfterApprove(a, o.holder, t, c)
    BY <2>0 DEF Approves
  <2>2. out.authority.issued = a.issued /\ out.authority.active = a.active
    BY <1>5, <2>1, OperationFields, ApproveEffect
  <2>. QED BY <1>2, <2>2
<1>6. CASE o.kind = "issue"
  <2>1. o.request \in Enrollment
    BY <1>6, OperationFields
  <2>2. CASE Resumes(o, a, t, out)
    <3>1. out.authority.issued = a.issued /\ out.authority.active = a.active
      BY <2>2, PruneEffect DEF Resumes
    <3>. QED BY <1>2, <3>1
  <2>3. CASE Enrolls(o, a, t, fresh, out)
    <3>0. PICK k \in Credential :
            k \in fresh /\ out.authority = AfterEnroll(a, o.request, t, k)
      BY <2>3 DEF Enrolls
    <3>1. /\ AfterEnroll(a, o.request, t, k).issued = Put(a.issued, k, "valid")
          /\ AfterEnroll(a, o.request, t, k).active = a.active
      BY <2>1, EnrollEffect
    <3>2. k \notin Issued(a)
      BY <3>0
    <3>. QED BY <1>3, <3>0, <3>1, <3>2
  <2>. QED BY <1>6, <2>2, <2>3, IssueCase
<1>7. CASE o.kind = "revoke"
  <2>1. o.cred \in Credential /\ out.authority = AfterRevoke(a, o.cred)
    BY <1>7, OperationFields, OtherCases
  <2>2. /\ out.authority.issued = Put(a.issued, o.cred, "revoked")
        /\ out.authority.active = a.active
    BY <2>1, RevokeEffect
  <2>. QED BY <1>4, <2>1, <2>2
<1>8. CASE o.kind = "deactivate"
  <2>1. out.authority = AfterDeactivate(a)
    BY <1>8, OtherCases
  <2>2. out.authority.issued = a.issued /\ out.authority.active = FALSE
    BY <2>1, DeactivateEffect
  <2>. QED BY <1>2, <2>2
<1>9. CASE o.kind = "read"
  <2>1. out.authority = a
    BY <1>9, OtherCases
  <2>. QED BY <1>2, <2>1
<1>. QED BY <1>5, <1>6, <1>7, <1>8, <1>9, OperationFields

-----------------------------------------------------------------------------
(* The same effects once more, as what a reader of the serialised state    *)
(* sees of an operation: a disjunct per way to succeed.                    *)
Offers(o, a, t, fresh, out) ==
  \E c \in Challenge :
    /\ c \in fresh
    /\ o.holder \in Holder
    /\ out.result = [kind |-> "offer", challenge |-> c]
    /\ out.authority.issued = a.issued
    /\ out.authority.active = a.active
    /\ out.authority.completed = a.completed
    /\ out.authority.offers = Put(PruneOffers(a, t).offers, c, NewOffer(o.holder, t))

Resends(o, a, t, out) ==
  /\ o.request \in Enrollment
  /\ CanResume(a, o.request, t)
  /\ a.completed[o.request.challenge].cred \in Credential
  /\ out.result = [kind |-> "credential", cred |-> a.completed[o.request.challenge].cred]
  /\ out.authority.issued = a.issued
  /\ out.authority.active = a.active
  /\ out.authority.completed = PruneReceipts(a, t).completed
  /\ out.authority.offers = a.offers

Mints(o, a, t, fresh, out) ==
  \E k \in Credential :
    /\ k \in fresh
    /\ o.request \in Enrollment
    /\ CanEnroll(a, o.request, t)
    /\ out.result = [kind |-> "credential", cred |-> k]
    /\ out.authority.issued = Put(a.issued, k, "valid")
    /\ out.authority.active = a.active
    /\ out.authority.completed =
         Put(PruneReceipts(a, t).completed, o.request.challenge, NewReceipt(o.request, t, k))
    /\ out.authority.offers = Put(a.offers, o.request.challenge, None)

Revokes(o, a, out) ==
  /\ o.cred \in Issued(a)
  /\ out.result = [kind |-> "ok"]
  /\ out.authority.issued = Put(a.issued, o.cred, "revoked")
  /\ out.authority.active = a.active
  /\ out.authority.completed = a.completed
  /\ out.authority.offers = a.offers

Leaves(a, out) ==
  /\ out.result.kind \in {"ok", "status"}
  /\ out.authority.issued = a.issued
  /\ out.authority.active => a.active
  /\ out.authority.completed = a.completed
  /\ out.authority.offers = a.offers

LEMMA OutcomeEffects ==
  ASSUME NEW o \in Operation, NEW a \in Authority, NEW t \in Int, NEW fresh,
         NEW out \in Outcomes(o, a, t, fresh)
  PROVE  \/ o.kind = "approve" /\ Offers(o, a, t, fresh, out)
         \/ o.kind = "issue" /\ Resends(o, a, t, out)
         \/ o.kind = "issue" /\ Mints(o, a, t, fresh, out)
         \/ o.kind = "revoke" /\ Revokes(o, a, out)
         \/ o.kind \in {"deactivate", "read"} /\ Leaves(a, out)
<1>1. CASE o.kind = "approve"
  <2>1. Approves(o, a, t, fresh, out) /\ o.holder \in Holder
    BY <1>1, ApproveCase, OperationFields
  <2>2. PICK c \in Challenge :
          /\ c \in fresh
          /\ out.authority = AfterApprove(a, o.holder, t, c)
          /\ out.result = [kind |-> "offer", challenge |-> c]
    BY <2>1 DEF Approves
  <2>3. /\ out.authority.issued = a.issued
        /\ out.authority.active = a.active
        /\ out.authority.completed = a.completed
        /\ out.authority.offers = Put(PruneOffers(a, t).offers, c, NewOffer(o.holder, t))
    BY <2>1, <2>2, ApproveEffect, ApproveOffers
  <2>. QED BY <1>1, <2>1, <2>2, <2>3 DEF Offers
<1>2. CASE o.kind = "issue" /\ Resumes(o, a, t, out)
  <2>1. o.request \in Enrollment
    BY <1>2, OperationFields
  <2>2. /\ out.authority = PruneReceipts(a, t)
        /\ CanResume(a, o.request, t)
        /\ a.completed[o.request.challenge].cred \in Credential
        /\ out.result = [kind |-> "credential", cred |-> a.completed[o.request.challenge].cred]
    BY <1>2 DEF Resumes
  <2>. QED BY <1>2, <2>1, <2>2, PruneEffect DEF Resends
<1>3. CASE o.kind = "issue" /\ Enrolls(o, a, t, fresh, out)
  <2>1. o.request \in Enrollment
    BY <1>3, OperationFields
  <2>2. PICK k \in Credential :
          /\ k \in fresh
          /\ CanEnroll(a, o.request, t)
          /\ out.authority = AfterEnroll(a, o.request, t, k)
          /\ out.result = [kind |-> "credential", cred |-> k]
    BY <1>3 DEF Enrolls
  <2>3. /\ out.authority.issued = Put(a.issued, k, "valid")
        /\ out.authority.active = a.active
        /\ out.authority.completed =
             Put(PruneReceipts(a, t).completed, o.request.challenge, NewReceipt(o.request, t, k))
        /\ out.authority.offers = Put(a.offers, o.request.challenge, None)
    BY <2>1, <2>2, EnrollEffect
  <2>. QED BY <1>3, <2>1, <2>2, <2>3 DEF Mints
<1>4. CASE o.kind = "revoke"
  <2>1. o.cred \in Credential /\ CanRevoke(a, o.cred)
        /\ out.authority = AfterRevoke(a, o.cred) /\ out.result = [kind |-> "ok"]
    BY <1>4, OperationFields, OtherCases
  <2>2. o.cred \in Issued(a)
    BY <2>1 DEF CanRevoke, Issued
  <2>. QED BY <1>4, <2>1, <2>2, RevokeEffect DEF Revokes
<1>5. CASE o.kind = "deactivate"
  <2>1. out.authority = AfterDeactivate(a) /\ out.result = [kind |-> "ok"]
    BY <1>5, OtherCases
  <2>2. /\ out.authority.issued = a.issued
        /\ ~ out.authority.active
        /\ out.authority.completed = a.completed
        /\ out.authority.offers = a.offers
    BY <2>1, DeactivateEffect
  <2>3. out.result.kind = "ok"
    BY <2>1
  <2>. QED BY <1>5, <2>2, <2>3 DEF Leaves
<1>6. CASE o.kind = "read"
  BY <1>6, OtherCases DEF Leaves
<1>. QED BY <1>1, <1>2, <1>3, <1>4, <1>5, <1>6, IssueCase, OperationFields

(* A receipt is left only for a credential that is registered.             *)
Backed(a) ==
  \A c \in Challenge : a.completed[c] # None => a.completed[c].cred \in Issued(a)

LEMMA PrunedReceipts ==
  ASSUME NEW a \in Authority, NEW t \in Int, NEW c \in Challenge
  PROVE  /\ PruneReceipts(a, t).completed[c] \in {None, a.completed[c]}
         /\ PruneReceipts(a, t).completed[c] # None => ~ (a.completed[c].until <= t)
         /\ a.completed[c] # None /\ ~ (a.completed[c].until <= t)
              => PruneReceipts(a, t).completed[c] = a.completed[c]
BY DEF PruneReceipts, Authority

LEMMA NewReceiptFields ==
  ASSUME NEW r \in Enrollment, NEW t \in Int, NEW k \in Credential
  PROVE  /\ NewReceipt(r, t, k) \in Receipt
         /\ NewReceipt(r, t, k) # None
         /\ NewReceipt(r, t, k).holder = r.holder
         /\ NewReceipt(r, t, k).cred = k
         /\ NewReceipt(r, t, k).until = t + RetryTTL
<1>1. NewReceipt(r, t, k) \in Receipt
  BY AuthorityAssumption DEF NewReceipt, Receipt, Enrollment
<1>. QED BY <1>1, NoneAssumption DEF NewReceipt

LEMMA OutcomeBacked ==
  ASSUME NEW o \in Operation, NEW a \in Authority, NEW t \in Int, NEW fresh,
         NEW out \in Outcomes(o, a, t, fresh), Backed(a)
  PROVE  Backed(out.authority)
<1>. DEFINE b == out.authority
<1>0. a.issued \in [Credential -> {"none", "valid", "revoked"}]
      /\ a.completed \in [Challenge -> Receipt \cup {None}]
  BY DEF Authority
<1>1. CASE b.issued = a.issued /\ b.completed = a.completed
  BY <1>1 DEF Backed, Issued
<1>2. CASE Resends(o, a, t, out)
  <2>1. b.issued = a.issued /\ b.completed = PruneReceipts(a, t).completed
    BY <1>2 DEF Resends
  <2>. QED BY <2>1, PrunedReceipts DEF Backed, Issued
<1>3. CASE Mints(o, a, t, fresh, out)
  <2>1. PICK k \in Credential :
          /\ o.request \in Enrollment
          /\ b.issued = Put(a.issued, k, "valid")
          /\ b.completed =
               Put(PruneReceipts(a, t).completed, o.request.challenge, NewReceipt(o.request, t, k))
    BY <1>3 DEF Mints
  <2>2. Issued(a) \cup {k} \subseteq Issued(b)
    BY <1>0, <2>1 DEF Issued, Put
  <2>3. o.request.challenge \in Challenge
    BY <2>1 DEF Enrollment
  <2>4. PruneReceipts(a, t).completed \in [Challenge -> Receipt \cup {None}]
    BY UpdateTypes DEF Authority
  <2>5. ASSUME NEW c \in Challenge, b.completed[c] # None
        PROVE  b.completed[c].cred \in Issued(b)
    <3>1. CASE c = o.request.challenge
      <4>1. b.completed[c] = NewReceipt(o.request, t, k)
        BY <2>1, <2>4, <3>1 DEF Put
      <4>. QED BY <4>1, <2>1, <2>2, NewReceiptFields
    <3>2. CASE c # o.request.challenge
      <4>1. b.completed[c] = PruneReceipts(a, t).completed[c]
        BY <2>1, <2>4, <3>2 DEF Put
      <4>. QED BY <4>1, <2>2, <2>5, PrunedReceipts DEF Backed
    <3>. QED BY <3>1, <3>2
  <2>. QED BY <2>5 DEF Backed
<1>4. CASE Revokes(o, a, out)
  <2>1. b.completed = a.completed /\ b.issued = Put(a.issued, o.cred, "revoked")
    BY <1>4 DEF Revokes
  <2>2. Issued(a) \subseteq Issued(b)
    BY <1>0, <2>1 DEF Issued, Put
  <2>. QED BY <2>1, <2>2 DEF Backed
<1>5. CASE Offers(o, a, t, fresh, out)
  BY <1>1, <1>5 DEF Offers
<1>6. CASE Leaves(a, out)
  BY <1>1, <1>6 DEF Leaves
<1>. QED BY <1>2, <1>3, <1>4, <1>5, <1>6, OutcomeEffects

(* What an outcome discloses is what it adds to the registry; a credential *)
(* it returns is valid, and the issuer active, in the state it leaves.     *)
LEMMA OutcomeDiscloses ==
  ASSUME NEW o \in Operation, NEW a \in Authority, NEW t \in Int, NEW fresh,
         NEW out \in Outcomes(o, a, t, fresh), Backed(a)
  PROVE  /\ Issued(out.authority) = Issued(a) \cup (Draws(out.result) \cap Credential)
         /\ Draws(out.result) \subseteq Challenge \cup Credential
         /\ out.result.kind = "offer" => Draws(out.result) = {out.result.challenge}
         /\ out.result.kind # "offer" => Draws(out.result) \subseteq Credential
         /\ out.result.kind = "credential" =>
              out.authority.active /\ out.result.cred \in Active(out.authority)
<1>. DEFINE b == out.authority
<1>0. a.issued \in [Credential -> {"none", "valid", "revoked"}]
      /\ a.completed \in [Challenge -> Receipt \cup {None}]
  BY DEF Authority
<1>1. CASE Offers(o, a, t, fresh, out)
  BY <1>1, AuthorityAssumption DEF Offers, Issued, Draws
<1>2. CASE Resends(o, a, t, out)
  <2>. DEFINE c == o.request.challenge
              k == a.completed[c].cred
  <2>1. /\ out.result = [kind |-> "credential", cred |-> k]
        /\ b.issued = a.issued /\ b.active = a.active
        /\ k \in Credential /\ c \in Challenge
        /\ CanResume(a, o.request, t)
    BY <1>2 DEF Resends, Enrollment
  <2>2. /\ a.active
        /\ PruneReceipts(a, t).completed[c] # None
        /\ a.issued[PruneReceipts(a, t).completed[c].cred] # "revoked"
    BY <2>1 DEF CanResume
  <2>3. k \in Issued(a) /\ a.issued[k] = "valid"
    BY <1>0, <2>1, <2>2, PrunedReceipts DEF Backed, Issued
  <2>4. Draws(out.result) = {k}
    BY <2>1 DEF Draws
  <2>5. Issued(b) = Issued(a) /\ Active(b) = Active(a)
    BY <2>1 DEF Issued, Active
  <2>6. k \in Active(a)
    BY <2>1, <2>3 DEF Active
  <2>. QED BY <2>1, <2>2, <2>3, <2>4, <2>5, <2>6
<1>3. CASE Mints(o, a, t, fresh, out)
  <2>1. PICK k \in Credential :
          /\ CanEnroll(a, o.request, t)
          /\ out.result = [kind |-> "credential", cred |-> k]
          /\ b.issued = Put(a.issued, k, "valid")
          /\ b.active = a.active
    BY <1>3 DEF Mints
  <2>2. a.active
    BY <2>1, PruneEffect DEF CanEnroll, CanIssue
  <2>3. Issued(b) = Issued(a) \cup {k} /\ k \in Active(b)
    BY <1>0, <2>1 DEF Issued, Active, Put
  <2>. QED BY <2>1, <2>2, <2>3 DEF Draws
<1>4. CASE Revokes(o, a, out)
  <2>1. /\ out.result = [kind |-> "ok"] /\ o.cred \in Issued(a)
        /\ b.issued = Put(a.issued, o.cred, "revoked")
    BY <1>4 DEF Revokes
  <2>2. Issued(b) = Issued(a)
    BY <1>0, <2>1 DEF Issued, Put
  <2>. QED BY <2>1, <2>2 DEF Draws
<1>5. CASE Leaves(a, out)
  BY <1>5 DEF Leaves, Issued, Draws
<1>. QED BY <1>1, <1>2, <1>3, <1>4, <1>5, OutcomeEffects

-----------------------------------------------------------------------------
(* The inductive invariant of the compare-and-swap.                        *)

(* What a handler holds at each point of withIssuer.                       *)
Locals ==
  \A p \in Request :
    /\ pc[p] \in Working \cup Committed => operation[p] \in Operation
    /\ pc[p] \in {"selected", "computed"} => seen[p] \in Row
    /\ pc[p] = "computed" => draft[p] \in Draft
    /\ pc[p] \in Committed => answer[p] \in Result

(* The version names the state: a handler whose version is current read    *)
(* the current authority.                                                  *)
Fence ==
  \A p \in Request : pc[p] \in {"selected", "computed"} =>
    /\ seen[p].version <= version
    /\ Unmoved(p) => seen[p].authority = authority

Unused == (Challenge \cup Credential) \ Drawn

Outcome(d) == [authority |-> d.authority, result |-> d.result]

(* As long as the row has not moved, a handler's draft is an outcome of    *)
(* its operation on the current authority.                                 *)
DraftFits ==
  \A p \in Request : pc[p] = "computed" =>
    /\ draft[p].at \in -Skew .. (now + Skew)
    /\ Unmoved(p) =>
         Outcome(draft[p]) \in Outcomes(operation[p], authority, draft[p].at, Unused)

CASInv == TypeOK /\ Locals /\ Fence /\ DraftFits

LEMMA InitCAS == Init => CASInv
<1>. SUFFICES ASSUME Init PROVE CASInv
  OBVIOUS
<1>1. NewAuthority \in Authority
  BY DEF NewAuthority, Authority
<1>2. TypeOK
  BY <1>1 DEF Init, TypeOK
<1>3. Locals /\ Fence /\ DraftFits
  BY DEF Init, Locals, Fence, DraftFits, Working, Committed
<1>. QED BY <1>2, <1>3 DEF CASInv

(* Every input a client can choose is an operation of the authority.       *)
LEMMA SubmittedIsOperation ==
  ASSUME TypeOK,
         NEW o \in Approvals \cup Enrollments \cup Revocations \cup Others
  PROVE  o \in Operation
<1>1. Offered \subseteq Challenge /\ Clock \subseteq Int /\ Issued(authority) \subseteq Credential
  BY ServiceAssumption DEF Offered, Clock, Issued, TypeOK
<1>. QED BY <1>1 DEF Approvals, Enrollments, Revocations, Others, Operation, Enrollment

LEMMA CASTick == CASInv /\ Tick => CASInv'
<1>. SUFFICES ASSUME CASInv, Tick PROVE CASInv'
  OBVIOUS
<1>. USE DEF CASInv, Tick, row, handler, history
<1>1. TypeOK'
  BY DEF TypeOK
<1>2. Locals' /\ Fence'
  BY DEF Locals, Fence, Unmoved
<1>3. DraftFits'
  BY ServiceAssumption DEF DraftFits, Unmoved, Unused, Drawn, Outcome, TypeOK
<1>. QED BY <1>1, <1>2, <1>3

LEMMA CASSubmit == ASSUME NEW p \in Request PROVE CASInv /\ Submit(p) => CASInv'
<1>. SUFFICES ASSUME CASInv, Submit(p) PROVE CASInv'
  OBVIOUS
<1>1. PICK o \in Operation : operation' = [operation EXCEPT ![p] = o]
  BY SubmittedIsOperation DEF Submit, CASInv
<1>. USE <1>1 DEF CASInv, Submit, row
<1>2. TypeOK'
  BY DEF TypeOK, Working, Committed, Refused
<1>3. Locals'
  BY DEF TypeOK, Locals, Working, Committed
<1>4. Fence'
  BY DEF TypeOK, Fence, Unmoved
<1>5. DraftFits'
  BY DEF TypeOK, DraftFits, Unmoved, Unused, Drawn, Outcome
<1>. QED BY <1>2, <1>3, <1>4, <1>5

LEMMA CASSelect == ASSUME NEW p \in Request PROVE CASInv /\ Select(p) => CASInv'
<1>. SUFFICES ASSUME CASInv, Select(p) PROVE CASInv'
  OBVIOUS
<1>. USE DEF CASInv, Select, row, history
<1>1. TypeOK'
  BY DEF TypeOK, Working, Row
<1>2. Locals'
  BY DEF TypeOK, Locals, Working, Committed, Row
<1>3. Fence'
  BY DEF TypeOK, Fence, Unmoved
<1>4. DraftFits'
  BY DEF TypeOK, DraftFits, Unmoved, Unused, Drawn, Outcome
<1>. QED BY <1>1, <1>2, <1>3, <1>4

LEMMA CASCompute == ASSUME NEW p \in Request PROVE CASInv /\ Compute(p) => CASInv'
<1>. SUFFICES ASSUME CASInv, Compute(p) PROVE CASInv'
  OBVIOUS
<1>0. PICK t \in Clock :
        \E out \in Outcomes(operation[p], seen[p].authority, t, Fresh) :
           draft' = [draft EXCEPT ![p] =
                       [authority |-> out.authority, result |-> out.result, at |-> t]]
  BY DEF Compute
<1>1. PICK out \in Outcomes(operation[p], seen[p].authority, t, Fresh) :
        draft' = [draft EXCEPT ![p] =
                    [authority |-> out.authority, result |-> out.result, at |-> t]]
  BY <1>0
<1>2. operation[p] \in Operation /\ seen[p] \in Row
  BY DEF CASInv, Locals, Compute, Working
<1>3. t \in Int /\ t \in -Skew .. (now + Skew)
  BY ServiceAssumption DEF Clock, CASInv, TypeOK
<1>4. out.authority \in Authority /\ out.result \in Result
  BY <1>2, <1>3, OutcomeTypes DEF Row
<1>5. Unmoved(p) => Outcome(draft'[p]) \in Outcomes(operation[p], authority, t, Unused)
  <2>. SUFFICES ASSUME Unmoved(p)
                PROVE  Outcome(draft'[p]) \in Outcomes(operation[p], authority, t, Unused)
    OBVIOUS
  <2>1. seen[p].authority = authority
    BY DEF CASInv, Fence, Compute
  <2>2. Fresh \subseteq Unused
    BY DEF Fresh, Unused
  <2>3. out \in Outcomes(operation[p], authority, t, Unused)
    BY <1>2, <1>3, <2>1, <2>2, OutcomesMonotone DEF CASInv, TypeOK
  <2>4. out = [authority |-> out.authority, result |-> out.result]
    BY <1>2, <1>3, OutcomeRecord DEF Row
  <2>5. draft'[p] = [authority |-> out.authority, result |-> out.result, at |-> t]
    BY <1>1 DEF CASInv, TypeOK
  <2>. QED BY <2>3, <2>4, <2>5 DEF Outcome
<1>. USE DEF CASInv, Compute, row, history
<1>6. TypeOK'
  BY <1>1, <1>3, <1>4 DEF TypeOK, Working, Draft
<1>7. Locals'
  BY <1>1, <1>2, <1>3, <1>4 DEF TypeOK, Locals, Working, Committed, Draft
<1>8. Fence'
  BY DEF TypeOK, Fence, Unmoved
<1>9. DraftFits'
  <2>. SUFFICES ASSUME NEW q \in Request, pc'[q] = "computed"
                PROVE  /\ draft'[q].at \in -Skew .. (now + Skew)
                       /\ Unmoved(q) => Outcome(draft'[q]) \in
                             Outcomes(operation[q], authority, draft'[q].at, Unused)
    BY DEF DraftFits, Unmoved, Unused, Drawn, Outcome
  <2>1. CASE q = p
    BY <2>1, <1>1, <1>3, <1>5 DEF TypeOK
  <2>2. CASE q # p
    BY <2>2, <1>1 DEF TypeOK, DraftFits, Outcome
  <2>. QED BY <2>1, <2>2
<1>. QED BY <1>6, <1>7, <1>8, <1>9

LEMMA CASReject == ASSUME NEW p \in Request PROVE CASInv /\ Reject(p) => CASInv'
<1>. SUFFICES ASSUME CASInv, Reject(p) PROVE CASInv'
  OBVIOUS
<1>. USE DEF CASInv, Reject, row, history, Return
<1>1. TypeOK'
  BY ServiceAssumption DEF TypeOK, Working, Committed, Refused
<1>2. Locals'
  BY DEF TypeOK, Locals, Working, Committed
<1>3. Fence'
  BY DEF TypeOK, Fence, Unmoved
<1>4. DraftFits'
  BY DEF TypeOK, DraftFits, Unmoved, Unused, Drawn, Outcome
<1>. QED BY <1>1, <1>2, <1>3, <1>4

LEMMA CASConflict == ASSUME NEW p \in Request PROVE CASInv /\ Conflict(p) => CASInv'
<1>. SUFFICES ASSUME CASInv, Conflict(p) PROVE CASInv'
  OBVIOUS
<1>. USE DEF CASInv, Conflict, row, history
<1>1. TypeOK'
  BY ServiceAssumption DEF TypeOK, Working, Committed, Refused
<1>2. Locals'
  BY DEF TypeOK, Locals, Working, Committed
<1>3. Fence'
  BY DEF TypeOK, Fence, Unmoved
<1>4. DraftFits'
  BY DEF TypeOK, DraftFits, Unmoved, Unused, Drawn, Outcome
<1>. QED BY <1>1, <1>2, <1>3, <1>4

LEMMA CASRespond == ASSUME NEW p \in Request PROVE CASInv /\ Respond(p) => CASInv'
<1>. SUFFICES ASSUME CASInv, Respond(p) PROVE CASInv'
  OBVIOUS
<1>. USE DEF CASInv, Respond, row, history
<1>1. TypeOK'
  BY ServiceAssumption DEF TypeOK, Working, Committed, Refused
<1>2. Locals'
  BY DEF TypeOK, Locals, Working, Committed
<1>3. Fence'
  BY DEF TypeOK, Fence, Unmoved
<1>4. DraftFits'
  BY DEF TypeOK, DraftFits, Unmoved, Unused, Drawn, Outcome
<1>. QED BY <1>1, <1>2, <1>3, <1>4

LEMMA CASLose == ASSUME NEW p \in Request PROVE CASInv /\ Lose(p) => CASInv'
<1>. SUFFICES ASSUME CASInv, Lose(p) PROVE CASInv'
  OBVIOUS
<1>. USE DEF CASInv, Lose, row, history, Return
<1>1. TypeOK'
  BY ServiceAssumption DEF TypeOK, Working, Committed, Refused
<1>2. Locals'
  BY DEF TypeOK, Locals, Working, Committed
<1>3. Fence'
  BY DEF TypeOK, Fence, Unmoved
<1>4. DraftFits'
  BY DEF TypeOK, DraftFits, Unmoved, Unused, Drawn, Outcome
<1>. QED BY <1>1, <1>2, <1>3, <1>4

(* After a commit every other handler's row is out of date.                *)
LEMMA CASCommit == ASSUME NEW p \in Request PROVE CASInv /\ Commit(p) => CASInv'
<1>. SUFFICES ASSUME CASInv, Commit(p) PROVE CASInv'
  OBVIOUS
<1>1. /\ operation[p] \in Operation
      /\ draft[p] \in Draft
      /\ Outcome(draft[p]) \in Outcomes(operation[p], authority, draft[p].at, Unused)
  BY DEF CASInv, Locals, DraftFits, Commit, Working
<1>2. /\ draft[p].result.kind = "offer" => operation[p].kind = "approve"
      /\ draft[p].result.kind = "credential" => operation[p].kind = "issue"
  BY <1>1, OutcomeTypes DEF CASInv, TypeOK, Draft, Outcome
<1>3. version \in Nat /\ version' = version + 1
  BY DEF CASInv, TypeOK, Commit
<1>4. approved' \in [Challenge -> Holder \cup {None}]
  BY <1>1, <1>2, OperationFields, ResultFields DEF Commit, CASInv, TypeOK, Draft
<1>5. minted' \subseteq Minted
  BY <1>1, <1>2, OperationFields, ResultFields
     DEF Commit, CASInv, TypeOK, Draft, IsFirstIssue, MintedBy, Minted, Enrollment
<1>6. audit' \subseteq Event
  BY <1>3 DEF Commit, CASInv, TypeOK, Event
<1>7. TypeOK'
  BY <1>1, <1>3, <1>4, <1>5, <1>6 DEF Commit, Return, CASInv, TypeOK, Draft, Committed
<1>8. Locals'
  BY <1>1 DEF Commit, Return, CASInv, TypeOK, Locals, Draft, Working, Committed
<1>9. \A q \in Request : pc'[q] \in {"selected", "computed"} =>
         /\ pc'[q] = pc[q]
         /\ seen'[q] = seen[q] /\ draft'[q] = draft[q]
         /\ seen[q].version <= version /\ seen[q].version \in Nat
  BY DEF Commit, Return, CASInv, TypeOK, Fence, Locals, Row
<1>10. Fence'
  BY <1>3, <1>9 DEF Fence, Unmoved
<1>11. DraftFits'
  BY <1>3, <1>9 DEF DraftFits, Unmoved, CASInv, Commit
<1>. QED BY <1>7, <1>8, <1>10, <1>11 DEF CASInv

LEMMA NextCAS == CASInv /\ [Next]_vars => CASInv'
<1>. SUFFICES ASSUME CASInv, [Next]_vars PROVE CASInv'
  OBVIOUS
<1>1. CASE UNCHANGED vars
  BY <1>1 DEF CASInv, vars, row, handler, history, TypeOK, Locals, Fence, DraftFits,
              Unmoved, Unused, Drawn, Outcome
<1>2. CASE Tick
  BY <1>2, CASTick
<1>3. ASSUME NEW p \in Request, Submit(p) \/ Handle(p) \/ Lose(p)
      PROVE  CASInv'
  BY <1>3, CASSubmit, CASSelect, CASCompute, CASReject, CASCommit, CASConflict,
     CASRespond, CASLose DEF Handle
<1>. QED BY <1>1, <1>2, <1>3 DEF Next

(* The state is well typed, and a handler whose version is current holds   *)
(* an outcome of its operation on the current authority.                   *)
THEOREM CASCorrect == Spec => []CASInv
<1>. QED BY InitCAS, NextCAS, PTL DEF Spec

(* Every variable always has its type.                                     *)
THEOREM TypeCorrect == Spec => []TypeOK
<1>1. CASInv => TypeOK
  BY DEF CASInv
<1>. QED BY <1>1, CASCorrect, PTL

-----------------------------------------------------------------------------
(* What a commit does: an outcome of the request's own operation on the    *)
(* authority as it is at that moment.                                      *)
LEMMA CommitServes ==
  ASSUME CASInv, NEW p \in Request, Commit(p)
  PROVE  /\ operation[p] \in Operation
         /\ draft[p] \in Draft
         /\ draft[p].at \in -Skew .. (now + Skew)
         /\ Outcome(draft[p]) \in Outcomes(operation[p], authority, draft[p].at, Unused)
         /\ authority' = draft[p].authority
         /\ answer'[p] = draft[p].result
         /\ draft[p].result.kind = "offer" => operation[p].kind = "approve"
         /\ draft[p].result.kind = "credential" => operation[p].kind = "issue"
<1>1. /\ operation[p] \in Operation
      /\ draft[p] \in Draft
      /\ draft[p].at \in -Skew .. (now + Skew)
      /\ Outcome(draft[p]) \in Outcomes(operation[p], authority, draft[p].at, Unused)
  BY DEF CASInv, Locals, DraftFits, Commit, Working
<1>2. authority' = draft[p].authority /\ answer'[p] = draft[p].result
  BY DEF Commit, CASInv, TypeOK
<1>. QED BY <1>1, <1>2, OutcomeTypes DEF CASInv, TypeOK, Draft, Outcome

(* The row changes only by a commit.                                       *)
LEMMA RowChanges ==
  ASSUME CASInv, [Next]_vars
  PROVE  \/ UNCHANGED <<version, authority, audit, approved, minted>>
         \/ \E p \in Request : Commit(p)
BY DEF Next, Handle, Tick, Submit, Select, Compute, Reject, Conflict, Respond, Lose,
       vars, row, handler, history

LEMMA UnusedIsNew ==
  /\ Unused \cap Credential = Credential \ Issued(authority)
  /\ Unused \cap Challenge = {c \in Challenge : approved[c] = None}
BY AuthorityAssumption DEF Unused, Drawn, Issued

LEMMA NothingTakenBack ==
  ASSUME CASInv, [Next]_vars
  PROVE  /\ Issued(authority) \subseteq Issued(authority')
         /\ \A k \in Credential :
              authority.issued[k] = "revoked" => authority'.issued[k] = "revoked"
         /\ ~ authority.active => ~ authority'.active
<1>1. CASE UNCHANGED authority
  BY <1>1
<1>2. ASSUME NEW p \in Request, Commit(p)
      PROVE  /\ Issued(authority) \subseteq Issued(authority')
             /\ \A k \in Credential :
                  authority.issued[k] = "revoked" => authority'.issued[k] = "revoked"
             /\ ~ authority.active => ~ authority'.active
  <2>1. Unused \cap Credential \subseteq Credential \ Issued(authority)
    BY <1>2, UnusedIsNew
  <2>2. draft[p].at \in Int /\ authority \in Authority
    BY <1>2, CommitServes DEF CASInv, TypeOK, Draft
  <2>3. Outcome(draft[p]).authority = authority'
    BY <1>2, CommitServes DEF Outcome
  <2>. QED BY <1>2, <2>1, <2>2, <2>3, CommitServes, OutcomeKeepsStatus
<1>. QED BY <1>1, <1>2, RowChanges

(* A revoked credential stays revoked, a registered one registered and a   *)
(* deactivated issuer inactive, whatever the handlers interleave.          *)
THEOREM StatusIsFinal == Spec => StatusNeverRollsBack
<1>. DEFINE Keeps ==
       /\ Issued(authority) \subseteq Issued(authority')
       /\ \A k \in Credential :
            authority.issued[k] = "revoked" => authority'.issued[k] = "revoked"
       /\ ~ authority.active => ~ authority'.active
<1>1. CASInv /\ [Next]_vars => Keeps
  BY NothingTakenBack
<1>. QED BY <1>1, CASCorrect, PTL DEF Spec, StatusNeverRollsBack

-----------------------------------------------------------------------------
(* The refinement: a commit is the one step that serves a request; all     *)
(* that a handler does before it, and all that is lost after it, changes   *)
(* nothing a client or the registry can see.                               *)

Phases == [p \in Request |-> AbstractPhase(p)]

LEMMA PhaseIs ==
  ASSUME NEW p \in Request
  PROVE  /\ Phases[p] = AbstractPhase(p)
         /\ pc[p] = "idle" => AbstractPhase(p) = "idle"
         /\ pc[p] \in Working => AbstractPhase(p) = "open"
         /\ pc[p] \in Committed => AbstractPhase(p) = "served"
         /\ pc[p] \in Refused => AbstractPhase(p) = "refused"
BY DEF Phases, AbstractPhase, Working, Committed, Refused

LEMMA InitRefines == Init => Atomic!Init
<1>. SUFFICES ASSUME Init PROVE Atomic!Init
  OBVIOUS
<1>1. Drawn = {}
  BY AuthorityAssumption DEF Init, Drawn, Issued, NewAuthority
<1>2. Phases = [p \in Request |-> "idle"]
  BY PhaseIs DEF Init, Phases
<1>. QED BY <1>1, <1>2 DEF Init, Atomic!Init, Phases

(* Receipts name registered credentials only.                              *)
THEOREM ReceiptsBacked == Spec => []Backed(authority)
<1>1. Init => Backed(authority)
  BY DEF Init, Backed, NewAuthority
<1>2. CASInv /\ Backed(authority) /\ [Next]_vars => Backed(authority)'
  <2>. SUFFICES ASSUME CASInv, Backed(authority), [Next]_vars PROVE Backed(authority')
    OBVIOUS
  <2>1. CASE UNCHANGED authority
    BY <2>1
  <2>2. ASSUME NEW p \in Request, Commit(p) PROVE Backed(authority')
    <3>1. draft[p].at \in Int /\ authority \in Authority
      BY <2>2, CommitServes DEF CASInv, TypeOK, Draft
    <3>2. Outcome(draft[p]).authority = authority'
      BY <2>2, CommitServes DEF Outcome
    <3>. QED BY <2>2, <3>1, <3>2, CommitServes, OutcomeBacked
  <2>. QED BY <2>1, <2>2, RowChanges
<1>. QED BY <1>1, <1>2, CASCorrect, PTL DEF Spec

(* What a commit discloses and hands out.                                  *)
LEMMA CommitDiscloses ==
  ASSUME CASInv, Backed(authority), NEW p \in Request, Commit(p)
  PROVE  /\ Drawn' = Drawn \cup Draws(draft[p].result)
         /\ answer'[p].kind = "credential" =>
              authority'.active /\ answer'[p].cred \in Active(authority')
<1>1. /\ operation[p] \in Operation /\ authority \in Authority
      /\ draft[p] \in Draft /\ draft[p].at \in Int
      /\ Outcome(draft[p]) \in Outcomes(operation[p], authority, draft[p].at, Unused)
      /\ authority' = draft[p].authority /\ answer'[p] = draft[p].result
      /\ draft[p].result.kind = "offer" => operation[p].kind = "approve"
  BY CommitServes DEF CASInv, TypeOK, Draft
<1>2. Outcome(draft[p]).authority = authority' /\ Outcome(draft[p]).result = draft[p].result
  BY <1>1 DEF Outcome
<1>. DEFINE r == draft[p].result
<1>3. /\ Issued(authority') = Issued(authority) \cup (Draws(r) \cap Credential)
      /\ Draws(r) \subseteq Challenge \cup Credential
      /\ r.kind = "offer" => Draws(r) = {r.challenge}
      /\ r.kind # "offer" => Draws(r) \subseteq Credential
      /\ r.kind = "credential" => authority'.active /\ r.cred \in Active(authority')
  BY <1>1, <1>2, OutcomeDiscloses
<1>4. Offered' = Offered \cup (Draws(r) \cap Challenge)
  <2>1. CASE r.kind = "offer"
    <3>1. r.challenge \in Challenge
      BY <1>1, <2>1, ResultFields DEF Draft
    <3>2. approved' = [approved EXCEPT ![r.challenge] = operation[p].holder]
      BY <2>1 DEF Commit
    <3>3. operation[p].holder # None
      BY <1>1, <2>1, OperationFields, AuthorityAssumption
    <3>. QED BY <1>3, <2>1, <3>1, <3>2, <3>3 DEF Offered, CASInv, TypeOK
  <2>2. CASE r.kind # "offer"
    BY <1>3, <2>2, AuthorityAssumption DEF Offered, Commit
  <2>. QED BY <2>1, <2>2
<1>. QED BY <1>1, <1>3, <1>4 DEF Drawn, Offered

(* A credential is handed out only if neither it nor the issuer was        *)
(* revoked before, between the read of the row and the write included.     *)
THEOREM RevokedIsNotAnswered == Spec => NoRevokedAnswer
<1>. DEFINE Unrevoked(p) ==
              /\ authority.active /\ authority.issued[answer'[p].cred] # "revoked"
              /\ authority'.active /\ answer'[p].cred \in Active(authority')
            Good == \A p \in Request : Credentialed(p)' /\ ~ Credentialed(p) => Unrevoked(p)
<1>1. CASInv /\ Backed(authority) /\ [Next]_vars => Good
  <2>. SUFFICES ASSUME CASInv, Backed(authority), [Next]_vars,
                       NEW p \in Request, Credentialed(p)', ~ Credentialed(p)
                PROVE  Unrevoked(p)
    OBVIOUS
  <2>1. ASSUME Commit(p) PROVE Unrevoked(p)
    <3>1. authority'.active /\ answer'[p].cred \in Active(authority')
      BY <2>1, CommitDiscloses DEF Credentialed
    <3>2. authority.active /\ authority.issued[answer'[p].cred] # "revoked"
      BY <2>1, <3>1, NothingTakenBack DEF Active
    <3>. QED BY <3>1, <3>2
  <2>2. CASE ~ Commit(p)
    <3>1. ASSUME NEW q \in Request, Submit(q) \/ Handle(q) \/ Lose(q)
          PROVE  /\ pc'[p] \in Committed => pc[p] \in Committed
                 /\ answer'[p] = answer[p]
      BY <2>2, <3>1 DEF Handle, Submit, Select, Compute, Reject, Commit, Conflict, Respond,
         Lose, CASInv, TypeOK, Working, Committed
    <3>2. CASE Tick \/ UNCHANGED vars
      BY <3>2 DEF Tick, vars, handler, Credentialed
    <3>. QED BY <3>1, <3>2 DEF Next, Credentialed
  <2>. QED BY <2>1, <2>2
<1>. QED BY <1>1, CASCorrect, ReceiptsBacked, PTL DEF Spec, NoRevokedAnswer

LEMMA CommitRefines ==
  ASSUME CASInv, Backed(authority), NEW p \in Request, Commit(p)
  PROVE  Atomic!Serve(p)
<1>1. Phases[p] = "open"
  BY PhaseIs DEF Commit, Working
<1>2. Phases' = [Phases EXCEPT ![p] = "served"]
  BY DEF Commit, CASInv, TypeOK, Phases, AbstractPhase, Working, Committed, Refused
<1>. DEFINE t == draft[p].at
            out == Outcome(draft[p])
<1>3. t \in -Skew .. (now + Skew) /\ out \in Outcomes(operation[p], authority, t, Unused)
  BY CommitServes
<1>4. /\ authority' = out.authority
      /\ answer' = [answer EXCEPT ![p] = out.result]
      /\ Drawn' = Drawn \cup Draws(out.result)
  BY CommitServes, CommitDiscloses DEF Commit, Outcome
<1>5. now' = now /\ operation' = operation
  BY DEF Commit
<1>. HIDE DEF t, out
<1>. QED
  BY <1>1, <1>2, <1>3, <1>4, <1>5 DEF Atomic!Serve, Phases, Unused

LEMMA NextRefines == CASInv /\ Backed(authority) /\ [Next]_vars => [Atomic!Next]_Atomic!vars
<1>. SUFFICES ASSUME CASInv, Backed(authority), [Next]_vars PROVE [Atomic!Next]_Atomic!vars
  OBVIOUS
<1>. USE DEF row, handler, history
<1>1. CASE UNCHANGED vars
  BY <1>1 DEF vars, Atomic!vars, AbstractPhase, Drawn
<1>2. CASE Tick
  <2>1. now' \in Int /\ now' > now
    BY <1>2 DEF Tick, CASInv, TypeOK
  <2>2. UNCHANGED <<authority, Drawn, operation, Phases, answer>>
    BY <1>2 DEF Tick, Drawn, Phases, AbstractPhase
  <2>. QED BY <2>1, <2>2 DEF Atomic!Next, Atomic!Tick, Phases
<1>3. ASSUME NEW p \in Request, Submit(p) PROVE Atomic!Submit(p)
  <2>1. PICK o \in Operation : operation' = [operation EXCEPT ![p] = o]
    BY <1>3, SubmittedIsOperation DEF Submit, CASInv
  <2>2. operation'[p] = o
    BY <2>1 DEF CASInv, TypeOK
  <2>3. Phases[p] = "idle" /\ Phases' = [Phases EXCEPT ![p] = "open"]
    BY <1>3 DEF Submit, CASInv, TypeOK, Phases, AbstractPhase, Working, Committed, Refused
  <2>4. UNCHANGED <<now, authority, Drawn, answer>>
    BY <1>3 DEF Submit, Drawn
  <2>. QED BY <2>1, <2>2, <2>3, <2>4 DEF Atomic!Submit, Phases
<1>4. ASSUME NEW p \in Request,
             \/ Select(p) \/ Compute(p) \/ Respond(p)
             \/ Conflict(p) /\ pc'[p] = "queued"
             \/ Lose(p) /\ pc[p] = "committed"
      PROVE  UNCHANGED Atomic!vars
  <2>1. Phases' = Phases
    BY <1>4 DEF Select, Compute, Respond, Conflict, Lose, CASInv, TypeOK,
                Phases, AbstractPhase, Working, Committed, Refused
  <2>2. UNCHANGED <<now, authority, Drawn, operation, answer>>
    BY <1>4 DEF Select, Compute, Respond, Conflict, Lose, Drawn
  <2>. QED BY <2>1, <2>2 DEF Atomic!vars, Phases
<1>5. ASSUME NEW p \in Request,
             \/ Reject(p)
             \/ Conflict(p) /\ pc'[p] # "queued"
             \/ Lose(p) /\ pc[p] # "committed"
      PROVE  Atomic!Refuse(p)
  <2>1. Phases[p] = "open"
    BY <1>5, PhaseIs DEF Reject, Conflict, Lose, Working
  <2>2. Phases' = [Phases EXCEPT ![p] = "refused"]
    <3>1. CASE Reject(p)
      BY <3>1 DEF Reject, CASInv, TypeOK, Phases, AbstractPhase, Working, Committed, Refused
    <3>2. CASE Conflict(p) /\ pc'[p] # "queued"
      BY <3>2 DEF Conflict, CASInv, TypeOK, Phases, AbstractPhase, Working, Committed, Refused
    <3>3. CASE Lose(p) /\ pc[p] # "committed"
      BY <3>3 DEF Lose, CASInv, TypeOK, Phases, AbstractPhase, Working, Committed, Refused
    <3>. QED BY <1>5, <3>1, <3>2, <3>3
  <2>3. UNCHANGED <<now, authority, Drawn, operation, answer>>
    BY <1>5 DEF Reject, Conflict, Lose, Drawn
  <2>. QED BY <2>1, <2>2, <2>3 DEF Atomic!Refuse, Phases
<1>6. ASSUME NEW p \in Request, Commit(p) PROVE Atomic!Serve(p)
  BY <1>6, CommitRefines
<1>. QED
  BY <1>1, <1>2, <1>3, <1>4, <1>5, <1>6 DEF Next, Handle, Atomic!Next

(* The hosted issuer implements the atomic service: every request takes    *)
(* effect in one step, on the state it then finds, or changes nothing.     *)
THEOREM ServiceIsAtomic == Spec => AtomicSpec
<1>. QED BY InitRefines, NextRefines, CASCorrect, ReceiptsBacked, PTL
         DEF Spec, AtomicSpec, Atomic!Spec

-----------------------------------------------------------------------------
(* What a finished request leaves behind is never touched again.           *)
LEMMA CommittedStays ==
  ASSUME CASInv, [Next]_vars, NEW q \in Request, pc[q] \in Committed
  PROVE  pc'[q] \in Committed /\ operation'[q] = operation[q] /\ answer'[q] = answer[q]
<1>. USE DEF CASInv, TypeOK, Working, Committed
<1>1. ASSUME NEW p \in Request, Submit(p)
      PROVE  pc'[q] = pc[q] /\ operation'[q] = operation[q] /\ answer' = answer
  BY <1>1 DEF Submit
<1>2. ASSUME NEW p \in Request, Select(p) \/ Compute(p) \/ Reject(p) \/ Commit(p) \/ Conflict(p)
      PROVE  p # q /\ pc'[q] = pc[q] /\ operation' = operation /\ answer'[q] = answer[q]
  BY <1>2 DEF Select, Compute, Reject, Commit, Conflict
<1>3. ASSUME NEW p \in Request, Respond(p) \/ Lose(p)
      PROVE  pc'[q] \in Committed /\ operation' = operation /\ answer' = answer
  BY <1>3 DEF Respond, Lose
<1>4. CASE Tick \/ UNCHANGED vars
  BY <1>4 DEF Tick, vars, handler
<1>. QED BY <1>1, <1>2, <1>3, <1>4 DEF Next, Handle

(* A request is committed by its own commit only.                          *)
LEMMA OnlyCommitCommits ==
  ASSUME CASInv, [Next]_vars, NEW q \in Request, pc[q] \notin Committed, ~ Commit(q)
  PROVE  pc'[q] \notin Committed
<1>. USE DEF CASInv, TypeOK, Working, Committed
<1>1. ASSUME NEW p \in Request, Submit(p) \/ Select(p) \/ Compute(p) \/ Reject(p)
      PROVE  pc'[q] \notin Committed
  BY <1>1 DEF Submit, Select, Compute, Reject
<1>2. ASSUME NEW p \in Request, Commit(p) \/ Conflict(p) \/ Respond(p) \/ Lose(p)
      PROVE  pc'[q] \notin Committed
  BY <1>2 DEF Commit, Conflict, Respond, Lose
<1>3. CASE Tick \/ UNCHANGED vars
  BY <1>3 DEF Tick, vars, handler
<1>. QED BY <1>1, <1>2, <1>3 DEF Next, Handle

LEMMA OneMoreRequest ==
  ASSUME NEW S, NEW p, NEW v
  PROVE  {e.request : e \in S \cup {[request |-> p, version |-> v]}}
           = {e.request : e \in S} \cup {p}
<1>. DEFINE x == [request |-> p, version |-> v]
<1>1. x.request = p
  OBVIOUS
<1>. HIDE DEF x
<1>2. {e.request : e \in S \cup {x}} = {e.request : e \in S} \cup {x.request}
  OBVIOUS
<1>. QED BY <1>1, <1>2 DEF x

(* The audit trail: the commit of a mutating request adds its one event,   *)
(* at a version no event has, and nothing else touches the log.            *)
THEOREM AuditIsExact == Spec => []AuditTrail
<1>1. Init => AuditTrail
  BY DEF Init, AuditTrail, Committed
<1>2. CASInv /\ AuditTrail /\ [Next]_vars => AuditTrail'
  <2>. SUFFICES ASSUME CASInv, AuditTrail, [Next]_vars PROVE AuditTrail'
    OBVIOUS
  <2>. DEFINE Logged == {p \in Request : pc[p] \in Committed /\ Audited(operation[p])}
  <2>0. audit \subseteq Event /\ version \in Nat /\ Logged = {e.request : e \in audit}
    BY DEF CASInv, TypeOK, AuditTrail
  <2>1. CASE UNCHANGED <<version, authority, audit, approved, minted>> /\ \A p \in Request : ~ Commit(p)
    <3>1. Logged' = Logged
      BY <2>1, CommittedStays, OnlyCommitCommits
    <3>. QED BY <3>1, <2>1 DEF AuditTrail
  <2>2. ASSUME NEW p \in Request, Commit(p) PROVE AuditTrail'
    <3>1. /\ pc[p] = "computed" /\ pc' = [pc EXCEPT ![p] = "committed"]
          /\ operation' = operation /\ version' = version + 1
          /\ audit' = IF Audited(operation[p])
                      THEN audit \cup {[request |-> p, version |-> version + 1]} ELSE audit
      BY <2>2 DEF Commit
    <3>2. \A e \in audit : e.request # p /\ e.request \in Request /\ e.version \in Nat /\ e.version <= version
      BY <2>0, <3>1 DEF AuditTrail, Event, Committed
    <3>3. Logged' = IF Audited(operation[p]) THEN Logged \cup {p} ELSE Logged
      BY <3>1 DEF Committed, CASInv, TypeOK
    <3>4. {e.request : e \in audit'} = Logged'
      <4>1. CASE Audited(operation[p])
        <5>1. audit' = audit \cup {[request |-> p, version |-> version + 1]}
          BY <3>1, <4>1
        <5>2. {e.request : e \in audit'} = {e.request : e \in audit} \cup {p}
          BY <5>1, OneMoreRequest
        <5>. QED BY <2>0, <3>3, <4>1, <5>2
      <4>2. CASE ~ Audited(operation[p])
        BY <2>0, <3>1, <3>3, <4>2
      <4>. QED BY <4>1, <4>2
    <3>5. \A e, f \in audit' : (e.version = f.version \/ e.request = f.request) => e = f
      BY <2>0, <3>1, <3>2 DEF AuditTrail
    <3>6. \A e \in audit' : e.version <= version'
      BY <2>0, <3>1, <3>2
    <3>. QED BY <3>4, <3>5, <3>6 DEF AuditTrail
  <2>3. ASSUME \A p \in Request : ~ Commit(p) PROVE UNCHANGED <<version, authority, audit, approved, minted>>
    BY <2>3, RowChanges
  <2>. QED BY <2>1, <2>2, <2>3
<1>. QED BY <1>1, <1>2, CASCorrect, PTL DEF Spec

-----------------------------------------------------------------------------
(* Progress behind a refusal: every conflict a request has met is a commit *)
(* after its arrival.                                                      *)
Contended ==
  \A p \in Request :
    /\ pc[p] = "idle" => attempt[p] = 0
    /\ pc[p] \in Working => version >= origin[p] + attempt[p] /\ attempt[p] < MaxAttempts
    /\ pc[p] \in {"selected", "computed"} => seen[p].version >= origin[p] + attempt[p]
    /\ pc[p] = "busy" => version >= origin[p] + MaxAttempts

LEMMA ContendedStep ==
  ASSUME CASInv, Contended, [Next]_vars
  PROVE  Contended'
<1>. USE DEF CASInv, TypeOK, Working, row, history
<1>0. \A p \in Request : pc[p] \in {"selected", "computed"} =>
        seen[p].version \in Nat /\ seen[p].version <= version
  BY DEF Locals, Fence, Row
<1>1. ASSUME NEW p \in Request, Submit(p) PROVE Contended'
  BY <1>1, ServiceAssumption DEF Submit, Contended
<1>2. ASSUME NEW p \in Request, Select(p) PROVE Contended'
  BY <1>2, ServiceAssumption DEF Select, Contended
<1>3. ASSUME NEW p \in Request, Compute(p) \/ Respond(p) PROVE Contended'
  BY <1>3, ServiceAssumption DEF Compute, Respond, Contended
<1>4. ASSUME NEW p \in Request, Reject(p) \/ Lose(p) PROVE Contended'
  BY <1>4, ServiceAssumption DEF Reject, Lose, Return, Contended
<1>5. ASSUME NEW p \in Request, Commit(p) PROVE Contended'
  BY <1>5, ServiceAssumption DEF Commit, Return, Contended
<1>6. ASSUME NEW p \in Request, Conflict(p) PROVE Contended'
  BY <1>0, <1>6, ServiceAssumption DEF Conflict, Unmoved, Contended
<1>7. CASE Tick \/ UNCHANGED vars
  BY <1>7 DEF Tick, vars, handler, Contended
<1>. QED BY <1>1, <1>2, <1>3, <1>4, <1>5, <1>6, <1>7 DEF Next, Handle

(* A request is refused as busy only after MaxAttempts others committed    *)
(* while it was served.                                                    *)
THEOREM BusyIsContended == Spec => []BusyOnlyUnderContention
<1>1. Init => Contended
  BY ServiceAssumption DEF Init, Contended, Working
<1>2. CASInv /\ Contended /\ [Next]_vars => Contended'
  BY ContendedStep
<1>3. Contended => BusyOnlyUnderContention
  BY DEF Contended, BusyOnlyUnderContention
<1>. QED BY <1>1, <1>2, <1>3, CASCorrect, PTL DEF Spec

-----------------------------------------------------------------------------
(* The limits: every operation counts before it adds.                      *)
WithinLimits(a) == Loadable(a) /\ Cardinality(Issued(a)) <= IssuedLimit

LEMMA SizesAreNat ==
  ASSUME NEW a \in Authority
  PROVE  /\ IsFiniteSet(Pending(a)) /\ Cardinality(Pending(a)) \in Nat
         /\ IsFiniteSet(Receipts(a)) /\ Cardinality(Receipts(a)) \in Nat
         /\ IsFiniteSet(Issued(a)) /\ Cardinality(Issued(a)) \in Nat
BY AuthorityAssumption, FS_Subset, FS_CardinalityType DEF Pending, Receipts, Issued

(* A set that grows by no more than one stays within a limit it was below, *)
(* a set that does not grow within one it did not pass.                    *)
LEMMA RoomForOne ==
  ASSUME NEW S, NEW T, NEW x, NEW n \in Nat, IsFiniteSet(S), T \subseteq S \cup {x},
         Cardinality(S) < n
  PROVE  Cardinality(T) <= n
<1>0. Cardinality(S) \in Nat
  BY FS_CardinalityType
<1>1. /\ IsFiniteSet(S \cup {x})
      /\ Cardinality(S \cup {x}) \in {Cardinality(S), Cardinality(S) + 1}
  BY FS_AddElement, Zenon
<1>2. IsFiniteSet(T) /\ Cardinality(T) <= Cardinality(S \cup {x})
  BY <1>1, FS_Subset
<1>3. Cardinality(T) \in Nat /\ Cardinality(S \cup {x}) \in Nat
  BY <1>1, <1>2, FS_CardinalityType
<1>. QED BY <1>0, <1>1, <1>2, <1>3

LEMMA NoMore ==
  ASSUME NEW S, NEW T, NEW n \in Nat, IsFiniteSet(S), T \subseteq S, Cardinality(S) <= n
  PROVE  Cardinality(T) <= n
<1>1. IsFiniteSet(T) /\ Cardinality(T) <= Cardinality(S)
  BY FS_Subset
<1>2. Cardinality(T) \in Nat /\ Cardinality(S) \in Nat
  BY <1>1, FS_CardinalityType
<1>. QED BY <1>1, <1>2

LEMMA OutcomeWithinLimits ==
  ASSUME NEW o \in Operation, NEW a \in Authority, NEW t \in Int, NEW fresh,
         NEW out \in Outcomes(o, a, t, fresh), WithinLimits(a)
  PROVE  WithinLimits(out.authority)
<1>. DEFINE b == out.authority
<1>0. /\ a.issued \in [Credential -> {"none", "valid", "revoked"}]
      /\ a.offers \in [Challenge -> Offer \cup {None}]
      /\ {OfferLimit, RetryLimit, IssuedLimit} \subseteq Nat
  BY AuthorityAssumption DEF Authority
<1>1. Issued(b) \subseteq Issued(a) => Cardinality(Issued(b)) <= IssuedLimit
  BY <1>0, SizesAreNat, NoMore DEF WithinLimits
<1>2. Pending(b) \subseteq Pending(a) => Cardinality(Pending(b)) <= OfferLimit
  BY <1>0, SizesAreNat, NoMore DEF WithinLimits, Loadable
<1>3. Receipts(b) \subseteq Receipts(a) => Cardinality(Receipts(b)) <= RetryLimit
  BY <1>0, SizesAreNat, NoMore DEF WithinLimits, Loadable
<1>4. CASE Offers(o, a, t, fresh, out) /\ o.kind = "approve"
  <2>1. PICK c \in Challenge :
          b.offers = Put(PruneOffers(a, t).offers, c, NewOffer(o.holder, t))
    BY <1>4 DEF Offers
  <2>2. /\ PruneOffers(a, t) \in Authority
        /\ Cardinality(Pending(PruneOffers(a, t))) < OfferLimit
    BY <1>4, ApproveCase, UpdateTypes DEF Approves, CanApprove
  <2>3. Pending(b) \subseteq Pending(PruneOffers(a, t)) \cup {c}
    BY <2>1, <2>2 DEF Pending, Put, Authority
  <2>4. Cardinality(Pending(b)) <= OfferLimit
    BY <1>0, <2>2, <2>3, SizesAreNat, RoomForOne
  <2>5. Issued(b) \subseteq Issued(a) /\ Receipts(b) \subseteq Receipts(a)
    BY <1>4 DEF Offers, Issued, Receipts
  <2>. QED BY <1>1, <1>3, <2>4, <2>5 DEF WithinLimits, Loadable
<1>5. CASE Resends(o, a, t, out)
  <2>1. /\ b.issued = a.issued /\ b.offers = a.offers
        /\ b.completed = PruneReceipts(a, t).completed
    BY <1>5 DEF Resends
  <2>2. Receipts(b) \subseteq Receipts(a)
    BY <2>1, PrunedReceipts DEF Receipts
  <2>3. Issued(b) \subseteq Issued(a) /\ Pending(b) \subseteq Pending(a)
    BY <2>1 DEF Issued, Pending
  <2>. QED BY <1>1, <1>2, <1>3, <2>2, <2>3 DEF WithinLimits, Loadable
<1>6. CASE Mints(o, a, t, fresh, out)
  <2>. DEFINE p == PruneReceipts(a, t)
  <2>1. PICK k \in Credential :
          /\ o.request \in Enrollment
          /\ CanEnroll(a, o.request, t)
          /\ b.issued = Put(a.issued, k, "valid")
          /\ b.completed =
               Put(p.completed, o.request.challenge, NewReceipt(o.request, t, k))
          /\ b.offers = Put(a.offers, o.request.challenge, None)
    BY <1>6 DEF Mints
  <2>2. p \in Authority /\ p.issued = a.issued
    BY UpdateTypes, PruneEffect
  <2>3. Cardinality(Receipts(p)) < RetryLimit /\ Cardinality(Issued(a)) < IssuedLimit
    BY <2>1, <2>2 DEF CanEnroll, CanIssue, Issued
  <2>4. Receipts(b) \subseteq Receipts(p) \cup {o.request.challenge}
    <3>1. p.completed \in [Challenge -> Receipt \cup {None}]
      BY <2>2 DEF Authority
    <3>. HIDE DEF p
    <3>. QED BY <2>1, <3>1 DEF Receipts, Put
  <2>5. Issued(b) \subseteq Issued(a) \cup {k}
    BY <1>0, <2>1 DEF Issued, Put
  <2>6. Pending(b) \subseteq Pending(a)
    BY <1>0, <2>1 DEF Pending, Put
  <2>7. IsFiniteSet(Receipts(p)) /\ IsFiniteSet(Issued(a))
    BY <2>2, SizesAreNat
  <2>8. Cardinality(Receipts(b)) <= RetryLimit
    <3>1. RetryLimit \in Nat
      BY <1>0
    <3>. QED BY <2>3, <2>4, <2>7, <3>1, RoomForOne, Zenon
  <2>9. Cardinality(Issued(b)) <= IssuedLimit
    BY <1>0, <2>3, <2>5, <2>7, RoomForOne
  <2>. QED BY <1>2, <2>6, <2>8, <2>9 DEF WithinLimits, Loadable
<1>7. CASE Revokes(o, a, out)
  <2>1. /\ b.issued = Put(a.issued, o.cred, "revoked") /\ o.cred \in Issued(a)
        /\ b.offers = a.offers /\ b.completed = a.completed
    BY <1>7 DEF Revokes
  <2>2. Issued(b) \subseteq Issued(a)
    BY <1>0, <2>1 DEF Issued, Put
  <2>3. Pending(b) \subseteq Pending(a) /\ Receipts(b) \subseteq Receipts(a)
    BY <2>1 DEF Pending, Receipts
  <2>. QED BY <1>1, <1>2, <1>3, <2>2, <2>3 DEF WithinLimits, Loadable
<1>8. CASE Leaves(a, out)
  <2>1. /\ Issued(b) \subseteq Issued(a)
        /\ Pending(b) \subseteq Pending(a) /\ Receipts(b) \subseteq Receipts(a)
    BY <1>8 DEF Leaves, Issued, Pending, Receipts
  <2>. QED BY <1>1, <1>2, <1>3, <2>1 DEF WithinLimits, Loadable
<1>. QED BY <1>4, <1>5, <1>6, <1>7, <1>8, OutcomeEffects

(* What is stored can be loaded again.                                     *)
THEOREM StoredStaysLoadable == Spec => []StoredStateLoads
<1>1. Init => StoredStateLoads
  <2>1. /\ Pending(NewAuthority) = {} /\ Receipts(NewAuthority) = {}
        /\ Issued(NewAuthority) = {}
    BY DEF Pending, Receipts, Issued, NewAuthority
  <2>2. {OfferLimit, RetryLimit, IssuedLimit} \subseteq Nat
    BY AuthorityAssumption
  <2>. QED BY <2>1, <2>2, FS_EmptySet DEF Init, StoredStateLoads, Loadable
<1>2. CASInv /\ StoredStateLoads /\ [Next]_vars => StoredStateLoads'
  <2>. SUFFICES ASSUME CASInv, WithinLimits(authority), [Next]_vars
                PROVE  WithinLimits(authority')
    BY DEF StoredStateLoads, WithinLimits, Loadable, Pending, Receipts, Issued
  <2>1. CASE UNCHANGED authority
    BY <2>1
  <2>2. ASSUME NEW p \in Request, Commit(p) PROVE WithinLimits(authority')
    <3>1. draft[p].at \in Int /\ authority \in Authority
      BY <2>2, CommitServes DEF CASInv, TypeOK, Draft
    <3>2. Outcome(draft[p]).authority = authority'
      BY <2>2, CommitServes DEF Outcome
    <3>. QED BY <2>2, <3>1, <3>2, CommitServes, OutcomeWithinLimits
  <2>. QED BY <2>1, <2>2, RowChanges
<1>. QED BY <1>1, <1>2, CASCorrect, PTL DEF Spec

-----------------------------------------------------------------------------
(* What the row says about the past.  An offer and a receipt are those of  *)
(* the holder the operator approved; a receipt stands for a credential     *)
(* registered for its challenge; and what was registered was asked for by  *)
(* a committed request, signed by that holder, whose offer is gone for     *)
(* good and whose receipt stays until it lapses by every clock.            *)
OffersApproved ==
  \A c \in Challenge : authority.offers[c] # None =>
    approved[c] # None /\ authority.offers[c].holder = approved[c]

ReceiptsMinted ==
  \A c \in Challenge : authority.completed[c] # None =>
    /\ authority.completed[c].holder = approved[c]
    /\ \E m \in minted : m.challenge = c /\ m.cred = authority.completed[c].cred

Asked(m) ==
  /\ pc[m.by] \in Committed
  /\ operation[m.by] \in [kind : {"issue"}, request : Enrollment]
  /\ LET r == operation[m.by].request IN
     /\ r.challenge = m.challenge
     /\ r.signer = r.holder /\ ~ r.altered
     /\ r.holder = approved[m.challenge]

Receipted(m) ==
  LET receipt == authority.completed[m.challenge] IN
  /\ receipt # None
  /\ receipt.cred = m.cred
  /\ receipt.holder = approved[m.challenge]
  /\ receipt.until = m.at + RetryTTL

MintedStand ==
  \A m \in minted :
    /\ Asked(m)
    /\ approved[m.challenge] # None
    /\ m.cred \in Issued(authority)
    /\ authority.offers[m.challenge] = None
    /\ now + Skew < m.at + RetryTTL => Receipted(m)

HistInv ==
  /\ Backed(authority)
  /\ OffersApproved /\ ReceiptsMinted /\ MintedStand
  /\ OneCredentialPerChallenge /\ AnswersAreMinted

(* As long as no request commits, only time passes.                        *)
LEMMA HistoryWaits ==
  ASSUME CASInv, HistInv, [Next]_vars, \A p \in Request : ~ Commit(p)
  PROVE  HistInv'
<1>1. UNCHANGED <<version, authority, audit, approved, minted>>
  BY RowChanges
<1>2. now \in Int /\ now' \in Int /\ now <= now'
  <2>1. CASE Tick
    BY <2>1 DEF Tick, CASInv, TypeOK
  <2>2. CASE now' = now
    BY <2>2 DEF CASInv, TypeOK
  <2>. QED BY <2>1, <2>2 DEF Next, Handle, Submit, Select, Compute, Reject, Conflict,
              Respond, Lose, vars
<1>3. \A p \in Request :
        /\ pc'[p] \in Committed <=> pc[p] \in Committed
        /\ pc[p] \in Committed => operation'[p] = operation[p] /\ answer'[p] = answer[p]
  BY CommittedStays, OnlyCommitCommits
<1>4. \A m \in minted : m.by \in Request /\ m.at \in Int /\ Asked(m) /\ Asked(m)'
  BY <1>1, <1>3 DEF HistInv, MintedStand, Asked, CASInv, TypeOK, Minted
<1>5. MintedStand'
  BY <1>1, <1>2, <1>4, ServiceAssumption, AuthorityAssumption
     DEF HistInv, MintedStand, Receipted, Issued
<1>6. AnswersAreMinted'
  BY <1>1, <1>3 DEF HistInv, AnswersAreMinted, Credentialed, Issued
<1>7. Backed(authority)' /\ OffersApproved' /\ ReceiptsMinted' /\ OneCredentialPerChallenge'
  BY <1>1 DEF HistInv, Backed, OffersApproved, ReceiptsMinted, OneCredentialPerChallenge, Issued
<1>. QED BY <1>5, <1>6, <1>7 DEF HistInv

(* What a commit does to the history, by what the operation did.           *)
LEMMA CommitFrame ==
  ASSUME CASInv, NEW p \in Request, Commit(p)
  PROVE  /\ pc[p] = "computed" /\ pc' = [pc EXCEPT ![p] = "committed"]
         /\ now' = now /\ operation' = operation
         /\ answer' = [answer EXCEPT ![p] = draft[p].result]
         /\ draft[p].at \in Int /\ draft[p].at <= now + Skew
         /\ operation[p] \in Operation /\ draft[p].result \in Result
         /\ \/ operation[p].kind = "approve" /\
                 Offers(operation[p], authority, draft[p].at, Unused, Outcome(draft[p]))
            \/ operation[p].kind = "issue" /\
                 Resends(operation[p], authority, draft[p].at, Outcome(draft[p]))
            \/ operation[p].kind = "issue" /\
                 Mints(operation[p], authority, draft[p].at, Unused, Outcome(draft[p]))
            \/ Revokes(operation[p], authority, Outcome(draft[p]))
            \/ Leaves(authority, Outcome(draft[p]))
         /\ Outcome(draft[p]).authority = authority'
         /\ Outcome(draft[p]).result = draft[p].result
<1>1. /\ operation[p] \in Operation /\ draft[p] \in Draft
      /\ draft[p].at \in -Skew .. (now + Skew)
      /\ Outcome(draft[p]) \in Outcomes(operation[p], authority, draft[p].at, Unused)
      /\ authority' = draft[p].authority
  BY CommitServes
<1>2. /\ draft[p].at \in Int /\ draft[p].at <= now + Skew
      /\ draft[p].result \in Result /\ authority \in Authority
  BY <1>1, ServiceAssumption DEF Draft, CASInv, TypeOK
<1>3. /\ Outcome(draft[p]).authority = authority'
      /\ Outcome(draft[p]).result = draft[p].result
  BY <1>1 DEF Outcome
<1>4. /\ pc[p] = "computed" /\ pc' = [pc EXCEPT ![p] = "committed"]
      /\ now' = now /\ operation' = operation
      /\ answer' = [answer EXCEPT ![p] = draft[p].result]
  BY DEF Commit
<1>. QED BY <1>1, <1>2, <1>3, <1>4, OutcomeEffects

Approved(p, c) ==
  LET o == operation[p] IN
  /\ c \in Challenge /\ approved[c] = None /\ o.holder \in Holder
  /\ approved' = [approved EXCEPT ![c] = o.holder]
  /\ minted' = minted
  /\ answer'[p].kind = "offer"
  /\ authority'.issued = authority.issued
  /\ authority'.completed = authority.completed
  /\ authority'.offers =
       Put(PruneOffers(authority, draft[p].at).offers, c, NewOffer(o.holder, draft[p].at))

Resent(p) ==
  LET r == operation[p].request IN
  /\ operation[p].kind = "issue" /\ r \in Enrollment
  /\ CanResume(authority, r, draft[p].at)
  /\ answer'[p] = [kind |-> "credential", cred |-> authority.completed[r.challenge].cred]
  /\ UNCHANGED <<approved, minted>>
  /\ authority'.issued = authority.issued
  /\ authority'.completed = PruneReceipts(authority, draft[p].at).completed
  /\ authority'.offers = authority.offers

Minting(p, k) ==
  LET r == operation[p].request  t == draft[p].at IN
  /\ k \in Credential /\ k \notin Issued(authority)
  /\ operation[p].kind = "issue" /\ r \in Enrollment
  /\ CanEnroll(authority, r, t)
  /\ answer'[p] = [kind |-> "credential", cred |-> k]
  /\ approved' = approved
  /\ minted' = minted \cup {[challenge |-> r.challenge, cred |-> k, by |-> p, at |-> t]}
  /\ authority'.issued = Put(authority.issued, k, "valid")
  /\ authority'.completed =
       Put(PruneReceipts(authority, t).completed, r.challenge, NewReceipt(r, t, k))
  /\ authority'.offers = Put(authority.offers, r.challenge, None)

Administered(p) ==
  /\ answer'[p].kind \in {"ok", "status"}
  /\ UNCHANGED <<approved, minted>>
  /\ Issued(authority') = Issued(authority)
  /\ authority'.completed = authority.completed
  /\ authority'.offers = authority.offers

LEMMA CommitCases ==
  ASSUME CASInv, Backed(authority), NEW p \in Request, Commit(p)
  PROVE  \/ \E c \in Challenge : Approved(p, c)
         \/ Resent(p)
         \/ \E k \in Credential : Minting(p, k)
         \/ Administered(p)
<1>. DEFINE o == operation[p]
            t == draft[p].at
            r == draft[p].result
<1>1. /\ o \in Operation /\ r \in Result /\ t \in Int
      /\ answer'[p] = r
      /\ Outcome(draft[p]).authority = authority' /\ Outcome(draft[p]).result = r
      /\ authority \in Authority
  BY CommitFrame DEF CASInv, TypeOK
<1>2. /\ approved' = IF r.kind = "offer"
                     THEN [approved EXCEPT ![r.challenge] = o.holder] ELSE approved
      /\ minted' = IF r.kind = "credential" /\ r.cred \notin Issued(authority)
                   THEN minted \cup {[challenge |-> o.request.challenge, cred |-> r.cred,
                                      by |-> p, at |-> t]}
                   ELSE minted
  BY DEF Commit, IsFirstIssue, MintedBy
<1>3. CASE Offers(o, authority, t, Unused, Outcome(draft[p]))
  <2>1. PICK c \in Challenge :
          /\ c \in Unused
          /\ o.holder \in Holder
          /\ r = [kind |-> "offer", challenge |-> c]
          /\ authority'.issued = authority.issued
          /\ authority'.completed = authority.completed
          /\ authority'.offers = Put(PruneOffers(authority, t).offers, c, NewOffer(o.holder, t))
    BY <1>1, <1>3 DEF Offers
  <2>2. approved[c] = None
    BY <2>1, UnusedIsNew
  <2>3. Approved(p, c)
    BY <1>1, <1>2, <2>1, <2>2 DEF Approved
  <2>. QED BY <2>3
<1>4. CASE o.kind = "issue" /\ Resends(o, authority, t, Outcome(draft[p]))
  <2>. DEFINE k == authority.completed[o.request.challenge].cred
  <2>1. /\ o.request \in Enrollment
        /\ CanResume(authority, o.request, t)
        /\ r = [kind |-> "credential", cred |-> k]
        /\ authority'.issued = authority.issued
        /\ authority'.completed = PruneReceipts(authority, t).completed
        /\ authority'.offers = authority.offers
    BY <1>1, <1>4 DEF Resends
  <2>2. k \in Issued(authority)
    BY <1>1, <2>1, PrunedReceipts DEF CanResume, Backed, Enrollment
  <2>3. approved' = approved /\ minted' = minted
    BY <1>2, <2>1, <2>2, SMTT(30)
  <2>. QED BY <1>1, <1>4, <2>1, <2>3 DEF Resent
<1>5. CASE o.kind = "issue" /\ Mints(o, authority, t, Unused, Outcome(draft[p]))
  <2>1. PICK k \in Credential :
          /\ k \in Unused
          /\ o.request \in Enrollment
          /\ CanEnroll(authority, o.request, t)
          /\ r = [kind |-> "credential", cred |-> k]
          /\ authority'.issued = Put(authority.issued, k, "valid")
          /\ authority'.completed =
               Put(PruneReceipts(authority, t).completed, o.request.challenge,
                   NewReceipt(o.request, t, k))
          /\ authority'.offers = Put(authority.offers, o.request.challenge, None)
    BY <1>1, <1>5 DEF Mints
  <2>2. k \notin Issued(authority)
    BY <2>1, UnusedIsNew
  <2>3. Minting(p, k)
    BY <1>1, <1>2, <1>5, <2>1, <2>2 DEF Minting
  <2>. QED BY <2>3
<1>6. CASE Revokes(o, authority, Outcome(draft[p]))
  <2>1. /\ o.cred \in Issued(authority)
        /\ r = [kind |-> "ok"]
        /\ authority'.issued = Put(authority.issued, o.cred, "revoked")
        /\ authority'.completed = authority.completed
        /\ authority'.offers = authority.offers
    BY <1>1, <1>6 DEF Revokes
  <2>2. Issued(authority') = Issued(authority)
    BY <1>1, <2>1 DEF Issued, Put, Authority
  <2>. QED BY <1>1, <1>2, <2>1, <2>2 DEF Administered
<1>7. CASE Leaves(authority, Outcome(draft[p]))
  <2>1. /\ r.kind \in {"ok", "status"}
        /\ authority'.issued = authority.issued
        /\ authority'.completed = authority.completed
        /\ authority'.offers = authority.offers
    BY <1>1, <1>7 DEF Leaves
  <2>2. Issued(authority') = Issued(authority)
    BY <2>1 DEF Issued
  <2>. QED BY <1>1, <1>2, <2>1, <2>2 DEF Administered
<1>. QED BY <1>3, <1>4, <1>5, <1>6, <1>7, CommitFrame

(* What no commit disturbs of the history.                                 *)
LEMMA CommitKeepsAsked ==
  ASSUME CASInv, HistInv, NEW p \in Request, Commit(p)
  PROVE  /\ \A m \in minted :
              /\ m \in Minted /\ m.by # p /\ approved[m.challenge] \in Holder
              /\ pc'[m.by] \in Committed /\ operation'[m.by] = operation[m.by]
         /\ \A q \in Request :
              /\ q # p => pc'[q] = pc[q] /\ answer'[q] = answer[q]
              /\ q = p => pc[q] \notin Committed
<1>1. /\ pc[p] = "computed" /\ pc' = [pc EXCEPT ![p] = "committed"]
      /\ operation' = operation /\ answer' = [answer EXCEPT ![p] = draft[p].result]
      /\ "computed" \notin Committed
  BY CommitFrame DEF Committed
<1>2. \A m \in minted : m \in Minted /\ m.by \in Request /\ m.challenge \in Challenge
                        /\ pc[m.by] \in Committed /\ approved[m.challenge] # None
  BY DEF HistInv, MintedStand, Asked, CASInv, TypeOK, Minted
<1>. QED BY <1>1, <1>2 DEF CASInv, TypeOK

LEMMA ApprovedHist ==
  ASSUME CASInv, HistInv, NEW p \in Request, Commit(p), NEW c \in Challenge, Approved(p, c)
  PROVE  OffersApproved' /\ ReceiptsMinted' /\ MintedStand'
         /\ OneCredentialPerChallenge' /\ AnswersAreMinted'
<1>. DEFINE t == draft[p].at
            h == operation[p].holder
<1>1. /\ approved[c] = None /\ h \in Holder
      /\ approved' = [approved EXCEPT ![c] = h]
      /\ minted' = minted
      /\ answer'[p].kind = "offer"
      /\ authority'.issued = authority.issued
      /\ authority'.completed = authority.completed
      /\ authority'.offers = Put(PruneOffers(authority, t).offers, c, NewOffer(h, t))
      /\ now' = now /\ operation' = operation
  BY CommitFrame DEF Approved
<1>2. PruneOffers(authority, t) \in Authority /\ t \in Int
  BY CommitFrame, UpdateTypes DEF CASInv, TypeOK
<1>3. \A d \in Challenge : /\ approved'[d] = IF d = c THEN h ELSE approved[d]
                           /\ authority'.offers[d] =
                                IF d = c THEN NewOffer(h, t)
                                ELSE PruneOffers(authority, t).offers[d]
  BY <1>1, <1>2 DEF Put, Authority, CASInv, TypeOK
<1>4. \A d \in Challenge : PruneOffers(authority, t).offers[d] \in {None, authority.offers[d]}
  BY DEF PruneOffers, CASInv, TypeOK, Authority
<1>5. OffersApproved'
  BY <1>1, <1>3, <1>4, AuthorityAssumption DEF HistInv, OffersApproved, NewOffer
<1>6. \A m \in minted : m.challenge \in Challenge /\ m.challenge # c
  BY <1>1 DEF HistInv, MintedStand, CASInv, TypeOK, Minted
<1>7. ReceiptsMinted'
  BY <1>1, <1>3, <1>6 DEF HistInv, ReceiptsMinted
<1>8. \A m \in minted : Asked(m)'
  BY <1>1, <1>3, <1>6, CommitKeepsAsked DEF HistInv, MintedStand, Asked
<1>9. MintedStand'
  BY <1>1, <1>3, <1>4, <1>6, <1>8 DEF HistInv, MintedStand, Receipted, Issued
<1>10. OneCredentialPerChallenge'
  BY <1>1 DEF HistInv, OneCredentialPerChallenge
<1>11. AnswersAreMinted'
  <2>. SUFFICES ASSUME NEW q \in Request, Credentialed(q)'
                PROVE  /\ operation[q].request.signer = approved'[operation[q].request.challenge]
                       /\ answer'[q].cred \in Issued(authority')
                       /\ \E m \in minted' : m.challenge = operation[q].request.challenge
                                             /\ m.cred = answer'[q].cred
    BY <1>1 DEF AnswersAreMinted, Issued
  <2>1. q # p /\ Credentialed(q) /\ answer'[q] = answer[q]
    BY <1>1, CommitKeepsAsked DEF Credentialed
  <2>2. /\ operation[q].request.signer = approved[operation[q].request.challenge]
        /\ answer[q].cred \in Issued(authority)
        /\ \E m \in minted : m.challenge = operation[q].request.challenge
                             /\ m.cred = answer[q].cred
    BY <2>1 DEF HistInv, AnswersAreMinted
  <2>3. operation[q].request.challenge \in Challenge /\ operation[q].request.challenge # c
    BY <1>6, <2>2
  <2>. QED BY <1>1, <1>3, <2>1, <2>2, <2>3 DEF Issued
<1>. QED BY <1>5, <1>7, <1>9, <1>10, <1>11

LEMMA AdministeredHist ==
  ASSUME CASInv, HistInv, NEW p \in Request, Commit(p), Administered(p)
  PROVE  OffersApproved' /\ ReceiptsMinted' /\ MintedStand'
         /\ OneCredentialPerChallenge' /\ AnswersAreMinted'
<1>1. /\ UNCHANGED <<approved, minted, now, operation>>
      /\ answer'[p].kind \in {"ok", "status"}
      /\ Issued(authority') = Issued(authority)
      /\ authority'.completed = authority.completed
      /\ authority'.offers = authority.offers
  BY CommitFrame DEF Administered
<1>2. OffersApproved' /\ ReceiptsMinted' /\ OneCredentialPerChallenge'
  BY <1>1 DEF HistInv, OffersApproved, ReceiptsMinted, OneCredentialPerChallenge
<1>3. \A m \in minted : Asked(m)'
  BY <1>1, CommitKeepsAsked DEF HistInv, MintedStand, Asked
<1>4. MintedStand'
  BY <1>1, <1>3 DEF HistInv, MintedStand, Receipted
<1>5. AnswersAreMinted'
  BY <1>1, CommitKeepsAsked DEF HistInv, AnswersAreMinted, Credentialed
<1>. QED BY <1>2, <1>4, <1>5

(* A receipt that can still be retried by some clock survives the pruning. *)
LEMMA ReceiptKept ==
  ASSUME CASInv, HistInv, NEW p \in Request, Commit(p), NEW m \in minted,
         now + Skew < m.at + RetryTTL
  PROVE  PruneReceipts(authority, draft[p].at).completed[m.challenge]
           = authority.completed[m.challenge]
<1>. DEFINE t == draft[p].at
<1>1. t \in Int /\ t <= now + Skew /\ now \in Int /\ Skew \in Int
  BY CommitFrame, ServiceAssumption DEF CASInv, TypeOK
<1>2. m.challenge \in Challenge /\ m.at \in Int /\ RetryTTL \in Int
  BY AuthorityAssumption DEF CASInv, TypeOK, Minted
<1>3. /\ authority.completed[m.challenge] # None
      /\ authority.completed[m.challenge].until = m.at + RetryTTL
  BY DEF HistInv, MintedStand, Receipted
<1>4. ~ (authority.completed[m.challenge].until <= t)
  BY <1>1, <1>2, <1>3
<1>. QED BY <1>1, <1>2, <1>3, <1>4, PrunedReceipts DEF CASInv, TypeOK

LEMMA ResentHist ==
  ASSUME CASInv, HistInv, NEW p \in Request, Commit(p), Resent(p)
  PROVE  OffersApproved' /\ ReceiptsMinted' /\ MintedStand'
         /\ OneCredentialPerChallenge' /\ AnswersAreMinted'
<1>. DEFINE t == draft[p].at
            r == operation[p].request
            c == r.challenge
            receipt == authority.completed[c]
<1>1. /\ UNCHANGED <<approved, minted, now, operation>>
      /\ r \in Enrollment /\ CanResume(authority, r, t)
      /\ answer'[p] = [kind |-> "credential", cred |-> receipt.cred]
      /\ authority'.issued = authority.issued
      /\ authority'.completed = PruneReceipts(authority, t).completed
      /\ authority'.offers = authority.offers
  BY CommitFrame DEF Resent
<1>2. \A d \in Challenge :
        PruneReceipts(authority, t).completed[d] \in {None, authority.completed[d]}
  BY CommitFrame, PrunedReceipts DEF CASInv, TypeOK
<1>3. OffersApproved' /\ ReceiptsMinted' /\ OneCredentialPerChallenge'
  BY <1>1, <1>2 DEF HistInv, OffersApproved, ReceiptsMinted, OneCredentialPerChallenge
<1>4. \A m \in minted : Asked(m)'
  BY <1>1, CommitKeepsAsked DEF HistInv, MintedStand, Asked
<1>5. MintedStand'
  BY <1>1, <1>4, ReceiptKept DEF HistInv, MintedStand, Receipted, Issued
<1>6. /\ c \in Challenge /\ receipt # None
      /\ receipt.holder = r.holder /\ r.signer = r.holder
  BY <1>1, <1>2 DEF CanResume, Enrollment
<1>7. /\ receipt.holder = approved[c] /\ receipt.cred \in Issued(authority)
      /\ \E m \in minted : m.challenge = c /\ m.cred = receipt.cred
  BY <1>6 DEF HistInv, ReceiptsMinted, Backed
<1>8. AnswersAreMinted'
  <2>. SUFFICES ASSUME NEW q \in Request, Credentialed(q)'
                PROVE  /\ operation[q].request.signer = approved[operation[q].request.challenge]
                       /\ answer'[q].cred \in Issued(authority)
                       /\ \E m \in minted : m.challenge = operation[q].request.challenge
                                             /\ m.cred = answer'[q].cred
    BY <1>1 DEF AnswersAreMinted, Issued
  <2>1. CASE q = p
    BY <1>1, <1>6, <1>7, <2>1
  <2>2. CASE q # p
    BY <2>2, CommitKeepsAsked DEF HistInv, AnswersAreMinted, Credentialed
  <2>. QED BY <2>1, <2>2
<1>. QED BY <1>3, <1>5, <1>8

LEMMA MintingHist ==
  ASSUME CASInv, HistInv, NEW p \in Request, Commit(p), NEW k \in Credential, Minting(p, k)
  PROVE  OffersApproved' /\ ReceiptsMinted' /\ MintedStand'
         /\ OneCredentialPerChallenge' /\ AnswersAreMinted'
<1>. DEFINE t == draft[p].at
            r == operation[p].request
            c == r.challenge
            b == PruneReceipts(authority, t)
<1>. PICK n : n = [challenge |-> c, cred |-> k, by |-> p, at |-> t]
  OBVIOUS
<1>0. n.challenge = c /\ n.cred = k /\ n.by = p /\ n.at = t
  OBVIOUS
<1>1. /\ UNCHANGED <<approved, now, operation>>
      /\ k \notin Issued(authority)
      /\ operation[p].kind = "issue" /\ operation[p] \in Operation
      /\ r \in Enrollment /\ CanEnroll(authority, r, t)
      /\ answer'[p] = [kind |-> "credential", cred |-> k]
      /\ minted' = minted \cup {n}
      /\ authority'.issued = Put(authority.issued, k, "valid")
      /\ authority'.completed = Put(b.completed, c, NewReceipt(r, t, k))
      /\ authority'.offers = Put(authority.offers, c, None)
      /\ t \in Int
  BY CommitFrame DEF Minting
<1>2. b \in Authority /\ b.offers = authority.offers /\ c \in Challenge
  BY <1>1, UpdateTypes, PruneEffect DEF CASInv, TypeOK, Enrollment
<1>3. /\ authority.offers[c] # None
      /\ authority.offers[c].holder \in {None, r.holder}
      /\ r.signer = r.holder /\ ~ r.altered
  BY <1>1, <1>2 DEF CanEnroll, CanIssue
<1>4. approved[c] # None /\ approved[c] = r.holder
  BY <1>2, <1>3 DEF HistInv, OffersApproved
<1>5. \A m \in minted : m.challenge # c /\ m.challenge \in Challenge /\ m.by # p
  BY <1>3, CommitKeepsAsked DEF HistInv, MintedStand, Minted
<1>6. \A d \in Challenge :
        /\ authority'.offers[d] = IF d = c THEN None ELSE authority.offers[d]
        /\ authority'.completed[d] = IF d = c THEN NewReceipt(r, t, k) ELSE b.completed[d]
        /\ b.completed[d] \in {None, authority.completed[d]}
  <2>1. b.completed \in [Challenge -> Receipt \cup {None}]
    BY <1>2 DEF Authority
  <2>2. authority.offers \in [Challenge -> Offer \cup {None}]
    BY DEF Authority, CASInv, TypeOK
  <2>3. \A d \in Challenge : b.completed[d] \in {None, authority.completed[d]}
    BY <1>1, PrunedReceipts DEF CASInv, TypeOK
  <2>. HIDE DEF b
  <2>. QED BY <1>1, <2>1, <2>2, <2>3 DEF Put
<1>7. Issued(authority') = Issued(authority) \cup {k}
  BY <1>1 DEF Issued, Put, Authority, CASInv, TypeOK
<1>8. /\ NewReceipt(r, t, k) # None
      /\ NewReceipt(r, t, k).holder = r.holder
      /\ NewReceipt(r, t, k).cred = k
      /\ NewReceipt(r, t, k).until = t + RetryTTL
  BY <1>1, NewReceiptFields
<1>9. OffersApproved'
  BY <1>1, <1>6 DEF HistInv, OffersApproved
<1>. HIDE DEF b
<1>10. ReceiptsMinted'
  <2>. SUFFICES ASSUME NEW d \in Challenge, authority'.completed[d] # None
                PROVE  /\ authority'.completed[d].holder = approved[d]
                       /\ \E m \in minted' : m.challenge = d
                                             /\ m.cred = authority'.completed[d].cred
    BY <1>1 DEF ReceiptsMinted
  <2>1. CASE d = c
    <3>1. n \in minted' /\ n.challenge = c /\ n.cred = k
      BY <1>1
    <3>. QED BY <1>4, <1>6, <1>8, <2>1, <3>1
  <2>2. CASE d # c
    BY <1>1, <1>6, <2>2 DEF HistInv, ReceiptsMinted
  <2>. QED BY <2>1, <2>2
<1>11. OneCredentialPerChallenge'
  BY <1>1, <1>5 DEF HistInv, OneCredentialPerChallenge
<1>12. \A m \in minted : Asked(m)'
  BY <1>1, CommitKeepsAsked DEF HistInv, MintedStand, Asked
<1>13. Asked(n)'
  <2>1. pc'[p] \in Committed
    BY CommitFrame DEF Committed, CASInv, TypeOK
  <2>2. operation[p] \in [kind : {"issue"}, request : Enrollment]
    BY <1>1 DEF Operation
  <2>. QED BY <1>0, <1>1, <1>3, <1>4, <2>1, <2>2 DEF Asked
<1>14. Receipted(n)'
  <2>1. authority'.completed[c] = NewReceipt(r, t, k)
    BY <1>2, <1>6
  <2>. QED BY <1>0, <1>1, <1>4, <1>8, <2>1 DEF Receipted
<1>15. MintedStand'
  <2>. SUFFICES ASSUME NEW m \in minted'
                PROVE  /\ Asked(m)'
                       /\ approved[m.challenge] # None
                       /\ m.cred \in Issued(authority')
                       /\ authority'.offers[m.challenge] = None
                       /\ now + Skew < m.at + RetryTTL => Receipted(m)'
    BY <1>1 DEF MintedStand, Issued
  <2>1. CASE m = n
    <3>1. authority'.offers[c] = None
      BY <1>2, <1>6
    <3>. QED BY <1>0, <1>4, <1>7, <1>13, <1>14, <2>1, <3>1 DEF Asked, Receipted
  <2>2. CASE m \in minted
    <3>1. now + Skew < m.at + RetryTTL => b.completed[m.challenge] = authority.completed[m.challenge]
      BY <2>2, ReceiptKept DEF b
    <3>. QED BY <1>1, <1>5, <1>6, <1>7, <1>12, <2>2, <3>1 DEF HistInv, MintedStand, Receipted
  <2>. QED BY <1>1, <2>1, <2>2
<1>16. AnswersAreMinted'
  <2>. SUFFICES ASSUME NEW q \in Request, Credentialed(q)'
                PROVE  /\ operation[q].request.signer = approved[operation[q].request.challenge]
                       /\ answer'[q].cred \in Issued(authority')
                       /\ \E m \in minted' : m.challenge = operation[q].request.challenge
                                             /\ m.cred = answer'[q].cred
    BY <1>1 DEF AnswersAreMinted, Issued
  <2>1. CASE q = p
    <3>1. n \in minted'
      BY <1>1
    <3>2. answer'[q].cred = k /\ operation[q].request = r
      BY <1>1, <2>1
    <3>. QED BY <1>0, <1>3, <1>4, <1>7, <3>1, <3>2
  <2>2. CASE q # p
    BY <1>1, <1>7, <2>2, CommitKeepsAsked DEF HistInv, AnswersAreMinted, Credentialed
  <2>. QED BY <2>1, <2>2
<1>. QED BY <1>9, <1>10, <1>11, <1>15, <1>16

LEMMA NextHist == CASInv /\ HistInv /\ [Next]_vars => HistInv'
<1>. SUFFICES ASSUME CASInv, HistInv, [Next]_vars PROVE HistInv'
  OBVIOUS
<1>1. CASE \A p \in Request : ~ Commit(p)
  BY <1>1, HistoryWaits
<1>2. ASSUME NEW p \in Request, Commit(p) PROVE HistInv'
  <2>1. Backed(authority')
    <3>1. draft[p].at \in Int /\ authority \in Authority /\ Backed(authority)
      BY <1>2, CommitServes DEF CASInv, TypeOK, Draft, HistInv
    <3>2. Outcome(draft[p]).authority = authority'
      BY <1>2, CommitServes DEF Outcome
    <3>. QED BY <1>2, <3>1, <3>2, CommitServes, OutcomeBacked
  <2>2. Backed(authority)
    BY DEF HistInv
  <2>3. OffersApproved' /\ ReceiptsMinted' /\ MintedStand'
        /\ OneCredentialPerChallenge' /\ AnswersAreMinted'
    BY <1>2, <2>2, CommitCases, ApprovedHist, ResentHist, MintingHist, AdministeredHist
  <2>4. Backed(authority)'
    BY <2>1 DEF Backed, Issued
  <2>. QED BY <2>3, <2>4 DEF HistInv
<1>. QED BY <1>1, <1>2

LEMMA InitHist == Init => HistInv
BY DEF Init, HistInv, Backed, OffersApproved, ReceiptsMinted, MintedStand, NewAuthority,
       OneCredentialPerChallenge, AnswersAreMinted, Credentialed, Committed

(* The row and the history agree: offers, receipts and credentials are     *)
(* those of the holder approved for their challenge.                       *)
THEOREM HistoryHolds == Spec => []HistInv
<1>. QED BY InitHist, NextHist, CASCorrect, PTL DEF Spec

(* At most one credential is ever registered for a challenge.              *)
THEOREM OneCredential == Spec => []OneCredentialPerChallenge
<1>1. HistInv => OneCredentialPerChallenge
  BY DEF HistInv
<1>. QED BY <1>1, HistoryHolds, PTL

(* Every credential handed out is registered for the challenge of the      *)
(* request and went to the holder approved for it.                         *)
THEOREM AnswersMinted == Spec => []AnswersAreMinted
<1>1. HistInv => AnswersAreMinted
  BY DEF HistInv
<1>. QED BY <1>1, HistoryHolds, PTL

LEMMA OneResult ==
  ASSUME NEW a, NEW r
  PROVE  {out.result : out \in {[authority |-> a, result |-> r]}} = {r}
<1>. DEFINE x == [authority |-> a, result |-> r]
<1>1. x.result = r
  OBVIOUS
<1>. HIDE DEF x
<1>2. {out.result : out \in {x}} = {r}
  BY <1>1
<1>. QED BY <1>2 DEF x

(* A retry in time gets the same credential, whatever the server's clock   *)
(* and the date of its proof, unless that is ahead of the server's clock:  *)
(* then it gets nothing.                                                   *)
THEOREM RetryReturns == Spec => []RetryReturnsCredential
<1>1. CASInv /\ HistInv => RetryReturnsCredential
  <2>. SUFFICES ASSUME CASInv, HistInv, NEW m \in minted,
                       now + Skew < m.at + RetryTTL,
                       authority.active, m.cred \in Active(authority),
                       NEW t \in Clock, NEW h \in HolderDate
                PROVE  {out.result : out \in Outcomes(Retry(m, h), authority, t, Fresh)}
                         = {r \in {[kind |-> "credential", cred |-> m.cred]} : h <= t}
    BY DEF RetryReturnsCredential
  <2>. DEFINE o == Retry(m, h)
              r == operation[m.by].request
              c == m.challenge
              b == PruneReceipts(authority, t)
              given == [kind |-> "credential", cred |-> m.cred]
  <2>1. /\ now \in Int /\ Skew \in Nat /\ m.at \in Int /\ RetryTTL \in Int
        /\ c \in Challenge /\ m.cred \in Credential /\ authority \in Authority
    BY ServiceAssumption, AuthorityAssumption DEF CASInv, TypeOK, Minted
  <2>2. t \in Int /\ h \in Int /\ ~ (m.at + RetryTTL <= t)
    BY <2>1 DEF Clock, HolderDate
  <2>3. /\ operation[m.by] \in [kind : {"issue"}, request : Enrollment]
        /\ r.challenge = c /\ r.signer = r.holder /\ ~ r.altered
        /\ r.holder = approved[c]
    BY DEF HistInv, MintedStand, Asked
  <2>4. /\ authority.completed[c] # None
        /\ authority.completed[c].cred = m.cred
        /\ authority.completed[c].holder = r.holder
        /\ authority.completed[c].until = m.at + RetryTTL
    BY <2>3 DEF HistInv, MintedStand, Receipted
  <2>5. b.completed[c] = authority.completed[c]
    BY <2>1, <2>2, <2>4, PrunedReceipts
  <2>6. /\ o.kind = "issue" /\ o.request.challenge = c /\ o.request.signer = o.request.holder
        /\ o.request.holder = r.holder /\ ~ o.request.altered /\ o.request.createdAt = h
    BY <2>2, <2>3 DEF Enrollment, Retry
  <2>7. authority.issued[m.cred] = "valid"
    BY DEF Active
  <2>. HIDE DEF o, b, r, given
  <2>8. CanResume(authority, o.request, t) <=> h <= t
    BY <2>4, <2>5, <2>6, <2>7 DEF CanResume, b
  <2>9. EnrollOutcomes(o, authority, t, Fresh) = {}
    BY <2>4, <2>5, <2>6 DEF EnrollOutcomes, CanEnroll, b
  <2>10. Outcomes(o, authority, t, Fresh) = ResumeOutcomes(o, authority, t)
    BY <2>6, <2>9 DEF Outcomes
  <2>11. CASE h <= t
    <3>1. ResumeOutcomes(o, authority, t) = {[authority |-> b, result |-> given]}
      BY <2>1, <2>4, <2>6, <2>8, <2>11 DEF ResumeOutcomes, b, given
    <3>2. {out.result : out \in Outcomes(o, authority, t, Fresh)} = {given}
      BY <2>10, <3>1, OneResult
    <3>. QED BY <2>11, <3>2 DEF o, given
  <2>12. CASE ~ (h <= t)
    <3>1. ResumeOutcomes(o, authority, t) = {}
      BY <2>8, <2>12 DEF ResumeOutcomes
    <3>2. {out.result : out \in Outcomes(o, authority, t, Fresh)} = {}
      BY <2>10, <3>1
    <3>. QED BY <2>12, <3>2 DEF o
  <2>. QED BY <2>11, <2>12
<1>. QED BY <1>1, CASCorrect, HistoryHolds, PTL
=============================================================================

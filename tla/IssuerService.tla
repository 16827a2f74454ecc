---------------------------- MODULE IssuerService ----------------------------
(***************************************************************************)
(* The hosted issuer: request handlers, on any number of server replicas,  *)
(* each running PostgresStorage.withIssuer around one operation of the     *)
(* authority (integrations/issuance/src/postgres.ts) on behalf of          *)
(* apps/web/app/api/issuance/route.ts.                                     *)
(*                                                                         *)
(* The authority lives in one database row with a version.  A handler      *)
(* reads the row, decrypts it, runs the operation in memory, encrypts the  *)
(* outcome and writes it back if the version has not moved; else it starts *)
(* over, at most MaxAttempts times.  Between any two of these steps other  *)
(* handlers run, time passes, or the handler is lost: a crash, a query     *)
(* timeout, a response that never arrives.  A client that got no answer    *)
(* may ask again: that is another request.                                 *)
(***************************************************************************)
EXTENDS IssuerAuthority

CONSTANTS
  Request,      \* the HTTP requests ever made; each is handled once
  Skew,         \* how far a server's clock may be off the reference clock
  MaxAttempts,  \* compare-and-swap attempts of one request (5)
  MaxOpen,      \* model bound: the requests in progress at once
  MaxTime       \* model bound: the last second of the reference clock

ASSUME ServiceAssumption ==
  /\ Skew \in Nat /\ MaxAttempts \in Nat \ {0}
  /\ MaxOpen \in Nat /\ MaxTime \in Nat
  /\ None \notin Operation \cup Result

VARIABLES
  now,        \* the reference clock
  version,    \* veilpass_authority.version
  authority,  \* veilpass_authority.encrypted, decrypted
  audit,      \* the rows of veilpass_audit
  pc,         \* where each request's handler is
  operation,  \* what the request asks
  attempt,    \* failed compare-and-swaps of the request so far
  seen,       \* the row the handler read
  draft,      \* the outcome it computed and has not written
  answer,     \* the result of a request whose write was committed
  approved,   \* history: the holder a committed offer was approved for
  minted,     \* history: the credentials issued, by which request, when
  origin      \* history: the version when the request arrived

row     == <<version, authority, audit>>
handler == <<pc, operation, attempt, seen, draft, answer>>
history == <<approved, minted, origin>>
vars    == <<now, row, handler, history>>

Committed == {"committed", "answered", "unanswered"}
Refused   == {"rejected", "busy", "lost"}
Working   == {"queued", "selected", "computed"}

Row    == [version : Nat, authority : Authority]
Draft  == [authority : Authority, result : Result, at : Int]
Minted == [challenge : Challenge, cred : Credential, by : Request, at : Int]
Event  == [request : Request, version : Nat]

TypeOK ==
  /\ now \in Nat
  /\ version \in Nat
  /\ authority \in Authority
  /\ audit \subseteq Event
  /\ pc \in [Request -> {"idle"} \cup Working \cup Committed \cup Refused]
  /\ operation \in [Request -> Operation \cup {None}]
  /\ attempt \in [Request -> Nat]
  /\ seen \in [Request -> Row \cup {None}]
  /\ draft \in [Request -> Draft \cup {None}]
  /\ answer \in [Request -> Result \cup {None}]
  /\ approved \in [Challenge -> Holder \cup {None}]
  /\ minted \subseteq Minted
  /\ origin \in [Request -> Nat]

(* The row as bootstrap leaves it: a new authority at version 1.           *)
Init ==
  /\ now = 0
  /\ version = 1
  /\ authority = NewAuthority
  /\ audit = {}
  /\ pc        = [p \in Request |-> "idle"]
  /\ operation = [p \in Request |-> None]
  /\ attempt   = [p \in Request |-> 0]
  /\ seen      = [p \in Request |-> None]
  /\ draft     = [p \in Request |-> None]
  /\ answer    = [p \in Request |-> None]
  /\ approved  = [c \in Challenge |-> None]
  /\ minted    = {}
  /\ origin    = [p \in Request |-> 0]

(* What a machine's clock may show.                                        *)
Clock == (now - Skew) .. (now + Skew)

Tick ==
  /\ now < MaxTime
  /\ now' = now + 1
  /\ UNCHANGED <<row, handler, history>>

-----------------------------------------------------------------------------
(* What a client can ask.  The route insists on a holder for an approval;  *)
(* nobody can name a challenge or a credential before it was drawn; an     *)
(* enrollment proof is dated by the holder's own clock.                    *)

Offered == {c \in Challenge : approved[c] # None}

Approvals   == [kind : {"approve"}, holder : Holder]
Enrollments ==
  [kind : {"issue"},
   request : [challenge : Offered, holder : Holder, signer : Holder,
              altered : BOOLEAN, createdAt : Clock]]
Revocations == [kind : {"revoke"}, cred : Issued(authority)]
Others      == [kind : {"deactivate", "read"}]

Submit(p) ==
  /\ pc[p] = "idle"
  /\ Cardinality({q \in Request : pc[q] \in Working}) < MaxOpen
  /\ \E o \in Approvals \cup Enrollments \cup Revocations \cup Others :
       operation' = [operation EXCEPT ![p] = o]
  /\ pc' = [pc EXCEPT ![p] = "queued"]
  /\ origin' = [origin EXCEPT ![p] = version]
  /\ UNCHANGED <<now, row, attempt, seen, draft, answer, approved, minted>>

(* The handler's locals go out of scope.                                   *)
Return(p) ==
  /\ attempt' = [attempt EXCEPT ![p] = 0]
  /\ seen' = [seen EXCEPT ![p] = None]
  /\ draft' = [draft EXCEPT ![p] = None]
  /\ origin' = [origin EXCEPT ![p] = 0]

(* SELECT version, encrypted: then the handler awaits the decryption.      *)
Select(p) ==
  /\ pc[p] = "queued"
  /\ pc' = [pc EXCEPT ![p] = "selected"]
  /\ seen' = [seen EXCEPT ![p] = [version |-> version, authority |-> authority]]
  /\ UNCHANGED <<now, row, operation, attempt, draft, answer, history>>

(* Random values are new: neither in the database nor in a handler's hands. *)
Drawn == {c \in Challenge : approved[c] # None} \cup Issued(authority)

Held == UNION {Draws(draft[q].result) : q \in {q \in Request : draft[q] # None}}

Fresh == (Challenge \cup Credential) \ (Drawn \cup Held)

(* The synchronous operation on the row as read, by the server's clock;    *)
(* then the handler awaits the encryption of the outcome.                  *)
Compute(p) ==
  /\ pc[p] = "selected"
  /\ \E t \in Clock : \E out \in Outcomes(operation[p], seen[p].authority, t, Fresh) :
       draft' = [draft EXCEPT ![p] =
                   [authority |-> out.authority, result |-> out.result, at |-> t]]
  /\ pc' = [pc EXCEPT ![p] = "computed"]
  /\ UNCHANGED <<now, row, operation, attempt, seen, answer, history>>

(* The operation throws: nothing is written.                               *)
Reject(p) ==
  /\ pc[p] = "selected"
  /\ \E t \in Clock : ~ Accepts(operation[p], seen[p].authority, t)
  /\ pc' = [pc EXCEPT ![p] = "rejected"]
  /\ Return(p)
  /\ UNCHANGED <<now, row, operation, answer, approved, minted>>

(* GET requests pass no audit argument.                                    *)
Audited(o) == o.kind # "read"

IsFirstIssue(d) ==
  d.result.kind = "credential" /\ d.result.cred \notin Issued(authority)

MintedBy(p, d) ==
  [challenge |-> operation[p].request.challenge, cred |-> d.result.cred,
   by |-> p, at |-> d.at]

(* Mutant: the update does not compare versions.                           *)
LastWriterWins(p) == seen[p].version <= version

(* UPDATE ... WHERE version = seen: the state and its audit row in one     *)
(* statement.                                                              *)
Unmoved(p) == seen[p].version = version

Commit(p) ==
  /\ pc[p] = "computed"
  /\ Unmoved(p)
  /\ version' = version + 1
  /\ authority' = draft[p].authority
  /\ audit' = IF Audited(operation[p])
              THEN audit \cup {[request |-> p, version |-> version']} ELSE audit
  /\ pc' = [pc EXCEPT ![p] = "committed"]
  /\ answer' = [answer EXCEPT ![p] = draft[p].result]
  /\ Return(p)
  /\ approved' = IF draft[p].result.kind = "offer"
                 THEN [approved EXCEPT ![draft[p].result.challenge] = operation[p].holder]
                 ELSE approved
  /\ minted' = IF IsFirstIssue(draft[p])
               THEN minted \cup {MintedBy(p, draft[p])} ELSE minted
  /\ UNCHANGED <<now, operation>>

(* Mutant: the audit row is inserted whether or not the update happened.   *)
LoggingConflict(p) ==
  /\ pc[p] = "computed"
  /\ ~ Unmoved(p)
  /\ audit' = audit \cup {[request |-> p, version |-> version]}
  /\ pc' = [pc EXCEPT ![p] = "busy"]
  /\ UNCHANGED <<now, version, authority, operation, attempt, seen, draft, answer, history>>

(* Mutant: one attempt too few.                                            *)
HastyConflict(p) ==
  /\ pc[p] = "computed"
  /\ ~ Unmoved(p)
  /\ attempt' = [attempt EXCEPT ![p] = attempt[p] + 1]
  /\ pc' = [pc EXCEPT ![p] = IF attempt[p] + 2 < MaxAttempts THEN "queued" ELSE "busy"]
  /\ seen' = [seen EXCEPT ![p] = None]
  /\ draft' = [draft EXCEPT ![p] = None]
  /\ UNCHANGED <<now, row, operation, answer, history>>

(* Mutant: the handler tries the same write again.                         *)
StubbornConflict(p) ==
  /\ pc[p] = "computed"
  /\ ~ Unmoved(p)
  /\ UNCHANGED vars

(* The row moved on: no row is updated and no audit row inserted.  The     *)
(* handler reads again, or gives up after its last attempt.                *)
Conflict(p) ==
  /\ pc[p] = "computed"
  /\ ~ Unmoved(p)
  /\ attempt' = [attempt EXCEPT ![p] = attempt[p] + 1]
  /\ pc' = [pc EXCEPT ![p] = IF attempt[p] + 1 < MaxAttempts THEN "queued" ELSE "busy"]
  /\ seen' = [seen EXCEPT ![p] = None]
  /\ draft' = [draft EXCEPT ![p] = None]
  /\ UNCHANGED <<now, row, operation, answer, history>>

Respond(p) ==
  /\ pc[p] = "committed"
  /\ pc' = [pc EXCEPT ![p] = "answered"]
  /\ UNCHANGED <<now, row, operation, attempt, seen, draft, answer, history>>

(* The handler dies, a query times out or the response is lost.  What was  *)
(* committed stays committed; the client cannot tell.                      *)
Lose(p) ==
  /\ pc[p] \in Working \cup {"committed"}
  /\ pc' = [pc EXCEPT ![p] = IF pc[p] = "committed" THEN "unanswered" ELSE "lost"]
  /\ Return(p)
  /\ UNCHANGED <<now, row, operation, answer, approved, minted>>

Handle(p) ==
  Select(p) \/ Compute(p) \/ Reject(p) \/ Commit(p) \/ Conflict(p) \/ Respond(p)

Next == Tick \/ \E p \in Request : Submit(p) \/ Handle(p) \/ Lose(p)

Spec == Init /\ [][Next]_vars

(* A handler that has a request keeps running: every await is on a query   *)
(* with a statement timeout or on local cryptography.  Clients, clocks and *)
(* failures owe nothing.                                                   *)
Fairness == \A p \in Request : WF_vars(Handle(p))
FairSpec == Spec /\ Fairness

-----------------------------------------------------------------------------
(* Properties.                                                             *)

Credentialed(p) == pc[p] \in Committed /\ answer[p].kind = "credential"

(* However often an enrollment is sent, on however many replicas, whatever *)
(* is lost and whenever receipts lapse: at most one credential is ever     *)
(* registered for a challenge.                                             *)
OneCredentialPerChallenge ==
  \A m, n \in minted : m.challenge = n.challenge => m = n

(* A credential handed out is the one registered for the request's         *)
(* challenge, and the request was signed by the holder the operator        *)
(* approved: no result of an operation whose write did not commit escapes, *)
(* and nobody enrolls with, or recovers, another holder's offer.           *)
AnswersAreMinted ==
  \A p \in Request : Credentialed(p) =>
    LET r == operation[p].request IN
    /\ r.signer = approved[r.challenge]
    /\ answer[p].cred \in Issued(authority)
    /\ \E m \in minted : m.challenge = r.challenge /\ m.cred = answer[p].cred

(* Concurrent writers never undo each other: a revoked credential stays    *)
(* revoked, a registered one registered, a deactivated issuer inactive.    *)
StatusNeverRollsBack ==
  [][/\ Issued(authority) \subseteq Issued(authority')
     /\ \A k \in Credential :
          authority.issued[k] = "revoked" => authority'.issued[k] = "revoked"
     /\ ~ authority.active => ~ authority'.active]_vars

(* When a credential is handed out, first time or on a retry, no           *)
(* deactivation and no revocation of it has been committed: not before the *)
(* handler read the row, and not between that read and its write, nor does *)
(* the write take one back.                                                *)
NoRevokedAnswer ==
  [][\A p \in Request :
       Credentialed(p)' /\ ~ Credentialed(p) =>
         /\ authority.active /\ authority.issued[answer'[p].cred] # "revoked"
         /\ authority'.active /\ answer'[p].cred \in Active(authority')]_vars

(* The same enrollment, proved again by the same holder at date h.         *)
Retry(m, h) == [operation[m.by] EXCEPT !.request.createdAt = h]

(* Every date a holder's clock has shown so far.                           *)
HolderDate == (0 - Skew) .. (now + Skew)

(* For RetryTTL seconds after an issuance that may have gone unanswered,   *)
(* by the fastest clock, and unless the credential was revoked or the      *)
(* issuer deactivated: whichever server's clock decides and whenever the   *)
(* holder's clock dated the proof, a retry gets that credential if its     *)
(* proof is not dated after the server's clock.  A proof from a clock that *)
(* is ahead of the server's is refused until that clock reaches its date;  *)
(* it never gets anything else.                                            *)
RetryReturnsCredential ==
  \A m \in minted :
    (/\ now + Skew < m.at + RetryTTL
     /\ authority.active
     /\ m.cred \in Active(authority)) =>
      \A t \in Clock, h \in HolderDate :
        {out.result : out \in Outcomes(Retry(m, h), authority, t, Fresh)}
          = {r \in {[kind |-> "credential", cred |-> m.cred]} : h <= t}

(* The audit trail is exactly what happened: one event for every mutating  *)
(* request that took effect, none for one that was refused, lost before    *)
(* its commit or had to start over, and no two events for one version.     *)
AuditTrail ==
  /\ \A e, f \in audit : (e.version = f.version \/ e.request = f.request) => e = f
  /\ {e.request : e \in audit}
       = {p \in Request : pc[p] \in Committed /\ Audited(operation[p])}
  /\ \A e \in audit : e.version <= version

(* A request answers "busy" only if the row moved under each of its        *)
(* attempts: other requests made progress, so the service as a whole did.  *)
BusyOnlyUnderContention ==
  \A p \in Request : pc[p] = "busy" => version >= origin[p] + MaxAttempts

(* What is stored can be loaded again: no interleaving of handlers brings  *)
(* the state over the limits fromState enforces, or the status records     *)
(* over the capacity of the registry.                                      *)
StoredStateLoads ==
  Loadable(authority) /\ Cardinality(Issued(authority)) <= IssuedLimit

(* Every request ends: answered, refused, or lost.                         *)
EveryRequestEnds ==
  \A p \in Request : pc[p] = "queued" ~> pc[p] \notin Working \cup {"idle", "committed"}

-----------------------------------------------------------------------------
(* The hosted issuer is an atomic service: a request takes effect when its *)
(* write commits, and an answer lost afterwards changes nothing.           *)

AbstractPhase(p) ==
  CASE pc[p] = "idle"       -> "idle"
    [] pc[p] \in Working    -> "open"
    [] pc[p] \in Committed  -> "served"
    [] pc[p] \in Refused    -> "refused"

Atomic == INSTANCE AtomicService
  WITH Value    <- Challenge \cup Credential,
       NewState <- NewAuthority,
       state    <- authority,
       drawn    <- Drawn,
       phase    <- [p \in Request |-> AbstractPhase(p)]

AtomicSpec == Atomic!Spec
=============================================================================

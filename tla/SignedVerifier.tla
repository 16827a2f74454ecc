---------------------------- MODULE SignedVerifier ----------------------------
(***************************************************************************)
(* The independent verifier (integrations/issuance/src/verifier.ts) with   *)
(* its challenge store (challenge-store.ts, PostgresChallengeStore in      *)
(* postgres.ts), reading the ledger through an indexer                     *)
(* (midnight-adapter.ts).                                                  *)
(*                                                                         *)
(* A call of verify awaits four answers: the challenge, the authorization, *)
(* the current state, the consumption.  Between them other calls run, on   *)
(* this server or another over the same store, time passes and the ledger  *)
(* moves on; and each answer of the indexer may be old.                    *)
(***************************************************************************)
EXTENDS AuthorizationLedger, FiniteSets

CONSTANTS
  Call,       \* the calls of verify ever made
  Unset,      \* nothing yet
  MaxTTL,     \* the longest lifetime of a challenge (300)
  MaxAge,     \* the oldest state a verifier decides on (30)
  Tolerance,  \* how far ahead of its clock it lets a block be (5)
  Retention,  \* seconds an expired challenge stays in Postgres (86400)
  Hosted      \* TRUE: PostgresChallengeStore, FALSE: SqliteChallengeStore

ASSUME VerifierAssumption ==
  /\ MaxTTL \in Nat \ {0} /\ MaxAge \in Nat /\ Tolerance \in Nat /\ Retention \in Nat
  /\ Hosted \in BOOLEAN
  /\ Unset \notin Challenge

VARIABLES
  challenge, \* the challenges built: when they were issued and expire
  row,       \* their rows in the store
  pc,        \* where each call of verify is
  target,    \* the challenge it presents
  found,     \* the authorization the indexer confirmed to it
  decided,   \* when it compared that authorization with the current state
  spentAt    \* history: when it consumed the challenge

calls == <<pc, target, found, decided, spentAt>>
verifierVars  == <<now, ledger, challenge, row, calls>>

Built == [issuedAt : Nat, expiresAt : Nat]

Spent == {"spent", "accepted", "unanswered"}

VerifierTypeOK ==
  /\ LedgerTypeOK
  /\ challenge \in [Challenge -> Built \cup {Unset}]
  /\ row \in [Challenge -> {"none", "open", "used", "deleted"}]
  /\ pc \in [Call -> {"idle", "asked", "loaded", "matched", "current", "refused"} \cup Spent]
  /\ target \in [Call -> Challenge \cup {Unset}]
  /\ found \in [Call -> Authorization \cup {Unset}]
  /\ decided \in [Call -> Nat]
  /\ spentAt \in [Call -> Nat]

VerifierInit ==
  /\ LedgerInit
  /\ challenge = [c \in Challenge |-> Unset]
  /\ row       = [c \in Challenge |-> "none"]
  /\ pc        = [v \in Call |-> "idle"]
  /\ target    = [v \in Call |-> Unset]
  /\ found     = [v \in Call |-> Unset]
  /\ decided   = [v \in Call |-> 0]
  /\ spentAt   = [v \in Call |-> 0]

-----------------------------------------------------------------------------
(* The environment: the clock, the chain, the administrator, the holders.  *)

Time == Tick /\ UNCHANGED <<challenge, row, calls>>

(* A holder can only answer a challenge it was given, but may sign any     *)
(* deadline.                                                               *)
Chain ==
  /\ \/ EmptyBlock
     \/ \E root \in SUBSET Credential : PublishStatus(root)
     \/ Deactivate
     \/ \E c \in {d \in Challenge : row[d] # "none"}, k \in Credential :
          \E deadline \in 1 .. (MaxTime + MaxTTL) : Authorize(c, deadline, k)
  /\ UNCHANGED <<challenge, row, calls>>

-----------------------------------------------------------------------------
(* Any head, however old, may be what the indexer answers.                 *)
Heads == DOMAIN heads

Earlier(t, u) == IF t < u THEN t ELSE u

(* currentState refuses a head from the future; a head counts as observed  *)
(* at its block's time, or now if that is ahead.                           *)
Readable(h) == heads[h].time <= now + Tolerance

ObservedAt(h) == Earlier(heads[h].time, now)

(* Mutant: the age of the state is not looked at.                          *)
AgelessFresh(h) == Readable(h) /\ heads[h].active

Fresh(h) ==
  /\ Readable(h)
  /\ now - ObservedAt(h) <= MaxAge
  /\ heads[h].active

(* createChallenge: the state must be fresh; then the challenge is built   *)
(* and its insertion awaited.                                              *)
BuildChallenge(c) ==
  /\ challenge[c] = Unset
  /\ \E h \in Heads : Fresh(h)
  /\ \E ttl \in 1 .. MaxTTL :
       challenge' = [challenge EXCEPT ![c] = [issuedAt |-> now, expiresAt |-> now + ttl]]
  /\ UNCHANGED <<now, ledger, row, calls>>

Lapsed(c) ==
  /\ Hosted
  /\ row[c] \in {"open", "used"}
  /\ challenge[c].expiresAt + Retention < now

(* put: Postgres first deletes the challenges that expired long ago.       *)
PutChallenge(c) ==
  /\ challenge[c] # Unset
  /\ row[c] = "none"
  /\ row' = [d \in Challenge |->
               IF d = c THEN "open" ELSE IF Lapsed(d) THEN "deleted" ELSE row[d]]
  /\ UNCHANGED <<now, ledger, challenge, calls>>

-----------------------------------------------------------------------------
(* verify.                                                                 *)

(* Anyone may present any challenge they were given, as often as they like. *)
Present(v) ==
  /\ pc[v] = "idle"
  /\ \E c \in {d \in Challenge : row[d] # "none"} : target' = [target EXCEPT ![v] = c]
  /\ pc' = [pc EXCEPT ![v] = "asked"]
  /\ UNCHANGED <<now, ledger, challenge, row, found, decided, spentAt>>

Stored(c) == row[c] \in {"open", "used"}

Live(c) == challenge[c].issuedAt <= now /\ now < challenge[c].expiresAt

(* store.get returns the challenge whether or not it was used.             *)
Load(v) ==
  /\ pc[v] = "asked"
  /\ Stored(target[v]) /\ Live(target[v])
  /\ pc' = [pc EXCEPT ![v] = "loaded"]
  /\ UNCHANGED <<now, ledger, challenge, row, target, found, decided, spentAt>>

(* auth.requestKey = requestKeyV3(challenge).                              *)
Matches(a, c) == a.challenge = c /\ a.deadline = challenge[c].expiresAt

(* The transaction presented is a confirmed call of authorize for this     *)
(* very request; its snapshot is the state that call left.                 *)
Match(v) ==
  /\ pc[v] = "loaded"
  /\ \E a \in authorizations :
       Matches(a, target[v]) /\ found' = [found EXCEPT ![v] = a]
  /\ pc' = [pc EXCEPT ![v] = "matched"]
  /\ UNCHANGED <<now, ledger, challenge, row, target, decided, spentAt>>

SameStatus(h, a) ==
  /\ heads[h].root = heads[a.head].root
  /\ heads[h].version = heads[a.head].version
  /\ heads[a.head].active

(* The current state is fresh and is the one the authorization was proved  *)
(* against, and the challenge has not expired meanwhile.                   *)
Compare(v) ==
  /\ pc[v] = "matched"
  /\ now < challenge[target[v]].expiresAt
  /\ \E h \in Heads : Fresh(h) /\ SameStatus(h, found[v])
  /\ decided' = [decided EXCEPT ![v] = now]
  /\ pc' = [pc EXCEPT ![v] = "current"]
  /\ UNCHANGED <<now, ledger, challenge, row, target, found, spentAt>>

(* Mutant: the update does not look at the row it updates.                 *)
ReusableConsumable(c) == Stored(c)

(* Mutant: Postgres does not look at the expiry.                           *)
TimelessConsumable(c) == row[c] = "open"

(* UPDATE ... SET used WHERE id = c AND used = 0; Postgres adds AND        *)
(* expires_at > clock_timestamp().                                         *)
Consumable(c) ==
  /\ row[c] = "open"
  /\ Hosted => now < challenge[c].expiresAt

Consume(v) ==
  /\ pc[v] = "current"
  /\ Consumable(target[v])
  /\ row' = [row EXCEPT ![target[v]] = "used"]
  /\ pc' = [pc EXCEPT ![v] = "spent"]
  /\ spentAt' = [spentAt EXCEPT ![v] = now]
  /\ UNCHANGED <<now, ledger, challenge, target, found, decided>>

Accept(v) ==
  /\ pc[v] = "spent"
  /\ pc' = [pc EXCEPT ![v] = "accepted"]
  /\ UNCHANGED <<now, ledger, challenge, row, target, found, decided, spentAt>>

(* Mutant: a call that cannot answer gives its challenge back.             *)
RefundingGiveUp(v) ==
  /\ pc[v] \in {"asked", "loaded", "matched", "current", "spent"}
  /\ row' = IF pc[v] = "spent" THEN [row EXCEPT ![target[v]] = "open"] ELSE row
  /\ pc' = [pc EXCEPT ![v] = IF pc[v] = "spent" THEN "unanswered" ELSE "refused"]
  /\ UNCHANGED <<now, ledger, challenge, target, found, decided, spentAt>>

(* verify throws: the challenge is unknown, expired or used, nothing fits, *)
(* or the indexer or the store does not answer.  The server may also stop  *)
(* at any moment; the consumption, if it happened, stands.                 *)
GiveUp(v) ==
  /\ pc[v] \in {"asked", "loaded", "matched", "current", "spent"}
  /\ pc' = [pc EXCEPT ![v] = IF pc[v] = "spent" THEN "unanswered" ELSE "refused"]
  /\ UNCHANGED <<now, ledger, challenge, row, target, found, decided, spentAt>>

Verify(v) ==
  Present(v) \/ Load(v) \/ Match(v) \/ Compare(v) \/ Consume(v) \/ Accept(v) \/ GiveUp(v)

VerifierNext ==
  \/ Time \/ Chain
  \/ \E c \in Challenge : BuildChallenge(c) \/ PutChallenge(c)
  \/ \E v \in Call : Verify(v)

VerifierSpec == VerifierInit /\ [][VerifierNext]_verifierVars

-----------------------------------------------------------------------------
(* Properties.                                                             *)

(* A challenge is spent at most once, however many calls race for it on    *)
(* however many servers, and whatever becomes of its row: a call whose     *)
(* server stops after the consumption spends it too, and nobody after it.  *)
AcceptedOnce ==
  \A v, w \in Call :
    pc[v] \in Spent /\ pc[w] \in Spent /\ target[v] = target[w] => v = w

(* The heads a decision must have taken into account.                      *)
SettledBefore(t) == {i \in Heads : heads[i].time < t - MaxAge}

(* What an accepted authorization shows is current but for MaxAge seconds: *)
(* no status root published and no deactivation sealed more than MaxAge    *)
(* before the decision is missed, so a credential then out of the          *)
(* published registry is not accepted.                                     *)
NoStaleAcceptance ==
  \A v \in Call : pc[v] \in Spent =>
    /\ found[v].cred \in heads[found[v].head].root
    /\ \A i \in SettledBefore(decided[v]) :
         /\ heads[i].active
         /\ heads[i].version <= heads[found[v].head].version
         /\ i >= found[v].head => found[v].cred \in heads[i].root

(* An acceptance answers its challenge in time: the block that holds the   *)
(* authorization, the decision and, with Postgres, the consumption come    *)
(* before the challenge expires, and the decision before the credential    *)
(* does.                                                                   *)
AcceptedInTime ==
  \A v \in Call : pc[v] \in Spent =>
    LET expiry == challenge[target[v]].expiresAt IN
    /\ heads[found[v].head].time < expiry
    /\ decided[v] < expiry
    /\ Hosted => spentAt[v] < expiry
    /\ decided[v] < ValidUntil[found[v].cred]

-----------------------------------------------------------------------------
(* The verifier is a one-shot gate: the presentation that is answered      *)
(* yes is the only one of its challenge.                                   *)

Given  == {c \in Challenge : row[c] # "none"}
Backed == {c \in Given : \E a \in authorizations : Matches(a, c)}

Verdict(v) ==
  CASE pc[v] = "accepted"                   -> "accepted"
    [] pc[v] \in {"refused", "unanswered"} -> "refused"
    [] OTHER                                -> "none"

Gate == INSTANCE OneShotGate
  WITH None <- Unset, given <- Given, backed <- Backed, presented <- target,
       verdict <- [v \in Call |-> Verdict(v)]

(* Whatever calls race, whatever servers stop and whatever rows are        *)
(* purged, a call of verify ends as the gate's: decided once, accepted     *)
(* only for a challenge the ledger answers, and alone.                     *)
GateSpec == Gate!Spec
=============================================================================

---------------------------- MODULE NetworkProofs ----------------------------
(***************************************************************************)
(* The contract on the network and the two that go by it, for any number   *)
(* of credentials and heads.                                               *)
(*                                                                         *)
(* The verifier, for any number of calls and challenges, every lifetime,   *)
(* age and drift, and both stores: what it accepts was authorized in time, *)
(* under a status that still stood, and once.                              *)
(*                                                                         *)
(* The operator's commands, for any number of runs, processes and          *)
(* administration keys.  The publish command: its records are truthful     *)
(* whenever it dies, and a revocation it confirmed holds for an operator   *)
(* who reconciles.  The deployment: what a wallet was handed is what the   *)
(* record names, and is administered by the keys in the file.  The         *)
(* acceptance run leaves no valid credential behind.                       *)
(***************************************************************************)
EXTENDS PreprodOperator, SignedVerifier, TLAPS

-----------------------------------------------------------------------------
(* The ledger.                                                             *)

(* Time and version never decrease, inactivity is final and the root       *)
(* changes only with the version.                                          *)
Follows(g, h) ==
  /\ g.time <= h.time
  /\ g.version <= h.version
  /\ h.active => g.active
  /\ g.version = h.version => g.root = h.root

Ordered == \A i, j \in Heads : i <= j => Follows(heads[i], heads[j])

(* An authorization is in its place on the ledger.                         *)
Anchored(a) ==
  /\ a.head \in Heads
  /\ a.cred \in heads[a.head].root
  /\ heads[a.head].time < a.deadline
  /\ a.deadline <= ValidUntil[a.cred]

LedgerInv == LedgerTypeOK /\ Ordered /\ \A a \in authorizations : Anchored(a)

(* A step of the ledger seals a head that follows the last one.            *)
Sealed ==
  \E head \in State : heads' = Append(heads, head) /\ Follows(Last, head)

LEMMA LastIsHead ==
  ASSUME LedgerTypeOK
  PROVE  Len(heads) \in Heads /\ Last \in State /\ Heads = 1 .. Len(heads) /\ Len(heads) \in Nat
BY DEF LedgerTypeOK, Last, Heads

LEMMA SealedKeeps ==
  ASSUME LedgerTypeOK, Sealed
  PROVE  /\ heads' \in Seq(State) /\ heads' # <<>>
         /\ Heads' = 1 .. (Len(heads) + 1)
         /\ \A i \in Heads : i \in Heads' /\ heads'[i] = heads[i]
<1>1. PICK head \in State : heads' = Append(heads, head)
  BY DEF Sealed
<1>. QED BY <1>1, LastIsHead DEF LedgerTypeOK, Heads

LEMMA SealedOrdered ==
  ASSUME LedgerTypeOK, Ordered, Sealed
  PROVE  Ordered'
<1>1. PICK head \in State : heads' = Append(heads, head) /\ Follows(Last, head)
  BY DEF Sealed
<1>2. heads \in Seq(State) /\ Len(heads) \in Nat /\ Len(heads) \in Heads
      /\ Heads = 1 .. Len(heads) /\ Last \in State
  BY LastIsHead DEF LedgerTypeOK
<1>3. Heads' = 1 .. (Len(heads) + 1)
  BY SealedKeeps
<1>4. \A i \in Heads : heads'[i] = heads[i] /\ heads[i] \in State
  BY <1>2, SealedKeeps
<1>5. heads'[Len(heads) + 1] = head
  BY <1>1, <1>2
<1>6. \A i \in Heads : Follows(heads[i], Last)
  BY <1>2 DEF Ordered, Last
<1>7. \A i \in Heads : Follows(heads[i], head)
  BY <1>1, <1>2, <1>4, <1>6 DEF Follows, State
<1>8. Follows(head, head)
  BY <1>1 DEF Follows, State
<1>9. ASSUME NEW i \in Heads', NEW j \in Heads', i <= j
      PROVE  Follows(heads'[i], heads'[j])
  <2>1. CASE j \in Heads
    <3>1. i \in Heads
      BY <1>2, <1>3, <1>9, <2>1
    <3>. QED BY <1>4, <1>9, <2>1, <3>1 DEF Ordered
  <2>2. CASE j = Len(heads) + 1 /\ i \in Heads
    BY <1>4, <1>5, <1>7, <2>2
  <2>3. CASE j = Len(heads) + 1 /\ i = Len(heads) + 1
    BY <1>5, <1>8, <2>3
  <2>. QED BY <1>2, <1>3, <2>1, <2>2, <2>3
<1>. QED BY <1>9 DEF Ordered

LEMMA SealedPlaced ==
  ASSUME LedgerTypeOK, Sealed, NEW a, Anchored(a)
  PROVE  Anchored(a)'
BY SealedKeeps DEF Anchored

LEMMA LedgerInitInv == LedgerInit => LedgerInv
<1>. SUFFICES ASSUME LedgerInit PROVE LedgerInv
  OBVIOUS
<1>1. PICK root \in SUBSET Credential :
        heads = <<[time |-> 0, active |-> TRUE, root |-> root, version |-> 0]>>
  BY DEF LedgerInit
<1>2. heads \in Seq(State) /\ heads # <<>> /\ Heads = {1} /\ heads[1] \in State
  BY <1>1 DEF State, Heads
<1>3. Ordered
  BY <1>2 DEF Ordered, Follows, State
<1>. QED BY <1>2, <1>3 DEF LedgerInit, LedgerInv, LedgerTypeOK

(* A head made from the last one follows it.                               *)
LEMMA NextHead ==
  ASSUME NEW s \in State, NEW t \in Nat, s.time <= t, NEW root \in SUBSET Credential
  PROVE  /\ [s EXCEPT !.time = t] \in State
         /\ Follows(s, [s EXCEPT !.time = t])
         /\ [s EXCEPT !.time = t].root = s.root
         /\ [s EXCEPT !.time = t].time = t
         /\ [s EXCEPT !.time = t, !.active = FALSE] \in State
         /\ Follows(s, [s EXCEPT !.time = t, !.active = FALSE])
         /\ [s EXCEPT !.time = t, !.root = root, !.version = s.version + 1] \in State
         /\ Follows(s, [s EXCEPT !.time = t, !.root = root, !.version = s.version + 1])
<1>1. /\ [s EXCEPT !.time = t] \in State
      /\ [s EXCEPT !.time = t].time = t
      /\ [s EXCEPT !.time = t].active = s.active
      /\ [s EXCEPT !.time = t].root = s.root
      /\ [s EXCEPT !.time = t].version = s.version
  BY DEF State
<1>2. \A r \in State :
        /\ [r EXCEPT !.active = FALSE] \in State
        /\ ~ [r EXCEPT !.active = FALSE].active
        /\ [r EXCEPT !.active = FALSE].time = r.time
        /\ [r EXCEPT !.active = FALSE].root = r.root
        /\ [r EXCEPT !.active = FALSE].version = r.version
  BY DEF State
<1>3. \A r \in State :
        /\ [r EXCEPT !.root = root] \in State
        /\ [r EXCEPT !.root = root].active = r.active
        /\ [r EXCEPT !.root = root].time = r.time
        /\ [r EXCEPT !.root = root].version = r.version
  BY DEF State
<1>10. \A r \in State, n \in Nat :
        /\ [r EXCEPT !.version = n] \in State
        /\ [r EXCEPT !.version = n].active = r.active
        /\ [r EXCEPT !.version = n].time = r.time
        /\ [r EXCEPT !.version = n].version = n
  BY DEF State
<1>4. s.time \in Nat /\ s.version \in Nat
  BY DEF State
<1>5. Follows(s, [s EXCEPT !.time = t])
  BY <1>1, <1>4 DEF Follows
<1>6. Follows(s, [[s EXCEPT !.time = t] EXCEPT !.active = FALSE])
  BY <1>1, <1>2, <1>4 DEF Follows
<1>7. PICK r \in State : r = [[s EXCEPT !.time = t] EXCEPT !.root = root]
  BY <1>1, <1>3
<1>11. r.time = t /\ r.active = s.active
  BY <1>1, <1>3, <1>7
<1>12. PICK n \in Nat : n = s.version + 1
  BY <1>4
<1>13. Follows(s, [r EXCEPT !.version = n])
  <2>1. [r EXCEPT !.version = n].active = s.active
    BY <1>10, <1>11, <1>12
  <2>. QED BY <1>4, <1>10, <1>11, <1>12, <2>1 DEF Follows
<1>8. [s EXCEPT !.time = t, !.active = FALSE] = [[s EXCEPT !.time = t] EXCEPT !.active = FALSE]
  OBVIOUS
<1>9. [s EXCEPT !.time = t, !.root = root, !.version = s.version + 1]
        = [r EXCEPT !.version = n]
  BY <1>7, <1>12
<1>. QED BY <1>1, <1>2, <1>5, <1>6, <1>8, <1>9, <1>10, <1>13, ZenonT(60)

(* Each kind of block, and the authorization of a call.                    *)
LEMMA ChainSeals ==
  ASSUME LedgerTypeOK, Chain
  PROVE  /\ Sealed
         /\ now' = now
         /\ UNCHANGED <<challenge, row, calls>>
         /\ \A a \in authorizations' :
              a \in authorizations \/ (a \in Authorization /\ Anchored(a)')
         /\ authorizations \subseteq authorizations'
<1>0. Last \in State /\ Len(heads) \in Nat /\ heads \in Seq(State) /\ now \in Nat
  BY LastIsHead DEF LedgerTypeOK
<1>1. ASSUME NEW head \in State, Seal(head), Follows(Last, head) PROVE Sealed /\ now' = now
  BY <1>1 DEF Sealed, Seal
<1>2. BlockTime \subseteq {t \in Nat : Last.time <= t}
  BY <1>0, LedgerAssumption DEF BlockTime, State
<1>3. ASSUME NEW t \in BlockTime
      PROVE  t \in Nat /\ Last.time <= t
  BY <1>2
<1>5. CASE EmptyBlock
  <2>1. PICK t \in BlockTime : Seal([Last EXCEPT !.time = t])
    BY <1>5 DEF EmptyBlock
  <2>2. Sealed /\ now' = now
    BY <1>0, <1>1, <1>3, <2>1, NextHead
  <2>. QED BY <1>5, <2>2 DEF EmptyBlock, Chain
<1>6. CASE Deactivate
  <2>1. PICK t \in BlockTime : Seal([Last EXCEPT !.time = t, !.active = FALSE])
    BY <1>6 DEF Deactivate
  <2>2. Sealed /\ now' = now
    BY <1>0, <1>1, <1>3, <2>1, NextHead
  <2>. QED BY <1>6, <2>2 DEF Deactivate, Chain
<1>7. ASSUME NEW root \in SUBSET Credential, PublishStatus(root)
      PROVE  Sealed /\ now' = now /\ authorizations' = authorizations
  <2>1. PICK t \in BlockTime :
          Seal([Last EXCEPT !.time = t, !.root = root, !.version = Last.version + 1])
    BY <1>7 DEF PublishStatus
  <2>2. Sealed /\ now' = now
    BY <1>0, <1>1, <1>3, <2>1, NextHead
  <2>. QED BY <1>7, <2>2 DEF PublishStatus
<1>8. ASSUME NEW c \in Challenge, NEW k \in Credential,
             NEW deadline \in 1 .. (MaxTime + MaxTTL), Authorize(c, deadline, k)
      PROVE  /\ Sealed /\ now' = now
             /\ \A a \in authorizations' :
                  a \in authorizations \/ (a \in Authorization /\ Anchored(a)')
             /\ authorizations \subseteq authorizations'
  <2>1. PICK t \in BlockTime : InWindow(k, deadline, t) /\ Seal([Last EXCEPT !.time = t])
    BY <1>8 DEF Authorize
  <2>. DEFINE head == [Last EXCEPT !.time = t]
  <2>11. PICK a :
           a = [challenge |-> c, deadline |-> deadline, cred |-> k, head |-> Len(heads) + 1]
    OBVIOUS
  <2>2. authorizations' = authorizations \cup {a} /\ k \in Last.root
    BY <1>8, <2>11 DEF Authorize
  <2>3. Sealed /\ now' = now
    BY <1>0, <1>1, <1>3, <2>1, NextHead
  <2>4. heads' = Append(heads, head) /\ head \in State
    BY <1>0, <1>3, <2>1, NextHead DEF Seal
  <2>5. deadline \in Nat
    BY LedgerAssumption, VerifierAssumption
  <2>6. a \in Authorization
    BY <1>0, <2>5, <2>11 DEF Authorization
  <2>7. head.root = Last.root /\ head.time = t
    BY <1>0, <1>3, <2>1, NextHead
  <2>. HIDE DEF head
  <2>10. a.head = Len(heads) + 1 /\ a.cred = k /\ a.deadline = deadline
    BY <2>11
  <2>8. heads'[a.head] = head /\ a.head \in Heads'
    <3>1. heads'[Len(heads) + 1] = head
      BY <1>0, <2>4
    <3>2. Len(heads) + 1 \in Heads'
      BY <1>0, <2>3, SealedKeeps
    <3>. QED BY <2>10, <3>1, <3>2
  <2>9. Anchored(a)'
    BY <2>1, <2>2, <2>7, <2>8, <2>10 DEF Anchored, InWindow
  <2>. QED BY <2>2, <2>3, <2>6, <2>9
<1>. QED BY <1>5, <1>6, <1>7, <1>8 DEF Chain, EmptyBlock, Deactivate

-----------------------------------------------------------------------------
(* The calls of verify.                                                    *)

RowFits(c) == row[c] # "none" => challenge[c] \in Built /\ challenge[c] # Unset

(* What a call has established is still so, whatever happened since: its   *)
(* challenge was stored, its authorization is on the ledger and answers    *)
(* it, and the state it was compared with is a head of the ledger that was *)
(* at most MaxAge old.                                                     *)
Targeted(v) == pc[v] # "idle" => target[v] \in Challenge /\ row[target[v]] # "none"

Found(v) ==
  pc[v] \in {"matched", "current"} \cup Spent =>
    found[v] \in authorizations /\ Matches(found[v], target[v])

Decided(v) ==
  pc[v] \in {"current"} \cup Spent =>
    /\ decided[v] < challenge[target[v]].expiresAt
    /\ \E h \in Heads :
         heads[h].active /\ decided[v] <= heads[h].time + MaxAge /\ SameStatus(h, found[v])

Settled(v) ==
  pc[v] \in Spent =>
    /\ row[target[v]] \in {"used", "deleted"}
    /\ Hosted => spentAt[v] < challenge[target[v]].expiresAt

CallInv(v) == Targeted(v) /\ Found(v) /\ Decided(v) /\ Settled(v)

VInv ==
  /\ VerifierTypeOK
  /\ LedgerInv
  /\ \A c \in Challenge : RowFits(c)
  /\ \A v \in Call : CallInv(v)

(* The ledger only grows.                                                  *)
Grown ==
  /\ \A i \in Heads : i \in Heads' /\ heads'[i] = heads[i]
  /\ authorizations \subseteq authorizations'

(* A challenge keeps what it was built with, and a row that was stored or  *)
(* spent does not become fresh again.                                      *)
Kept(c) ==
  row[c] # "none" =>
    /\ challenge'[c] = challenge[c]
    /\ row'[c] # "none"
    /\ row[c] \in {"used", "deleted"} => row'[c] \in {"used", "deleted"}

Idle(v) ==
  /\ pc'[v] = pc[v] /\ target'[v] = target[v] /\ found'[v] = found[v]
  /\ decided'[v] = decided[v] /\ spentAt'[v] = spentAt[v]

(* Steps of others do not disturb a call.                                  *)
LEMMA Undisturbed ==
  ASSUME VerifierTypeOK, LedgerInv, NEW v \in Call, CallInv(v), Grown,
         \A c \in Challenge : Kept(c), Idle(v)
  PROVE  CallInv(v)'
<1>1. Targeted(v)'
  BY DEF CallInv, Targeted, Idle, Kept
<1>2. Found(v)'
  BY DEF CallInv, Targeted, Found, Idle, Kept, Grown, Matches, Spent
<1>3. Decided(v)'
  <2>. SUFFICES ASSUME pc[v] \in {"current"} \cup Spent
                PROVE  Decided(v)'
    BY DEF Decided, Idle
  <2>1. /\ target[v] \in Challenge /\ row[target[v]] # "none"
        /\ challenge'[target[v]] = challenge[target[v]]
    BY DEF CallInv, Targeted, Kept, Spent
  <2>2. PICK h \in Heads :
          heads[h].active /\ decided[v] <= heads[h].time + MaxAge /\ SameStatus(h, found[v])
    BY DEF CallInv, Decided
  <2>3. found[v].head \in Heads
    BY DEF CallInv, Found, LedgerInv, Anchored, Spent
  <2>4. h \in Heads' /\ heads'[h] = heads[h] /\ heads'[found[v].head] = heads[found[v].head]
    BY <2>3 DEF Grown
  <2>5. SameStatus(h, found[v])'
    BY <2>2, <2>4 DEF SameStatus, Idle
  <2>6. decided[v] < challenge[target[v]].expiresAt
    BY DEF CallInv, Decided
  <2>. QED BY <2>1, <2>2, <2>4, <2>5, <2>6 DEF Decided, Idle
<1>4. Settled(v)'
  BY DEF CallInv, Targeted, Settled, Idle, Kept, Spent
<1>. QED BY <1>1, <1>2, <1>3, <1>4 DEF CallInv

LEMMA LedgerStill ==
  ASSUME LedgerInv, UNCHANGED ledger, now' \in Nat
  PROVE  LedgerInv' /\ Grown
<1>1. heads' = heads /\ authorizations' = authorizations /\ Heads' = Heads
  BY DEF ledger, Heads
<1>. QED BY <1>1 DEF LedgerInv, LedgerTypeOK, Ordered, Anchored, Grown, Follows, Heads

LEMMA ChainGrows ==
  ASSUME LedgerInv, Chain
  PROVE  LedgerInv' /\ Grown
<1>1. LedgerTypeOK /\ Ordered /\ \A a \in authorizations : Anchored(a)
  BY DEF LedgerInv
<1>2. Sealed /\ now' = now /\ authorizations \subseteq authorizations'
  BY <1>1, ChainSeals
<1>3. \A a \in authorizations' : a \in authorizations \/ (a \in Authorization /\ Anchored(a)')
  BY <1>1, ChainSeals
<1>4. /\ heads' \in Seq(State) /\ heads' # <<>>
      /\ \A i \in Heads : i \in Heads' /\ heads'[i] = heads[i]
  BY <1>1, <1>2, SealedKeeps
<1>5. Ordered'
  BY <1>1, <1>2, SealedOrdered
<1>6. \A a \in authorizations' : a \in Authorization /\ Anchored(a)'
  BY <1>1, <1>2, <1>3, SealedPlaced DEF LedgerTypeOK
<1>. QED BY <1>1, <1>2, <1>4, <1>5, <1>6 DEF LedgerInv, LedgerTypeOK, Grown

-----------------------------------------------------------------------------
(* The steps.                                                              *)

(* A step that leaves all calls alone.                                     *)
LEMMA WithoutCalls ==
  ASSUME VInv, LedgerInv', Grown, UNCHANGED calls,
         challenge' \in [Challenge -> Built \cup {Unset}],
         row' \in [Challenge -> {"none", "open", "used", "deleted"}],
         \A c \in Challenge : Kept(c) /\ RowFits(c)'
  PROVE  VInv'
<1>1. VerifierTypeOK'
  BY Zenon DEF VInv, VerifierTypeOK, LedgerInv, calls, Authorization
<1>2. ASSUME NEW v \in Call PROVE CallInv(v)'
  <2>1. Idle(v)
    BY DEF calls, Idle
  <2>. QED BY <2>1, Undisturbed DEF VInv
<1>. QED BY <1>1, <1>2 DEF VInv

LEMMA TimeStep ==
  ASSUME VInv, Time
  PROVE  VInv'
<1>1. LedgerInv' /\ Grown
  BY LedgerStill DEF VInv, LedgerInv, LedgerTypeOK, Time, Tick
<1>2. UNCHANGED <<challenge, row, calls>>
  BY DEF Time
<1>. QED BY <1>1, <1>2, WithoutCalls DEF VInv, VerifierTypeOK, Kept, RowFits

LEMMA ChainStep ==
  ASSUME VInv, Chain
  PROVE  VInv'
<1>1. LedgerInv' /\ Grown
  BY ChainGrows DEF VInv
<1>2. UNCHANGED <<challenge, row, calls>>
  BY DEF Chain
<1>. QED BY <1>1, <1>2, WithoutCalls DEF VInv, VerifierTypeOK, Kept, RowFits

LEMMA BuildStep ==
  ASSUME VInv, NEW c \in Challenge, BuildChallenge(c)
  PROVE  VInv'
<1>1. LedgerInv' /\ Grown
  BY LedgerStill DEF VInv, LedgerInv, LedgerTypeOK, BuildChallenge, ledger
<1>2. PICK ttl \in 1 .. MaxTTL :
        challenge' = [challenge EXCEPT ![c] = [issuedAt |-> now, expiresAt |-> now + ttl]]
  BY DEF BuildChallenge
<1>3. row[c] = "none" /\ row' = row /\ UNCHANGED calls
  BY DEF VInv, RowFits, BuildChallenge
<1>4. [issuedAt |-> now, expiresAt |-> now + ttl] \in Built
  BY VerifierAssumption DEF VInv, LedgerInv, LedgerTypeOK, Built
<1>5. \A d \in Challenge : Kept(d) /\ RowFits(d)'
  BY <1>2, <1>3 DEF VInv, VerifierTypeOK, Kept, RowFits
<1>6. challenge' \in [Challenge -> Built \cup {Unset}]
  BY <1>2, <1>4 DEF VInv, VerifierTypeOK
<1>. QED BY <1>1, <1>3, <1>5, <1>6, WithoutCalls DEF VInv, VerifierTypeOK

LEMMA PutStep ==
  ASSUME VInv, NEW c \in Challenge, PutChallenge(c)
  PROVE  VInv'
<1>1. LedgerInv' /\ Grown
  BY LedgerStill DEF VInv, LedgerInv, LedgerTypeOK, PutChallenge, ledger
<1>2. challenge' = challenge /\ UNCHANGED calls /\ challenge[c] \in Built
  BY DEF VInv, VerifierTypeOK, PutChallenge
<1>3. row' = [d \in Challenge |->
                IF d = c THEN "open" ELSE IF Lapsed(d) THEN "deleted" ELSE row[d]]
  BY DEF PutChallenge
<1>4. row' \in [Challenge -> {"none", "open", "used", "deleted"}]
  BY <1>3 DEF VInv, VerifierTypeOK
<1>5. \A d \in Challenge : Kept(d) /\ RowFits(d)'
  <2>. SUFFICES ASSUME NEW d \in Challenge PROVE Kept(d) /\ RowFits(d)'
    OBVIOUS
  <2>1. row'[d] # "none" => row[d] # "none" \/ d = c
    BY <1>3 DEF Lapsed
  <2>2. RowFits(d)'
    BY <1>2, <2>1 DEF VInv, RowFits, PutChallenge
  <2>3. Kept(d)
    BY <1>2, <1>3 DEF Kept, PutChallenge
  <2>. QED BY <2>2, <2>3
<1>. QED BY <1>1, <1>2, <1>4, <1>5, WithoutCalls DEF VInv, VerifierTypeOK

(* A step of one call leaves the ledger and the challenges alone, the      *)
(* other calls idle and the rows stored.                                   *)
LEMMA OneCall ==
  ASSUME VInv, NEW v \in Call, UNCHANGED <<now, ledger, challenge>>, VerifierTypeOK',
         \A w \in Call \ {v} : Idle(w), \A c \in Challenge : Kept(c) /\ RowFits(c)',
         CallInv(v)'
  PROVE  VInv'
<1>1. LedgerInv' /\ Grown
  BY LedgerStill DEF VInv, LedgerInv, LedgerTypeOK
<1>2. ASSUME NEW w \in Call PROVE CallInv(w)'
  <2>1. CASE w = v
    BY <2>1
  <2>2. CASE w # v
    BY <1>1, <2>2, Undisturbed DEF VInv
  <2>. QED BY <2>1, <2>2
<1>. QED BY <1>1, <1>2 DEF VInv

LEMMA VerifyTypes ==
  ASSUME VInv, NEW v \in Call, Verify(v)
  PROVE  VerifierTypeOK' /\ \A w \in Call \ {v} : Idle(w)
<1>1. VerifierTypeOK /\ (\A a \in authorizations : a \in Authorization) /\ now \in Nat
  BY DEF VInv, VerifierTypeOK, LedgerTypeOK
<1>2. UNCHANGED <<now, ledger, challenge>>
  BY DEF Verify, Present, Load, Match, Compare, Consume, Accept, GiveUp
<1>3. LedgerTypeOK'
  BY <1>1, <1>2 DEF VerifierTypeOK, LedgerTypeOK, ledger
<1>4. CASE Present(v)
  BY <1>1, <1>2, <1>3, <1>4 DEF VerifierTypeOK, Present, Idle, Spent
<1>5. CASE Load(v)
  BY <1>1, <1>2, <1>3, <1>5 DEF VerifierTypeOK, Load, Idle, Spent
<1>6. CASE Match(v)
  BY <1>1, <1>2, <1>3, <1>6 DEF VerifierTypeOK, Match, Idle, Spent
<1>7. CASE Compare(v)
  BY <1>1, <1>2, <1>3, <1>7 DEF VerifierTypeOK, Compare, Idle, Spent
<1>8. CASE Consume(v)
  BY <1>1, <1>2, <1>3, <1>8 DEF VerifierTypeOK, Consume, Idle, Spent
<1>9. CASE Accept(v)
  BY <1>1, <1>2, <1>3, <1>9 DEF VerifierTypeOK, Accept, Idle, Spent
<1>10. CASE GiveUp(v)
  BY <1>1, <1>2, <1>3, <1>10 DEF VerifierTypeOK, GiveUp, Idle, Spent
<1>. QED BY <1>4, <1>5, <1>6, <1>7, <1>8, <1>9, <1>10 DEF Verify

LEMMA VerifyStep ==
  ASSUME VInv, NEW v \in Call, Verify(v)
  PROVE  VInv'
<1>1. VerifierTypeOK' /\ \A w \in Call \ {v} : Idle(w)
  BY VerifyTypes
<1>2. UNCHANGED <<now, ledger, challenge>>
  BY DEF Verify, Present, Load, Match, Compare, Consume, Accept, GiveUp
<1>3. VerifierTypeOK /\ CallInv(v) /\ now \in Nat /\ Heads' = Heads /\ heads' = heads
      /\ authorizations' = authorizations
  BY <1>2 DEF VInv, VerifierTypeOK, LedgerTypeOK, ledger, Heads
<1>4. row' = row => \A c \in Challenge : Kept(c) /\ RowFits(c)'
  BY <1>2 DEF VInv, Kept, RowFits
<1>5. ASSUME Present(v) PROVE CallInv(v)' /\ row' = row
  BY <1>3, <1>5 DEF VerifierTypeOK, Present, CallInv, Targeted, Found, Decided, Settled, Spent
<1>6. ASSUME Load(v) PROVE CallInv(v)' /\ row' = row
  BY <1>3, <1>6 DEF VerifierTypeOK, Load, CallInv, Targeted, Found, Decided, Settled, Spent
<1>7. ASSUME Match(v) PROVE CallInv(v)' /\ row' = row
  BY <1>2, <1>3, <1>7
     DEF VerifierTypeOK, Match, CallInv, Targeted, Found, Decided, Settled, Spent, Matches
<1>8. ASSUME Compare(v) PROVE CallInv(v)' /\ row' = row
  <2>1. PICK h \in Heads : Fresh(h) /\ SameStatus(h, found[v])
    BY <1>8 DEF Compare
  <2>2. heads[h].active /\ now <= heads[h].time + MaxAge
    <3>0. heads[h] \in State
      BY <1>3, <2>1 DEF VerifierTypeOK, LedgerTypeOK, Heads
    <3>1. heads[h].time \in Nat
      BY <3>0 DEF State
    <3>. QED BY <1>3, <2>1, <3>1, VerifierAssumption DEF Fresh, ObservedAt, Earlier
  <2>3. /\ pc' = [pc EXCEPT ![v] = "current"] /\ pc[v] = "matched"
        /\ decided' = [decided EXCEPT ![v] = now]
        /\ now < challenge[target[v]].expiresAt
        /\ UNCHANGED <<now, ledger, challenge, row, target, found, spentAt>>
    BY <1>8 DEF Compare
  <2>4. pc'[v] = "current" /\ decided'[v] = now
    BY <1>3, <2>3 DEF VerifierTypeOK
  <2>5. Targeted(v)' /\ Found(v)' /\ Settled(v)'
    BY <1>3, <2>3, <2>4 DEF CallInv, Targeted, Found, Settled, Spent, Matches
  <2>6. SameStatus(h, found[v])'
    BY <1>3, <2>1, <2>3 DEF SameStatus
  <2>7. Decided(v)'
    BY <1>3, <2>2, <2>3, <2>4, <2>6 DEF Decided
  <2>. QED BY <2>3, <2>5, <2>7 DEF CallInv
<1>9. ASSUME Consume(v)
      PROVE  CallInv(v)' /\ \A c \in Challenge : Kept(c) /\ RowFits(c)'
  <2>1. /\ pc[v] = "current" /\ Consumable(target[v])
        /\ row' = [row EXCEPT ![target[v]] = "used"]
        /\ pc' = [pc EXCEPT ![v] = "spent"]
        /\ spentAt' = [spentAt EXCEPT ![v] = now]
        /\ UNCHANGED <<now, ledger, challenge, target, found, decided>>
    BY <1>9 DEF Consume
  <2>2. target[v] \in Challenge /\ row[target[v]] = "open"
    BY <1>3, <2>1 DEF CallInv, Targeted, Consumable
  <2>3. pc'[v] = "spent" /\ spentAt'[v] = now /\ row'[target[v]] = "used"
    BY <1>3, <2>1, <2>2 DEF VerifierTypeOK
  <2>4. Targeted(v)' /\ Settled(v)'
    BY <2>1, <2>2, <2>3 DEF Targeted, Settled, Consumable
  <2>5. Found(v)'
    BY <1>3, <2>1 DEF CallInv, Found, Matches
  <2>6. Decided(v)'
    BY <1>3, <2>1 DEF CallInv, Decided, SameStatus
  <2>7. \A c \in Challenge : Kept(c) /\ RowFits(c)'
    BY <1>3, <2>1, <2>2 DEF VInv, VerifierTypeOK, Kept, RowFits
  <2>. QED BY <2>4, <2>5, <2>6, <2>7 DEF CallInv
<1>10. ASSUME Accept(v) \/ GiveUp(v) PROVE CallInv(v)' /\ row' = row
  <2>1. /\ UNCHANGED <<row, target, found, decided, spentAt>>
        /\ pc'[v] \in Spent => pc[v] \in Spent
        /\ pc[v] # "idle"
        /\ pc'[v] \notin {"matched", "current"}
    BY <1>3, <1>10 DEF VerifierTypeOK, Accept, GiveUp, Spent
  <2>2. Targeted(v)' /\ Settled(v)' /\ Found(v)'
    BY <1>2, <1>3, <2>1 DEF CallInv, Targeted, Settled, Found, Matches
  <2>3. Decided(v)'
    BY <1>2, <1>3, <2>1 DEF CallInv, Decided, SameStatus
  <2>. QED BY <2>1, <2>2, <2>3 DEF CallInv
<1>. QED BY <1>1, <1>2, <1>4, <1>5, <1>6, <1>7, <1>8, <1>9, <1>10, OneCall DEF Verify

LEMMA InitVInv == VerifierInit => VInv
<1>. SUFFICES ASSUME VerifierInit PROVE VInv
  OBVIOUS
<1>1. LedgerInv
  BY LedgerInitInv DEF VerifierInit
<1>2. VerifierTypeOK
  BY <1>1 DEF VerifierInit, VerifierTypeOK, LedgerInv
<1>3. \A v \in Call : CallInv(v)
  BY DEF VerifierInit, CallInv, Targeted, Found, Decided, Settled, Spent
<1>4. \A c \in Challenge : RowFits(c)
  BY DEF VerifierInit, RowFits
<1>. QED BY <1>1, <1>2, <1>3, <1>4 DEF VInv

LEMMA StepVInv == VInv /\ [VerifierNext]_verifierVars => VInv'
<1>. SUFFICES ASSUME VInv, [VerifierNext]_verifierVars PROVE VInv'
  OBVIOUS
<1>1. CASE UNCHANGED verifierVars
  <2>1. UNCHANGED <<now, ledger, challenge, row, calls>>
    BY <1>1 DEF verifierVars
  <2>2. LedgerInv' /\ Grown
    BY <2>1, LedgerStill DEF VInv, LedgerInv, LedgerTypeOK
  <2>. QED BY <2>1, <2>2, WithoutCalls DEF VInv, VerifierTypeOK, Kept, RowFits
<1>2. CASE VerifierNext
  BY <1>2, TimeStep, ChainStep, BuildStep, PutStep, VerifyStep DEF VerifierNext
<1>. QED BY <1>1, <1>2

THEOREM VerifierInvariant == VerifierSpec => []VInv
BY InitVInv, StepVInv, PTL DEF VerifierSpec

(* The model's state is well typed whatever the calls, the blocks and the  *)
(* clock do.                                                               *)
THEOREM VerifierTypeCorrect == VerifierSpec => []VerifierTypeOK
<1>1. VInv => VerifierTypeOK
  BY DEF VInv
<1>. QED BY <1>1, VerifierInvariant, PTL

(* An acceptance answers its challenge in time, with a credential that has *)
(* not expired.                                                            *)
THEOREM InTime == VerifierSpec => []AcceptedInTime
<1>1. VInv => AcceptedInTime
  <2>. SUFFICES ASSUME VInv, NEW v \in Call, pc[v] \in Spent
                PROVE  LET expiry == challenge[target[v]].expiresAt IN
                       /\ heads[found[v].head].time < expiry
                       /\ decided[v] < expiry
                       /\ Hosted => spentAt[v] < expiry
                       /\ decided[v] < ValidUntil[found[v].cred]
    BY DEF AcceptedInTime
  <2>1. CallInv(v) /\ LedgerInv /\ target[v] \in Challenge /\ decided[v] \in Nat
    BY DEF VInv, CallInv, Targeted, Spent, VerifierTypeOK
  <2>2. found[v] \in Authorization /\ Anchored(found[v])
        /\ found[v].deadline = challenge[target[v]].expiresAt
    BY <2>1 DEF CallInv, Found, LedgerInv, LedgerTypeOK, Matches
  <2>3. found[v].deadline \in Nat /\ ValidUntil[found[v].cred] \in Nat
    BY <2>2, LedgerAssumption DEF Authorization
  <2>4. decided[v] < found[v].deadline
    BY <2>1, <2>2 DEF CallInv, Decided
  <2>5. decided[v] < ValidUntil[found[v].cred]
    BY <2>1, <2>2, <2>3, <2>4 DEF Anchored
  <2>. QED BY <2>1, <2>2, <2>5 DEF CallInv, Decided, Settled, Anchored
<1>. QED BY <1>1, VerifierInvariant, PTL

(* What an accepted authorization shows is current but for MaxAge seconds: *)
(* a revocation or deactivation that was sealed longer ago is not missed.  *)
THEOREM NotStale == VerifierSpec => []NoStaleAcceptance
<1>1. VInv => NoStaleAcceptance
  <2>. SUFFICES ASSUME VInv, NEW v \in Call, pc[v] \in Spent
                PROVE  /\ found[v].cred \in heads[found[v].head].root
                       /\ \A i \in SettledBefore(decided[v]) :
                            /\ heads[i].active
                            /\ heads[i].version <= heads[found[v].head].version
                            /\ i >= found[v].head => found[v].cred \in heads[i].root
    BY DEF NoStaleAcceptance
  <2>1. CallInv(v) /\ LedgerInv /\ decided[v] \in Nat
    BY DEF VInv, VerifierTypeOK
  <2>2. Anchored(found[v])
    BY <2>1 DEF CallInv, Found, LedgerInv
  <2>3. PICK h \in Heads :
          heads[h].active /\ decided[v] <= heads[h].time + MaxAge /\ SameStatus(h, found[v])
    BY <2>1 DEF CallInv, Decided
  <2>4. \A i \in Heads : i \in Nat /\ heads[i] \in State
    BY <2>1 DEF LedgerInv, LedgerTypeOK, Heads
  <2>5. \A i \in Heads : heads[i].time \in Nat /\ heads[i].version \in Nat
    BY <2>4 DEF State
  <2>6. PICK f \in Heads : f = found[v].head
    BY <2>2 DEF Anchored
  <2>7. ASSUME NEW i \in Heads, heads[i].time < decided[v] - MaxAge
        PROVE  /\ heads[i].active
               /\ heads[i].version <= heads[f].version
               /\ i >= f => found[v].cred \in heads[i].root
    <3>1. heads[i].time < heads[h].time
      BY <2>1, <2>3, <2>5, <2>7, VerifierAssumption
    <3>2. i <= h
      BY <2>1, <2>4, <2>5, <3>1 DEF LedgerInv, Ordered, Follows
    <3>3. Follows(heads[i], heads[h])
      BY <2>1, <3>2 DEF LedgerInv, Ordered
    <3>4. heads[i].version <= heads[f].version
      BY <2>3, <2>6, <3>3 DEF SameStatus, Follows
    <3>5. ASSUME i >= f PROVE heads[i].root = heads[f].root
      BY <2>1, <2>4, <2>5, <2>6, <3>4, <3>5 DEF LedgerInv, Ordered, Follows
    <3>. QED BY <2>2, <2>3, <2>6, <3>3, <3>4, <3>5 DEF Anchored, Follows
  <2>. QED BY <2>2, <2>6, <2>7 DEF SettledBefore, Anchored
<1>. QED BY <1>1, VerifierInvariant, PTL

-----------------------------------------------------------------------------
(* Acceptance and the store.                                               *)

(* Who has spent a challenge, and its row, change only when a call         *)
(* consumes it.                                                            *)
LEMMA SpendingStep ==
  ASSUME VInv, [VerifierNext]_verifierVars,
         \A v \in Call : ~ Consume(v)
  PROVE  /\ \A v \in Call : pc'[v] \in Spent <=> pc[v] \in Spent
         /\ \A v \in Call : pc[v] \in Spent => target'[v] = target[v]
         /\ \A c \in Challenge : row'[c] = "used" => row[c] = "used"
<1>1. CASE UNCHANGED <<row, calls>>
  BY <1>1 DEF calls
<1>2. ASSUME NEW c \in Challenge, PutChallenge(c)
      PROVE  UNCHANGED calls /\ \A d \in Challenge : row'[d] = "used" => row[d] = "used"
  BY <1>2 DEF PutChallenge
<1>3. ASSUME NEW v \in Call, Verify(v)
      PROVE  /\ row' = row
             /\ pc'[v] \in Spent <=> pc[v] \in Spent
             /\ pc[v] \in Spent => target' = target
             /\ \A w \in Call \ {v} : pc'[w] = pc[w] /\ target'[w] = target[w]
  <2>1. \A w \in Call \ {v} : pc'[w] = pc[w] /\ target'[w] = target[w]
    BY <1>3, VerifyTypes DEF Idle
  <2>2. pc \in [Call -> {"idle", "asked", "loaded", "matched", "current", "refused"} \cup Spent]
    BY DEF VInv, VerifierTypeOK
  <2>3. CASE Present(v) \/ Load(v) \/ Match(v) \/ Compare(v)
    BY <2>1, <2>2, <2>3 DEF Present, Load, Match, Compare, Spent
  <2>4. CASE Accept(v) \/ GiveUp(v)
    BY <2>1, <2>2, <2>4 DEF Accept, GiveUp, Spent
  <2>. QED BY <1>3, <2>3, <2>4 DEF Verify
<1>4. CASE UNCHANGED verifierVars \/ Time \/ Chain \/ \E c \in Challenge : BuildChallenge(c)
  <2>1. UNCHANGED <<row, calls>>
    BY <1>4 DEF verifierVars, Time, Chain, BuildChallenge
  <2>. QED BY <1>1, <2>1
<1>5. CASE \E c \in Challenge : PutChallenge(c)
  BY <1>2, <1>5 DEF calls
<1>6. CASE \E v \in Call : Verify(v)
  <2>1. PICK v \in Call : Verify(v)
    BY <1>6
  <2>. QED BY <1>3, <2>1
<1>. QED BY <1>4, <1>5, <1>6 DEF VerifierNext

LEMMA ConsumeSpends ==
  ASSUME VInv, NEW v \in Call, Consume(v)
  PROVE  /\ target' = target /\ target[v] \in Challenge
         /\ row[target[v]] = "open"
         /\ row' = [row EXCEPT ![target[v]] = "used"]
         /\ pc'[v] \in Spent
         /\ \A w \in Call \ {v} : pc'[w] = pc[w]
BY DEF VInv, VerifierTypeOK, CallInv, Targeted, Consume, Consumable, Spent

(* A challenge is spent at most once, however many calls race for it, and  *)
(* counting those that stop before their answer.                           *)
THEOREM OneAcceptance == VerifierSpec => []AcceptedOnce
<1>1. VerifierInit => AcceptedOnce
  BY DEF VerifierInit, AcceptedOnce, Spent
<1>2. AcceptedOnce /\ VInv /\ [VerifierNext]_verifierVars => AcceptedOnce'
  <2>. SUFFICES ASSUME AcceptedOnce, VInv, [VerifierNext]_verifierVars PROVE AcceptedOnce'
    OBVIOUS
  <2>1. CASE \A v \in Call : ~ Consume(v)
    BY <2>1, SpendingStep DEF AcceptedOnce, Spent
  <2>2. ASSUME NEW u \in Call, Consume(u)
        PROVE  AcceptedOnce'
    <3>1. \A w \in Call : pc[w] \in Spent => target[w] # target[u]
      BY <2>2, ConsumeSpends DEF VInv, CallInv, Settled
    <3>. QED BY <2>2, <3>1, ConsumeSpends DEF AcceptedOnce, Spent
  <2>. QED BY <2>1, <2>2
<1>. QED BY <1>1, <1>2, VerifierInvariant, PTL DEF VerifierSpec

-----------------------------------------------------------------------------
(* The verifier implements the gate.                                       *)

Verdicts == [v \in Call |-> Verdict(v)]

(* A call has a challenge from its presentation on, and the ledger answers *)
(* only challenges that were given out.                                    *)
Presented ==
  /\ \A v \in Call : target[v] = Unset <=> pc[v] = "idle"
  /\ \A a \in authorizations : row[a.challenge] # "none"

GInv == VInv /\ AcceptedOnce /\ Presented

LEMMA VerdictIs ==
  ASSUME NEW v \in Call
  PROVE  /\ Verdicts[v] = Verdict(v)
         /\ pc[v] = "accepted" <=> Verdict(v) = "accepted"
         /\ pc[v] \in {"refused", "unanswered"} <=> Verdict(v) = "refused"
         /\ pc[v] \notin {"accepted", "refused", "unanswered"} <=> Verdict(v) = "none"
BY DEF Verdicts, Verdict

(* A verdict is as old as the progress of its call.                        *)
LEMMA VerdictsStand ==
  ASSUME NEW S \in SUBSET Call, \A v \in Call \ S : pc'[v] = pc[v]
  PROVE  \A v \in Call \ S : Verdicts'[v] = Verdicts[v]
BY DEF Verdicts, Verdict

(* A step that leaves the calls and the rows alone, and the challenges     *)
(* that were given out, changes what the ledger answers at most.           *)
LEMMA SameGate ==
  ASSUME UNCHANGED <<pc, target>>, Given' = Given,
         \A c \in Given : challenge'[c] = challenge[c]
  PROVE  /\ UNCHANGED <<Given, target, Verdicts>>
         /\ authorizations' = authorizations => Backed' = Backed
<1>1. Verdicts' = Verdicts
  BY DEF Verdicts, Verdict
<1>2. authorizations' = authorizations => Backed' = Backed
  BY DEF Backed, Matches
<1>. QED BY <1>1, <1>2

(* The chain backs at most one challenge at a time.                        *)
LEMMA ChainBacks ==
  ASSUME GInv, Chain
  PROVE  /\ UNCHANGED <<Given, target, Verdicts>>
         /\ Backed' = Backed \/ \E c \in Given : Backed' = Backed \cup {c}
         /\ \A a \in authorizations' : a \in authorizations \/ row[a.challenge] # "none"
<1>1. /\ UNCHANGED <<challenge, row, pc, target>> /\ Given' = Given
      /\ UNCHANGED <<Given, target, Verdicts>>
      /\ authorizations' = authorizations => Backed' = Backed
  <2>1. UNCHANGED <<challenge, row, pc, target>>
    BY DEF Chain, calls
  <2>2. Given' = Given
    BY <2>1 DEF Given
  <2>. QED BY <2>1, <2>2, SameGate
<1>2. CASE authorizations' = authorizations
  BY <1>1, <1>2
<1>3. ASSUME NEW c \in Challenge, row[c] # "none", NEW k \in Credential,
             NEW deadline \in 1 .. (MaxTime + MaxTTL), Authorize(c, deadline, k)
      PROVE  /\ Backed' = Backed \/ Backed' = Backed \cup {c}
             /\ c \in Given
             /\ \A a \in authorizations' : a \in authorizations \/ a.challenge = c
  <2>0. PICK new : new = [challenge |-> c, deadline |-> deadline, cred |-> k,
                          head |-> Len(heads) + 1]
    OBVIOUS
  <2>1. /\ authorizations' = authorizations \cup {new}
        /\ new.challenge = c /\ new.deadline = deadline
    BY <1>3, <2>0 DEF Authorize
  <2>2. \A d \in Given : d \in Backed' <=> d \in Backed \/ Matches(new, d)
    BY <1>1, <2>1 DEF Backed, Matches
  <2>3. \A d \in Given : Matches(new, d) => d = c
    BY <2>1 DEF Matches
  <2>4. c \in Given
    BY <1>3 DEF Given
  <2>5. Backed \subseteq Given /\ Backed' \subseteq Given
    BY <1>1 DEF Backed
  <2>6. CASE Matches(new, c)
    BY <2>2, <2>3, <2>4, <2>5, <2>6, <2>1
  <2>7. CASE ~ Matches(new, c)
    BY <2>2, <2>3, <2>4, <2>5, <2>7, <2>1
  <2>. QED BY <2>6, <2>7
<1>4. \/ authorizations' = authorizations
      \/ \E c \in {d \in Challenge : row[d] # "none"}, k \in Credential :
         \E deadline \in 1 .. (MaxTime + MaxTTL) : Authorize(c, deadline, k)
  BY DEF Chain, EmptyBlock, PublishStatus, Deactivate
<1>. QED BY <1>1, <1>2, <1>3, <1>4

(* Each step of a call.                                                    *)
LEMMA VerifyPresented ==
  ASSUME VInv, Presented, NEW v \in Call, Verify(v)
  PROVE  Presented'
<1>. USE VerifierAssumption
<1>1. /\ \A w \in Call \ {v} : pc'[w] = pc[w] /\ target'[w] = target[w]
      /\ pc \in [Call -> {"idle", "asked", "loaded", "matched", "current", "refused"} \cup Spent]
      /\ target \in [Call -> Challenge \cup {Unset}]
  BY VerifyTypes DEF VInv, VerifierTypeOK, Idle
<1>2. target'[v] = Unset <=> pc'[v] = "idle"
  <2>1. CASE Present(v)
    BY <1>1, <2>1 DEF Present
  <2>2. CASE Load(v) \/ Match(v) \/ Compare(v) \/ Consume(v) \/ Accept(v) \/ GiveUp(v)
    BY <1>1, <2>2 DEF Presented, Load, Match, Compare, Consume, Accept, GiveUp
  <2>. QED BY <2>1, <2>2 DEF Verify
<1>3. \A a \in authorizations : a.challenge \in Challenge
  BY DEF VInv, VerifierTypeOK, LedgerTypeOK, Authorization
<1>4. \A c \in Challenge : row[c] # "none" => row'[c] # "none"
  BY DEF VInv, VerifierTypeOK, Verify, Present, Load, Match, Compare, Consume, Accept, GiveUp
<1>5. authorizations' = authorizations
  BY DEF Verify, Present, Load, Match, Compare, Consume, Accept, GiveUp, ledger
<1>. QED BY <1>1, <1>2, <1>3, <1>4, <1>5 DEF Presented

LEMMA PresentedAlways == VerifierSpec => []Presented
<1>1. VerifierInit => Presented
  BY DEF VerifierInit, LedgerInit, Presented
<1>2. VInv /\ AcceptedOnce /\ Presented /\ [VerifierNext]_verifierVars => Presented'
  <2>. SUFFICES ASSUME GInv, [VerifierNext]_verifierVars PROVE Presented'
    BY DEF GInv
  <2>0. \A a \in authorizations : a.challenge \in Challenge
    BY DEF GInv, VInv, VerifierTypeOK, LedgerTypeOK, Authorization
  <2>1. CASE UNCHANGED <<authorizations, row, pc, target>>
    BY <2>1 DEF GInv, Presented
  <2>2. CASE Chain
    <3>1. UNCHANGED <<row, pc, target>>
      BY <2>2 DEF Chain, calls
    <3>. QED BY <2>2, <3>1, ChainBacks DEF GInv, Presented
  <2>3. ASSUME NEW c \in Challenge, PutChallenge(c) PROVE Presented'
    BY <2>0, <2>3 DEF GInv, Presented, PutChallenge, ledger, calls, Lapsed
  <2>4. ASSUME NEW v \in Call, Verify(v) PROVE Presented'
    BY <2>4, VerifyPresented DEF GInv
  <2>5. CASE UNCHANGED verifierVars \/ Time \/ \E c \in Challenge : BuildChallenge(c)
    BY <2>1, <2>5 DEF verifierVars, Time, Tick, BuildChallenge, ledger, calls
  <2>. QED BY <2>2, <2>3, <2>4, <2>5 DEF VerifierNext
<1>. QED BY <1>1, <1>2, VerifierInvariant, OneAcceptance, PTL DEF VerifierSpec

LEMMA InitOpensGate == VerifierInit => Gate!Init
<1>. SUFFICES ASSUME VerifierInit PROVE Gate!Init
  OBVIOUS
<1>1. Given = {} /\ Backed = {}
  BY DEF VerifierInit, Given, Backed
<1>2. Verdicts = [v \in Call |-> "none"]
  BY VerdictIs DEF VerifierInit, Verdicts
<1>. QED BY <1>1, <1>2 DEF VerifierInit, Gate!Init, Verdicts

LEMMA CallAtGate ==
  ASSUME GInv, NEW v \in Call, Verify(v)
  PROVE  [Gate!Next]_Gate!vars
<1>. USE VerifierAssumption
<1>1. /\ \A w \in Call \ {v} : pc'[w] = pc[w] /\ target'[w] = target[w]
      /\ pc \in [Call -> {"idle", "asked", "loaded", "matched", "current", "refused"} \cup Spent]
      /\ target \in [Call -> Challenge \cup {Unset}]
      /\ row \in [Challenge -> {"none", "open", "used", "deleted"}]
  BY VerifyTypes DEF GInv, VInv, VerifierTypeOK, Idle
<1>2. UNCHANGED <<challenge, authorizations>>
  BY DEF Verify, Present, Load, Match, Compare, Consume, Accept, GiveUp, ledger
<1>3. UNCHANGED <<Given, Backed>>
  <2>1. \A c \in Challenge : row'[c] = "none" <=> row[c] = "none"
    <3>1. CASE Consume(v)
      BY <1>1, <3>1, ConsumeSpends DEF GInv
    <3>2. CASE row' = row
      BY <3>2
    <3>. QED BY <3>1, <3>2 DEF Verify, Present, Load, Match, Compare, Accept, GiveUp
  <2>2. Given' = Given
    BY <2>1 DEF Given
  <2>. QED BY <1>2, <2>2 DEF Backed, Matches
<1>4. \A w \in Call \ {v} : Verdicts'[w] = Verdicts[w]
  BY <1>1, VerdictsStand
<1>5. ASSUME Present(v) PROVE Gate!Next
  <2>1. PICK c \in Given : target' = [target EXCEPT ![v] = c]
    BY <1>5 DEF Present, Given
  <2>2. target[v] = Unset
    BY <1>5 DEF GInv, Presented, Present
  <2>3. Verdicts'[v] = Verdicts[v]
    BY <1>1, <1>5 DEF Present, Verdicts, Verdict
  <2>4. Verdicts' = Verdicts
    BY <1>4, <2>3 DEF Verdicts
  <2>5. c \in Challenge
    BY <2>1 DEF Given
  <2>6. Gate!Present(v, c)
    BY <1>3, <2>1, <2>2, <2>4 DEF Gate!Present, Verdicts
  <2>. QED BY <2>5, <2>6 DEF Gate!Next
<1>6. ASSUME Load(v) \/ Match(v) \/ Compare(v) \/ Consume(v) PROVE UNCHANGED Gate!vars
  <2>1. Verdicts'[v] = Verdicts[v] /\ target' = target
    BY <1>1, <1>6 DEF Load, Match, Compare, Consume, Verdicts, Verdict
  <2>2. Verdicts' = Verdicts
    BY <1>4, <2>1 DEF Verdicts
  <2>. QED BY <1>3, <2>1, <2>2 DEF Gate!vars, Verdicts
<1>7. ASSUME Accept(v) \/ GiveUp(v)
      PROVE  /\ target' = target /\ target[v] # Unset
             /\ Verdicts[v] = "none" /\ v \in Gate!Open
  <2>1. pc[v] \in {"asked", "loaded", "matched", "current", "spent"} /\ target' = target
    BY <1>7 DEF Accept, GiveUp
  <2>2. Verdicts[v] = "none" /\ target[v] # Unset
    BY <2>1, VerdictIs DEF GInv, Presented
  <2>. QED BY <2>1, <2>2 DEF Gate!Open, Verdicts
<1>8. ASSUME Accept(v) PROVE Gate!Next
  <2>1. pc[v] = "spent" /\ pc' = [pc EXCEPT ![v] = "accepted"] /\ v \in Gate!Open
    BY <1>7, <1>8 DEF Accept
  <2>2. Verdicts'[v] = "accepted"
    BY <1>1, <2>1 DEF Verdicts, Verdict
  <2>3. Verdicts' = [Verdicts EXCEPT ![v] = "accepted"]
    BY <1>4, <2>2 DEF Verdicts
  <2>4. target[v] \in Backed
    BY <2>1 DEF GInv, VInv, CallInv, Targeted, Found, Backed, Given, Spent
  <2>5. \A w \in Call : Verdicts[w] = "accepted" => target[w] # target[v]
    <3>1. ASSUME NEW w \in Call, Verdicts[w] = "accepted", target[w] = target[v] PROVE FALSE
      <4>1. pc[w] = "accepted"
        BY <3>1, VerdictIs
      <4>. QED BY <2>1, <3>1, <4>1 DEF GInv, AcceptedOnce, Spent
    <3>. QED BY <3>1
  <2>6. Gate!Accept(v)
    BY <1>3, <1>7, <1>8, <2>1, <2>3, <2>4, <2>5 DEF Gate!Accept, Verdicts
  <2>. QED BY <2>6 DEF Gate!Next
<1>9. ASSUME GiveUp(v) PROVE Gate!Next
  <2>1. Verdicts'[v] = "refused"
    BY <1>1, <1>9 DEF GiveUp, Verdicts, Verdict
  <2>2. Verdicts' = [w \in Call |-> IF w \in {v} THEN "refused" ELSE Verdicts[w]]
    BY <1>4, <2>1 DEF Verdicts
  <2>3. Gate!Refuse({v})
    BY <1>3, <1>7, <1>9, <2>2 DEF Gate!Refuse, Verdicts
  <2>4. {v} \in SUBSET Gate!Open
    BY <1>7, <1>9
  <2>. QED BY <2>3, <2>4 DEF Gate!Next
<1>. QED BY <1>5, <1>6, <1>8, <1>9 DEF Verify

LEMMA StepAtGate == GInv /\ [VerifierNext]_verifierVars => [Gate!Next]_Gate!vars
<1>. SUFFICES ASSUME GInv, [VerifierNext]_verifierVars PROVE [Gate!Next]_Gate!vars
  OBVIOUS
<1>1. CASE UNCHANGED verifierVars \/ Time \/ \E c \in Challenge : BuildChallenge(c)
  <2>1. UNCHANGED <<row, pc, target, authorizations>> /\ Given' = Given
    BY <1>1 DEF verifierVars, Time, Tick, BuildChallenge, ledger, calls, Given
  <2>2. \A c \in Given : challenge'[c] = challenge[c]
    BY <1>1 DEF GInv, VInv, VerifierTypeOK, RowFits, verifierVars, Time, BuildChallenge, Given
  <2>3. UNCHANGED <<Given, Backed, target, Verdicts>>
    BY <2>1, <2>2, SameGate
  <2>. QED BY <2>3 DEF Gate!vars, Verdicts
<1>2. CASE Chain
  <2>1. UNCHANGED <<Given, target, Verdicts>>
    BY <1>2, ChainBacks
  <2>2. CASE Backed' = Backed
    BY <2>1, <2>2 DEF Gate!vars, Verdicts
  <2>3. ASSUME NEW c \in Given, Backed' = Backed \cup {c} PROVE Gate!Next
    <3>1. Gate!Back(c) /\ c \in Challenge
      BY <2>1, <2>3 DEF Gate!Back, Given, Verdicts
    <3>. QED BY <3>1 DEF Gate!Next
  <2>. QED BY <1>2, <2>2, <2>3, ChainBacks
<1>3. ASSUME NEW c \in Challenge, PutChallenge(c) PROVE Gate!Next
  <2>1. /\ UNCHANGED <<challenge, pc, target, authorizations>>
        /\ row[c] = "none"
        /\ \A d \in Challenge : row'[d] # "none" <=> row[d] # "none" \/ d = c
    BY <1>3 DEF PutChallenge, ledger, calls, Lapsed
  <2>2. Given' = Given \cup {c} /\ c \notin Given
    BY <2>1 DEF Given
  <2>3. Verdicts' = Verdicts
    BY <2>1 DEF Verdicts, Verdict
  <2>4. ~ \E a \in authorizations : Matches(a, c)
    BY <2>1 DEF GInv, Presented, Matches
  <2>5. Backed' = Backed
    BY <2>1, <2>2, <2>4 DEF Backed, Matches
  <2>6. Gate!Give(c)
    BY <2>1, <2>2, <2>3, <2>5 DEF Gate!Give, Verdicts
  <2>. QED BY <2>6 DEF Gate!Next
<1>. QED BY <1>1, <1>2, <1>3, CallAtGate DEF VerifierNext

(* The network verifier, over either store, implements the one-shot gate:  *)
(* every presentation is decided once, and of one challenge only one is    *)
(* accepted, on an authorization the ledger holds for that very request.   *)
THEOREM VerifierIsGate == VerifierSpec => GateSpec
BY InitOpensGate, StepAtGate, VerifierInvariant, OneAcceptance, PresentedAlways, PTL
   DEF VerifierSpec, GateSpec, Gate!Spec, GInv

-----------------------------------------------------------------------------
(* The publish command by itself (Spec of StatusPublication).              *)

(* A call of publishStatus set this root.                                  *)
Published(root) ==
  \E i \in 2 .. Len(heads) :
    heads[i].root = root /\ heads[i].version = heads[i - 1].version + 1

(* What is under way or was published has been sent, and a run that is     *)
(* about to send is the first to.                                          *)
SentOnce ==
  /\ \A root \in Root : Published(root) \/ root \in pending => sends[root] > 0
  /\ step \in {"proving", "recorded"} => sends[wanted] = 0
  /\ step = "recorded" => attempts[wanted] = "submitted"

(* Revocation is for good.                                                 *)
Final == confirmed \subseteq Revoked /\ checked \subseteq Revoked

(* With an operator who reconciles, only the last run's transaction can be *)
(* under way, and only once that run has sent it.                          *)
Alone ==
  settled =>
    /\ pending \subseteq {wanted}
    /\ step \notin {"sent", "failed"} => pending = {}

(* From its second look at the issuer's state on, a run's root is free of  *)
(* what was revoked by then.                                               *)
Clean ==
  settled /\ (step \in {"recorded", "sent", "included"} \/ wanted \in pending) =>
    wanted \cap (checked \cup confirmed) = {}

(* A root that a run sees published is the contract's root.                *)
Standing ==
  /\ settled /\ step \in {"sent", "included"} /\ Published(wanted) =>
       pending = {} /\ Last.root = wanted
  /\ step = "included" => Published(wanted)

PubInv ==
  /\ TypeOK /\ RecordsAreTruthful /\ SentOnce
  /\ Final /\ Alone /\ Clean /\ Standing /\ ConfirmedRevocationHolds

LEMMA InitPubInv == Init => PubInv
<1> SUFFICES ASSUME Init PROVE PubInv
  OBVIOUS
<1>1. PICK root \in SUBSET Credential :
        heads = <<[time |-> 0, active |-> TRUE, root |-> root, version |-> 0]>>
  BY DEF Init, LedgerInit
<1>2. heads \in Seq(State) /\ heads # <<>> /\ Len(heads) = 1
  BY <1>1 DEF State
<1>3. TypeOK
  BY <1>2 DEF Init, LedgerInit, TypeOK, LedgerTypeOK, Root, AttemptState, Steps
<1>4. \A r \in Root : ~ Published(r)
  BY <1>2 DEF Published
<1>5. RecordsAreTruthful /\ SentOnce
  BY <1>4 DEF Init, RecordsAreTruthful, SentOnce
<1>6. Final /\ Alone /\ Clean /\ Standing /\ ConfirmedRevocationHolds
  BY DEF Init, Final, Alone, Clean, Standing, ConfirmedRevocationHolds
<1> QED
  BY <1>3, <1>5, <1>6 DEF PubInv

-----------------------------------------------------------------------------
(* The heads.                                                              *)

LEMMA HeadPublished ==
  ASSUME NEW s \in State, NEW t \in Nat, NEW root \in Root
  PROVE  LET h == [s EXCEPT !.time = t, !.root = root, !.version = s.version + 1] IN
         h \in State /\ h.root = root /\ h.version = s.version + 1
<1>1. \A r \in State : [r EXCEPT !.root = root] \in State /\ [r EXCEPT !.root = root].root = root
  BY DEF State, Root
<1>2. \A r \in State, n \in Nat :
        /\ [r EXCEPT !.version = n] \in State
        /\ [r EXCEPT !.version = n].root = r.root /\ [r EXCEPT !.version = n].version = n
  BY DEF State
<1>3. [s EXCEPT !.time = t] \in State /\ s.version + 1 \in Nat
  BY DEF State
<1>4. PICK r \in State : r = [[s EXCEPT !.time = t] EXCEPT !.root = root]
  BY <1>1, <1>3
<1>5. PICK n \in Nat : n = s.version + 1
  BY <1>3
<1>6. [s EXCEPT !.time = t, !.root = root, !.version = s.version + 1] = [r EXCEPT !.version = n]
  BY <1>4, <1>5
<1>7. r.root = root
  BY <1>1, <1>3, <1>4
<1> QED
  BY <1>2, <1>5, <1>6, <1>7

LEMMA Appended ==
  ASSUME heads \in Seq(State), heads # <<>>, NEW h \in State, heads' = Append(heads, h)
  PROVE  /\ heads' \in Seq(State) /\ heads' # <<>> /\ Len(heads') = Len(heads) + 1
         /\ \A i \in 1 .. Len(heads) : heads'[i] = heads[i]
         /\ Last' = h
         /\ \A root : Published(root)' <=>
              Published(root) \/ (h.root = root /\ h.version = Last.version + 1)
<1> DEFINE n == Len(heads)
<1>1. /\ n \in Nat \ {0} /\ Len(heads') = n + 1 /\ heads' \in Seq(State) /\ heads' # <<>>
      /\ \A i \in 1 .. n : heads'[i] = heads[i]
      /\ heads'[n + 1] = h
  OBVIOUS
<1>2. Last = heads[n] /\ Last' = h
  BY <1>1 DEF Last
<1> HIDE DEF n
<1>3. ASSUME NEW root, Published(root)
      PROVE  Published(root)'
  <2>1. PICK i \in 2 .. n : heads[i].root = root /\ heads[i].version = heads[i - 1].version + 1
    BY <1>3 DEF Published, n
  <2>2. i \in 2 .. Len(heads') /\ heads'[i] = heads[i] /\ heads'[i - 1] = heads[i - 1]
    BY <1>1, <2>1
  <2> QED
    BY <2>1, <2>2 DEF Published
<1>4. ASSUME NEW root, h.root = root, h.version = Last.version + 1
      PROVE  Published(root)'
  <2>1. n + 1 \in 2 .. Len(heads') /\ heads'[(n + 1) - 1] = Last
    BY <1>1, <1>2
  <2> QED
    BY <1>1, <1>4, <2>1 DEF Published
<1>5. ASSUME NEW root, Published(root)'
      PROVE  Published(root) \/ (h.root = root /\ h.version = Last.version + 1)
  <2>1. PICK i \in 2 .. n + 1 :
          heads'[i].root = root /\ heads'[i].version = heads'[i - 1].version + 1
    BY <1>1, <1>5 DEF Published
  <2>2. CASE i = n + 1
    <3>1. heads'[i] = h /\ heads'[i - 1] = Last
      BY <1>1, <1>2, <2>2
    <3> QED
      BY <2>1, <3>1
  <2>3. CASE i # n + 1
    <3>1. i \in 2 .. n /\ heads'[i] = heads[i] /\ heads'[i - 1] = heads[i - 1]
      BY <1>1, <2>1, <2>3
    <3> QED
      BY <2>1, <3>1 DEF Published, n
  <2> QED
    BY <2>2, <2>3
<1> QED
  BY <1>1, <1>2, <1>3, <1>4, <1>5 DEF n

LEMMA LastTyped == ASSUME heads \in Seq(State), heads # <<>> PROVE Last \in State
<1>1. Len(heads) \in 1 .. Len(heads)
  OBVIOUS
<1> QED
  BY <1>1 DEF Last

(* The indexer's view of longer heads.                                     *)
LEMMA StillTruthful ==
  ASSUME TypeOK, RecordsAreTruthful, UNCHANGED <<attempts, sends>>,
         indexed' \in Nat, indexed <= indexed',
         \A i \in 1 .. Len(heads) : heads'[i] = heads[i]
  PROVE  RecordsAreTruthful'
<1>1. \A i \in 1 .. indexed : heads'[i] = heads[i] /\ i \in 1 .. indexed'
  BY DEF TypeOK, LedgerTypeOK
<1> QED
  BY <1>1 DEF RecordsAreTruthful

-----------------------------------------------------------------------------
(* The environment.                                                        *)

LEMMA StatusStep ==
  ASSUME PubInv, NEW k \in Credential, Issue(k) \/ Revoke(k) PROVE PubInv'
<1>1. UNCHANGED <<now, ledger, indexed, operator, record>>
  BY DEF Issue, Revoke
<1> USE <1>1 DEF ledger, operator, record
<1>2. TypeOK'
  BY DEF PubInv, TypeOK, LedgerTypeOK, Issue, Revoke
<1>3. Revoked \subseteq Revoked'
  BY DEF PubInv, TypeOK, Issue, Revoke, Revoked
<1>4. RecordsAreTruthful' /\ SentOnce' /\ Standing'
  BY DEF PubInv, RecordsAreTruthful, SentOnce, Standing, Published, Last
<1>5. Final' /\ Alone' /\ Clean' /\ ConfirmedRevocationHolds'
  BY <1>3 DEF PubInv, Final, Alone, Clean, ConfirmedRevocationHolds, Last
<1> QED
  BY <1>2, <1>4, <1>5 DEF PubInv

LEMMA IncludeStep ==
  ASSUME PubInv, NEW root \in Root, Include(root) PROVE PubInv'
<1>1. heads \in Seq(State) /\ heads # <<>> /\ Last \in State
  BY LastTyped DEF PubInv, TypeOK, LedgerTypeOK
<1>2. PICK t \in BlockTime :
        heads' = Append(heads,
          [Last EXCEPT !.time = t, !.root = root, !.version = Last.version + 1])
  BY DEF Include, PublishStatus, Seal
<1> DEFINE h == [Last EXCEPT !.time = t, !.root = root, !.version = Last.version + 1]
<1>0. t \in Nat
  BY LedgerAssumption DEF BlockTime, PubInv, TypeOK, LedgerTypeOK
<1>3. h \in State /\ h.root = root /\ h.version = Last.version + 1
  BY <1>0, <1>1, HeadPublished
<1>4. heads' = Append(heads, h)
  BY <1>2
<1> HIDE DEF h
<1>5. /\ heads' \in Seq(State) /\ heads' # <<>> /\ Len(heads') = Len(heads) + 1
      /\ \A i \in 1 .. Len(heads) : heads'[i] = heads[i]
      /\ Last' = h
      /\ \A r : Published(r)' <=> Published(r) \/ r = root
  BY <1>1, <1>3, <1>4, Appended
<1>6. /\ root \in pending /\ pending' = pending \ {root}
      /\ UNCHANGED <<now, authorizations, status, indexed, operator, attempts, sends,
                     checked, confirmed>>
  BY DEF Include, PublishStatus, Seal
<1> USE <1>6 DEF operator
<1>7. TypeOK'
  BY <1>1, <1>5 DEF PubInv, TypeOK, LedgerTypeOK
<1>8. RecordsAreTruthful'
  BY <1>5, StillTruthful DEF PubInv, TypeOK, LedgerTypeOK
<1>9. SentOnce'
  BY <1>5 DEF PubInv, SentOnce
<1>10. Final' /\ Alone' /\ Clean'
  BY DEF PubInv, Final, Alone, Clean, Revoked
<1>11. settled => root = wanted /\ pending' = {} /\ step \in {"sent", "failed"}
  BY DEF PubInv, Alone
<1>12. Standing'
  BY <1>3, <1>5, <1>11 DEF PubInv, Standing
<1>13. ConfirmedRevocationHolds'
  BY <1>3, <1>5, <1>11 DEF PubInv, Clean, ConfirmedRevocationHolds
<1> QED
  BY <1>7, <1>8, <1>9, <1>10, <1>12, <1>13 DEF PubInv

LEMMA DropStep ==
  ASSUME PubInv, NEW root \in Root, Drop(root) PROVE PubInv'
<1>1. /\ pending' = pending \ {root}
      /\ UNCHANGED <<now, ledger, status, indexed, operator, attempts, sends, checked, confirmed>>
  BY DEF Drop
<1> USE <1>1 DEF ledger, operator
<1>2. TypeOK'
  BY DEF PubInv, TypeOK, LedgerTypeOK
<1>3. RecordsAreTruthful' /\ SentOnce' /\ Standing'
  BY DEF PubInv, RecordsAreTruthful, SentOnce, Standing, Published, Last
<1>4. Final' /\ Alone' /\ Clean' /\ ConfirmedRevocationHolds'
  BY DEF PubInv, Final, Revoked, Alone, Clean, ConfirmedRevocationHolds, Last
<1> QED
  BY <1>2, <1>3, <1>4 DEF PubInv

LEMMA RetireStep == ASSUME PubInv, Retire PROVE PubInv'
<1>1. heads \in Seq(State) /\ heads # <<>> /\ Last \in State
  BY LastTyped DEF PubInv, TypeOK, LedgerTypeOK
<1>2. PICK t \in BlockTime : heads' = Append(heads, [Last EXCEPT !.time = t, !.active = FALSE])
  BY DEF Retire, Deactivate, Seal
<1> DEFINE h == [Last EXCEPT !.time = t, !.active = FALSE]
<1>0. t \in Nat
  BY LedgerAssumption DEF BlockTime, PubInv, TypeOK, LedgerTypeOK
<1>3. h \in State /\ h.root = Last.root /\ h.version = Last.version
  BY <1>0, <1>1 DEF State
<1>4. heads' = Append(heads, h) /\ Last.version # Last.version + 1
  BY <1>1, <1>2 DEF State
<1> HIDE DEF h
<1>5. /\ heads' \in Seq(State) /\ heads' # <<>> /\ Len(heads') = Len(heads) + 1
      /\ \A i \in 1 .. Len(heads) : heads'[i] = heads[i]
      /\ Last'.root = Last.root
      /\ \A r : Published(r)' <=> Published(r)
  BY <1>1, <1>3, <1>4, Appended
<1>6. UNCHANGED <<now, authorizations, status, indexed, operator, record>>
  BY DEF Retire, Deactivate, Seal
<1> USE <1>6 DEF operator, record
<1>7. TypeOK'
  BY <1>1, <1>5 DEF PubInv, TypeOK, LedgerTypeOK
<1>8. RecordsAreTruthful'
  BY <1>5, StillTruthful DEF PubInv, TypeOK, LedgerTypeOK
<1>9. SentOnce' /\ Standing'
  BY <1>5 DEF PubInv, SentOnce, Standing
<1>10. Final' /\ Alone' /\ Clean' /\ ConfirmedRevocationHolds'
  BY <1>5 DEF PubInv, Final, Revoked, Alone, Clean, ConfirmedRevocationHolds
<1> QED
  BY <1>7, <1>8, <1>9, <1>10 DEF PubInv

LEMMA CatchUpStep == ASSUME PubInv, CatchUp PROVE PubInv'
<1>1. /\ indexed < Len(heads) /\ indexed' = indexed + 1
      /\ UNCHANGED <<now, ledger, status, operator, record>>
  BY DEF CatchUp
<1> USE <1>1 DEF ledger, operator, record
<1>2. TypeOK'
  BY DEF PubInv, TypeOK, LedgerTypeOK
<1>3. RecordsAreTruthful'
  BY StillTruthful DEF PubInv, TypeOK
<1>4. SentOnce' /\ Standing'
  BY DEF PubInv, SentOnce, Standing, Published, Last
<1>5. Final' /\ Alone' /\ Clean' /\ ConfirmedRevocationHolds'
  BY DEF PubInv, Final, Revoked, Alone, Clean, ConfirmedRevocationHolds, Last
<1> QED
  BY <1>2, <1>3, <1>4, <1>5 DEF PubInv

-----------------------------------------------------------------------------
(* The command.                                                            *)

LEMMA StartStep == ASSUME PubInv, Start PROVE PubInv'
<1>1. /\ step \in Ended /\ step' = "read" /\ wanted' = CurrentRoot /\ runs' = runs + 1
      /\ settled' = (settled /\ pending = {} /\ indexed = Len(heads))
      /\ UNCHANGED <<now, ledger, status, indexed, record>>
  BY DEF Start
<1>2. settled' => settled /\ pending = {}
  BY <1>1 DEF PubInv, TypeOK
<1> USE <1>1 DEF ledger, record
<1>3. TypeOK'
  BY DEF PubInv, TypeOK, LedgerTypeOK, CurrentRoot, Root, Steps
<1>4. RecordsAreTruthful' /\ SentOnce' /\ Standing' /\ Final'
  BY DEF PubInv, RecordsAreTruthful, SentOnce, Standing, Published, Last, Final, Revoked
<1>5. Alone' /\ Clean' /\ ConfirmedRevocationHolds'
  BY <1>2 DEF PubInv, Alone, Clean, ConfirmedRevocationHolds, Last
<1> QED
  BY <1>3, <1>4, <1>5 DEF PubInv

(* Steps of a run that only move on, before it sends or when it gives up.  *)
LEMMA GotoStep ==
  ASSUME PubInv, NEW s \in {"failed", "skipped", "compared", "refused"}, Goto(s),
         s # "failed" => step \in {"read", "compared"},
         UNCHANGED <<now, ledger, status, indexed, record>>
  PROVE  PubInv'
<1>1. step' = s /\ UNCHANGED <<wanted, runs, settled>>
  BY DEF Goto
<1> USE <1>1 DEF ledger, record
<1>2. TypeOK'
  BY DEF PubInv, TypeOK, LedgerTypeOK, Steps
<1>3. RecordsAreTruthful' /\ SentOnce' /\ Standing' /\ Final'
  BY DEF PubInv, RecordsAreTruthful, SentOnce, Standing, Published, Last, Final, Revoked
<1>4. Alone' /\ Clean' /\ ConfirmedRevocationHolds'
  BY DEF PubInv, Alone, Clean, ConfirmedRevocationHolds, Last
<1> QED
  BY <1>2, <1>3, <1>4 DEF PubInv

LEMMA PrepareStep == ASSUME PubInv, Prepare PROVE PubInv'
<1>1. /\ step = "compared" /\ attempts[wanted] = "none" /\ step' = "proving"
      /\ attempts' = [attempts EXCEPT ![wanted] = "preparing"]
      /\ UNCHANGED <<wanted, runs, settled, now, ledger, status, indexed, pending, sends,
                     checked, confirmed>>
  BY DEF Prepare, Goto
<1>2. wanted \in Root /\ sends[wanted] = 0
  BY <1>1 DEF PubInv, TypeOK, RecordsAreTruthful
<1> USE <1>1, <1>2 DEF ledger
<1>3. TypeOK'
  BY DEF PubInv, TypeOK, LedgerTypeOK, Steps, AttemptState
<1>4. RecordsAreTruthful'
  BY DEF PubInv, TypeOK, RecordsAreTruthful
<1>5. SentOnce' /\ Standing' /\ Final'
  BY DEF PubInv, SentOnce, Standing, Published, Last, Final, Revoked
<1>6. Alone' /\ Clean' /\ ConfirmedRevocationHolds'
  BY DEF PubInv, Alone, Clean, ConfirmedRevocationHolds, Last
<1> QED
  BY <1>3, <1>4, <1>5, <1>6 DEF PubInv

LEMMA RecheckStep == ASSUME PubInv, Recheck PROVE PubInv'
<1>1. /\ step = "proving" /\ wanted = CurrentRoot /\ step' = "recorded"
      /\ attempts' = [attempts EXCEPT ![wanted] = "submitted"]
      /\ checked' = Revoked
      /\ UNCHANGED <<wanted, runs, settled, now, ledger, status, indexed, pending, sends,
                     confirmed>>
  BY DEF Recheck, Goto
<1>2. wanted \in Root /\ sends[wanted] = 0
  BY <1>1 DEF PubInv, TypeOK, SentOnce
<1>3. wanted \cap Revoked = {}
  BY <1>1 DEF CurrentRoot, Revoked
<1> USE <1>1, <1>2 DEF ledger
<1>4. TypeOK'
  BY DEF PubInv, TypeOK, LedgerTypeOK, Steps, AttemptState, Revoked
<1>5. RecordsAreTruthful' /\ SentOnce'
  BY DEF PubInv, TypeOK, RecordsAreTruthful, SentOnce, Published
<1>6. Standing' /\ Final' /\ Alone'
  BY DEF PubInv, Standing, Published, Last, Final, Revoked, Alone
<1>7. Clean' /\ ConfirmedRevocationHolds'
  BY <1>3 DEF PubInv, Final, Clean, ConfirmedRevocationHolds, Last
<1> QED
  BY <1>4, <1>5, <1>6, <1>7 DEF PubInv

LEMMA SendStep == ASSUME PubInv, Send PROVE PubInv'
<1>1. /\ step = "recorded" /\ step' = "sent"
      /\ pending' = pending \cup {wanted}
      /\ sends' = [sends EXCEPT ![wanted] = @ + 1]
      /\ UNCHANGED <<wanted, runs, settled, now, ledger, status, indexed, attempts, checked,
                     confirmed>>
  BY DEF Send, Goto
<1>2. /\ wanted \in Root /\ sends[wanted] = 0 /\ attempts[wanted] = "submitted"
      /\ ~ Published(wanted)
  BY <1>1 DEF PubInv, TypeOK, SentOnce
<1>3. sends'[wanted] = 1 /\ \A r \in Root \ {wanted} : sends'[r] = sends[r]
  BY <1>1, <1>2 DEF PubInv, TypeOK
<1> USE <1>1, <1>2, <1>3 DEF ledger
<1>4. TypeOK'
  BY DEF PubInv, TypeOK, LedgerTypeOK, Steps
<1>5. RecordsAreTruthful'
  BY DEF PubInv, RecordsAreTruthful
<1>6. SentOnce' /\ Standing' /\ Final'
  BY DEF PubInv, SentOnce, Standing, Published, Last, Final, Revoked
<1>7. Alone' /\ Clean' /\ ConfirmedRevocationHolds'
  BY DEF PubInv, Alone, Clean, ConfirmedRevocationHolds, Last
<1> QED
  BY <1>4, <1>5, <1>6, <1>7 DEF PubInv

LEMMA PollStep == ASSUME PubInv, Poll PROVE PubInv'
<1>1. /\ step = "sent" /\ step' = "included"
      /\ UNCHANGED <<wanted, runs, settled, now, ledger, status, indexed, record>>
  BY DEF Poll, Goto
<1>2. Published(wanted)
  BY DEF Poll, Published, PubInv, TypeOK, LedgerTypeOK
<1> USE <1>1 DEF ledger, record
<1>3. TypeOK'
  BY DEF PubInv, TypeOK, LedgerTypeOK, Steps
<1>4. RecordsAreTruthful' /\ SentOnce' /\ Final'
  BY DEF PubInv, RecordsAreTruthful, SentOnce, Published, Final, Revoked
<1>5. Standing' /\ Alone'
  BY <1>2 DEF PubInv, Standing, Published, Last, Alone
<1>6. Clean' /\ ConfirmedRevocationHolds'
  BY DEF PubInv, Clean, ConfirmedRevocationHolds, Last
<1> QED
  BY <1>3, <1>4, <1>5, <1>6 DEF PubInv

LEMMA ConfirmStep == ASSUME PubInv, Confirm PROVE PubInv'
<1>1. /\ step = "included" /\ Seen.root = wanted /\ step' = "done"
      /\ attempts' = [attempts EXCEPT ![wanted] = "confirmed"]
      /\ confirmed' = checked
      /\ UNCHANGED <<wanted, runs, settled, now, ledger, status, indexed, pending, sends,
                     checked>>
  BY DEF Confirm, Goto
<1>2. wanted \in Root /\ indexed \in 1 .. indexed /\ heads[indexed].root = wanted
  BY <1>1 DEF PubInv, TypeOK, LedgerTypeOK, Seen
<1> USE <1>1, <1>2 DEF ledger
<1>3. TypeOK'
  BY DEF PubInv, TypeOK, LedgerTypeOK, Steps, AttemptState
<1>4. RecordsAreTruthful'
  BY DEF PubInv, TypeOK, RecordsAreTruthful
<1>5. SentOnce' /\ Standing' /\ Final'
  BY DEF PubInv, SentOnce, Standing, Published, Last, Final, Revoked
<1>6. Alone' /\ Clean'
  BY DEF PubInv, Alone, Clean, Standing
<1>7. ConfirmedRevocationHolds'
  BY DEF PubInv, Standing, Clean, ConfirmedRevocationHolds, Last
<1> QED
  BY <1>3, <1>4, <1>5, <1>6, <1>7 DEF PubInv

LEMMA NextPubInv == PubInv /\ [Next]_vars => PubInv'
<1> SUFFICES ASSUME PubInv, [Next]_vars PROVE PubInv'
  OBVIOUS
<1>1. CASE Environment
  BY <1>1, StatusStep, IncludeStep, DropStep, RetireStep, CatchUpStep DEF Environment
<1>2. CASE Start
  BY <1>2, StartStep
<1>3. CASE Examine
  BY <1>3, GotoStep DEF Examine
<1>4. CASE Prepare
  BY <1>4, PrepareStep
<1>5. CASE Refuse
  BY <1>5, GotoStep DEF Refuse
<1>6. CASE Recheck
  BY <1>6, RecheckStep
<1>7. CASE Send
  BY <1>7, SendStep
<1>8. CASE Poll
  BY <1>8, PollStep
<1>9. CASE Confirm
  BY <1>9, ConfirmStep
<1>10. CASE Fail
  BY <1>10, GotoStep DEF Fail
<1>11. CASE UNCHANGED vars
  <2> USE <1>11 DEF vars, ledger, operator, record
  <2>1. TypeOK' /\ RecordsAreTruthful' /\ SentOnce'
    BY DEF PubInv, TypeOK, LedgerTypeOK, RecordsAreTruthful, SentOnce, Published
  <2>2. Final' /\ Alone' /\ Clean' /\ Standing' /\ ConfirmedRevocationHolds'
    BY DEF PubInv, Final, Revoked, Alone, Clean, Standing, Published, Last,
           ConfirmedRevocationHolds
  <2> QED
    BY <2>1, <2>2 DEF PubInv
<1> QED
  BY <1>1, <1>2, <1>3, <1>4, <1>5, <1>6, <1>7, <1>8, <1>9, <1>10, <1>11 DEF Next, Run

LEMMA PubInductive == Spec => []PubInv
BY InitPubInv, NextPubInv, PTL DEF Spec

(* Wherever a run dies, the records say no less than what was sent and no  *)
(* more than what the ledger had, and a root is sent once at most.         *)
THEOREM Truthful == Spec => []RecordsAreTruthful
<1>1. PubInv => RecordsAreTruthful
  BY DEF PubInv
<1> QED
  BY <1>1, PubInductive, PTL

(* What was revoked when a confirmed publication was submitted stays out   *)
(* of the contract's root, as long as runs began with nothing under way.   *)
THEOREM RevocationHolds == Spec => []ConfirmedRevocationHolds
<1>1. PubInv => ConfirmedRevocationHolds
  BY DEF PubInv
<1> QED
  BY <1>1, PubInductive, PTL

-----------------------------------------------------------------------------
(* The deployment (PreprodSpec).                                           *)

Statuses == [Credential -> {"none", "valid", "revoked"}]

CeremonyTypeOK ==
  /\ status \in Statuses
  /\ keys \in Admin \cup {None}
  /\ attempt \in [Place -> {None} \cup AttemptRecord]
  /\ deployer \in [Process -> Locals]
  /\ offered \subseteq Deployment /\ airborne \subseteq Deployment
  /\ contracts \subseteq Deployment
  /\ deployments \in [Place -> Deployment \cup {None}]

(* The steps at which a process owns the record of its directory.          *)
Owning == {"preparing", "recorded", "sent", "done"}

(* The record of a directory that a process owns is its own.               *)
Owned(p) ==
  deployer[p].pc \in Owning =>
    attempt[deployer[p].place] =
      [reference |-> IF deployer[p].pc = "preparing" THEN None ELSE Transaction(p)]

Ownership == \A p \in Process : Owned(p)

(* A directory has one owner.                                              *)
Sole ==
  \A p, q \in Process :
    /\ deployer[p].pc \in Owning /\ deployer[q].pc \in Owning
    /\ deployer[p].place = deployer[q].place
    => p = q

(* Whoever has keys has those of the file, and nobody signs without.       *)
Keyed ==
  \A p \in Process :
    /\ deployer[p].admin # None => deployer[p].admin = keys
    /\ deployer[p].pc \in Owning \cup {"keyed", "serving", "agreed"} =>
         deployer[p].admin # None

Placed == \A p \in Process : deployer[p].pc # "new" => deployer[p].place \in Place

IInv ==
  /\ CeremonyTypeOK /\ Ownership /\ Sole /\ Keyed /\ Placed
  /\ DeploymentsRecorded /\ AdministrationKept

(* The state the argument speaks of, but for the issuer's.                 *)
Files == <<keys, attempt, deployer, offered, airborne, contracts, deployments>>

LEMMA InitIInv == PreprodInit => IInv
<1> SUFFICES ASSUME PreprodInit PROVE IInv
  OBVIOUS
<1>1. status \in Statuses
  BY DEF PreprodInit, Init, Statuses
<1>2. CeremonyTypeOK
  BY <1>1 DEF PreprodInit, CeremonyTypeOK, Locals, Statuses
<1>3. Ownership /\ Sole /\ Keyed /\ Placed
  BY DEF PreprodInit, Ownership, Owned, Owning, Sole, Keyed, Placed
<1>4. DeploymentsRecorded /\ AdministrationKept
  BY DEF PreprodInit, DeploymentsRecorded, AdministrationKept
<1> QED
  BY <1>2, <1>3, <1>4 DEF IInv

(* Steps of the issuer, the publication, the trial and the release.        *)
LEMMA ElsewhereStep ==
  ASSUME IInv, UNCHANGED Files, status' \in Statuses PROVE IInv'
<1>1. CeremonyTypeOK'
  BY DEF IInv, CeremonyTypeOK, Files
<1>2. \A p \in Process : Transaction(p)' = Transaction(p)
  BY DEF Transaction, Files
<1>3. Ownership' /\ Sole' /\ Keyed' /\ Placed'
  BY <1>2 DEF IInv, Ownership, Owned, Sole, Keyed, Placed, Files
<1>4. DeploymentsRecorded' /\ AdministrationKept'
  BY DEF IInv, DeploymentsRecorded, AdministrationKept, Files
<1> QED
  BY <1>1, <1>3, <1>4 DEF IInv

(* The transaction of a process that has keys is a deployment.             *)
LEMMA TransactionTyped ==
  ASSUME IInv, NEW p \in Process, deployer[p].admin # None, deployer[p].place \in Place
  PROVE  /\ Transaction(p) \in Deployment
         /\ Transaction(p).place = deployer[p].place
         /\ Transaction(p).admin = keys
<1>1. deployer[p] \in Locals
  BY DEF IInv, CeremonyTypeOK
<1>2. deployer[p].admin \in Admin
  BY <1>1 DEF Locals
<1>3. {k \in Credential : deployer[p].seen[k] = "valid"} \in Root
  BY DEF Root
<1>4. deployer[p].admin = keys
  BY DEF IInv, Keyed
<1> QED
  BY <1>2, <1>3, <1>4 DEF Transaction, Deployment

(* A process goes on to a step at which it owns nothing new, with keys     *)
(* from the file; nothing else changes.                                    *)
LEMMA MoveStep ==
  ASSUME IInv, NEW p \in Process, NEW new \in Locals,
         deployer' = [deployer EXCEPT ![p] = new],
         UNCHANGED <<keys, attempt, offered, airborne, contracts, deployments, status>>,
         new.pc \notin Owning,
         new.admin # None => new.admin = keys,
         new.pc \in {"keyed", "serving", "agreed"} => new.admin # None,
         new.place \in Place
  PROVE  IInv'
<1>1. deployer'[p] = new /\ \A q \in Process \ {p} : deployer'[q] = deployer[q]
  BY DEF IInv, CeremonyTypeOK
<1>2. CeremonyTypeOK'
  BY DEF IInv, CeremonyTypeOK
<1>3. \A q \in Process \ {p} : Transaction(q)' = Transaction(q)
  BY <1>1 DEF Transaction
<1>4. Ownership' /\ Sole'
  BY <1>1, <1>3 DEF IInv, Ownership, Owned, Sole
<1>5. Keyed' /\ Placed'
  BY <1>1 DEF IInv, Keyed, Placed
<1>6. DeploymentsRecorded' /\ AdministrationKept'
  BY DEF IInv, DeploymentsRecorded, AdministrationKept
<1> QED
  BY <1>2, <1>4, <1>5, <1>6 DEF IInv

(* The same, when it only moves on.                                        *)
LEMMA ToStep ==
  ASSUME IInv, NEW p \in Process,
         NEW at \in {"keyless", "serving", "agreed", "failed"}, To(p, at),
         deployer[p].pc # "new",
         UNCHANGED <<keys, attempt, offered, airborne, contracts, deployments, status>>,
         at \in {"serving", "agreed"} => deployer[p].admin # None
  PROVE  IInv'
<1> DEFINE new == [deployer[p] EXCEPT !.pc = at]
<1>1. deployer[p] \in Locals
  BY DEF IInv, CeremonyTypeOK
<1>2. /\ new \in Locals /\ new.pc = at
      /\ new.admin = deployer[p].admin /\ new.place = deployer[p].place
  BY <1>1 DEF Locals
<1>3. deployer' = [deployer EXCEPT ![p] = new]
  BY DEF To
<1>4. (new.admin # None => new.admin = keys) /\ new.place \in Place
  BY <1>2 DEF IInv, Keyed, Placed
<1> HIDE DEF new
<1> QED
  BY <1>2, <1>3, <1>4, MoveStep DEF Owning

LEMMA OpenStep ==
  ASSUME IInv, NEW p \in Process, Open(p), UNCHANGED status PROVE IInv'
<1>1. deployer[p] \in Locals /\ status \in Statuses
  BY DEF IInv, CeremonyTypeOK
<1>2. UNCHANGED <<keys, attempt, offered, airborne, contracts, deployments>>
  BY DEF Open
<1>3. CASE deployer' = [deployer EXCEPT ![p] =
             [pc |-> "planned", place |-> "console", seen |-> status, admin |-> None]]
  <2> DEFINE new == [pc |-> "planned", place |-> "console", seen |-> status, admin |-> None]
  <2>1. new \in Locals /\ new.pc = "planned" /\ new.admin = None /\ new.place \in Place
    BY <1>1 DEF Locals, Statuses, Place
  <2> HIDE DEF new
  <2> QED
    BY <1>2, <1>3, <2>1, MoveStep DEF Owning, new
<1>4. CASE deployer' = [deployer EXCEPT ![p].pc = "checked", ![p].place = "terminal"]
  <2> DEFINE new == [deployer[p] EXCEPT !.pc = "checked", !.place = "terminal"]
  <2>1. /\ new \in Locals /\ new.pc = "checked" /\ new.admin = deployer[p].admin
        /\ new.place \in Place
    BY <1>1 DEF Locals, Place
  <2>2. deployer' = [deployer EXCEPT ![p] = new]
    BY <1>4 DEF IInv, CeremonyTypeOK
  <2>3. new.admin # None => new.admin = keys
    BY <2>1 DEF IInv, Keyed
  <2> HIDE DEF new
  <2> QED
    BY <1>2, <2>1, <2>2, <2>3, MoveStep DEF Owning
<1> QED
  BY <1>3, <1>4 DEF Open

LEMMA PlanStep ==
  ASSUME IInv, NEW p \in Process, Plan(p), UNCHANGED status PROVE IInv'
<1> DEFINE new == [deployer[p] EXCEPT !.pc = "planned", !.seen = status]
<1>1. deployer[p] \in Locals /\ status \in Statuses
  BY DEF IInv, CeremonyTypeOK
<1>2. /\ new \in Locals /\ new.pc = "planned"
      /\ new.admin = deployer[p].admin /\ new.place = deployer[p].place
  BY <1>1 DEF Locals, Statuses
<1>3. /\ deployer' = [deployer EXCEPT ![p] = new]
      /\ UNCHANGED <<keys, attempt, offered, airborne, contracts, deployments>>
  BY DEF Plan, IInv, CeremonyTypeOK
<1>4. (new.admin # None => new.admin = keys) /\ new.place \in Place
  BY <1>2 DEF Plan, At, Place, IInv, Keyed
<1> HIDE DEF new
<1> QED
  BY <1>2, <1>3, <1>4, MoveStep DEF Owning

LEMMA LoadKeysStep ==
  ASSUME IInv, NEW p \in Process, LoadKeys(p), UNCHANGED status PROVE IInv'
<1>1. deployer[p] \in Locals /\ keys \in Admin \cup {None}
  BY DEF IInv, CeremonyTypeOK
<1>2. UNCHANGED <<keys, attempt, offered, airborne, contracts, deployments>>
  BY DEF LoadKeys
<1>3. CASE keys = None /\ To(p, "keyless")
  BY <1>2, <1>3, ToStep DEF LoadKeys
<1>4. ASSUME keys # None,
             deployer' = [deployer EXCEPT ![p].admin = keys,
               ![p].pc = IF deployer[p].place = "console" THEN "keyed" ELSE "agreed"]
      PROVE  IInv'
  <2> DEFINE at  == IF deployer[p].place = "console" THEN "keyed" ELSE "agreed"
             new == [deployer[p] EXCEPT !.admin = keys, !.pc = at]
  <2>1. /\ new \in Locals /\ new.pc \in {"keyed", "agreed"} /\ new.admin = keys
        /\ new.place = deployer[p].place
    BY <1>1, <1>4 DEF Locals
  <2>2. deployer' = [deployer EXCEPT ![p] = new]
    BY <1>4 DEF IInv, CeremonyTypeOK
  <2>3. deployer[p].place \in Place
    BY DEF LoadKeys, IInv, Placed
  <2> HIDE DEF new
  <2> QED
    BY <1>2, <1>4, <2>1, <2>2, <2>3, MoveStep DEF Owning
<1> QED
  BY <1>3, <1>4 DEF LoadKeys

LEMMA CreateKeysStep ==
  ASSUME IInv, NEW p \in Process, CreateKeys(p), UNCHANGED status PROVE IInv'
<1>1. PICK a \in Admin \ {deployer[q].admin : q \in Process} :
        /\ deployer[p].pc = "keyless" /\ keys = None /\ keys' = a
        /\ deployer' = [deployer EXCEPT ![p].pc = "keyed", ![p].admin = a]
        /\ UNCHANGED <<attempt, offered, airborne, contracts, deployments>>
  BY DEF CreateKeys
<1>2. a \in Admin /\ a # None
  BY PreprodAssumption
<1>3. \A q \in Process : deployer[q].admin = None
  BY <1>1 DEF IInv, Keyed
<1>4. \A q \in Process : deployer[q].pc \notin Owning
  BY <1>3 DEF IInv, Keyed
<1>5. offered = {} /\ airborne = {} /\ contracts = {}
  <2>1. ASSUME NEW t \in offered \cup airborne \cup contracts PROVE FALSE
    <3>1. t.admin \in Admin
      BY DEF IInv, CeremonyTypeOK, Deployment
    <3>2. t.admin = None
      BY <1>1 DEF IInv, AdministrationKept
    <3> QED
      BY <3>1, <3>2, PreprodAssumption
  <2> QED
    BY <2>1
<1> DEFINE new == [deployer[p] EXCEPT !.pc = "keyed", !.admin = a]
<1>6. deployer[p] \in Locals
  BY DEF IInv, CeremonyTypeOK
<1>7. new \in Locals /\ new.pc = "keyed" /\ new.admin = a /\ new.place = deployer[p].place
  BY <1>2, <1>6 DEF Locals
<1>8. deployer' = [deployer EXCEPT ![p] = new]
  BY <1>1 DEF IInv, CeremonyTypeOK
<1> HIDE DEF new
<1>9. deployer'[p] = new /\ \A q \in Process \ {p} : deployer'[q] = deployer[q]
  BY <1>8 DEF IInv, CeremonyTypeOK
<1>10. CeremonyTypeOK'
  BY <1>1, <1>2, <1>7, <1>8 DEF IInv, CeremonyTypeOK
<1>11. \A q \in Process : deployer'[q].pc \notin Owning
  BY <1>4, <1>7, <1>9 DEF Owning
<1>12. Ownership' /\ Sole'
  BY <1>11 DEF Ownership, Owned, Sole
<1>13. Keyed'
  BY <1>1, <1>2, <1>3, <1>4, <1>7, <1>9 DEF IInv, Keyed
<1>14. Placed'
  BY <1>1, <1>7, <1>9 DEF IInv, Placed
<1>15. DeploymentsRecorded' /\ AdministrationKept'
  BY <1>1, <1>5 DEF IInv, DeploymentsRecorded, AdministrationKept
<1> QED
  BY <1>10, <1>12, <1>13, <1>14, <1>15 DEF IInv

LEMMA ServeStep ==
  ASSUME IInv, NEW p \in Process, Serve(p), UNCHANGED status PROVE IInv'
<1>1. deployer[p].admin # None
  BY DEF Serve, At, IInv, Keyed
<1> QED
  BY <1>1, ToStep DEF Serve, At

LEMMA DeployStep ==
  ASSUME IInv, NEW p \in Process, Deploy(p), UNCHANGED status PROVE IInv'
<1>1. deployer[p].admin # None
  BY DEF Deploy, At, IInv, Keyed
<1> QED
  BY <1>1, ToStep DEF Deploy, At

LEMMA StopStep ==
  ASSUME IInv, NEW p \in Process, Stop(p), UNCHANGED status PROVE IInv'
BY ToStep DEF Stop

(* Steps on which a process keeps what it read and moves on as an owner.   *)
LEMMA OwnerMoves ==
  ASSUME IInv, NEW p \in Process, NEW at \in Owning, To(p, at), UNCHANGED keys,
         deployer[p].pc \in Owning \cup {"agreed"}
  PROVE  /\ deployer' \in [Process -> Locals]
         /\ deployer'[p].pc = at /\ deployer'[p].place = deployer[p].place
         /\ \A q \in Process \ {p} : deployer'[q] = deployer[q]
         /\ \A q \in Process : Transaction(q)' = Transaction(q)
         /\ Keyed' /\ Placed'
<1> DEFINE new == [deployer[p] EXCEPT !.pc = at]
<1>1. deployer[p] \in Locals
  BY DEF IInv, CeremonyTypeOK
<1>2. /\ new \in Locals /\ new.pc = at /\ new.place = deployer[p].place
      /\ new.admin = deployer[p].admin /\ new.seen = deployer[p].seen
  BY <1>1 DEF Locals, Owning
<1>3. deployer' = [deployer EXCEPT ![p] = new]
  BY DEF To
<1> HIDE DEF new
<1>4. /\ deployer' \in [Process -> Locals] /\ deployer'[p] = new
      /\ \A q \in Process \ {p} : deployer'[q] = deployer[q]
  BY <1>2, <1>3 DEF IInv, CeremonyTypeOK
<1>5. \A q \in Process : Transaction(q)' = Transaction(q)
  BY <1>2, <1>4 DEF Transaction
<1>6. Keyed'
  BY <1>2, <1>4 DEF IInv, Keyed
<1>7. Placed'
  BY <1>2, <1>4 DEF IInv, Placed, Owning
<1> QED
  BY <1>2, <1>4, <1>5, <1>6, <1>7

LEMMA RecordAttemptStep ==
  ASSUME IInv, NEW p \in Process, RecordAttempt(p), UNCHANGED status PROVE IInv'
<1> DEFINE d == deployer[p].place
<1>1. /\ deployer[p].pc = "agreed" /\ attempt[d] = None
      /\ attempt' = [attempt EXCEPT ![d] = [reference |-> None]]
      /\ To(p, "preparing")
      /\ UNCHANGED <<keys, offered, airborne, contracts, deployments>>
  BY DEF RecordAttempt
<1>2. d \in Place
  BY <1>1 DEF IInv, Placed
<1>3. /\ deployer' \in [Process -> Locals]
      /\ deployer'[p].pc = "preparing" /\ deployer'[p].place = d
      /\ \A q \in Process \ {p} : deployer'[q] = deployer[q]
      /\ \A q \in Process : Transaction(q)' = Transaction(q)
      /\ Keyed' /\ Placed'
  BY <1>1, OwnerMoves DEF Owning
<1>4. /\ attempt'[d] = [reference |-> None]
      /\ \A e \in Place \ {d} : attempt'[e] = attempt[e]
      /\ attempt' \in [Place -> {None} \cup AttemptRecord]
  BY <1>1, <1>2 DEF IInv, CeremonyTypeOK, AttemptRecord
<1>5. \A t \in Deployment \cup {None} : [reference |-> t] # None
  BY PreprodAssumption DEF AttemptRecord
<1>6. \A q \in Process : deployer[q].pc \in Owning => deployer[q].place # d
  <2> SUFFICES ASSUME NEW q \in Process, deployer[q].pc \in Owning, deployer[q].place = d
               PROVE  FALSE
    OBVIOUS
  <2>1. deployer[q].admin # None
    BY DEF IInv, Keyed
  <2>2. Transaction(q) \in Deployment
    BY <1>2, <2>1, TransactionTyped
  <2>3. deployer[q].pc # "preparing" => attempt[d] = [reference |-> Transaction(q)]
    BY SMTT(30) DEF IInv, Ownership, Owned
  <2>4. deployer[q].pc = "preparing" => attempt[d] = [reference |-> None]
    BY SMTT(30) DEF IInv, Ownership, Owned
  <2> QED
    BY <1>1, <1>5, <2>2, <2>3, <2>4
<1>7. \A t \in offered \cup airborne \cup contracts : t.place # d /\ t.place \in Place
  <2> SUFFICES ASSUME NEW t \in offered \cup airborne \cup contracts
               PROVE  t.place # d /\ t.place \in Place
    OBVIOUS
  <2>1. t \in Deployment /\ t.place \in Place
    BY DEF IInv, CeremonyTypeOK, Deployment
  <2> QED
    BY <1>1, <1>5, <2>1, ZenonT(60) DEF IInv, DeploymentsRecorded
<1> HIDE DEF d
<1>8. CeremonyTypeOK'
  BY <1>1, <1>3, <1>4 DEF IInv, CeremonyTypeOK
<1>9. Ownership'
  <2> SUFFICES ASSUME NEW q \in Process, deployer'[q].pc \in Owning PROVE Owned(q)'
    BY DEF Ownership, Owned
  <2>1. CASE q = p
    BY <2>1, <1>3, <1>4 DEF Owned
  <2>2. CASE q # p
    <3>1. deployer[q].pc \in Owning /\ deployer[q].place # d /\ deployer[q].place \in Place
      BY <2>2, <1>3, <1>6 DEF IInv, Placed, Owning
    <3> QED
      BY <2>2, <3>1, <1>3, <1>4 DEF IInv, Ownership, Owned
  <2> QED
    BY <2>1, <2>2
<1>10. Sole'
  BY <1>3, <1>6 DEF IInv, Sole
<1>11. DeploymentsRecorded' /\ AdministrationKept'
  BY <1>1, <1>4, <1>7 DEF IInv, DeploymentsRecorded, AdministrationKept
<1> QED
  BY <1>3, <1>8, <1>9, <1>10, <1>11 DEF IInv

LEMMA RecordTransactionStep ==
  ASSUME IInv, NEW p \in Process, RecordTransaction(p), UNCHANGED status PROVE IInv'
<1> DEFINE d == deployer[p].place
           new == Transaction(p)
<1>1. /\ deployer[p].pc = "preparing"
      /\ attempt' = [attempt EXCEPT ![d] = [reference |-> new]]
      /\ offered' \subseteq offered \cup {new}
      /\ To(p, "recorded")
      /\ UNCHANGED <<keys, airborne, contracts, deployments>>
  BY DEF RecordTransaction
<1>2. d \in Place /\ deployer[p].admin # None
  BY <1>1 DEF IInv, Placed, Keyed, Owning
<1>3. new \in Deployment /\ new.place = d /\ new.admin = keys
  BY <1>2, TransactionTyped
<1>4. /\ deployer' \in [Process -> Locals]
      /\ deployer'[p].pc = "recorded" /\ deployer'[p].place = d
      /\ \A q \in Process \ {p} : deployer'[q] = deployer[q]
      /\ \A q \in Process : Transaction(q)' = Transaction(q)
      /\ Keyed' /\ Placed'
  BY <1>1, OwnerMoves DEF Owning
<1>5. /\ attempt'[d] = [reference |-> new]
      /\ \A e \in Place \ {d} : attempt'[e] = attempt[e]
      /\ attempt' \in [Place -> {None} \cup AttemptRecord]
  BY <1>1, <1>2, <1>3 DEF IInv, CeremonyTypeOK, AttemptRecord
<1>6. attempt[d] = [reference |-> None]
  BY <1>1 DEF IInv, Ownership, Owned, Owning
<1>7. \A t \in offered \cup airborne \cup contracts : t.place # d /\ t.place \in Place
  <2> SUFFICES ASSUME NEW t \in offered \cup airborne \cup contracts
               PROVE  t.place # d /\ t.place \in Place
    OBVIOUS
  <2>1. t \in Deployment /\ t.place \in Place
    BY DEF IInv, CeremonyTypeOK, Deployment
  <2>2. attempt[t.place] = [reference |-> t]
    BY DEF IInv, DeploymentsRecorded
  <2>3. t # None
    BY <2>1, PreprodAssumption
  <2> QED
    BY <1>6, <2>1, <2>2, <2>3
<1>8. \A q \in Process \ {p} : deployer[q].pc \in Owning => deployer[q].place # d
  BY <1>1 DEF IInv, Sole, Owning
<1> HIDE DEF d, new
<1>9. CeremonyTypeOK'
  BY <1>1, <1>3, <1>4, <1>5 DEF IInv, CeremonyTypeOK
<1>10. Ownership'
  <2> SUFFICES ASSUME NEW q \in Process, deployer'[q].pc \in Owning PROVE Owned(q)'
    BY DEF Ownership, Owned
  <2>1. CASE q = p
    BY <2>1, <1>4, <1>5 DEF Owned, new
  <2>2. CASE q # p
    <3>1. deployer[q].pc \in Owning /\ deployer[q].place # d /\ deployer[q].place \in Place
      BY <2>2, <1>4, <1>8 DEF IInv, Placed, Owning
    <3> QED
      BY <2>2, <3>1, <1>4, <1>5 DEF IInv, Ownership, Owned
  <2> QED
    BY <2>1, <2>2
<1>11. Sole'
  BY <1>4, <1>8 DEF IInv, Sole
<1>12. DeploymentsRecorded' /\ AdministrationKept'
  BY <1>1, <1>3, <1>5, <1>7 DEF IInv, DeploymentsRecorded, AdministrationKept
<1> QED
  BY <1>4, <1>9, <1>10, <1>11, <1>12 DEF IInv

(* An owner whose transaction is recorded moves on; what is in the hands   *)
(* of wallets and on the chain is still what the records name.             *)
LEMMA RecordedMoves ==
  ASSUME IInv, NEW p \in Process, NEW at \in {"sent", "done"}, To(p, at),
         deployer[p].pc \in {"recorded", "sent"},
         UNCHANGED <<keys, attempt, status>>,
         offered' \subseteq Deployment, airborne' \subseteq Deployment,
         contracts' \subseteq Deployment,
         deployments' \in [Place -> Deployment \cup {None}],
         DeploymentsRecorded', AdministrationKept'
  PROVE  IInv'
<1>1. /\ deployer' \in [Process -> Locals]
      /\ deployer'[p].pc = at /\ deployer'[p].place = deployer[p].place
      /\ \A q \in Process \ {p} : deployer'[q] = deployer[q]
      /\ \A q \in Process : Transaction(q)' = Transaction(q)
      /\ Keyed' /\ Placed'
  BY OwnerMoves DEF Owning
<1>2. CeremonyTypeOK'
  BY <1>1 DEF IInv, CeremonyTypeOK
<1>3. Ownership'
  BY <1>1 DEF IInv, Ownership, Owned, Owning
<1>4. Sole'
  BY <1>1 DEF IInv, Sole, Owning
<1> QED
  BY <1>1, <1>2, <1>3, <1>4 DEF IInv

(* The transaction of an owner that recorded it.                           *)
LEMMA OwnTransaction ==
  ASSUME IInv, NEW p \in Process, deployer[p].pc \in {"recorded", "sent"}
  PROVE  /\ Transaction(p) \in Deployment /\ Transaction(p).admin = keys
         /\ Transaction(p).place = deployer[p].place /\ deployer[p].place \in Place
         /\ attempt[Transaction(p).place] = [reference |-> Transaction(p)]
<1>1. deployer[p].admin # None /\ deployer[p].place \in Place
  BY DEF IInv, Keyed, Placed, Owning
<1> QED
  BY <1>1, TransactionTyped DEF IInv, Ownership, Owned, Owning

LEMMA SentStep ==
  ASSUME IInv, NEW p \in Process, Sent(p), UNCHANGED status PROVE IInv'
<1>1. /\ deployer[p].pc = "recorded" /\ To(p, "sent")
      /\ airborne' \subseteq airborne \cup {Transaction(p)}
      /\ UNCHANGED <<keys, attempt, offered, contracts, deployments>>
  BY DEF Sent
<1>2. /\ Transaction(p) \in Deployment /\ Transaction(p).admin = keys
      /\ attempt[Transaction(p).place] = [reference |-> Transaction(p)]
  BY <1>1, OwnTransaction
<1>3. DeploymentsRecorded' /\ AdministrationKept'
  BY <1>1, <1>2 DEF IInv, DeploymentsRecorded, AdministrationKept
<1> QED
  BY <1>1, <1>2, <1>3, RecordedMoves DEF IInv, CeremonyTypeOK

LEMMA ConfirmedStep ==
  ASSUME IInv, NEW p \in Process, Confirmed(p), UNCHANGED status PROVE IInv'
<1>1. /\ deployer[p].pc = "sent" /\ To(p, "done")
      /\ Transaction(p) \in contracts
      /\ deployments' = [deployments EXCEPT ![deployer[p].place] = Transaction(p)]
      /\ UNCHANGED <<keys, attempt, offered, airborne, contracts>>
  BY DEF Confirmed
<1>2. Transaction(p) \in Deployment /\ deployer[p].place \in Place
  BY <1>1, OwnTransaction
<1>3. deployments' \in [Place -> Deployment \cup {None}]
  BY <1>1, <1>2 DEF IInv, CeremonyTypeOK
<1>4. DeploymentsRecorded' /\ AdministrationKept'
  BY <1>1, <1>2 DEF IInv, CeremonyTypeOK, DeploymentsRecorded, AdministrationKept
<1> QED
  BY <1>1, <1>3, <1>4, RecordedMoves DEF IInv, CeremonyTypeOK

(* The user and the chain move transactions on.                            *)
LEMMA TransactionStep ==
  ASSUME IInv, UNCHANGED <<keys, attempt, deployer, deployments, status>>,
         contracts \subseteq contracts',
         offered' \cup airborne' \cup contracts' \subseteq offered \cup airborne \cup contracts
  PROVE  IInv'
<1>1. CeremonyTypeOK'
  BY DEF IInv, CeremonyTypeOK
<1>2. \A q \in Process : Transaction(q)' = Transaction(q)
  BY DEF Transaction
<1>3. Ownership' /\ Sole' /\ Keyed' /\ Placed'
  BY <1>2 DEF IInv, Ownership, Owned, Sole, Keyed, Placed
<1>4. DeploymentsRecorded' /\ AdministrationKept'
  BY DEF IInv, DeploymentsRecorded, AdministrationKept
<1> QED
  BY <1>1, <1>3, <1>4 DEF IInv

LEMMA CeremonyStep == ASSUME IInv, Ceremony PROVE IInv'
<1> USE DEF published
<1>1. UNCHANGED status
  BY DEF Ceremony
<1>2. CASE Register
  BY <1>1, <1>2, ElsewhereStep DEF Register, Files, IInv, CeremonyTypeOK
<1>3. ASSUME NEW p \in Process,
             \/ Open(p) \/ Plan(p) \/ LoadKeys(p) \/ CreateKeys(p) \/ Serve(p) \/ Deploy(p)
             \/ RecordAttempt(p) \/ RecordTransaction(p) \/ Sent(p) \/ Confirmed(p) \/ Stop(p)
      PROVE  IInv'
  BY <1>1, <1>3, OpenStep, PlanStep, LoadKeysStep, CreateKeysStep, ServeStep, DeployStep,
     RecordAttemptStep, RecordTransactionStep, SentStep, ConfirmedStep, StopStep
<1>4. ASSUME NEW t \in offered, UserSubmits(t) PROVE IInv'
  BY <1>1, <1>4, TransactionStep DEF UserSubmits
<1>5. ASSUME NEW t \in airborne, Mine(t) PROVE IInv'
  BY <1>1, <1>5, TransactionStep DEF Mine
<1> QED
  BY <1>2, <1>3, <1>4, <1>5 DEF Ceremony

(* Whatever else happens, the issuer's statuses stay statuses, and what is *)
(* revoked stays revoked.                                                  *)
Moved ==
  /\ status' \in Statuses
  /\ \A k \in Credential : status[k] = "revoked" => status'[k] = "revoked"

LEMMA StatusMoves ==
  ASSUME status \in Statuses, Trial \/ Publication \/ \E d \in Place : Release(d)
  PROVE  Moved
<1>1. ASSUME NEW k, status' = [status EXCEPT ![k] = "revoked"] PROVE Moved
  BY <1>1 DEF Statuses, Moved
<1>2. ASSUME NEW k, status[k] = "none", status' = [status EXCEPT ![k] = "valid"] PROVE Moved
  BY <1>2 DEF Statuses, Moved
<1>3. ASSUME UNCHANGED status PROVE Moved
  BY <1>3 DEF Moved
<1>4. CASE Trial
  <2>1. ASSUME NEW k \in Credential, TrialIssue(k) PROVE Moved
    BY <2>1, <1>2 DEF TrialIssue
  <2>2. CASE TrialStart \/ TrialRead \/ TrialSubmit \/ TrialConfirm \/ TrialFail \/ TrialDies
    BY <2>2, <1>3
    DEF TrialStart, TrialRead, TrialSubmit, TrialConfirm, TrialFail, TrialDies
  <2>3. CASE TrialRevoke
    <3>1. status' = [status EXCEPT ![trial.cred] = "revoked"] \/ UNCHANGED status
      BY <2>3 DEF TrialRevoke
    <3> QED
      BY <3>1, <1>1, <1>3
  <2>4. CASE TrialClose
    <3>1. status' = [status EXCEPT ![trial.cred] = "revoked"] \/ UNCHANGED status
      BY <2>4 DEF TrialClose
    <3> QED
      BY <3>1, <1>1, <1>3
  <2> QED
    BY <1>4, <2>1, <2>2, <2>3, <2>4 DEF Trial
<1>5. CASE Publication
  <2>1. ASSUME NEW k \in Credential, Issue(k) \/ Revoke(k) PROVE Moved
    BY <2>1, <1>1, <1>2 DEF Issue, Revoke
  <2>2. CASE Run
    BY <2>2, <1>3 DEF Run, Start, Examine, Prepare, Refuse, Recheck, Send, Poll, Confirm, Fail
  <2>3. CASE Environment
    BY <2>1, <2>3, <1>3 DEF Environment, Include, Drop, Retire, CatchUp
  <2> QED
    BY <1>5, <2>1, <2>2, <2>3 DEF Publication
<1>6. CASE \E d \in Place : Release(d)
  BY <1>3, <1>6 DEF Release
<1> QED
  BY <1>4, <1>5, <1>6

LEMMA NextIInv == IInv /\ [PreprodNext]_allVars => IInv'
<1> SUFFICES ASSUME IInv, [PreprodNext]_allVars PROVE IInv'
  OBVIOUS
<1>1. status \in Statuses
  BY DEF IInv, CeremonyTypeOK
<1>2. CASE Ceremony
  BY <1>2, CeremonyStep
<1>3. CASE Trial
  <2>1. UNCHANGED ceremony
    BY <1>3 DEF Trial, TrialStart, TrialRead, TrialSubmit, TrialConfirm, TrialRevoke,
                TrialFail, TrialClose, TrialDies, TrialIssue, Records
  <2> QED
    BY <1>1, <1>3, <2>1, StatusMoves, ElsewhereStep DEF ceremony, Files, Moved
<1>4. CASE Publication
  <2>1. UNCHANGED ceremony
    BY <1>4 DEF Publication
  <2> QED
    BY <1>1, <1>4, <2>1, StatusMoves, ElsewhereStep DEF ceremony, Files, Moved
<1>5. CASE \E d \in Place : Release(d)
  <2>1. UNCHANGED ceremony
    BY <1>5 DEF Release
  <2> QED
    BY <1>1, <1>5, <2>1, StatusMoves, ElsewhereStep DEF ceremony, Files, Moved
<1>6. CASE UNCHANGED allVars
  BY <1>1, <1>6, ElsewhereStep DEF allVars, ceremony, published, Files
<1> QED
  BY <1>2, <1>3, <1>4, <1>5, <1>6 DEF PreprodNext

LEMMA Inductive == PreprodSpec => []IInv
BY InitIInv, NextIInv, PTL DEF PreprodSpec

(* Whatever a wallet was handed is what the record of its directory names, *)
(* however many processes of the commands start, stop and overlap there,   *)
(* and however late the user or the chain.                                 *)
THEOREM Recorded == PreprodSpec => []DeploymentsRecorded
<1>1. IInv => DeploymentsRecorded
  BY DEF IInv
<1> QED
  BY <1>1, Inductive, PTL

(* Every deployment is administered by the keys in the file.               *)
THEOREM Administrable == PreprodSpec => []AdministrationKept
<1>1. IInv => AdministrationKept
  BY DEF IInv
<1> QED
  BY <1>1, Inductive, PTL

-----------------------------------------------------------------------------
(* The acceptance run (PreprodSpec).                                       *)

(* The run holds a credential from its issue on, and what it counts as     *)
(* revoked is.                                                             *)
TrialInv ==
  /\ trial \in [pc : TrialSteps, cred : Credential \cup {None}, revoked : BOOLEAN, root : Root]
  /\ trial.pc \in {"none", "started"} => trial.cred = None /\ ~ trial.revoked
  /\ trial.cred # None => minted = trial.cred
  /\ trial.pc \notin {"none", "started", "closing", "over"} => trial.cred \in Credential
  /\ trial.pc \in {"revoked", "reread", "resubmitted"} => trial.revoked
  /\ trial.revoked => trial.cred \in Credential /\ status[trial.cred] = "revoked"
  /\ TrialCleansUp

(* Steps elsewhere: a revoked credential stays revoked.                    *)
LEMMA TrialStands ==
  ASSUME TrialInv, UNCHANGED acceptance,
         \A k \in Credential : status[k] = "revoked" => status'[k] = "revoked"
  PROVE  TrialInv'
BY DEF TrialInv, TrialCleansUp, acceptance

(* A trial after each of its assignments.                                  *)
LEMMA TrialUpdates ==
  ASSUME TrialInv
  PROVE  /\ \A at :
              [trial EXCEPT !.pc = at] = [pc |-> at, cred |-> trial.cred,
                revoked |-> trial.revoked, root |-> trial.root]
         /\ \A at, k :
              [trial EXCEPT !.pc = at, !.cred = k] = [pc |-> at, cred |-> k,
                revoked |-> trial.revoked, root |-> trial.root]
         /\ \A at, root :
              [trial EXCEPT !.pc = at, !.root = root] = [pc |-> at, cred |-> trial.cred,
                revoked |-> trial.revoked, root |-> root]
         /\ \A at, r :
              [trial EXCEPT !.pc = at, !.revoked = r] = [pc |-> at, cred |-> trial.cred,
                revoked |-> r, root |-> trial.root]
<1>1. trial = [pc |-> trial.pc, cred |-> trial.cred, revoked |-> trial.revoked,
               root |-> trial.root]
  BY DEF TrialInv
<1>2. \A at : [trial EXCEPT !.pc = at] = [pc |-> at, cred |-> trial.cred,
                revoked |-> trial.revoked, root |-> trial.root]
  BY <1>1
<1>3. ASSUME NEW at, NEW k
      PROVE  [trial EXCEPT !.pc = at, !.cred = k] = [pc |-> at, cred |-> k,
                revoked |-> trial.revoked, root |-> trial.root]
  <2>1. PICK t : t = [pc |-> at, cred |-> trial.cred, revoked |-> trial.revoked,
                      root |-> trial.root]
    OBVIOUS
  <2>2. [trial EXCEPT !.pc = at, !.cred = k] = [t EXCEPT !.cred = k]
    BY <1>2, <2>1
  <2> QED
    BY <2>1, <2>2
<1>4. ASSUME NEW at, NEW root
      PROVE  [trial EXCEPT !.pc = at, !.root = root] = [pc |-> at, cred |-> trial.cred,
                revoked |-> trial.revoked, root |-> root]
  <2>1. PICK t : t = [pc |-> at, cred |-> trial.cred, revoked |-> trial.revoked,
                      root |-> trial.root]
    OBVIOUS
  <2>2. [trial EXCEPT !.pc = at, !.root = root] = [t EXCEPT !.root = root]
    BY <1>2, <2>1
  <2> QED
    BY <2>1, <2>2
<1>5. ASSUME NEW at, NEW r
      PROVE  [trial EXCEPT !.pc = at, !.revoked = r] = [pc |-> at, cred |-> trial.cred,
                revoked |-> r, root |-> trial.root]
  <2>1. PICK t : t = [pc |-> at, cred |-> trial.cred, revoked |-> trial.revoked,
                      root |-> trial.root]
    OBVIOUS
  <2>2. [trial EXCEPT !.pc = at, !.revoked = r] = [t EXCEPT !.revoked = r]
    BY <1>2, <2>1
  <2> QED
    BY <2>1, <2>2
<1> QED
  BY <1>2, <1>3, <1>4, <1>5

LEMMA TrialStep ==
  ASSUME status \in Statuses, status' \in Statuses, TrialInv, Trial,
         \A k \in Credential : status[k] = "revoked" => status'[k] = "revoked"
  PROVE  TrialInv'
<1> USE DEF TrialSteps, TrialAt
<1> DEFINE At4(at, cred, revoked, root) ==
             [pc |-> at, cred |-> cred, revoked |-> revoked, root |-> root]
<1>0. /\ trial.pc \in TrialSteps /\ trial.cred \in Credential \cup {None}
      /\ trial.revoked \in BOOLEAN /\ trial.root \in Root /\ CurrentRoot \in Root
  BY DEF TrialInv, CurrentRoot, Root
<1>1. ASSUME NEW k \in Credential, status' = [status EXCEPT ![k] = "revoked"]
      PROVE  status'[k] = "revoked"
  BY <1>1 DEF Statuses
(* The run moves on with what it has.                                      *)
<1>2. ASSUME NEW at \in TrialSteps, trial' = [trial EXCEPT !.pc = at],
             at # "none", at = "started" => trial.cred = None /\ ~ trial.revoked,
             at \notin {"none", "started", "closing", "over"} => trial.cred \in Credential,
             at \in {"revoked", "reread", "resubmitted"} => trial.revoked,
             at = "over" => unclean' \/ trial.cred = None \/ trial.cred \notin Credential
                            \/ status'[trial.cred] = "revoked",
             minted' = minted
      PROVE  TrialInv'
  <2>1. trial' = At4(at, trial.cred, trial.revoked, trial.root)
    BY <1>2, TrialUpdates
  <2>2. trial' \in
           [pc : TrialSteps, cred : Credential \cup {None}, revoked : BOOLEAN, root : Root]
    BY <2>1, <1>0
  <2>3. /\ trial'.pc = at /\ trial'.cred = trial.cred /\ trial'.revoked = trial.revoked
    BY <2>1
  <2> QED
    BY <1>0, <1>2, <2>2, <2>3 DEF TrialInv, TrialCleansUp
<1>3. CASE TrialStart
  BY <1>2, <1>3 DEF TrialStart, TrialInv
<1>4. ASSUME NEW k \in Credential, TrialIssue(k) PROVE TrialInv'
  <2>1. trial.pc = "started" /\ ~ trial.revoked
    BY <1>4 DEF TrialIssue, TrialInv
  <2>2. CASE trial' = [trial EXCEPT !.pc = "issued", !.cred = k]
    <3>1. trial' = At4("issued", k, trial.revoked, trial.root)
      BY <2>2, TrialUpdates
    <3>2. trial' \in
           [pc : TrialSteps, cred : Credential \cup {None}, revoked : BOOLEAN, root : Root]
      BY <3>1, <1>0
    <3> QED
      BY <1>4, <2>1, <3>1, <3>2 DEF TrialIssue, TrialInv, TrialCleansUp
  <2>3. CASE trial' = [trial EXCEPT !.pc = "closing"]
    <3>1. trial' = At4("closing", None, FALSE, trial.root)
      BY <1>0, <2>1, <2>3, TrialUpdates DEF TrialInv
    <3>2. trial' \in
           [pc : TrialSteps, cred : Credential \cup {None}, revoked : BOOLEAN, root : Root]
      BY <3>1, <1>0
    <3> QED
      BY <3>1, <3>2 DEF TrialInv, TrialCleansUp
  <2> QED
    BY <1>4, <2>2, <2>3 DEF TrialIssue
<1>5. CASE TrialRead
  <2>1. PICK at \in {"read", "reread"} :
          /\ trial' = [trial EXCEPT !.pc = at, !.root = CurrentRoot]
          /\ trial.pc \in {"issued", "revoked"} /\ (at = "reread" => trial.pc = "revoked")
    BY <1>5 DEF TrialRead
  <2>2. trial' = At4(at, trial.cred, trial.revoked, CurrentRoot)
    BY <1>0, <2>1, TrialUpdates
  <2>3. trial' \in
           [pc : TrialSteps, cred : Credential \cup {None}, revoked : BOOLEAN, root : Root]
    BY <1>0, <2>2
  <2> QED
    BY <1>5, <2>1, <2>2, <2>3 DEF TrialRead, TrialInv, TrialCleansUp
<1>6. CASE TrialSubmit
  <2>0. minted' = minted
    BY <1>6 DEF TrialSubmit
  <2>1. CASE TrialAt("read") /\ trial' = [trial EXCEPT !.pc = "submitted"]
    BY <1>2, <2>0, <2>1 DEF TrialInv
  <2>2. CASE TrialAt("reread") /\ trial' = [trial EXCEPT !.pc = "resubmitted"]
    BY <1>2, <2>0, <2>2 DEF TrialInv
  <2> QED
    BY <1>6, <2>1, <2>2 DEF TrialSubmit
<1>7. CASE TrialConfirm
  <2>0. minted' = minted
    BY <1>7 DEF TrialConfirm
  <2>1. CASE TrialAt("submitted") /\ trial' = [trial EXCEPT !.pc = "authorized"]
    BY <1>2, <2>0, <2>1 DEF TrialInv
  <2>2. CASE TrialAt("resubmitted") /\ trial' = [trial EXCEPT !.pc = "over"]
    BY <1>2, <2>0, <2>2 DEF TrialInv
  <2> QED
    BY <1>7, <2>1, <2>2 DEF TrialConfirm
<1>8. CASE TrialRevoke
  <2>1. trial.cred \in Credential
    BY <1>8 DEF TrialRevoke, TrialInv
  <2>2. CASE /\ status' = [status EXCEPT ![trial.cred] = "revoked"]
             /\ trial' = [trial EXCEPT !.pc = "revoked", !.revoked = TRUE]
    <3>1. trial' = At4("revoked", trial.cred, TRUE, trial.root)
      BY <2>2, TrialUpdates
    <3>2. trial' \in
           [pc : TrialSteps, cred : Credential \cup {None}, revoked : BOOLEAN, root : Root]
      BY <3>1, <1>0
    <3>3. status'[trial.cred] = "revoked"
      BY <1>1, <2>1, <2>2
    <3> QED
      BY <1>8, <2>1, <3>1, <3>2, <3>3 DEF TrialRevoke, TrialInv, TrialCleansUp
  <2>3. CASE trial' = [trial EXCEPT !.pc = "closing"]
    BY <1>2, <1>8, <2>3 DEF TrialRevoke
  <2> QED
    BY <1>8, <2>2, <2>3 DEF TrialRevoke
<1>9. CASE TrialFail
  BY <1>2, <1>9 DEF TrialFail
<1>10. CASE TrialClose
  <2>0. minted' = minted
    BY <1>10 DEF TrialClose
  <2>1. trial' = [trial EXCEPT !.pc = "over"]
    BY <1>10 DEF TrialClose
  <2>2. CASE trial.cred = None \/ trial.revoked
    BY <1>2, <2>0, <2>1, <2>2 DEF TrialInv
  <2>3. CASE trial.cred # None /\ status' = [status EXCEPT ![trial.cred] = "revoked"]
    BY <1>0, <1>1, <1>2, <2>0, <2>1, <2>3
  <2>4. CASE unclean' = TRUE
    BY <1>2, <2>0, <2>1, <2>4
  <2> QED
    BY <1>10, <2>2, <2>3, <2>4 DEF TrialClose
<1>11. CASE TrialDies
  BY <1>2, <1>11 DEF TrialDies
<1> QED
  BY <1>3, <1>4, <1>5, <1>6, <1>7, <1>8, <1>9, <1>10, <1>11 DEF Trial

LEMMA NextTrialInv == IInv /\ TrialInv /\ [PreprodNext]_allVars => TrialInv'
<1> SUFFICES ASSUME IInv, TrialInv, [PreprodNext]_allVars PROVE TrialInv'
  OBVIOUS
<1>1. status \in Statuses
  BY DEF IInv, CeremonyTypeOK
<1>2. CASE Ceremony
  BY <1>2, TrialStands DEF Ceremony, published
<1>3. CASE Trial
  BY <1>1, <1>3, StatusMoves, TrialStep DEF Moved
<1>4. CASE Publication
  BY <1>1, <1>4, StatusMoves, TrialStands DEF Publication, Moved
<1>5. CASE \E d \in Place : Release(d)
  BY <1>5, TrialStands DEF Release
<1>6. CASE UNCHANGED allVars
  BY <1>6, TrialStands DEF allVars, published
<1> QED
  BY <1>2, <1>3, <1>4, <1>5, <1>6 DEF PreprodNext

LEMMA TrialInductive == PreprodSpec => []TrialInv
<1>1. PreprodInit => TrialInv
  BY DEF PreprodInit, TrialInv, TrialCleansUp, TrialSteps, Root
<1> QED
  BY <1>1, Inductive, NextTrialInv, PTL DEF PreprodSpec

(* However the acceptance run ends, by itself, by an error at any of its   *)
(* steps or at its cleaning up, the credential it was issued is revoked,   *)
(* unless the process died, the last call failed, or the run never knew    *)
(* the reference: the answer to the issue was lost or not accepted.        *)
THEOREM CleansUp == PreprodSpec => []TrialCleansUp
<1>1. TrialInv => TrialCleansUp
  BY DEF TrialInv
<1> QED
  BY <1>1, TrialInductive, PTL

-----------------------------------------------------------------------------
(* Publications beside the acceptance run (PreprodSpec).  The run hands    *)
(* roots of its own to the wallet, so that a root a command wants may have *)
(* been on the ledger without the command: what it sees published need not *)
(* be its own doing.                                                       *)

(* A command that is about to send a root is the first to.                 *)
FirstSend ==
  /\ step \in {"proving", "recorded"} => sends[wanted] = 0
  /\ step = "recorded" => attempts[wanted] = "submitted"

(* Until the release nothing was published.                                *)
Untouched ==
  released = None =>
    /\ Len(heads) = 1 /\ pending = {} /\ step = "idle" /\ trial.pc = "none"
    /\ confirmed = {} /\ \A root \in Root : attempts[root] = "none"

(* The wallet has one owner.                                               *)
Exclusive == trial.pc \notin {"none", "over"} => step \in Ended

(* During a command that began with nothing under way, nothing else is.    *)
UnderWay ==
  settled /\ step \notin Ended =>
    /\ pending \subseteq {wanted}
    /\ step # "sent" => pending = {}

(* No root is or will be under way that undoes a confirmed revocation.     *)
Spotless ==
  settled =>
    /\ \A root \in pending : root \cap confirmed = {}
    /\ step \in {"recorded", "sent", "included"} => wanted \cap (checked \cup confirmed) = {}
    /\ trial.pc \in {"read", "reread"} => trial.root \cap confirmed = {}

(* All the indexer can show to such a command after it found another root  *)
(* is that other root, until the command's own transaction is included.    *)
OwnRoot ==
  settled /\ step \notin Ended =>
    \/ step \in {"sent", "included"} /\ pending = {} /\ Last.root = wanted
    \/ /\ \A i \in indexed .. Len(heads) : heads[i].root = Last.root
       /\ step # "read" => Last.root # wanted

ChainInv ==
  /\ TypeOK /\ RecordsAreTruthful /\ FirstSend /\ Final /\ Untouched /\ Exclusive
  /\ UnderWay /\ Spotless /\ OwnRoot /\ ConfirmedRevocationHolds

Beside == UNCHANGED <<released, trial>>

LEMMA InitChainInv == PreprodInit => ChainInv
<1> SUFFICES ASSUME PreprodInit PROVE ChainInv
  OBVIOUS
<1>1. TypeOK /\ RecordsAreTruthful /\ Final /\ ConfirmedRevocationHolds
  BY InitPubInv DEF PreprodInit, PubInv
<1>2. PICK root \in SUBSET Credential :
        heads = <<[time |-> 0, active |-> TRUE, root |-> root, version |-> 0]>>
  BY DEF PreprodInit, Init, LedgerInit
<1>3. FirstSend /\ Untouched
  BY <1>2 DEF PreprodInit, Init, FirstSend, Untouched
<1>4. Exclusive /\ UnderWay /\ Spotless /\ OwnRoot
  BY DEF PreprodInit, Init, Ended, Exclusive, UnderWay, Spotless, OwnRoot
<1> QED
  BY <1>1, <1>3, <1>4 DEF ChainInv

(* Where nothing of the publication changes.                               *)
LEMMA ChainStands ==
  ASSUME ChainInv, UNCHANGED <<published, released, trial>> PROVE ChainInv'
<1> USE DEF published, ledger, operator, record
<1>1. TypeOK' /\ RecordsAreTruthful' /\ FirstSend' /\ Final'
  BY DEF ChainInv, TypeOK, LedgerTypeOK, RecordsAreTruthful, FirstSend, Final, Revoked
<1>2. Untouched' /\ Exclusive' /\ UnderWay' /\ Spotless'
  BY DEF ChainInv, Untouched, Exclusive, UnderWay, Spotless
<1>3. OwnRoot' /\ ConfirmedRevocationHolds'
  BY DEF ChainInv, OwnRoot, ConfirmedRevocationHolds, Last
<1> QED
  BY <1>1, <1>2, <1>3 DEF ChainInv

LEMMA ChainStatusStep ==
  ASSUME ChainInv, NEW k \in Credential, Issue(k) \/ Revoke(k), Beside PROVE ChainInv'
<1>1. UNCHANGED <<now, ledger, indexed, operator, record, released, trial>>
  BY DEF Issue, Revoke, Beside
<1> USE <1>1 DEF ledger, operator, record
<1>2. TypeOK'
  BY DEF ChainInv, TypeOK, LedgerTypeOK, Issue, Revoke
<1>3. Revoked \subseteq Revoked'
  BY DEF ChainInv, TypeOK, Issue, Revoke, Revoked
<1>4. RecordsAreTruthful' /\ FirstSend' /\ Final'
  BY <1>3 DEF ChainInv, RecordsAreTruthful, FirstSend, Final
<1>5. Untouched' /\ Exclusive' /\ UnderWay' /\ Spotless'
  BY DEF ChainInv, Untouched, Exclusive, UnderWay, Spotless
<1>6. OwnRoot' /\ ConfirmedRevocationHolds'
  BY DEF ChainInv, OwnRoot, ConfirmedRevocationHolds, Last
<1> QED
  BY <1>2, <1>4, <1>5, <1>6 DEF ChainInv

LEMMA ChainIncludeStep ==
  ASSUME ChainInv, NEW root \in Root, Include(root), released # None, Beside PROVE ChainInv'
<1>1. heads \in Seq(State) /\ heads # <<>> /\ Last \in State
  BY LastTyped DEF ChainInv, TypeOK, LedgerTypeOK
<1>2. PICK t \in BlockTime :
        heads' = Append(heads,
          [Last EXCEPT !.time = t, !.root = root, !.version = Last.version + 1])
  BY DEF Include, PublishStatus, Seal
<1> DEFINE h == [Last EXCEPT !.time = t, !.root = root, !.version = Last.version + 1]
<1>0. t \in Nat
  BY LedgerAssumption DEF BlockTime, ChainInv, TypeOK, LedgerTypeOK
<1>3. h \in State /\ h.root = root
  BY <1>0, <1>1, HeadPublished
<1>4. heads' = Append(heads, h)
  BY <1>2
<1> HIDE DEF h
<1>5. /\ heads' \in Seq(State) /\ heads' # <<>> /\ Len(heads') = Len(heads) + 1
      /\ \A i \in 1 .. Len(heads) : heads'[i] = heads[i]
      /\ Last' = h
  BY <1>1, <1>3, <1>4, Appended
<1>6. /\ root \in pending /\ pending' = pending \ {root}
      /\ UNCHANGED <<now, authorizations, status, indexed, operator, attempts, sends,
                     checked, confirmed, released, trial>>
  BY DEF Include, PublishStatus, Seal, Beside
<1> USE <1>6 DEF operator
<1>7. TypeOK'
  BY <1>1, <1>5 DEF ChainInv, TypeOK, LedgerTypeOK
<1>8. RecordsAreTruthful'
  BY <1>5, StillTruthful DEF ChainInv, TypeOK, LedgerTypeOK
<1>9. FirstSend' /\ Final' /\ Untouched' /\ Exclusive' /\ UnderWay' /\ Spotless'
  BY DEF ChainInv, FirstSend, Final, Revoked, Untouched, Exclusive, UnderWay, Spotless
<1>10. OwnRoot'
  BY <1>3, <1>5 DEF ChainInv, UnderWay, OwnRoot
<1>11. ConfirmedRevocationHolds'
  BY <1>3, <1>5 DEF ChainInv, Spotless, ConfirmedRevocationHolds
<1> QED
  BY <1>7, <1>8, <1>9, <1>10, <1>11 DEF ChainInv

LEMMA ChainDropStep ==
  ASSUME ChainInv, NEW root \in Root, Drop(root), released # None, Beside PROVE ChainInv'
<1>1. /\ root \in pending /\ pending' = pending \ {root}
      /\ UNCHANGED <<now, ledger, status, indexed, operator, attempts, sends, checked,
                     confirmed, released, trial>>
  BY DEF Drop, Beside
<1> USE <1>1 DEF ledger, operator
<1>2. TypeOK' /\ RecordsAreTruthful' /\ FirstSend' /\ Final'
  BY DEF ChainInv, TypeOK, LedgerTypeOK, RecordsAreTruthful, FirstSend, Final, Revoked
<1>3. Untouched' /\ Exclusive' /\ UnderWay' /\ Spotless'
  BY DEF ChainInv, Untouched, Exclusive, UnderWay, Spotless
<1>4. OwnRoot' /\ ConfirmedRevocationHolds'
  BY DEF ChainInv, OwnRoot, ConfirmedRevocationHolds, Last
<1> QED
  BY <1>2, <1>3, <1>4 DEF ChainInv

LEMMA ChainRetireStep ==
  ASSUME ChainInv, Retire, released # None, Beside PROVE ChainInv'
<1>1. heads \in Seq(State) /\ heads # <<>> /\ Last \in State
  BY LastTyped DEF ChainInv, TypeOK, LedgerTypeOK
<1>2. PICK t \in BlockTime : heads' = Append(heads, [Last EXCEPT !.time = t, !.active = FALSE])
  BY DEF Retire, Deactivate, Seal
<1> DEFINE h == [Last EXCEPT !.time = t, !.active = FALSE]
<1>0. t \in Nat
  BY LedgerAssumption DEF BlockTime, ChainInv, TypeOK, LedgerTypeOK
<1>3. h \in State /\ h.root = Last.root
  BY <1>0, <1>1 DEF State
<1>4. heads' = Append(heads, h)
  BY <1>2
<1> HIDE DEF h
<1>5. /\ heads' \in Seq(State) /\ heads' # <<>> /\ Len(heads') = Len(heads) + 1
      /\ \A i \in 1 .. Len(heads) : heads'[i] = heads[i]
      /\ Last'.root = Last.root /\ Last' = heads'[Len(heads')]
  BY <1>1, <1>3, <1>4, Appended DEF Last
<1>6. UNCHANGED <<now, authorizations, status, indexed, operator, record, released, trial>>
  BY DEF Retire, Deactivate, Seal, Beside
<1> USE <1>6 DEF operator, record
<1>7. TypeOK'
  BY <1>1, <1>5 DEF ChainInv, TypeOK, LedgerTypeOK
<1>8. RecordsAreTruthful'
  BY <1>5, StillTruthful DEF ChainInv, TypeOK, LedgerTypeOK
<1>9. FirstSend' /\ Final' /\ Untouched' /\ Exclusive' /\ UnderWay' /\ Spotless'
  BY DEF ChainInv, FirstSend, Final, Revoked, Untouched, Exclusive, UnderWay, Spotless
<1>10. OwnRoot'
  <2>1. \A i \in indexed .. Len(heads') :
          \/ i \in indexed .. Len(heads) /\ i \in 1 .. Len(heads)
          \/ i = Len(heads')
    BY <1>1, <1>5 DEF ChainInv, TypeOK
  <2> QED
    BY <1>5, <2>1 DEF ChainInv, OwnRoot
<1>11. ConfirmedRevocationHolds'
  BY <1>5 DEF ChainInv, ConfirmedRevocationHolds
<1> QED
  BY <1>7, <1>8, <1>9, <1>10, <1>11 DEF ChainInv

LEMMA ChainCatchUpStep ==
  ASSUME ChainInv, CatchUp, released # None, Beside PROVE ChainInv'
<1>1. /\ indexed < Len(heads) /\ indexed' = indexed + 1
      /\ UNCHANGED <<now, ledger, status, operator, record, released, trial>>
  BY DEF CatchUp, Beside
<1> USE <1>1 DEF ledger, operator, record
<1>2. TypeOK'
  BY DEF ChainInv, TypeOK, LedgerTypeOK
<1>3. RecordsAreTruthful'
  BY StillTruthful DEF ChainInv, TypeOK
<1>4. FirstSend' /\ Final' /\ Untouched' /\ Exclusive' /\ UnderWay' /\ Spotless'
  BY DEF ChainInv, FirstSend, Final, Revoked, Untouched, Exclusive, UnderWay, Spotless
<1>5. OwnRoot' /\ ConfirmedRevocationHolds'
  BY DEF ChainInv, TypeOK, OwnRoot, ConfirmedRevocationHolds, Last
<1> QED
  BY <1>2, <1>3, <1>4, <1>5 DEF ChainInv

LEMMA ChainStartStep ==
  ASSUME ChainInv, Start, released # None, trial.pc \in {"none", "over"}, Beside
  PROVE  ChainInv'
<1>1. /\ step' = "read" /\ wanted' = CurrentRoot /\ runs' = runs + 1
      /\ settled' = (settled /\ pending = {} /\ indexed = Len(heads))
      /\ UNCHANGED <<now, ledger, status, indexed, record, released, trial>>
  BY DEF Start, Beside
<1>2. settled' => settled /\ pending = {} /\ indexed = Len(heads)
  BY <1>1 DEF ChainInv, TypeOK
<1> USE <1>1 DEF ledger, record
<1>3. TypeOK'
  BY DEF ChainInv, TypeOK, LedgerTypeOK, CurrentRoot, Root, Steps
<1>4. RecordsAreTruthful' /\ FirstSend' /\ Final' /\ Untouched' /\ Exclusive'
  BY DEF ChainInv, RecordsAreTruthful, FirstSend, Final, Revoked, Untouched, Exclusive
<1>5. UnderWay' /\ Spotless'
  BY <1>2 DEF ChainInv, UnderWay, Spotless
<1>6. OwnRoot' /\ ConfirmedRevocationHolds'
  BY <1>2 DEF ChainInv, TypeOK, OwnRoot, ConfirmedRevocationHolds, Last
<1> QED
  BY <1>3, <1>4, <1>5, <1>6 DEF ChainInv

(* Steps of a command that only move on, before it sends or when it ends.  *)
LEMMA ChainGotoStep ==
  ASSUME ChainInv, NEW s \in {"failed", "skipped", "compared", "refused"}, Goto(s),
         step \notin Ended, s = "compared" => step = "read" /\ Seen.root # wanted,
         released # None, trial.pc \in {"none", "over"}, Beside,
         UNCHANGED <<now, ledger, status, indexed, record>>
  PROVE  ChainInv'
<1>1. step' = s /\ UNCHANGED <<wanted, runs, settled, released, trial>>
  BY DEF Goto, Beside
<1> USE <1>1 DEF ledger, record
<1>2. TypeOK'
  BY DEF ChainInv, TypeOK, LedgerTypeOK, Steps
<1>3. RecordsAreTruthful' /\ FirstSend' /\ Final' /\ Untouched' /\ Exclusive'
  BY DEF ChainInv, RecordsAreTruthful, FirstSend, Final, Revoked, Untouched, Exclusive
<1>4. UnderWay' /\ Spotless'
  BY DEF ChainInv, UnderWay, Spotless, Ended
<1>5. indexed \in indexed .. Len(heads)
  BY DEF ChainInv, TypeOK, LedgerTypeOK
<1>6. OwnRoot'
  BY <1>5 DEF ChainInv, OwnRoot, Last, Seen, Ended
<1>7. ConfirmedRevocationHolds'
  BY DEF ChainInv, ConfirmedRevocationHolds, Last
<1> QED
  BY <1>2, <1>3, <1>4, <1>6, <1>7 DEF ChainInv

LEMMA ChainPrepareStep ==
  ASSUME ChainInv, Prepare, released # None, trial.pc \in {"none", "over"}, Beside
  PROVE  ChainInv'
<1>1. /\ step = "compared" /\ attempts[wanted] = "none" /\ step' = "proving"
      /\ attempts' = [attempts EXCEPT ![wanted] = "preparing"]
      /\ UNCHANGED <<wanted, runs, settled, now, ledger, status, indexed, pending, sends,
                     checked, confirmed, released, trial>>
  BY DEF Prepare, Goto, Beside
<1>2. wanted \in Root /\ sends[wanted] = 0
  BY <1>1 DEF ChainInv, TypeOK, RecordsAreTruthful
<1> USE <1>1, <1>2 DEF ledger
<1>3. TypeOK'
  BY DEF ChainInv, TypeOK, LedgerTypeOK, Steps, AttemptState
<1>4. RecordsAreTruthful'
  BY DEF ChainInv, TypeOK, RecordsAreTruthful
<1>5. FirstSend' /\ Final' /\ Untouched' /\ Exclusive'
  BY DEF ChainInv, FirstSend, Final, Revoked, Untouched, Exclusive
<1>6. UnderWay' /\ Spotless' /\ OwnRoot' /\ ConfirmedRevocationHolds'
  BY DEF ChainInv, UnderWay, Spotless, OwnRoot, Ended, ConfirmedRevocationHolds, Last
<1> QED
  BY <1>3, <1>4, <1>5, <1>6 DEF ChainInv

LEMMA ChainRecheckStep ==
  ASSUME ChainInv, Recheck, released # None, trial.pc \in {"none", "over"}, Beside
  PROVE  ChainInv'
<1>1. /\ step = "proving" /\ wanted = CurrentRoot /\ step' = "recorded"
      /\ attempts' = [attempts EXCEPT ![wanted] = "submitted"]
      /\ checked' = Revoked
      /\ UNCHANGED <<wanted, runs, settled, now, ledger, status, indexed, pending, sends,
                     confirmed, released, trial>>
  BY DEF Recheck, Goto, Beside
<1>2. wanted \in Root /\ sends[wanted] = 0
  BY <1>1 DEF ChainInv, TypeOK, FirstSend
<1>3. wanted \cap Revoked = {}
  BY <1>1 DEF CurrentRoot, Revoked
<1> USE <1>1, <1>2 DEF ledger
<1>4. TypeOK'
  BY DEF ChainInv, TypeOK, LedgerTypeOK, Steps, AttemptState, Revoked
<1>5. RecordsAreTruthful' /\ FirstSend'
  BY DEF ChainInv, TypeOK, RecordsAreTruthful, FirstSend
<1>6. Final' /\ Untouched' /\ Exclusive'
  BY DEF ChainInv, Final, Revoked, Untouched, Exclusive
<1>7. UnderWay' /\ Spotless'
  BY <1>3 DEF ChainInv, Final, UnderWay, Spotless, Ended
<1>8. OwnRoot' /\ ConfirmedRevocationHolds'
  BY DEF ChainInv, OwnRoot, Ended, ConfirmedRevocationHolds, Last
<1> QED
  BY <1>4, <1>5, <1>6, <1>7, <1>8 DEF ChainInv

LEMMA ChainSendStep ==
  ASSUME ChainInv, Send, released # None, trial.pc \in {"none", "over"}, Beside
  PROVE  ChainInv'
<1>1. /\ step = "recorded" /\ step' = "sent"
      /\ pending' = pending \cup {wanted}
      /\ sends' = [sends EXCEPT ![wanted] = @ + 1]
      /\ UNCHANGED <<wanted, runs, settled, now, ledger, status, indexed, attempts, checked,
                     confirmed, released, trial>>
  BY DEF Send, Goto, Beside
<1>2. wanted \in Root /\ sends[wanted] = 0 /\ attempts[wanted] = "submitted"
  BY <1>1 DEF ChainInv, TypeOK, FirstSend
<1>3. sends'[wanted] = 1 /\ \A r \in Root \ {wanted} : sends'[r] = sends[r]
  BY <1>1, <1>2 DEF ChainInv, TypeOK
<1> USE <1>1, <1>2, <1>3 DEF ledger
<1>4. TypeOK'
  BY DEF ChainInv, TypeOK, LedgerTypeOK, Steps
<1>5. RecordsAreTruthful'
  BY DEF ChainInv, RecordsAreTruthful
<1>6. FirstSend' /\ Final' /\ Untouched' /\ Exclusive'
  BY DEF ChainInv, FirstSend, Final, Revoked, Untouched, Exclusive
<1>7. UnderWay' /\ Spotless' /\ OwnRoot' /\ ConfirmedRevocationHolds'
  BY DEF ChainInv, UnderWay, Spotless, OwnRoot, Ended, ConfirmedRevocationHolds, Last
<1> QED
  BY <1>4, <1>5, <1>6, <1>7 DEF ChainInv

LEMMA ChainPollStep ==
  ASSUME ChainInv, Poll, released # None, trial.pc \in {"none", "over"}, Beside
  PROVE  ChainInv'
<1>1. /\ step = "sent" /\ step' = "included" /\ wanted \notin pending
      /\ UNCHANGED <<wanted, runs, settled, now, ledger, status, indexed, record, released,
                     trial>>
  BY DEF Poll, Goto, Beside
<1> USE <1>1 DEF ledger, record
<1>2. TypeOK' /\ RecordsAreTruthful'
  BY DEF ChainInv, TypeOK, LedgerTypeOK, Steps, RecordsAreTruthful
<1>3. FirstSend' /\ Final' /\ Untouched' /\ Exclusive'
  BY DEF ChainInv, FirstSend, Final, Revoked, Untouched, Exclusive
<1>4. UnderWay' /\ Spotless' /\ OwnRoot' /\ ConfirmedRevocationHolds'
  BY DEF ChainInv, UnderWay, Spotless, OwnRoot, Ended, ConfirmedRevocationHolds, Last
<1> QED
  BY <1>2, <1>3, <1>4 DEF ChainInv

LEMMA ChainConfirmStep ==
  ASSUME ChainInv, Confirm, released # None, trial.pc \in {"none", "over"}, Beside
  PROVE  ChainInv'
<1>1. /\ step = "included" /\ Seen.root = wanted /\ step' = "done"
      /\ attempts' = [attempts EXCEPT ![wanted] = "confirmed"]
      /\ confirmed' = checked
      /\ UNCHANGED <<wanted, runs, settled, now, ledger, status, indexed, pending, sends,
                     checked, released, trial>>
  BY DEF Confirm, Goto, Beside
<1>2. /\ wanted \in Root /\ indexed \in 1 .. indexed /\ heads[indexed].root = wanted
      /\ indexed \in indexed .. Len(heads)
  BY <1>1 DEF ChainInv, TypeOK, LedgerTypeOK, Seen
<1>3. settled => pending = {} /\ Last.root = wanted /\ wanted \cap checked = {}
  BY <1>1, <1>2 DEF ChainInv, UnderWay, OwnRoot, Spotless, Ended
<1> USE <1>1, <1>2 DEF ledger
<1>4. TypeOK'
  BY DEF ChainInv, TypeOK, LedgerTypeOK, Steps, AttemptState
<1>5. RecordsAreTruthful'
  BY DEF ChainInv, TypeOK, RecordsAreTruthful
<1>6. FirstSend' /\ Final' /\ Untouched' /\ Exclusive'
  BY DEF ChainInv, FirstSend, Final, Revoked, Untouched, Exclusive
<1>7. UnderWay' /\ Spotless' /\ OwnRoot' /\ ConfirmedRevocationHolds'
  BY <1>3 DEF UnderWay, Spotless, OwnRoot, Ended, ConfirmedRevocationHolds, Last
<1> QED
  BY <1>4, <1>5, <1>6, <1>7 DEF ChainInv

LEMMA ChainPublication == ASSUME ChainInv, Publication PROVE ChainInv'
<1>1. Beside
  BY DEF Publication, Beside, acceptance
<1>2. ASSUME NEW k \in Credential, Issue(k) \/ Revoke(k) PROVE ChainInv'
  BY <1>1, <1>2, ChainStatusStep
<1>3. CASE released # None /\ Environment
  BY <1>1, <1>2, <1>3, ChainIncludeStep, ChainDropStep, ChainRetireStep, ChainCatchUpStep
  DEF Environment
<1>4. CASE released # None /\ trial.pc \in {"none", "over"} /\ Run
  <2> USE <1>1, <1>4
  <2>1. CASE Start
    BY <2>1, ChainStartStep
  <2>2. CASE Examine
    BY <2>2, ChainGotoStep DEF Examine, Ended
  <2>3. CASE Prepare
    BY <2>3, ChainPrepareStep
  <2>4. CASE Refuse
    BY <2>4, ChainGotoStep DEF Refuse, Ended
  <2>5. CASE Recheck
    BY <2>5, ChainRecheckStep
  <2>6. CASE Send
    BY <2>6, ChainSendStep
  <2>7. CASE Poll
    BY <2>7, ChainPollStep
  <2>8. CASE Confirm
    BY <2>8, ChainConfirmStep
  <2>9. CASE Fail
    BY <2>9, ChainGotoStep DEF Fail
  <2> QED
    BY <2>1, <2>2, <2>3, <2>4, <2>5, <2>6, <2>7, <2>8, <2>9 DEF Run
<1> QED
  BY <1>2, <1>3, <1>4 DEF Publication

(* Steps of the acceptance run: it may hand a root to the wallet that is   *)
(* free of confirmed revocations.                                          *)
LEMMA ChainTrialMoves ==
  ASSUME ChainInv, step \in Ended, released # None, Records, UNCHANGED heads,
         status \in Statuses, Moved, NEW new \in SUBSET Root, pending' = pending \cup new,
         settled => \A root \in new : root \cap confirmed = {},
         settled /\ trial'.pc \in {"read", "reread"} => trial'.root \cap confirmed = {}
  PROVE  ChainInv'
<1>1. UNCHANGED <<released, now, heads, authorizations, indexed, step, wanted, runs, settled,
                  attempts, sends, checked, confirmed>>
  BY DEF Records, operator
<1> USE <1>1
<1>2. Revoked \subseteq Revoked'
  BY DEF Moved, Revoked
<1>3. TypeOK' /\ RecordsAreTruthful' /\ FirstSend' /\ Final'
  BY <1>2 DEF ChainInv, TypeOK, LedgerTypeOK, Statuses, Moved, RecordsAreTruthful, FirstSend,
              Final
<1>4. Untouched' /\ Exclusive' /\ UnderWay'
  BY DEF Untouched, Exclusive, UnderWay
<1>5. Spotless'
  BY DEF ChainInv, Spotless, Ended
<1>6. OwnRoot' /\ ConfirmedRevocationHolds'
  BY DEF ChainInv, OwnRoot, ConfirmedRevocationHolds, Last
<1> QED
  BY <1>3, <1>4, <1>5, <1>6 DEF ChainInv

LEMMA ChainTrial == ASSUME ChainInv, IInv, TrialInv, Trial PROVE ChainInv'
<1> USE DEF TrialAt
<1>1. status \in Statuses /\ Moved
  BY StatusMoves DEF IInv, CeremonyTypeOK
<1>2. step \in Ended /\ released # None
  BY DEF ChainInv, Untouched, Exclusive, Trial, TrialStart, TrialRead, TrialSubmit,
         TrialConfirm, TrialRevoke, TrialFail, TrialClose, TrialDies, TrialIssue
<1>3. Records /\ UNCHANGED heads
  BY DEF Trial, TrialStart, TrialRead, TrialSubmit, TrialConfirm, TrialRevoke, TrialFail,
         TrialClose, TrialDies, TrialIssue
<1>4. /\ trial.pc \in TrialSteps /\ trial.root \in Root
      /\ \A at \in TrialSteps : [trial EXCEPT !.pc = at].pc = at
      /\ \A at \in TrialSteps, root \in Root : [trial EXCEPT !.pc = at, !.root = root].root = root
      /\ \A at \in TrialSteps, k \in Credential : [trial EXCEPT !.pc = at, !.cred = k].pc = at
      /\ \A at \in TrialSteps : [trial EXCEPT !.pc = at, !.revoked = TRUE].pc = at
  BY TrialUpdates DEF TrialInv
<1>5. CASE TrialRead
  <2>1. trial'.root = CurrentRoot
    <3>1. CurrentRoot \in Root
      BY DEF CurrentRoot, Root
    <3>2. PICK at \in TrialSteps : trial' = [trial EXCEPT !.pc = at, !.root = CurrentRoot]
      BY <1>5 DEF TrialRead, TrialSteps
    <3> QED
      BY <1>4, <3>1, <3>2
  <2>2. CurrentRoot \cap confirmed = {}
    BY DEF ChainInv, Final, CurrentRoot, Revoked
  <2>3. pending' = pending \cup {}
    BY <1>5 DEF TrialRead
  <2> QED
    BY <1>1, <1>2, <1>3, <2>1, <2>2, <2>3, ChainTrialMoves
<1>6. CASE TrialSubmit
  <2>1. trial'.pc \notin {"read", "reread"}
    BY <1>4, <1>6 DEF TrialSubmit, TrialSteps
  <2>2. settled => trial.root \cap confirmed = {}
    BY <1>6 DEF TrialSubmit, ChainInv, Spotless
  <2>3. pending' = pending \cup {trial.root} /\ {trial.root} \in SUBSET Root
    BY <1>4, <1>6 DEF TrialSubmit
  <2> QED
    BY <1>1, <1>2, <1>3, <2>1, <2>2, <2>3, ChainTrialMoves
<1>7. ASSUME trial'.pc \notin {"read", "reread"}, pending' = pending PROVE ChainInv'
  <2>1. PICK new \in SUBSET Root : new = {}
    OBVIOUS
  <2>2. /\ pending' = pending \cup new
        /\ settled => \A root \in new : root \cap confirmed = {}
        /\ settled /\ trial'.pc \in {"read", "reread"} => trial'.root \cap confirmed = {}
    BY <1>7, <2>1
  <2> QED
    BY <1>1, <1>2, <1>3, <2>2, ChainTrialMoves
<1>8. CASE TrialStart \/ TrialConfirm \/ TrialRevoke \/ TrialFail \/ TrialClose \/ TrialDies
  <2>1. trial'.pc \notin {"read", "reread"} /\ pending' = pending
    BY <1>4, <1>8 DEF TrialStart, TrialConfirm, TrialRevoke, TrialFail, TrialClose, TrialDies,
                      TrialSteps
  <2> QED
    BY <1>7, <2>1
<1>9. ASSUME NEW k \in Credential, TrialIssue(k) PROVE ChainInv'
  <2>1. trial'.pc \notin {"read", "reread"}
    <3>1. CASE trial' = [trial EXCEPT !.pc = "issued", !.cred = k]
      BY <1>4, <3>1 DEF TrialSteps
    <3>2. CASE trial' = [trial EXCEPT !.pc = "closing"]
      BY <1>4, <3>2 DEF TrialSteps
    <3> QED
      BY <1>9, <3>1, <3>2 DEF TrialIssue
  <2>2. pending' = pending
    BY <1>9 DEF TrialIssue
  <2> QED
    BY <1>7, <2>1, <2>2
<1> QED
  BY <1>5, <1>6, <1>8, <1>9 DEF Trial

(* The contract is the network's with the root it was deployed with.       *)
LEMMA ChainRelease ==
  ASSUME ChainInv, IInv, NEW d \in Place, Release(d) PROVE ChainInv'
<1>1. /\ released = None /\ deployments[d] # None /\ released' = deployments[d]
      /\ heads' = <<[heads[1] EXCEPT !.root = deployments[d].root]>>
      /\ UNCHANGED <<now, authorizations, status, indexed, operator, record, trial>>
  BY DEF Release, acceptance
<1>2. /\ Len(heads) = 1 /\ pending = {} /\ step = "idle" /\ trial.pc = "none"
      /\ confirmed = {} /\ \A root \in Root : attempts[root] = "none"
  BY <1>1 DEF ChainInv, Untouched
<1>3. deployments[d].root \in Root
  BY <1>1 DEF IInv, CeremonyTypeOK, Deployment
<1>4. heads[1] \in State
  BY <1>2 DEF ChainInv, TypeOK, LedgerTypeOK
<1>5. [heads[1] EXCEPT !.root = deployments[d].root] \in State
  BY <1>3, <1>4 DEF State, Root
<1>6. heads' \in Seq(State) /\ heads' # <<>> /\ Len(heads') = 1
  BY <1>1, <1>5
<1> USE <1>1, <1>2 DEF operator, record
<1>7. TypeOK'
  BY <1>6 DEF ChainInv, TypeOK, LedgerTypeOK
<1>8. RecordsAreTruthful'
  BY DEF ChainInv, RecordsAreTruthful
<1>9. FirstSend' /\ Final' /\ Untouched' /\ Exclusive'
  BY DEF ChainInv, FirstSend, Final, Revoked, Untouched, Exclusive
<1>10. UnderWay' /\ Spotless' /\ OwnRoot' /\ ConfirmedRevocationHolds'
  BY DEF UnderWay, Spotless, OwnRoot, Ended, ConfirmedRevocationHolds
<1> QED
  BY <1>7, <1>8, <1>9, <1>10 DEF ChainInv

LEMMA NextChainInv == IInv /\ TrialInv /\ ChainInv /\ [PreprodNext]_allVars => ChainInv'
<1> SUFFICES ASSUME IInv, TrialInv, ChainInv, [PreprodNext]_allVars PROVE ChainInv'
  OBVIOUS
<1>1. CASE Ceremony
  BY <1>1, ChainStands DEF Ceremony, acceptance
<1>2. CASE UNCHANGED allVars
  BY <1>2, ChainStands DEF allVars, acceptance
<1> QED
  BY <1>1, <1>2, ChainTrial, ChainPublication, ChainRelease DEF PreprodNext

LEMMA ChainInductive == PreprodSpec => []ChainInv
BY InitChainInv, NextChainInv, Inductive, TrialInductive, PTL DEF PreprodSpec

(* The same where the contract is deployed and released, and the wallet    *)
(* also serves an acceptance run: whatever dies, the command's records say *)
(* no less than what it sent and no more than what the ledger had.         *)
THEOREM TruthfulThroughout == PreprodSpec => []RecordsAreTruthful
<1>1. ChainInv => RecordsAreTruthful
  BY DEF ChainInv
<1> QED
  BY <1>1, ChainInductive, PTL

(* Neither a later publication, nor one that was thought lost, nor a root  *)
(* of the acceptance run brings a confirmed revocation back.               *)
THEOREM RevocationHoldsThroughout == PreprodSpec => []ConfirmedRevocationHolds
<1>1. ChainInv => ConfirmedRevocationHolds
  BY DEF ChainInv
<1> QED
  BY <1>1, ChainInductive, PTL
=============================================================================

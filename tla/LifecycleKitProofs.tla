-------------------------- MODULE LifecycleKitProofs --------------------------
(***************************************************************************)
(* The verifier kit for any number of challenges and calls, any chain and  *)
(* any bounds: a challenge handed out survives a power loss, is accepted   *)
(* once at most, and an acceptance was due when it was decided.            *)
(***************************************************************************)
EXTENDS LifecycleKit, TLAPS

(* The chain grows by at most one block at a time, in order of time; a     *)
(* side once revoked, a request once consumed and an issuer once inactive  *)
(* stay so.                                                                *)
Ordered ==
  /\ heads # <<>> /\ (Len(heads) = 1 \/ Len(heads) <= MaxHeads)
  /\ \A i, j \in 1..Len(heads) : i <= j =>
       /\ heads[i].at <= heads[j].at
       /\ heads[i].revoked \subseteq heads[j].revoked
       /\ heads[j].active => heads[i].active

(* How far the put of a challenge came shows in its file.                  *)
Stored ==
  \A c \in Challenge :
    /\ making[c] = "no" => disk[<<c, "json">>] = "absent"
    /\ making[c] # "no" => challenge[c] \in Nat
    /\ making[c] \in {"written", "handed"} => Readable(c)
    /\ making[c] = "handed" => <<c, "json">> \notin dirty

(* Only a challenge that was handed out is authorized.                     *)
Authorized ==
  \A i \in 1..Len(heads) : \A c \in heads[i].consumed : making[c] = "handed"

(* The batch and the challenge were not over at a time.                    *)
InTime(c, t) == t < Deadline(c) /\ Valid(t)

(* A block that consumes a challenge is dated before they ended.           *)
Timely ==
  \A i \in 2..Len(heads) :
    \A c \in heads[i].consumed \ heads[i - 1].consumed : InTime(c, heads[i].at)

(* What the kit found when it decided, of a call or of an acceptance.      *)
Due(r) ==
  /\ r.auth \in 2..Len(heads) /\ r.seen \in 1..Len(heads)
  /\ r.c \in heads[r.auth].consumed
  /\ InTime(r.c, heads[r.auth].at) /\ InTime(r.c, r.decided)
  /\ r.decided <= now
  /\ r.decided <= heads[r.seen].at + MaxAge
  /\ Version(r.seen) = Version(r.auth)

Consuming(v) == calls[v].at \in {"marking", "marked"}

(* The locals of a call at each point of verifyPresentation.               *)
CallInv ==
  \A v \in Call :
    /\ calls[v].at \in {"loaded", "matched", "marking", "marked"} => calls[v].c \in Challenge
    /\ calls[v].at = "matched" =>
         /\ calls[v].auth \in 2..Len(heads) /\ calls[v].c \in heads[calls[v].auth].consumed
         /\ InTime(calls[v].c, heads[calls[v].auth].at)
    /\ Consuming(v) => Due(calls[v]) /\ disk[<<calls[v].c, "used">>] # "absent"

(* The marker of a challenge has one owner: the call consuming it, or the  *)
(* acceptance, whose marker is safe on the disk.                           *)
OneOwner ==
  /\ \A v, w \in Call :
       Consuming(v) /\ Consuming(w) /\ calls[v].c = calls[w].c => v = w
  /\ \A a \in accepted :
       /\ disk[<<a.c, "used">>] # "absent" /\ <<a.c, "used">> \notin dirty
       /\ \A v \in Call : Consuming(v) => calls[v].c # a.c

(* The inductive invariant.                                                *)
KInv ==
  /\ TypeOK /\ Ordered /\ Stored /\ Authorized /\ Timely /\ CallInv /\ OneOwner
  /\ \A a \in accepted : Due(a)
  /\ AcceptedOnce

-----------------------------------------------------------------------------
(* The chain.                                                              *)

(* A new block at the end of the chain.                                    *)
NewBlock(h) ==
  /\ h \in Block /\ Len(heads) < MaxHeads /\ heads' = Append(heads, h)
  /\ Last.at <= h.at /\ Last.revoked \subseteq h.revoked /\ (h.active => Last.active)
  /\ \A c \in h.consumed \ Last.consumed : making[c] = "handed" /\ InTime(c, h.at)
  /\ UNCHANGED <<now, store, calls, accepted>>

LEMMA Sealing ==
  ASSUME KInv, NEW b \in Block, NEW t \in BlockTime, Seal(b, t),
         Last.revoked \subseteq b.revoked, b.active => Last.active,
         \A c \in b.consumed \ Last.consumed : making[c] = "handed" /\ InTime(c, t)
  PROVE  \E h : NewBlock(h)
<1>1. PICK h : h = [b EXCEPT !.at = t]
  OBVIOUS
<1>2. t \in Nat /\ Last.at <= t
  BY KitAssumption DEF KInv, TypeOK, BlockTime
<1>3. /\ h \in Block /\ h.at = t /\ h.revoked = b.revoked
      /\ h.active = b.active /\ h.consumed = b.consumed
  BY <1>1, <1>2 DEF Block
<1>4. NewBlock(h)
  BY <1>1, <1>2, <1>3 DEF Seal, NewBlock
<1>. QED BY <1>4

(* Every call of the contract makes one.                                   *)
LEMMA OneMoreBlock ==
  ASSUME KInv, Chain
  PROVE  \E h : NewBlock(h)
<1>1. Last \in Block
  BY DEF KInv, TypeOK, Ordered, Last
<1>2. ASSUME NEW t \in BlockTime, DeactivateIssuer(t)
      PROVE  \E h : NewBlock(h)
  <2>1. PICK b : b = [Last EXCEPT !.active = FALSE]
    OBVIOUS
  <2>2. b \in Block /\ b.revoked = Last.revoked /\ b.active = FALSE /\ b.consumed = Last.consumed
    BY <1>1, <2>1 DEF Block
  <2>. QED BY <1>2, <2>1, <2>2, Sealing DEF DeactivateIssuer
<1>3. ASSUME NEW t \in BlockTime, EmptyBlock(t)
      PROVE  \E h : NewBlock(h)
  BY <1>1, <1>3, Sealing DEF EmptyBlock
<1>4. ASSUME NEW t \in BlockTime, NEW side \in Side, Revoke(side, t)
      PROVE  \E h : NewBlock(h)
  <2>1. PICK b : b = [Last EXCEPT !.revoked = Last.revoked \cup {side}]
    OBVIOUS
  <2>2. /\ b \in Block /\ b.revoked = Last.revoked \cup {side}
        /\ b.active = Last.active /\ b.consumed = Last.consumed
    BY <1>1, <2>1 DEF Block
  <2>. QED BY <1>4, <2>1, <2>2, Sealing DEF Revoke
<1>5. ASSUME NEW t \in BlockTime, NEW c \in Challenge, NEW side \in Side, Authorize(c, side, t)
      PROVE  \E h : NewBlock(h)
  <2>1. PICK b : b = [Last EXCEPT !.consumed = Last.consumed \cup {c}]
    OBVIOUS
  <2>2. /\ b \in Block /\ b.revoked = Last.revoked
        /\ b.active = Last.active /\ b.consumed = Last.consumed \cup {c}
    BY <1>1, <2>1 DEF Block
  <2>3. making[c] = "handed" /\ InTime(c, t) /\ Seal(b, t)
    BY <1>5, <2>1 DEF Authorize, InTime
  <2>. QED BY <2>2, <2>3, Sealing
<1>. QED BY <1>2, <1>3, <1>4, <1>5 DEF Chain

(* What the kit found stays so while the chain and the clock go on.        *)
LEMMA DueStands ==
  ASSUME NEW r, Due(r), heads \in Seq(Block), now \in Nat, now' \in Nat, now <= now',
         heads' = heads \/ \E h : heads' = Append(heads, h),
         challenge'[r.c] = challenge[r.c], r.decided \in Nat
  PROVE  Due(r)'
<1>1. /\ Len(heads)' \in Nat /\ Len(heads) <= Len(heads')
      /\ \A i \in 1..Len(heads) : heads'[i] = heads[i]
  OBVIOUS
<1>2. /\ r.auth \in 2..Len(heads) /\ r.seen \in 1..Len(heads)
      /\ r.decided <= now
  BY DEF Due
<1>3. /\ r.auth \in 2..Len(heads') /\ r.seen \in 1..Len(heads')
      /\ heads'[r.auth] = heads[r.auth] /\ heads'[r.seen] = heads[r.seen]
  BY <1>1, <1>2
<1>4. \A t : InTime(r.c, t)' = InTime(r.c, t)
  BY DEF InTime, Deadline, Valid
<1>5. Version(r.seen)' = Version(r.seen) /\ Version(r.auth)' = Version(r.auth)
  BY <1>3 DEF Version
<1>6. r.decided <= now'
  BY <1>2
<1>. QED BY <1>3, <1>4, <1>5, <1>6 DEF Due

LEMMA TickKeeps ==
  ASSUME KInv, Tick
  PROVE  KInv'
<1>. USE KitAssumption DEF KInv
<1>1. /\ now' = now + 1 /\ now \in Nat /\ now' \in 0..MaxTime /\ heads \in Seq(Block)
      /\ UNCHANGED <<heads, challenge, disk, dirty, making, calls, accepted>>
  BY DEF Tick, TypeOK, store
<1>2. TypeOK'
  BY <1>1 DEF TypeOK
<1>3. Ordered'
  BY <1>1 DEF Ordered
<1>4. Stored' /\ Authorized' /\ Timely' /\ AcceptedOnce'
  BY <1>1 DEF Stored, Readable, Authorized, Timely, InTime, Deadline, Valid, AcceptedOnce
<1>5. ASSUME NEW r, Due(r), r.decided \in Nat
      PROVE  Due(r)'
  BY <1>1, <1>5, DueStands
<1>6. CallInv'
  BY <1>1, <1>5 DEF CallInv, Consuming, TypeOK, Locals, InTime, Deadline, Valid
<1>7. OneOwner'
  BY <1>1 DEF OneOwner, Consuming
<1>8. \A a \in accepted' : Due(a)'
  BY <1>1, <1>5 DEF TypeOK
<1>. QED BY <1>2, <1>3, <1>4, <1>6, <1>7, <1>8

LEMMA ChainKeeps ==
  ASSUME KInv, Chain
  PROVE  KInv'
<1>. USE KitAssumption DEF KInv
<1>1. PICK h : NewBlock(h)
  BY OneMoreBlock
<1>2. /\ h \in Block /\ now \in Nat
      /\ heads \in Seq(Block) /\ heads' = Append(heads, h)
      /\ UNCHANGED <<now, challenge, disk, dirty, making, calls, accepted>>
  BY <1>1 DEF NewBlock, TypeOK, store
<1>3. /\ heads' \in Seq(Block) /\ Len(heads') = Len(heads) + 1 /\ Len(heads) \in Nat
      /\ \A i \in 1..Len(heads) : heads'[i] = heads[i] /\ heads[i] \in Block
      /\ heads'[Len(heads) + 1] = h
  BY <1>2
<1>4. TypeOK'
  BY <1>2, <1>3 DEF TypeOK
<1>5. Ordered'
  <2>1. heads' # <<>> /\ Len(heads') <= MaxHeads
    BY <1>1, <1>2, <1>3 DEF NewBlock
  <2>2. ASSUME NEW i \in 1..Len(heads'), NEW j \in 1..Len(heads'), i <= j
        PROVE  /\ heads'[i].at <= heads'[j].at
               /\ heads'[i].revoked \subseteq heads'[j].revoked
               /\ heads'[j].active => heads'[i].active
    <3>1. CASE j \in 1..Len(heads)
      BY <1>3, <2>2, <3>1 DEF Ordered
    <3>2. CASE j = Len(heads) + 1 /\ i \in 1..Len(heads)
      <4>1. /\ heads[i].at <= Last.at /\ heads[i].revoked \subseteq Last.revoked
            /\ Last.active => heads[i].active
        BY <1>3, <3>2 DEF Ordered, Last
      <4>2. heads[i].at \in Nat /\ Last.at \in Nat /\ h.at \in Nat
        BY <1>2, <1>3, <3>2 DEF Block, Last
      <4>3. Last.at <= h.at /\ Last.revoked \subseteq h.revoked /\ (h.active => Last.active)
        BY <1>1 DEF NewBlock
      <4>4. heads[i].at <= h.at
        BY <4>1, <4>2, <4>3
      <4>. QED BY <1>3, <3>2, <4>1, <4>3, <4>4
    <3>3. CASE j = Len(heads) + 1 /\ i = j
      BY <1>2, <1>3, <3>3 DEF Block
    <3>. QED BY <1>3, <3>1, <3>2, <3>3
  <2>. QED BY <2>1, <2>2 DEF Ordered
<1>6. Authorized' /\ Timely'
  <2>1. Len(heads) >= 1 /\ Last = heads[Len(heads)]
    BY <1>3 DEF Ordered, Last
  <2>2. Authorized'
    BY <1>1, <1>2, <1>3, <2>1 DEF Authorized, NewBlock
  <2>3. \A c, t : InTime(c, t)' = InTime(c, t)
    BY <1>2 DEF InTime, Deadline, Valid
  <2>4. ASSUME NEW i \in 2..Len(heads'), NEW c \in heads'[i].consumed \ heads'[i - 1].consumed
        PROVE  InTime(c, heads'[i].at)
    <3>1. CASE i \in 2..Len(heads)
      BY <1>3, <2>4, <3>1 DEF Timely
    <3>2. CASE i = Len(heads) + 1
      <4>1. c \in h.consumed \ Last.consumed /\ heads'[i].at = h.at
        BY <1>3, <2>1, <2>4, <3>2
      <4>. QED BY <1>1, <4>1 DEF NewBlock
    <3>. QED BY <1>3, <3>1, <3>2
  <2>. QED BY <2>2, <2>3, <2>4 DEF Timely
<1>7. Stored' /\ AcceptedOnce' /\ OneOwner'
  BY <1>2 DEF Stored, Readable, AcceptedOnce, OneOwner, Consuming
<1>8. ASSUME NEW r, Due(r), r.decided \in Nat
      PROVE  Due(r)'
  BY <1>2, <1>8, DueStands
<1>9. CallInv'
  BY <1>2, <1>3, <1>8 DEF CallInv, Consuming, TypeOK, Locals, InTime, Deadline, Valid
<1>10. \A a \in accepted' : Due(a)'
  BY <1>2, <1>8 DEF TypeOK
<1>. QED BY <1>4, <1>5, <1>6, <1>7, <1>9, <1>10

-----------------------------------------------------------------------------
(* The files of the challenges.                                            *)

(* A step of the put of a challenge touches its file only, and no          *)
(* challenge that was handed out before.                                   *)
PutStep(c) ==
  /\ UNCHANGED <<now, heads, calls, accepted>>
  /\ making[c] # "handed" /\ making' = [making EXCEPT ![c] = making'[c]]
  /\ challenge' \in [Challenge -> 0..MaxTime \cup {None}]
  /\ disk' \in [File -> {"absent", "empty", "full"}] /\ dirty' \subseteq File
  /\ \A d \in Challenge \ {c} : challenge'[d] = challenge[d]
  /\ \A f \in File \ {<<c, "json">>} : disk'[f] = disk[f] /\ (f \in dirty' <=> f \in dirty)
  /\ making'[c] \in {"created", "written", "handed", "failed"}
  /\ challenge'[c] \in Nat
  /\ making'[c] \in {"written", "handed"} => Readable(c)'
  /\ making'[c] = "handed" => <<c, "json">> \notin dirty'

LEMMA PutSteps ==
  ASSUME KInv, NEW c \in Challenge,
         Begin(c) \/ PutWritten(c) \/ CreateChallenge(c) \/ PutFails(c)
  PROVE  PutStep(c)
<1>. USE KitAssumption DEF KInv, TypeOK, File, Readable, Put, PutStep
<1>. <<c, "json">> \in File
  OBVIOUS
<1>1. CASE Begin(c)
  BY <1>1 DEF Begin, CreateFile
<1>2. CASE PutWritten(c)
  BY <1>2 DEF PutWritten, WriteFile, Stored
<1>3. CASE CreateChallenge(c)
  BY <1>3 DEF CreateChallenge, SyncDirectory, Stored
<1>4. CASE PutFails(c)
  BY <1>4 DEF PutFails, Stored
<1>. QED BY <1>1, <1>2, <1>3, <1>4

LEMMA PutKeeps ==
  ASSUME KInv, NEW c \in Challenge, PutStep(c)
  PROVE  KInv'
<1>. USE KitAssumption DEF KInv
<1>1. /\ UNCHANGED <<now, heads, calls, accepted>> /\ now \in Nat /\ heads \in Seq(Block)
      /\ making' \in [Challenge -> {"no", "created", "written", "handed", "failed"}]
      /\ \A d \in Challenge \ {c} : making'[d] = making[d]
      /\ \A d \in Challenge : making[d] = "handed" =>
           making'[d] = "handed" /\ challenge'[d] = challenge[d]
      /\ \A d \in Challenge : /\ disk'[<<d, "used">>] = disk[<<d, "used">>]
                              /\ <<d, "used">> \in dirty' <=> <<d, "used">> \in dirty
  BY DEF PutStep, TypeOK, File
<1>2. TypeOK'
  BY <1>1 DEF TypeOK, PutStep
<1>3. Ordered' /\ AcceptedOnce'
  BY <1>1 DEF Ordered, AcceptedOnce
<1>4. Stored'
  <2>1. ASSUME NEW d \in Challenge \ {c}
        PROVE  /\ making'[d] = making[d] /\ challenge'[d] = challenge[d]
               /\ disk'[<<d, "json">>] = disk[<<d, "json">>]
               /\ <<d, "json">> \in dirty' <=> <<d, "json">> \in dirty
    BY <1>1 DEF PutStep, File
  <2>2. /\ making'[c] # "no" /\ challenge'[c] \in Nat
        /\ making'[c] \in {"written", "handed"} => Readable(c)'
        /\ making'[c] = "handed" => <<c, "json">> \notin dirty'
    BY DEF PutStep
  <2>. SUFFICES ASSUME NEW d \in Challenge
       PROVE  /\ making'[d] = "no" => disk'[<<d, "json">>] = "absent"
              /\ making'[d] # "no" => challenge'[d] \in Nat
              /\ making'[d] \in {"written", "handed"} => Readable(d)'
              /\ making'[d] = "handed" => <<d, "json">> \notin dirty'
    BY DEF Stored
  <2>3. CASE d = c
    BY <2>2, <2>3
  <2>4. CASE d # c
    BY <2>1, <2>4 DEF Stored, Readable
  <2>. QED BY <2>3, <2>4
<1>5. Authorized' /\ Timely'
  <2>1. \A i \in 1..Len(heads) : \A d \in heads[i].consumed :
          d \in Challenge /\ making[d] = "handed"
    <3>1. \A i \in 1..Len(heads) : heads[i] \in Block
      BY <1>1
    <3>. QED BY <3>1 DEF Authorized, Block
  <2>2. Authorized'
    BY <1>1, <2>1 DEF Authorized
  <2>3. ASSUME NEW i \in 2..Len(heads), NEW d \in heads[i].consumed \ heads[i - 1].consumed
        PROVE  InTime(d, heads[i].at)'
    <3>1. i \in 1..Len(heads)
      OBVIOUS
    <3>2. challenge'[d] = challenge[d]
      BY <1>1, <2>1, <3>1
    <3>3. InTime(d, heads[i].at)
      BY DEF Timely
    <3>. QED BY <1>1, <3>2, <3>3 DEF InTime, Deadline, Valid
  <2>4. Timely'
    BY <1>1, <2>3 DEF Timely
  <2>. QED BY <2>2, <2>4
<1>6. ASSUME NEW r, Due(r), r.decided \in Nat, r.c \in Challenge
      PROVE  Due(r)'
  <2>1. making[r.c] = "handed"
    BY <1>1, <1>6 DEF Due, Authorized
  <2>. QED BY <1>1, <1>6, <2>1, DueStands
<1>7. CallInv'
  <2>1. \A v \in Call : Consuming(v) => Due(calls[v])'
    <3>1. \A v \in Call : calls[v].decided \in Nat
      BY DEF TypeOK, Locals
    <3>. QED BY <1>1, <1>6, <3>1 DEF CallInv, Consuming
  <2>2. ASSUME NEW v \in Call, calls[v].at = "matched"
        PROVE  InTime(calls[v].c, heads[calls[v].auth].at)'
    <3>1. /\ calls[v].c \in Challenge /\ calls[v].auth \in 2..Len(heads)
          /\ calls[v].c \in heads[calls[v].auth].consumed
          /\ InTime(calls[v].c, heads[calls[v].auth].at)
      BY <2>2 DEF CallInv
    <3>. calls[v].auth \in 1..Len(heads)
      BY <3>1
    <3>2. challenge'[calls[v].c] = challenge[calls[v].c]
      BY <1>1, <3>1 DEF Authorized
    <3>. QED BY <1>1, <3>1, <3>2 DEF InTime, Deadline, Valid
  <2>. QED BY <1>1, <2>1, <2>2 DEF CallInv, Consuming
<1>8. \A a \in accepted' : Due(a)'
  BY <1>1, <1>6 DEF TypeOK
<1>9. OneOwner'
  BY <1>1 DEF OneOwner, Consuming, TypeOK
<1>. QED BY <1>2, <1>3, <1>4, <1>5, <1>7, <1>8, <1>9

-----------------------------------------------------------------------------
(* verifyPresentation.                                                     *)

(* The early steps touch one call and nothing else.                        *)
LookStep(v) ==
  /\ UNCHANGED <<now, heads, store, accepted>>
  /\ calls' = [calls EXCEPT ![v] = calls'[v]]
  /\ calls'[v] \in Locals /\ ~ Consuming(v)'
  /\ calls'[v].at \in {"loaded", "matched"} => calls'[v].c \in Challenge
  /\ calls'[v].at = "matched" =>
       /\ calls'[v].auth \in 2..Len(heads) /\ calls'[v].c \in heads[calls'[v].auth].consumed
       /\ InTime(calls'[v].c, heads[calls'[v].auth].at)

LEMMA LookSteps ==
  ASSUME KInv, NEW v \in Call,
         (\E c \in Challenge : Load(v, c)) \/ Match(v) \/ Refuse(v)
  PROVE  LookStep(v)
<1>. USE KitAssumption DEF KInv, TypeOK, Step
<1>1. /\ calls[v] \in Locals
      /\ calls[v] = [at |-> calls[v].at, c |-> calls[v].c, auth |-> calls[v].auth,
                     seen |-> calls[v].seen, decided |-> calls[v].decided]
  BY DEF Locals
<1>2. ASSUME NEW c \in Challenge, Load(v, c)
      PROVE  LookStep(v)
  <2>1. calls'[v] = [calls[v] EXCEPT !.at = "loaded", !.c = c]
    BY <1>2 DEF Load
  <2>2. calls'[v] \in Locals /\ calls'[v].at = "loaded" /\ calls'[v].c = c
    BY <1>1, <2>1 DEF Locals
  <2>. QED BY <1>2, <2>2 DEF Load, LookStep, Consuming
<1>3. CASE Match(v)
  <2>1. PICK j \in 2..Len(heads) :
          /\ calls[v].c \in heads[j].consumed \ heads[j - 1].consumed
          /\ Step(v, "loaded", [calls[v] EXCEPT !.at = "matched", !.auth = j])
          /\ UNCHANGED <<now, heads, store, accepted>>
    BY <1>3 DEF Match
  <2>2. /\ calls'[v] \in Locals /\ calls'[v].at = "matched"
        /\ calls'[v].c = calls[v].c /\ calls'[v].auth = j
    <3>1. calls'[v] = [calls[v] EXCEPT !.at = "matched", !.auth = j] /\ j \in Nat
      BY <2>1
    <3>. QED BY <1>1, <3>1 DEF Locals
  <2>3. InTime(calls[v].c, heads[j].at)
    BY <2>1 DEF Timely
  <2>. QED BY <2>1, <2>2, <2>3 DEF LookStep, Consuming, CallInv
<1>4. CASE Refuse(v)
  <2>1. calls'[v] \in Locals /\ calls'[v].at = "ended"
    BY <1>1, <1>4 DEF Refuse, Locals
  <2>. QED BY <1>4, <2>1 DEF Refuse, LookStep, Consuming
<1>. QED BY <1>2, <1>3, <1>4

LEMMA LookKeeps ==
  ASSUME KInv, NEW v \in Call, LookStep(v)
  PROVE  KInv'
<1>. USE KitAssumption DEF KInv
<1>1. /\ UNCHANGED <<now, heads, challenge, disk, dirty, making, accepted>>
      /\ now \in Nat /\ heads \in Seq(Block)
      /\ calls' \in [Call -> Locals]
      /\ \A w \in Call \ {v} : calls'[w] = calls[w]
      /\ ~ Consuming(v)'
  BY DEF LookStep, TypeOK, store
<1>2. TypeOK' /\ Ordered' /\ Stored' /\ Authorized' /\ Timely' /\ AcceptedOnce'
  BY <1>1 DEF TypeOK, Ordered, Stored, Readable, Authorized, Timely, InTime, Deadline, Valid,
              AcceptedOnce
<1>3. ASSUME NEW r, Due(r)
      PROVE  Due(r)'
  BY <1>1, <1>3 DEF Due, InTime, Valid, Deadline, Version
<1>4. \A w \in Call : Consuming(w)' => Consuming(w) /\ calls'[w] = calls[w]
  BY <1>1 DEF Consuming
<1>5. CallInv'
  <2>1. \A w \in Call : Consuming(w)' =>
          Due(calls[w])' /\ disk'[<<calls'[w].c, "used">>] # "absent"
    BY <1>1, <1>3, <1>4 DEF CallInv
  <2>2. ASSUME NEW w \in Call
        PROVE  /\ calls'[w].at \in {"loaded", "matched"} => calls'[w].c \in Challenge
               /\ calls'[w].at = "matched" =>
                    /\ calls'[w].auth \in 2..Len(heads)
                    /\ calls'[w].c \in heads[calls'[w].auth].consumed
                    /\ InTime(calls[w].c, heads[calls[w].auth].at)'
    <3>1. CASE w = v
      BY <1>1, <3>1 DEF LookStep, InTime, Deadline, Valid
    <3>2. CASE w # v
      BY <1>1, <3>2 DEF CallInv, InTime, Deadline, Valid
    <3>. QED BY <3>1, <3>2
  <2>3. \A w \in Call : Consuming(w)' => calls'[w].c \in Challenge
    BY <1>4 DEF CallInv, Consuming
  <2>. QED BY <1>1, <2>1, <2>2, <2>3 DEF CallInv, Consuming
<1>6. OneOwner'
  BY <1>1, <1>4 DEF OneOwner
<1>7. \A a \in accepted' : Due(a)'
  BY <1>1, <1>3
<1>. QED BY <1>2, <1>5, <1>6, <1>7

LEMMA CompareKeeps ==
  ASSUME KInv, NEW v \in Call, Compare(v)
  PROVE  KInv'
<1>. USE KitAssumption DEF KInv
<1>0. PICK c : c = calls[v].c
  OBVIOUS
<1>1. PICK j \in 1..Len(heads) :
        /\ calls[v].at = "matched"
        /\ calls' = [calls EXCEPT ![v] = [calls[v] EXCEPT !.at = "marking", !.seen = j,
                                                          !.decided = now]]
        /\ FreshState(j) /\ now < Deadline(c) /\ Version(j) = Version(calls[v].auth)
        /\ disk[<<c, "used">>] = "absent"
        /\ disk' = [disk EXCEPT ![<<c, "used">>] = "empty"]
        /\ dirty' = dirty \cup {<<c, "used">>}
        /\ UNCHANGED <<now, heads, challenge, making, accepted>>
  BY <1>0 DEF Compare, Step, StillLive, SameStatus, CreateFile
<1>2. /\ c \in Challenge /\ <<c, "used">> \in File /\ now \in Nat /\ heads \in Seq(Block)
      /\ calls[v] \in Locals /\ calls[v].auth \in 2..Len(heads)
      /\ c \in heads[calls[v].auth].consumed
      /\ ~ Consuming(v)
  BY <1>0, <1>1 DEF CallInv, TypeOK, File, Consuming
<1>3. /\ calls'[v] \in Locals /\ calls'[v].at = "marking" /\ calls'[v].c = c
      /\ calls'[v].auth = calls[v].auth /\ calls'[v].seen = j /\ calls'[v].decided = now
  <2>1. calls'[v] = [calls[v] EXCEPT !.at = "marking", !.seen = j, !.decided = now]
    BY <1>1 DEF TypeOK
  <2>2. j \in Nat
    OBVIOUS
  <2>3. calls'[v] = [at |-> "marking", c |-> calls[v].c, auth |-> calls[v].auth, seen |-> j,
                     decided |-> now]
    BY <1>2, <2>1 DEF Locals
  <2>. QED BY <1>0, <1>2, <2>2, <2>3 DEF Locals
<1>4. /\ calls' \in [Call -> Locals] /\ \A w \in Call \ {v} : calls'[w] = calls[w]
      /\ disk' \in [File -> {"absent", "empty", "full"}] /\ dirty' \subseteq File
      /\ disk'[<<c, "used">>] = "empty"
      /\ \A f \in File \ {<<c, "used">>} : disk'[f] = disk[f] /\ (f \in dirty' <=> f \in dirty)
      /\ \A d \in Challenge : /\ disk'[<<d, "json">>] = disk[<<d, "json">>]
                              /\ <<d, "json">> \in dirty' <=> <<d, "json">> \in dirty
  BY <1>1, <1>2, <1>3 DEF TypeOK, File
<1>5. TypeOK' /\ Ordered' /\ Authorized' /\ Timely' /\ AcceptedOnce'
  BY <1>1, <1>4 DEF TypeOK, Ordered, Authorized, Timely, InTime, Deadline, Valid, AcceptedOnce
<1>6. Stored'
  <2>1. \A d \in Challenge : Readable(d)' = Readable(d)
    BY <1>4 DEF Readable
  <2>. QED BY <1>1, <1>4, <2>1 DEF Stored
<1>7. ASSUME NEW r, Due(r)
      PROVE  Due(r)'
  BY <1>1, <1>7 DEF Due, InTime, Valid, Deadline, Version
<1>8. Due(calls[v])'
  <2>1. InTime(c, heads[calls[v].auth].at) /\ InTime(c, now)
    BY <1>0, <1>1 DEF CallInv, InTime, FreshState
  <2>2. now <= heads[j].at + MaxAge
    <3>1. heads[j] \in Block
      BY <1>2
    <3>2. heads[j].at \in Nat
      BY <3>1 DEF Block
    <3>3. ObservedAt(j) \in Nat /\ ObservedAt(j) <= heads[j].at
      BY <1>2, <3>2 DEF ObservedAt, Earlier
    <3>4. now - ObservedAt(j) <= MaxAge
      BY <1>1 DEF FreshState
    <3>. QED BY <1>2, <3>2, <3>3, <3>4
  <2>3. InTime(calls[v].c, heads[calls[v].auth].at)' /\ InTime(calls[v].c, calls[v].decided)'
    BY <1>1, <1>3, <2>1 DEF InTime, Deadline, Valid
  <2>4. \A i : Version(i)' = Version(i)
    BY <1>1 DEF Version
  <2>5. /\ calls[v].auth \in 2..Len(heads') /\ j \in 1..Len(heads')
        /\ c \in heads'[calls[v].auth].consumed /\ now <= now'
        /\ now <= heads'[j].at + MaxAge
        /\ Version(j)' = Version(calls[v].auth)'
    BY <1>1, <1>2, <2>2, <2>4
  <2>. QED BY <1>3, <2>3, <2>5 DEF Due
<1>9. ASSUME NEW w \in Call, w # v, Consuming(w)
      PROVE  /\ calls[w].c # c /\ calls[w].c \in Challenge /\ Due(calls[w])'
             /\ disk'[<<calls[w].c, "used">>] # "absent"
  <2>1. Due(calls[w]) /\ disk[<<calls[w].c, "used">>] # "absent" /\ calls[w].c \in Challenge
    BY <1>9 DEF CallInv, Consuming
  <2>2. calls[w].c # c /\ <<calls[w].c, "used">> \in File \ {<<c, "used">>}
    BY <1>1, <2>1 DEF File
  <2>. QED BY <1>4, <1>7, <1>9, <2>1, <2>2
<1>10. CallInv'
  <2>1. \A w \in Call : Consuming(w)' =>
          Due(calls[w])' /\ disk'[<<calls'[w].c, "used">>] # "absent"
    BY <1>3, <1>4, <1>8, <1>9 DEF Consuming
  <2>2. ASSUME NEW w \in Call, w # v
        PROVE  /\ calls'[w].at \in {"loaded", "matched", "marking", "marked"} =>
                    calls'[w].c \in Challenge
               /\ calls'[w].at = "matched" =>
                    /\ calls'[w].auth \in 2..Len(heads)
                    /\ calls'[w].c \in heads[calls'[w].auth].consumed
                    /\ InTime(calls[w].c, heads[calls[w].auth].at)'
    BY <1>1, <1>4, <2>2 DEF CallInv, InTime, Deadline, Valid
  <2>. QED BY <1>1, <1>2, <1>3, <2>1, <2>2 DEF CallInv
<1>11. OneOwner'
  <2>1. ASSUME NEW a \in accepted
        PROVE  a.c # c /\ a.c \in Challenge
    BY <1>1 DEF OneOwner, TypeOK
  <2>2. ASSUME NEW a \in accepted
        PROVE  disk'[<<a.c, "used">>] # "absent" /\ <<a.c, "used">> \notin dirty'
    <3>1. <<a.c, "used">> \in File \ {<<c, "used">>}
      BY <2>1 DEF File
    <3>. QED BY <1>4, <3>1 DEF OneOwner
  <2>3. \A w \in Call : Consuming(w)' => w = v \/ (Consuming(w) /\ calls'[w] = calls[w])
    BY <1>4 DEF Consuming
  <2>4. ASSUME NEW w \in Call, NEW x \in Call,
               Consuming(w)', Consuming(x)', calls'[w].c = calls'[x].c
        PROVE  w = x
    BY <1>3, <1>9, <2>3, <2>4 DEF OneOwner
  <2>5. ASSUME NEW a \in accepted, NEW w \in Call, Consuming(w)'
        PROVE  calls'[w].c # a.c
    BY <1>3, <2>1, <2>3, <2>5 DEF OneOwner
  <2>. QED BY <1>1, <2>2, <2>4, <2>5 DEF OneOwner
<1>12. \A a \in accepted' : Due(a)'
  BY <1>1, <1>7
<1>. QED BY <1>5, <1>6, <1>10, <1>11, <1>12

LEMMA MarkedKeeps ==
  ASSUME KInv, NEW v \in Call, Marked(v)
  PROVE  KInv'
<1>. USE KitAssumption DEF KInv
<1>1. /\ calls[v].at = "marking" /\ Consuming(v)
      /\ calls' = [calls EXCEPT ![v] = [calls[v] EXCEPT !.at = "marked"]]
      /\ disk' = [disk EXCEPT ![<<calls[v].c, "used">>] = "full"]
      /\ UNCHANGED <<now, heads, challenge, dirty, making, accepted>>
      /\ calls[v] \in Locals /\ now \in Nat /\ heads \in Seq(Block)
  BY DEF Marked, Step, WriteFile, Consuming, TypeOK
<1>2. /\ calls'[v] \in Locals /\ calls'[v].at = "marked" /\ calls'[v].c = calls[v].c
      /\ calls'[v].auth = calls[v].auth /\ calls'[v].seen = calls[v].seen
      /\ calls'[v].decided = calls[v].decided
  <2>1. calls'[v] = [calls[v] EXCEPT !.at = "marked"]
    BY <1>1 DEF TypeOK
  <2>2. calls[v] \in Locals
    BY <1>1
  <2>. QED BY <2>1, <2>2 DEF Locals
<1>3. /\ calls' \in [Call -> Locals] /\ \A w \in Call \ {v} : calls'[w] = calls[w]
      /\ disk' \in [File -> {"absent", "empty", "full"}]
      /\ \A f \in File : disk[f] # "absent" => disk'[f] # "absent"
      /\ \A d \in Challenge : disk'[<<d, "json">>] = disk[<<d, "json">>]
  BY <1>1, <1>2 DEF TypeOK, File
<1>4. TypeOK' /\ Ordered' /\ Authorized' /\ Timely' /\ AcceptedOnce'
  BY <1>1, <1>3 DEF TypeOK, Ordered, Authorized, Timely, InTime, Deadline, Valid, AcceptedOnce
<1>5. Stored'
  <2>1. \A d \in Challenge : Readable(d)' = Readable(d)
    BY <1>3 DEF Readable
  <2>. QED BY <1>1, <1>3, <2>1 DEF Stored
<1>6. ASSUME NEW r, Due(r)
      PROVE  Due(r)'
  BY <1>1, <1>6 DEF Due, InTime, Valid, Deadline, Version
<1>7. \A w \in Call : Consuming(w)' = Consuming(w) /\ calls'[w].c = calls[w].c
  BY <1>1, <1>2, <1>3 DEF Consuming
<1>8. ASSUME NEW w \in Call, Consuming(w)
      PROVE  Due(calls[w])' /\ disk'[<<calls'[w].c, "used">>] # "absent"
  <2>1. Due(calls[w]) /\ disk[<<calls[w].c, "used">>] # "absent" /\ calls[w].c \in Challenge
    BY <1>8 DEF CallInv, Consuming
  <2>2. disk'[<<calls'[w].c, "used">>] # "absent"
    BY <1>3, <1>7, <2>1 DEF File
  <2>3. CASE w # v
    BY <1>3, <1>6, <2>1, <2>2, <2>3
  <2>4. CASE w = v
    <3>1. PICK r : r = calls[v]
      OBVIOUS
    <3>2. Due(r)'
      BY <1>6, <2>1, <2>4, <3>1
    <3>. QED BY <1>2, <2>2, <2>4, <3>1, <3>2 DEF Due, InTime, Deadline, Valid
  <2>. QED BY <2>3, <2>4
<1>9. CallInv'
  <2>1. ASSUME NEW w \in Call
        PROVE  /\ calls'[w].at \in {"loaded", "matched", "marking", "marked"} =>
                    calls'[w].c \in Challenge
               /\ calls'[w].at = "matched" =>
                    /\ calls'[w].auth \in 2..Len(heads)
                    /\ calls'[w].c \in heads[calls'[w].auth].consumed
                    /\ InTime(calls[w].c, heads[calls[w].auth].at)'
    BY <1>1, <1>2, <1>3 DEF CallInv, InTime, Deadline, Valid
  <2>. QED BY <1>1, <1>7, <1>8, <2>1 DEF CallInv
<1>10. OneOwner'
  <2>1. \A a \in accepted : disk'[<<a.c, "used">>] # "absent"
    BY <1>3 DEF OneOwner, TypeOK, File
  <2>. QED BY <1>1, <1>7, <2>1 DEF OneOwner
<1>11. \A a \in accepted' : Due(a)'
  BY <1>1, <1>6
<1>. QED BY <1>4, <1>5, <1>9, <1>10, <1>11

(* Once accepted, the marker is synced; no other call is consuming.        *)
LEMMA AcceptKeeps ==
  ASSUME KInv, NEW v \in Call, Accept(v)
  PROVE  KInv'
<1>. USE KitAssumption DEF KInv
<1>1. PICK new :
        /\ new = [by |-> v, c |-> calls[v].c, auth |-> calls[v].auth, seen |-> calls[v].seen,
                  decided |-> calls[v].decided]
        /\ calls[v].at = "marked" /\ Consuming(v)
        /\ calls' = [calls EXCEPT ![v] = [calls[v] EXCEPT !.at = "ended"]]
        /\ dirty' = dirty \ {<<calls[v].c, "used">>}
        /\ accepted' = accepted \cup {new}
        /\ UNCHANGED <<now, heads, challenge, disk, making>>
        /\ calls[v] \in Locals /\ now \in 0..MaxTime /\ heads \in Seq(Block)
  BY DEF Accept, Step, SyncDirectory, Consuming, TypeOK
<1>2. /\ Due(calls[v]) /\ calls[v].c \in Challenge
      /\ disk[<<calls[v].c, "used">>] # "absent"
  BY <1>1 DEF CallInv, Consuming
<1>3. calls'[v] \in Locals /\ calls'[v].at = "ended"
  <2>1. calls'[v] = [calls[v] EXCEPT !.at = "ended"]
    BY <1>1 DEF TypeOK
  <2>2. calls[v] \in Locals
    BY <1>1
  <2>. QED BY <2>1, <2>2 DEF Locals
<1>4. /\ calls' \in [Call -> Locals] /\ \A w \in Call \ {v} : calls'[w] = calls[w]
      /\ \A w \in Call : Consuming(w)' => w # v /\ Consuming(w) /\ calls'[w] = calls[w]
  BY <1>1, <1>3 DEF TypeOK, Consuming
<1>5. new \in [by : Call, c : Challenge, auth : 1..MaxHeads, seen : 1..MaxHeads,
               decided : 0..MaxTime]
  <2>1. /\ Len(heads) \in Nat
        /\ calls[v].auth \in 2..Len(heads) /\ calls[v].seen \in 1..Len(heads)
        /\ calls[v].decided \in Nat /\ calls[v].decided <= now
    BY <1>1, <1>2 DEF Due, Locals
  <2>2. Len(heads) <= MaxHeads
    BY <2>1 DEF Ordered
  <2>3. Len(heads) \in Nat /\ MaxHeads \in Nat /\ now \in 0..MaxTime /\ MaxTime \in Nat
    BY <1>1, <2>1, KitAssumption
  <2>4. calls[v].auth \in 1..MaxHeads
    BY <2>1, <2>2, <2>3
  <2>5. calls[v].seen \in 1..MaxHeads
    BY <2>1, <2>2, <2>3
  <2>6. calls[v].decided \in 0..MaxTime
    BY <2>1, <2>3
  <2>7. new = [by |-> v, c |-> calls[v].c, auth |-> calls[v].auth, seen |-> calls[v].seen,
               decided |-> calls[v].decided]
    BY <1>1
  <2>8. calls[v].c \in Challenge
    BY <1>2
  <2>. QED BY <2>4, <2>5, <2>6, <2>7, <2>8
<1>6. new.c = calls[v].c /\ Due(new)
  BY <1>1, <1>2 DEF Due, InTime, Deadline
<1>7. TypeOK'
  BY <1>1, <1>4, <1>5 DEF TypeOK
<1>8. Ordered' /\ Authorized' /\ Timely' /\ Stored'
  BY <1>1 DEF Ordered, Authorized, Timely, InTime, Deadline, Valid, Stored, Readable
<1>9. ASSUME NEW r, Due(r)
      PROVE  Due(r)'
  BY <1>1, <1>9 DEF Due, InTime, Valid, Deadline, Version
<1>10. CallInv'
  <2>1. \A w \in Call : Consuming(w)' =>
          Due(calls[w])' /\ disk'[<<calls'[w].c, "used">>] # "absent"
    BY <1>1, <1>4, <1>9 DEF CallInv
  <2>2. ASSUME NEW w \in Call
        PROVE  /\ calls'[w].at \in {"loaded", "matched", "marking", "marked"} =>
                    calls'[w].c \in Challenge
               /\ calls'[w].at = "matched" =>
                    /\ calls'[w].auth \in 2..Len(heads)
                    /\ calls'[w].c \in heads[calls'[w].auth].consumed
                    /\ InTime(calls[w].c, heads[calls[w].auth].at)'
    <3>1. CASE w = v
      BY <1>3, <3>1
    <3>2. CASE w # v
      BY <1>1, <1>4, <3>2 DEF CallInv, InTime, Deadline, Valid
    <3>. QED BY <3>1, <3>2
  <2>. QED BY <1>1, <2>1, <2>2 DEF CallInv
<1>11. \A a \in accepted : a.c # new.c
  BY <1>1, <1>6 DEF OneOwner
<1>12. OneOwner' /\ AcceptedOnce'
  <2>1. \A w \in Call : Consuming(w)' => calls'[w].c # new.c
    BY <1>1, <1>4, <1>6 DEF OneOwner
  <2>2. \A a \in accepted : <<a.c, "used">> \notin dirty' /\ disk'[<<a.c, "used">>] # "absent"
    BY <1>1 DEF OneOwner
  <2>3. <<new.c, "used">> \notin dirty' /\ disk'[<<new.c, "used">>] # "absent"
    BY <1>1, <1>2, <1>6
  <2>4. OneOwner'
    <3>1. ASSUME NEW a \in accepted'
          PROVE  /\ disk'[<<a.c, "used">>] # "absent" /\ <<a.c, "used">> \notin dirty'
                 /\ \A w \in Call : Consuming(w)' => calls'[w].c # a.c
      <4>1. CASE a = new
        BY <2>1, <2>3, <4>1
      <4>2. CASE a \in accepted
        BY <1>4, <2>2, <4>2 DEF OneOwner
      <4>. QED BY <1>1, <4>1, <4>2
    <3>2. \A w, x \in Call :
            Consuming(w)' /\ Consuming(x)' /\ calls'[w].c = calls'[x].c => w = x
      BY <1>4 DEF OneOwner
    <3>. QED BY <3>1, <3>2 DEF OneOwner
  <2>5. AcceptedOnce'
    BY <1>1, <1>11 DEF AcceptedOnce
  <2>. QED BY <2>4, <2>5
<1>13. \A a \in accepted' : Due(a)'
  BY <1>1, <1>6, <1>9
<1>. QED BY <1>7, <1>8, <1>10, <1>12, <1>13

-----------------------------------------------------------------------------
(* The power loss ends every call and spares the synced files.             *)
LEMMA PowerLossKeeps ==
  ASSUME KInv, PowerLoss
  PROVE  KInv'
<1>. USE KitAssumption DEF KInv
<1>1. /\ dirty' = {} /\ UNCHANGED <<now, heads, challenge, accepted>>
      /\ disk' \in [File -> {"absent", "empty", "full"}]
      /\ \A f \in File : disk[f] = "absent" => disk'[f] = "absent"
      /\ \A f \in File \ dirty : disk'[f] = disk[f]
  <2>1. PICK kept \in [dirty -> {"absent", "empty", "full"}] :
          disk' = [f \in File |->
                     IF f \in dirty /\ disk[f] = "full" THEN kept[f]
                     ELSE IF f \in dirty /\ kept[f] = "absent" THEN "absent" ELSE disk[f]]
    BY DEF PowerLoss
  <2>2. disk' \in [File -> {"absent", "empty", "full"}]
    BY <2>1 DEF TypeOK
  <2>. QED BY <2>1, <2>2 DEF PowerLoss
<1>2. /\ making' \in [Challenge -> {"no", "created", "written", "handed", "failed"}]
      /\ \A c \in Challenge : /\ making'[c] # "written"
                              /\ making'[c] = "handed" <=> making[c] = "handed"
                              /\ making'[c] = "no" <=> making[c] = "no"
  BY DEF PowerLoss, TypeOK
<1>3. calls' \in [Call -> Locals] /\ \A v \in Call : calls'[v].at \in {"idle", "ended"}
  <2>1. \A v \in Call : calls[v] \in Locals /\ [calls[v] EXCEPT !.at = "ended"] \in Locals
                        /\ [calls[v] EXCEPT !.at = "ended"].at = "ended"
    BY DEF TypeOK, Locals
  <2>. QED BY <2>1 DEF PowerLoss
<1>4. TypeOK' /\ Ordered' /\ AcceptedOnce'
  BY <1>1, <1>2, <1>3 DEF TypeOK, Ordered, AcceptedOnce
<1>5. Authorized' /\ Timely'
  <2>1. \A i \in 1..Len(heads) : heads[i] \in Block
    BY DEF TypeOK
  <2>2. Authorized'
    BY <1>1, <1>2, <2>1 DEF Authorized, Block
  <2>. QED BY <1>1, <2>2 DEF Timely, InTime, Deadline, Valid
<1>6. Stored'
  <2>1. ASSUME NEW c \in Challenge
        PROVE  /\ <<c, "json">> \in File
               /\ making[c] = "handed" => Readable(c)'
    BY <1>1 DEF File, Stored, Readable
  <2>. QED BY <1>1, <1>2, <2>1 DEF Stored
<1>7. CallInv'
  BY <1>3 DEF CallInv, Consuming
<1>8. OneOwner'
  BY <1>1, <1>3 DEF OneOwner, Consuming, TypeOK, File
<1>9. \A a \in accepted' : Due(a)'
  BY <1>1 DEF Due, InTime, Valid, Deadline, Version
<1>. QED BY <1>4, <1>5, <1>6, <1>7, <1>8, <1>9

-----------------------------------------------------------------------------
LEMMA KInvInit == Init => KInv
<1>. SUFFICES ASSUME Init PROVE KInv
  OBVIOUS
<1>. USE KitAssumption DEF Init
<1>1. PICK b : b = [at |-> 0, revoked |-> {}, active |-> TRUE, consumed |-> {}]
  OBVIOUS
<1>2. heads = <<b>> /\ b \in Block /\ b.at = 0 /\ b.consumed = {}
  BY <1>1 DEF Block
<1>3. heads \in Seq(Block) /\ Len(heads) = 1 /\ heads[1] = b /\ heads # <<>>
  <2>1. <<b>> \in Seq(Block) /\ Len(<<b>>) = 1 /\ <<b>>[1] = b
    BY <1>2
  <2>2. <<b>> # <<>>
    OBVIOUS
  <2>. QED BY <1>2, <2>1, <2>2
<1>4. Fresh \in Locals /\ Fresh.at = "idle"
  BY DEF Fresh, Locals
<1>5. TypeOK
  BY <1>3, <1>4 DEF TypeOK
<1>6. Ordered /\ Authorized /\ Timely
  BY <1>2, <1>3 DEF Ordered, Authorized, Timely
<1>7. Stored
  BY DEF Stored, File
<1>8. CallInv /\ OneOwner
  BY <1>4 DEF CallInv, OneOwner, Consuming
<1>. QED BY <1>5, <1>6, <1>7, <1>8 DEF KInv, AcceptedOnce

LEMMA KInvStep == KInv /\ [Next]_vars => KInv'
<1>. SUFFICES ASSUME KInv, [Next]_vars PROVE KInv'
  OBVIOUS
<1>1. CASE Tick \/ Chain \/ PowerLoss
  BY <1>1, TickKeeps, ChainKeeps, PowerLossKeeps
<1>2. CASE \E c \in Challenge : Begin(c) \/ PutWritten(c) \/ CreateChallenge(c) \/ PutFails(c)
  BY <1>2, PutSteps, PutKeeps
<1>3. CASE \E v \in Call : Verify(v)
  BY <1>3, LookSteps, LookKeeps, CompareKeeps, MarkedKeeps, AcceptKeeps DEF Verify
<1>4. CASE UNCHANGED vars
  <2>1. UNCHANGED <<now, heads, challenge, disk, dirty, making, calls, accepted>>
    BY <1>4 DEF vars, store
  <2>2. KInv = KInv'
    BY <2>1 DEF KInv, TypeOK, Ordered, Stored, Readable, Authorized, Timely, CallInv, OneOwner,
                Consuming, Due, InTime, Deadline, Valid, Version, AcceptedOnce
  <2>. QED BY <2>2
<1>. QED BY <1>1, <1>2, <1>3, <1>4 DEF Next

(* The chain, the files and the locals of the calls stay consistent:       *)
(* whatever a call is about to consume it found due, and the marker on the *)
(* disk is its own, in every state the kit, its store, a power loss and    *)
(* the contract can lead to.                                               *)
THEOREM KitInvariant == Spec => []KInv
BY KInvInit, KInvStep, PTL DEF Spec

(* Every variable keeps its type, the clock and the chain their bounds.    *)
THEOREM KitTypeCorrect == Spec => []TypeOK
BY KitInvariant, PTL DEF KInv

(* No challenge is accepted twice, by whatever calls at once, nor after a  *)
(* power loss took an unsynced marker away: an acceptance had its marker   *)
(* safe on the disk.                                                       *)
THEOREM OneAcceptancePerChallenge == Spec => []AcceptedOnce
BY KitInvariant, PTL DEF KInv

(* A challenge createChallenge handed out can be read back, whatever power *)
(* losses come.                                                            *)
THEOREM ChallengeSurvives == Spec => []HandedIsReadable
<1>1. KInv => HandedIsReadable
  BY DEF KInv, Stored, HandedIsReadable
<1>. QED BY <1>1, KitInvariant, PTL

(* An acceptance rests on an authorization of its challenge on the chain,  *)
(* within its time to live and the batch's validity by the chain's clock   *)
(* and by the verifier's, and on a status that was the authorization's no  *)
(* longer ago than the verifier tolerates, whatever the indexer held back, *)
(* for any drift of the two clocks and any tolerance of it.                *)
THEOREM AcceptancesAreDue == Spec => []AcceptedAreDue
<1>1. ASSUME KInv, NEW a \in accepted, NEW j \in 1..Len(heads), a.auth < j,
             Version(j) # Version(a.auth)
      PROVE  a.decided <= heads[j].at + MaxAge
  <2>. USE <1>1, KitAssumption DEF KInv
  <2>1. /\ a.auth \in 1..Len(heads) /\ a.seen \in 1..Len(heads)
        /\ Version(a.seen) = Version(a.auth)
        /\ a.decided <= heads[a.seen].at + MaxAge /\ a.decided \in Nat
    <3>1. Due(a) /\ a.decided \in Nat
      BY DEF TypeOK
    <3>. QED BY <3>1 DEF Due
  <2>2. a.seen < j
    <3>. SUFFICES ASSUME j <= a.seen PROVE FALSE
      BY <2>1
    <3>1. /\ heads[a.seen].revoked = heads[a.auth].revoked
          /\ heads[a.seen].active = heads[a.auth].active
      BY <2>1 DEF Version
    <3>2. /\ heads[a.auth].revoked = heads[j].revoked
          /\ heads[a.auth].active <=> heads[j].active
      <4>1. a.auth <= j /\ a.auth \in Nat /\ a.seen \in Nat
        BY <2>1
      <4>2. /\ heads[a.auth].revoked \subseteq heads[j].revoked
            /\ heads[j].active => heads[a.auth].active
        BY <2>1, <4>1 DEF Ordered
      <4>3. /\ heads[j].revoked \subseteq heads[a.seen].revoked
            /\ heads[a.seen].active => heads[j].active
        BY <2>1 DEF Ordered
      <4>. QED BY <3>1, <4>2, <4>3
    <3>3. heads[a.auth] \in Block /\ heads[j] \in Block
      BY <2>1 DEF TypeOK
    <3>4. heads[a.auth].active = heads[j].active
      BY <3>2, <3>3 DEF Block
    <3>. QED BY <3>2, <3>4 DEF Version
  <2>3. heads[a.seen].at <= heads[j].at
    BY <2>1, <2>2 DEF Ordered
  <2>4. heads[a.seen].at \in Nat /\ heads[j].at \in Nat
    <3>1. heads[a.seen] \in Block /\ heads[j] \in Block
      BY <2>1 DEF TypeOK
    <3>. QED BY <3>1 DEF Block
  <2>5. a.decided <= heads[a.seen].at + MaxAge /\ a.decided \in Nat /\ MaxAge \in Nat
    BY <2>1, KitAssumption
  <2>. QED BY <2>3, <2>4, <2>5
<1>2. KInv => AcceptedAreDue
  <2>. SUFFICES ASSUME KInv PROVE AcceptedAreDue
    OBVIOUS
  <2>1. DOMAIN heads = 1..Len(heads)
    BY DEF KInv, TypeOK
  <2>. QED BY <1>1, <2>1 DEF KInv, Due, InTime, AcceptedAreDue
<1>. QED BY <1>2, KitInvariant, PTL

-----------------------------------------------------------------------------
(* The kit implements the gate.                                            *)

Presented == [v \in Call |-> calls[v].c]
Verdicts  == [v \in Call |-> Verdict(v)]

(* A call has a challenge from its load on; one that was accepted has      *)
(* ended, with the challenge it was accepted for.                          *)
Answered ==
  /\ \A v \in Call : calls[v].c = None <=> calls[v].at = "idle"
  /\ \A a \in accepted : calls[a.by].at = "ended" /\ calls[a.by].c = a.c

LEMMA VerdictIs ==
  ASSUME NEW v \in Call
  PROVE  /\ Verdicts[v] = Verdict(v)
         /\ Verdict(v) = "none" <=> calls[v].at # "ended"
         /\ Verdict(v) = "accepted" <=> calls[v].at = "ended" /\ \E a \in accepted : a.by = v
BY DEF Verdicts, Verdict

(* One call moves.                                                         *)
Moves(v) ==
  /\ calls' \in [Call -> Locals] /\ \A w \in Call \ {v} : calls'[w] = calls[w]
  /\ calls[v].at # "ended" /\ UNCHANGED <<heads, making>>

LEMMA MovesOne ==
  ASSUME KInv, NEW v \in Call, Verify(v)
  PROVE  Moves(v)
<1>. USE DEF KInv, TypeOK, Step, Moves, store
<1>1. CASE \E c \in Challenge : Load(v, c)
  <2>1. PICK c \in Challenge : Load(v, c)
    BY <1>1
  <2>2. [calls[v] EXCEPT !.at = "loaded", !.c = c] \in Locals
    BY DEF Locals
  <2>. QED BY <2>1, <2>2 DEF Load
<1>2. CASE Match(v) \/ Refuse(v)
  <2>1. LookStep(v)
    BY <1>2, LookSteps
  <2>2. calls[v].at # "ended"
    BY <1>2 DEF Match, Refuse
  <2>. QED BY <2>1, <2>2 DEF LookStep
<1>3. CASE Compare(v)
  <2>1. PICK j \in 1..Len(heads) :
          /\ calls' = [calls EXCEPT ![v] = [calls[v] EXCEPT !.at = "marking", !.seen = j,
                                                           !.decided = now]]
          /\ calls[v].at = "matched" /\ UNCHANGED <<heads, making>>
    BY <1>3 DEF Compare
  <2>2. j \in Nat /\ now \in Nat
    BY KitAssumption
  <2>3. [calls[v] EXCEPT !.at = "marking", !.seen = j, !.decided = now] \in Locals
    BY <2>2 DEF Locals
  <2>. QED BY <2>1, <2>3
<1>4. CASE Marked(v) \/ Accept(v)
  <2>1. \A at \in {"marked", "ended"} : [calls[v] EXCEPT !.at = at] \in Locals
    BY DEF Locals
  <2>. QED BY <1>4, <2>1 DEF Marked, Accept
<1>. QED BY <1>1, <1>2, <1>3, <1>4 DEF Verify

(* The chain backs at most one challenge at a time.                        *)
LEMMA ChainBacks ==
  ASSUME KInv, Chain
  PROVE  Backed' = Backed \/ \E c \in Given : Backed' = Backed \cup {c}
<1>1. /\ heads \in Seq(Block) /\ heads # <<>> /\ Last \in Block
      /\ Len(heads) \in Nat /\ Len(heads) >= 1
  BY DEF KInv, TypeOK, Ordered, Last
<1>2. ASSUME NEW b \in Block, NEW t \in BlockTime, Seal(b, t)
      PROVE  Backed' = Backed \cup b.consumed
  <2>1. PICK h : h = [b EXCEPT !.at = t]
    OBVIOUS
  <2>2. heads' = Append(heads, h) /\ h.consumed = b.consumed
    BY <1>2, <2>1 DEF Seal, Block
  <2>3. /\ DOMAIN heads' = DOMAIN heads \cup {Len(heads) + 1}
        /\ \A j \in DOMAIN heads : heads'[j] = heads[j]
        /\ heads'[Len(heads) + 1] = h
    BY <1>1, <2>2
  <2>. QED BY <2>2, <2>3 DEF Backed
<1>3. Last.consumed \subseteq Backed
  BY <1>1 DEF Backed, Last
<1>4. ASSUME NEW t \in BlockTime, DeactivateIssuer(t) PROVE Backed' = Backed
  <2>1. PICK b : b = [Last EXCEPT !.active = FALSE]
    OBVIOUS
  <2>2. b \in Block /\ b.consumed = Last.consumed
    BY <1>1, <2>1 DEF Block
  <2>. QED BY <1>2, <1>3, <1>4, <2>1, <2>2 DEF DeactivateIssuer
<1>5. ASSUME NEW t \in BlockTime, EmptyBlock(t) PROVE Backed' = Backed
  BY <1>1, <1>2, <1>3, <1>5 DEF EmptyBlock
<1>6. ASSUME NEW t \in BlockTime, NEW side \in Side, Revoke(side, t) PROVE Backed' = Backed
  <2>1. PICK b : b = [Last EXCEPT !.revoked = Last.revoked \cup {side}]
    OBVIOUS
  <2>2. b \in Block /\ b.consumed = Last.consumed
    BY <1>1, <2>1 DEF Block
  <2>. QED BY <1>2, <1>3, <1>6, <2>1, <2>2 DEF Revoke
<1>7. ASSUME NEW t \in BlockTime, NEW side \in Side, NEW c \in Challenge, Authorize(c, side, t)
      PROVE  c \in Given /\ Backed' = Backed \cup {c}
  <2>1. PICK b : b = [Last EXCEPT !.consumed = Last.consumed \cup {c}]
    OBVIOUS
  <2>2. b \in Block /\ b.consumed = Last.consumed \cup {c}
    BY <1>1, <2>1 DEF Block
  <2>. QED BY <1>2, <1>3, <1>7, <2>1, <2>2 DEF Authorize, Given
<1>. QED BY <1>4, <1>5, <1>6, <1>7 DEF Chain

LEMMA AnsweredStep ==
  ASSUME KInv, Answered, [Next]_vars
  PROVE  Answered'
<1>. USE KitAssumption DEF Step
<1>1. /\ calls \in [Call -> Locals]
      /\ \A a \in accepted : a.by \in Call /\ a.c \in Challenge
  BY DEF KInv, TypeOK
<1>2. CASE UNCHANGED <<calls, accepted>>
  BY <1>2 DEF Answered
<1>3. ASSUME NEW v \in Call, Verify(v)
      PROVE  Answered'
  <2>1. Moves(v)
    BY <1>3, MovesOne
  <2>2. calls'[v].c = None <=> calls'[v].at = "idle"
    <3>1. CASE \E c \in Challenge : Load(v, c)
      BY <1>1, <3>1 DEF Load, Locals
    <3>2. CASE Match(v) \/ Refuse(v)
      <4>1. /\ calls[v].at \notin {"idle", "ended"} /\ calls'[v].at # "idle"
            /\ calls'[v].c = calls[v].c
        <5>1. CASE Match(v)
          BY <1>1, <5>1 DEF Match, Locals
        <5>2. CASE Refuse(v)
          BY <1>1, <5>2 DEF Refuse, Locals
        <5>. QED BY <3>2, <5>1, <5>2
      <4>. QED BY <4>1 DEF Answered
    <3>3. CASE Compare(v)
      BY <1>1, <3>3 DEF Compare, Locals, Answered
    <3>4. CASE Marked(v) \/ Accept(v)
      BY <1>1, <3>4 DEF Marked, Accept, Locals, Answered
    <3>. QED BY <1>3, <3>1, <3>2, <3>3, <3>4 DEF Verify
  <2>3. \A a \in accepted : a.by # v /\ calls'[a.by] = calls[a.by]
    BY <1>1, <2>1 DEF Moves, Answered
  <2>4. CASE accepted' = accepted
    BY <2>1, <2>2, <2>3, <2>4 DEF Answered, Moves
  <2>5. CASE Accept(v)
    <3>1. PICK new : new.by = v /\ new.c = calls[v].c /\ accepted' = accepted \cup {new}
      <4>1. PICK r : r = [by |-> v, c |-> calls[v].c, auth |-> calls[v].auth,
                          seen |-> calls[v].seen, decided |-> calls[v].decided]
        OBVIOUS
      <4>. QED BY <2>5, <4>1 DEF Accept
    <3>2. calls'[v].at = "ended" /\ calls'[v].c = calls[v].c
      BY <1>1, <2>5 DEF Accept, Locals
    <3>. QED BY <2>1, <2>2, <2>3, <3>1, <3>2 DEF Answered, Moves
  <2>. QED BY <1>3, <2>4, <2>5 DEF Verify, Load, Match, Refuse, Compare, Marked
<1>4. CASE PowerLoss
  <2>1. /\ accepted' = accepted
        /\ \A v \in Call : /\ calls'[v].c = calls[v].c
                           /\ calls'[v].at = "idle" <=> calls[v].at = "idle"
                           /\ calls[v].at = "ended" => calls'[v].at = "ended"
    BY <1>1, <1>4 DEF PowerLoss, Locals
  <2>. QED BY <1>1, <2>1 DEF Answered
<1>5. CASE UNCHANGED vars \/ Tick \/ Chain
           \/ \E c \in Challenge : Begin(c) \/ PutWritten(c) \/ CreateChallenge(c) \/ PutFails(c)
  BY <1>2, <1>5 DEF vars, Tick, Chain, DeactivateIssuer, EmptyBlock, Revoke, Authorize, Seal,
                    Begin, PutWritten, CreateChallenge, PutFails, Put
<1>. QED BY <1>3, <1>4, <1>5 DEF Next

(* A call that moves within its verification, and one that ends.           *)
LEMMA VerifyAtGate ==
  ASSUME KInv, Answered, NEW v \in Call, Verify(v)
  PROVE  [Gate!Next]_Gate!vars
<1>. USE KitAssumption DEF Step
<1>1. Moves(v) /\ calls \in [Call -> Locals]
  BY MovesOne DEF KInv, TypeOK
<1>2. UNCHANGED <<Given, Backed>>
  BY <1>1 DEF Moves, Given, Backed
<1>3. \A a \in accepted : a.by # v
  BY <1>1 DEF Moves, Answered
<1>4. ASSUME NEW w \in Call \ {v}
      PROVE  Verdicts'[w] = Verdicts[w] /\ Presented'[w] = Presented[w]
  <2>1. (\E a \in accepted' : a.by = w) <=> (\E a \in accepted : a.by = w)
    <3>1. CASE Accept(v)
      <4>1. PICK r : r = [by |-> v, c |-> calls[v].c, auth |-> calls[v].auth,
                          seen |-> calls[v].seen, decided |-> calls[v].decided]
        OBVIOUS
      <4>2. accepted' = accepted \cup {r} /\ r.by = v
        BY <3>1, <4>1 DEF Accept
      <4>. QED BY <4>2
    <3>2. CASE accepted' = accepted
      BY <3>2
    <3>. QED BY <3>1, <3>2 DEF Verify, Load, Match, Refuse, Compare, Marked
  <2>. QED BY <1>1, <2>1 DEF Moves, Verdicts, Verdict, Presented
<1>5. ASSUME NEW c \in Challenge, Load(v, c) PROVE Gate!Next
  <2>1. /\ calls[v].at = "idle" /\ calls'[v].at = "loaded" /\ calls'[v].c = c
        /\ making[c] = "handed"
    BY <1>1, <1>5 DEF Load, Locals
  <2>2. Verdicts'[v] = Verdicts[v]
    BY <2>1 DEF Verdicts, Verdict
  <2>3. Verdicts' = Verdicts
    BY <1>4, <2>2 DEF Verdicts
  <2>4. Presented' = [Presented EXCEPT ![v] = c] /\ Presented[v] = None
    BY <1>4, <2>1 DEF Presented, Answered
  <2>5. Gate!Present(v, c)
    BY <1>2, <2>1, <2>3, <2>4 DEF Gate!Present, Given, Presented, Verdicts
  <2>. QED BY <2>5 DEF Gate!Next
<1>6. ASSUME Match(v) \/ Compare(v) \/ Marked(v) PROVE UNCHANGED Gate!vars
  <2>1. calls'[v].c = calls[v].c /\ calls[v].at # "ended" /\ calls'[v].at # "ended"
    <3>1. CASE Match(v)
      BY <1>1, <3>1 DEF Match, Locals
    <3>2. CASE Compare(v)
      BY <1>1, <3>2 DEF Compare, Locals
    <3>3. CASE Marked(v)
      BY <1>1, <3>3 DEF Marked, Locals
    <3>. QED BY <1>6, <3>1, <3>2, <3>3
  <2>2. Verdicts'[v] = Verdicts[v] /\ Presented'[v] = Presented[v]
    BY <2>1 DEF Verdicts, Verdict, Presented
  <2>3. Verdicts' = Verdicts /\ Presented' = Presented
    BY <1>4, <2>2 DEF Verdicts, Presented
  <2>. QED BY <1>2, <2>3 DEF Gate!vars, Verdicts, Presented
<1>7. ASSUME Accept(v) \/ Refuse(v)
      PROVE  /\ calls'[v].at = "ended" /\ Presented' = Presented
             /\ v \in Gate!Open
  <2>1. /\ calls'[v].at = "ended" /\ calls'[v].c = calls[v].c
        /\ calls[v].at \notin {"idle", "ended"}
    BY <1>1, <1>7 DEF Accept, Refuse, Locals
  <2>2. Presented'[v] = Presented[v]
    BY <2>1 DEF Presented
  <2>3. Presented' = Presented
    BY <1>4, <2>2 DEF Presented
  <2>4. Presented[v] # None /\ Verdicts[v] = "none"
    BY <2>1, VerdictIs DEF Presented, Answered
  <2>. QED BY <2>1, <2>3, <2>4 DEF Gate!Open, Presented, Verdicts
<1>8. ASSUME Accept(v) PROVE Gate!Next
  <2>1. PICK new : new.by = v /\ new.c = calls[v].c /\ accepted' = accepted \cup {new}
    <3>1. PICK r : r = [by |-> v, c |-> calls[v].c, auth |-> calls[v].auth,
                        seen |-> calls[v].seen, decided |-> calls[v].decided]
      OBVIOUS
    <3>. QED BY <1>8, <3>1 DEF Accept
  <2>2. Verdicts'[v] = "accepted"
    BY <1>7, <1>8, <2>1 DEF Verdicts, Verdict
  <2>3. Verdicts' = [Verdicts EXCEPT ![v] = "accepted"]
    BY <1>4, <2>2 DEF Verdicts
  <2>4. Consuming(v)
    BY <1>8 DEF Accept, Consuming
  <2>5. Presented[v] \in Backed
    <3>1. Due(calls[v])
      BY <2>4 DEF KInv, CallInv
    <3>2. DOMAIN heads = 1..Len(heads) /\ Len(heads) \in Nat
      BY DEF KInv, TypeOK
    <3>3. calls[v].c \in heads[calls[v].auth].consumed /\ calls[v].auth \in DOMAIN heads
      BY <3>1, <3>2 DEF Due
    <3>. QED BY <3>3 DEF Presented, Backed
  <2>6. \A w \in Call : Verdicts[w] = "accepted" => Presented[w] # Presented[v]
    <3>. SUFFICES ASSUME NEW w \in Call, Verdicts[w] = "accepted" PROVE Presented[w] # Presented[v]
      OBVIOUS
    <3>1. PICK a \in accepted : a.by = w
      BY VerdictIs
    <3>2. calls[w].c = a.c /\ calls[v].c # a.c
      BY <2>4, <3>1 DEF Answered, KInv, OneOwner
    <3>. QED BY <3>2 DEF Presented
  <2>7. Gate!Accept(v)
    BY <1>2, <1>7, <1>8, <2>3, <2>5, <2>6 DEF Gate!Accept, Presented, Verdicts
  <2>. QED BY <2>7 DEF Gate!Next
<1>9. ASSUME Refuse(v) PROVE Gate!Next
  <2>1. Verdicts'[v] = "refused"
    BY <1>3, <1>7, <1>9 DEF Refuse, Verdicts, Verdict
  <2>2. Verdicts' = [w \in Call |-> IF w \in {v} THEN "refused" ELSE Verdicts[w]]
    BY <1>4, <2>1 DEF Verdicts
  <2>3. Gate!Refuse({v})
    BY <1>2, <1>7, <1>9, <2>2 DEF Gate!Refuse, Presented, Verdicts
  <2>4. {v} \in SUBSET Gate!Open
    BY <1>7, <1>9
  <2>. QED BY <2>3, <2>4 DEF Gate!Next
<1>. QED BY <1>5, <1>6, <1>8, <1>9 DEF Verify

(* The machine that loses power refuses all calls under way.               *)
LEMMA PowerLossAtGate ==
  ASSUME KInv, Answered, PowerLoss
  PROVE  Gate!Next
<1>. DEFINE S == {v \in Call : calls[v].at \notin {"idle", "ended"}}
<1>1. /\ calls \in [Call -> Locals] /\ UNCHANGED <<heads, accepted>>
      /\ making' = [c \in Challenge |->
                      IF making[c] \in {"created", "written"} THEN "failed" ELSE making[c]]
      /\ calls' = [v \in Call |-> IF calls[v].at \in {"idle", "ended"} THEN calls[v]
                                   ELSE [calls[v] EXCEPT !.at = "ended"]]
  BY DEF KInv, TypeOK, PowerLoss
<1>2. UNCHANGED <<Given, Backed>>
  BY <1>1 DEF Given, Backed
<1>3. ASSUME NEW v \in Call
      PROVE  /\ calls'[v].c = calls[v].c
             /\ Verdicts'[v] = IF v \in S THEN "refused" ELSE Verdicts[v]
             /\ v \in S => v \in Gate!Open
  <2>1. CASE v \in S
    <3>1. calls'[v].at = "ended" /\ calls'[v].c = calls[v].c /\ calls[v].at # "ended"
      BY <1>1, <2>1 DEF Locals
    <3>2. \A a \in accepted' : a.by # v
      BY <1>1, <3>1 DEF Answered
    <3>3. Verdicts'[v] = "refused"
      BY <3>1, <3>2 DEF Verdicts, Verdict
    <3>4. v \in Gate!Open
      BY <2>1, VerdictIs DEF Gate!Open, Answered, Verdicts
    <3>. QED BY <2>1, <3>1, <3>3, <3>4
  <2>2. CASE v \notin S
    <3>1. calls'[v] = calls[v]
      BY <1>1, <2>2
    <3>. QED BY <1>1, <2>2, <3>1 DEF Verdicts, Verdict
  <2>. QED BY <2>1, <2>2
<1>4. Presented' = Presented
  BY <1>3 DEF Presented
<1>5. Verdicts' = [v \in Call |-> IF v \in S THEN "refused" ELSE Verdicts[v]]
  BY <1>3 DEF Verdicts
<1>6. S \in SUBSET Gate!Open
  BY <1>3
<1>. HIDE DEF S
<1>7. Gate!Refuse(S)
  BY <1>2, <1>4, <1>5 DEF Gate!Refuse, Presented, Verdicts
<1>. QED BY <1>6, <1>7 DEF Gate!Next

LEMMA StepAtGate == KInv /\ Answered /\ [Next]_vars => [Gate!Next]_Gate!vars
<1>. SUFFICES ASSUME KInv, Answered, [Next]_vars PROVE [Gate!Next]_Gate!vars
  OBVIOUS
<1>1. ASSUME UNCHANGED <<calls, accepted>>
      PROVE  Verdicts' = Verdicts /\ Presented' = Presented
  BY <1>1 DEF Verdicts, Verdict, Presented
<1>2. CASE UNCHANGED vars \/ Tick
  <2>1. UNCHANGED <<heads, making, calls, accepted>>
    BY <1>2 DEF vars, store, Tick
  <2>2. UNCHANGED <<Given, Backed>>
    BY <2>1 DEF Given, Backed
  <2>. QED BY <1>1, <2>1, <2>2 DEF Gate!vars, Verdicts, Presented
<1>3. CASE Chain
  <2>1. UNCHANGED <<making, calls, accepted>>
    BY <1>3 DEF Chain, DeactivateIssuer, EmptyBlock, Revoke, Authorize, Seal, store
  <2>2. Given' = Given
    BY <2>1 DEF Given
  <2>3. CASE Backed' = Backed
    BY <1>1, <2>1, <2>2, <2>3 DEF Gate!vars, Verdicts, Presented
  <2>4. ASSUME NEW c \in Given, Backed' = Backed \cup {c} PROVE Gate!Next
    <3>1. Gate!Back(c) /\ c \in Challenge
      BY <1>1, <2>1, <2>2, <2>4 DEF Gate!Back, Given, Verdicts, Presented
    <3>. QED BY <3>1 DEF Gate!Next
  <2>. QED BY <1>3, <2>3, <2>4, ChainBacks
<1>4. ASSUME NEW c \in Challenge,
             Begin(c) \/ PutWritten(c) \/ CreateChallenge(c) \/ PutFails(c)
      PROVE  [Gate!Next]_Gate!vars
  <2>1. PutStep(c) /\ making \in [Challenge -> {"no", "created", "written", "handed", "failed"}]
    BY <1>4, PutSteps DEF KInv, TypeOK
  <2>2. UNCHANGED <<heads, calls, accepted>> /\ c \notin Given
    BY <2>1 DEF PutStep, Given
  <2>3. Backed' = Backed
    BY <2>2 DEF Backed
  <2>4. CASE making'[c] = "handed"
    <3>1. Given' = Given \cup {c}
      BY <2>1, <2>4 DEF PutStep, Given
    <3>2. Gate!Give(c)
      BY <1>1, <2>2, <2>3, <3>1 DEF Gate!Give, Verdicts, Presented
    <3>. QED BY <3>2 DEF Gate!Next
  <2>5. CASE making'[c] # "handed"
    <3>1. Given' = Given
      BY <2>1, <2>5 DEF PutStep, Given
    <3>. QED BY <1>1, <2>2, <2>3, <3>1 DEF Gate!vars, Verdicts, Presented
  <2>. QED BY <2>4, <2>5
<1>. QED BY <1>2, <1>3, <1>4, VerifyAtGate, PowerLossAtGate DEF Next

LEMMA InitOpensGate == Init => Gate!Init /\ Answered
<1>. SUFFICES ASSUME Init PROVE Gate!Init /\ Answered
  OBVIOUS
<1>1. \A v \in Call : calls[v].at = "idle" /\ calls[v].c = None
  BY DEF Init, Fresh
<1>2. Given = {}
  BY DEF Init, Given
<1>3. Backed = {}
  <2>1. PICK b : b = [at |-> 0, revoked |-> {}, active |-> TRUE, consumed |-> {}]
    OBVIOUS
  <2>2. heads = <<b>> /\ b.consumed = {}
    BY <2>1 DEF Init
  <2>3. DOMAIN heads = {1} /\ heads[1] = b
    BY <2>2
  <2>. QED BY <2>2, <2>3 DEF Backed
<1>4. /\ Verdicts = [v \in Call |-> "none"]
      /\ Presented = [v \in Call |-> None]
  BY <1>1, VerdictIs DEF Verdicts, Presented
<1>5. Answered
  BY <1>1 DEF Init, Answered
<1>. QED BY <1>2, <1>3, <1>4, <1>5 DEF Gate!Init, Verdicts, Presented

(* The kit, over its files and their power losses, implements the one-shot *)
(* gate: every presentation is decided once, and of one challenge only one *)
(* is accepted, on an authorization the contract consumed.                 *)
THEOREM KitIsGate == Spec => GateSpec
<1>1. Spec => []Answered
  BY InitOpensGate, AnsweredStep, KitInvariant, PTL DEF Spec
<1>. QED BY <1>1, InitOpensGate, StepAtGate, KitInvariant, PTL DEF Spec, GateSpec, Gate!Spec
=============================================================================

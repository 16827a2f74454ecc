------------------------------ MODULE LifecycleKit ------------------------------
(***************************************************************************)
(* The V2 verifier kit (packages/sdk) over the lifecycle contract          *)
(* (contracts/lifecycle/lifecycle.compact) and the file store of           *)
(* challenges (packages/sdk/file-store.ts).                                *)
(*                                                                         *)
(* The contract keeps two status bits, an active flag and the consumed     *)
(* requests; its batch root and validity window never change.  Its blocks  *)
(* are dated by the chain, whose clock is not the verifier's.  The store   *)
(* creates one file per challenge and one per consumption, exclusively,    *)
(* and syncs the file and then its directory: until then a power loss may  *)
(* take the entry or the content away.                                     *)
(***************************************************************************)
EXTENDS Integers, Sequences

CONSTANTS
  Challenge,  \* the challenges of one verifier and policy
  Call,       \* calls of verifyPresentation
  Ttl,        \* lifetime of a challenge
  MaxAge,     \* maxStateAgeSeconds
  Tolerance,  \* how far ahead of the clock a head may be (5)
  Drift,      \* how far a block's time may be off the clock
  ValidFrom,  \* start of the batch's validity
  ValidUntil, \* its end
  MaxTime,    \* bound on the clock
  MaxHeads,   \* bound on the chain
  None

ASSUME KitAssumption ==
  /\ Ttl \in Nat \ {0} /\ MaxAge \in Nat /\ Tolerance \in Nat /\ Drift \in Nat
  /\ ValidFrom \in Nat /\ ValidUntil \in Nat /\ MaxTime \in Nat /\ MaxHeads \in Nat
  /\ None \notin Challenge

VARIABLES
  now,        \* the verifier's clock
  heads,      \* the contract after each block
  challenge,  \* what a challenge file says: its time of issue, or None
  disk,       \* the files, as readers find them
  dirty,      \* files whose directory entry is not synced
  making,     \* progress of the put of each challenge
  calls,      \* progress and locals of each verification
  accepted    \* history: the acceptances

store == <<challenge, disk, dirty, making>>
vars  == <<now, heads, store, calls, accepted>>

Side   == {"left", "right"}
File   == Challenge \X {"json", "used"}
Block  == [at : Nat, revoked : SUBSET Side, active : BOOLEAN, consumed : SUBSET Challenge]
Locals == [at : {"idle", "loaded", "matched", "marking", "marked", "ended"},
           c : Challenge \cup {None}, auth : Nat, seen : Nat, decided : Nat]

TypeOK ==
  /\ now \in 0..MaxTime
  /\ heads \in Seq(Block)
  /\ challenge \in [Challenge -> 0..MaxTime \cup {None}]
  /\ disk \in [File -> {"absent", "empty", "full"}]
  /\ dirty \subseteq File
  /\ making \in [Challenge -> {"no", "created", "written", "handed", "failed"}]
  /\ calls \in [Call -> Locals]
  /\ accepted \subseteq
       [by : Call, c : Challenge, auth : 1..MaxHeads, seen : 1..MaxHeads, decided : 0..MaxTime]

Fresh == [at |-> "idle", c |-> None, auth |-> 0, seen |-> 0, decided |-> 0]

Init ==
  /\ now = 0
  /\ heads = <<[at |-> 0, revoked |-> {}, active |-> TRUE, consumed |-> {}]>>
  /\ challenge = [c \in Challenge |-> None]
  /\ disk = [f \in File |-> "absent"]
  /\ dirty = {}
  /\ making = [c \in Challenge |-> "no"]
  /\ calls = [v \in Call |-> Fresh]
  /\ accepted = {}

Tick ==
  /\ now < MaxTime
  /\ now' = now + 1
  /\ UNCHANGED <<heads, store, calls, accepted>>

-----------------------------------------------------------------------------
(* The contract: every call makes a block; blocks also come empty.         *)

Last == heads[Len(heads)]
Deadline(c) == challenge[c] + Ttl

(* Block times never go back; the clock of their authors may be off.       *)
BlockTime == {t \in 0 .. (now + Drift) : t >= Last.at /\ t >= now - Drift}

Seal(head, t) ==
  /\ Len(heads) < MaxHeads
  /\ heads' = Append(heads, [head EXCEPT !.at = t])
  /\ UNCHANGED <<now, store, calls, accepted>>

Revoke(side, t)     == Seal([Last EXCEPT !.revoked = @ \cup {side}], t)
DeactivateIssuer(t) == Seal([Last EXCEPT !.active = FALSE], t)
EmptyBlock(t)       == Last.at < t /\ Seal(Last, t)

Valid(t) == ValidFrom <= t /\ t < ValidUntil

(* The circuit knows the time of its block only.                           *)
Authorize(c, side, t) ==
  /\ Last.active /\ side \notin Last.revoked
  /\ Valid(t)
  /\ making[c] = "handed" /\ t < Deadline(c)
  /\ c \notin Last.consumed
  /\ Seal([Last EXCEPT !.consumed = @ \cup {c}], t)

Chain ==
  \E t \in BlockTime :
    \/ DeactivateIssuer(t) \/ EmptyBlock(t)
    \/ \E side \in Side : Revoke(side, t) \/ \E c \in Challenge : Authorize(c, side, t)

-----------------------------------------------------------------------------
(* FileChallengeStore.exclusive: create, write and sync, sync the          *)
(* directory.                                                              *)

(* Mutant: the file is opened without wx.                                  *)
OpenFile(f) ==
  /\ disk' = [disk EXCEPT ![f] = "empty"]
  /\ dirty' = dirty \cup {f}

CreateFile(f) ==
  /\ disk[f] = "absent"
  /\ disk' = [disk EXCEPT ![f] = "empty"]
  /\ dirty' = dirty \cup {f}

WriteFile(f) == disk' = [disk EXCEPT ![f] = "full"] /\ UNCHANGED dirty

(* Mutant: the directory is not synced.                                    *)
SkipSync(f) == UNCHANGED <<disk, dirty>>

SyncDirectory(f) == dirty' = dirty \ {f} /\ UNCHANGED disk

Put(c, from, to) ==
  /\ making[c] = from
  /\ making' = [making EXCEPT ![c] = to]
  /\ UNCHANGED <<now, heads, calls, accepted>>

(* createChallenge hands the challenge out when put has returned.          *)
Begin(c) ==
  /\ Put(c, "no", "created")
  /\ CreateFile(<<c, "json">>)
  /\ challenge' = [challenge EXCEPT ![c] = now]

PutWritten(c) ==
  /\ Put(c, "created", "written")
  /\ WriteFile(<<c, "json">>)
  /\ UNCHANGED challenge

CreateChallenge(c) ==
  /\ Put(c, "written", "handed")
  /\ SyncDirectory(<<c, "json">>)
  /\ UNCHANGED challenge

PutFails(c) ==
  /\ making[c] \in {"created", "written"}
  /\ Put(c, making[c], "failed")
  /\ UNCHANGED <<challenge, disk, dirty>>

-----------------------------------------------------------------------------
(* verifyPresentation, between its awaits.                                 *)

Step(v, from, to) ==
  /\ calls[v].at = from
  /\ calls' = [calls EXCEPT ![v] = to]

(* get: the file must parse.                                               *)
Readable(c) == disk[<<c, "json">>] = "full"

Load(v, c) ==
  /\ Step(v, "idle", [calls[v] EXCEPT !.at = "loaded", !.c = c])
  /\ making[c] = "handed" /\ Readable(c)
  /\ now < Deadline(c)
  /\ UNCHANGED <<now, heads, store, accepted>>

(* The authorization and the contract right after it; nothing looks at     *)
(* the time of its block.                                                  *)
Match(v) ==
  LET c == calls[v].c IN
  \E j \in 2..Len(heads) :
    /\ c \in heads[j].consumed \ heads[j - 1].consumed
    /\ Step(v, "loaded", [calls[v] EXCEPT !.at = "matched", !.auth = j])
    /\ UNCHANGED <<now, heads, store, accepted>>

Version(j) == <<heads[j].revoked, heads[j].active>>

Earlier(t, u) == IF t < u THEN t ELSE u

(* The adapter refuses a head from the future; a head counts as observed   *)
(* at its block's time, or now if that is ahead.                           *)
Canonical(j) == heads[j].at <= now + Tolerance

ObservedAt(j) == Earlier(heads[j].at, now)

(* Mutant: the age of the indexer's head is not looked at.                 *)
AnyAge(j) == Canonical(j) /\ heads[j].active /\ Valid(now)

FreshState(j) ==
  /\ Canonical(j)
  /\ now - ObservedAt(j) \in 0..MaxAge
  /\ heads[j].active
  /\ Valid(now)

SameStatus(j, k) == Version(j) = Version(k)

StillLive(c) == now < Deadline(c)

(* currentState, from an indexer that may lag, then consume begins.        *)
Compare(v) ==
  LET c == calls[v].c IN
  \E j \in 1..Len(heads) :
    /\ Step(v, "matched", [calls[v] EXCEPT !.at = "marking", !.seen = j, !.decided = now])
    /\ FreshState(j)
    /\ StillLive(c)
    /\ SameStatus(j, calls[v].auth)
    /\ Readable(c)
    /\ CreateFile(<<c, "used">>)
    /\ UNCHANGED <<now, heads, challenge, making, accepted>>

Marked(v) ==
  /\ Step(v, "marking", [calls[v] EXCEPT !.at = "marked"])
  /\ WriteFile(<<calls[v].c, "used">>)
  /\ UNCHANGED <<now, heads, challenge, making, accepted>>

Accept(v) ==
  /\ Step(v, "marked", [calls[v] EXCEPT !.at = "ended"])
  /\ SyncDirectory(<<calls[v].c, "used">>)
  /\ accepted' = accepted \cup
       {[by |-> v, c |-> calls[v].c, auth |-> calls[v].auth, seen |-> calls[v].seen,
         decided |-> calls[v].decided]}
  /\ UNCHANGED <<now, heads, challenge, making>>

(* A check fails, the marker exists, a service or the disk does not answer,*)
(* or the process dies.                                                    *)
Refuse(v) ==
  /\ calls[v].at \notin {"idle", "ended"}
  /\ Step(v, calls[v].at, [calls[v] EXCEPT !.at = "ended"])
  /\ UNCHANGED <<now, heads, store, accepted>>

-----------------------------------------------------------------------------
(* The machine loses power: what was not synced may be gone or truncated.  *)
PowerLoss ==
  /\ dirty # {}
  /\ \E kept \in [dirty -> {"absent", "empty", "full"}] :
       disk' = [f \in File |->
                  IF f \in dirty /\ disk[f] = "full" THEN kept[f]
                  ELSE IF f \in dirty /\ kept[f] = "absent" THEN "absent" ELSE disk[f]]
  /\ dirty' = {}
  /\ making' = [c \in Challenge |->
                  IF making[c] \in {"created", "written"} THEN "failed" ELSE making[c]]
  /\ calls' = [v \in Call |->
                 IF calls[v].at \in {"idle", "ended"} THEN calls[v]
                 ELSE [calls[v] EXCEPT !.at = "ended"]]
  /\ UNCHANGED <<now, heads, challenge, accepted>>

Verify(v) ==
  \/ \E c \in Challenge : Load(v, c)
  \/ Match(v) \/ Compare(v) \/ Marked(v) \/ Accept(v) \/ Refuse(v)

Next ==
  \/ Tick \/ Chain \/ PowerLoss
  \/ \E c \in Challenge : Begin(c) \/ PutWritten(c) \/ CreateChallenge(c) \/ PutFails(c)
  \/ \E v \in Call : Verify(v)

Spec == Init /\ [][Next]_vars

-----------------------------------------------------------------------------
(* Properties.                                                             *)

(* One challenge is accepted once, also when calls race for it and the     *)
(* machine loses power between an acceptance and the next call.            *)
AcceptedOnce ==
  \A a, b \in accepted : a.c = b.c => a = b

(* The application can rely on a challenge it was handed: the store can    *)
(* read it whatever happens to the machine afterwards.                     *)
HandedIsReadable == \A c \in Challenge : making[c] = "handed" => Readable(c)

(* What is accepted is due, by both clocks: the chain had authorized it    *)
(* for that challenge in a block before the challenge and the batch ended, *)
(* and the kit decided before they did; and no revocation or deactivation  *)
(* after the authorization is in a block dated more than MaxAge before     *)
(* that decision, however far the two clocks are apart and whatever head   *)
(* the indexer shows.                                                      *)
AcceptedAreDue ==
  \A a \in accepted :
    /\ a.c \in heads[a.auth].consumed
    /\ \A t \in {heads[a.auth].at, a.decided} : t < Deadline(a.c) /\ Valid(t)
    /\ \A j \in DOMAIN heads :
         a.auth < j /\ Version(j) # Version(a.auth) => a.decided <= heads[j].at + MaxAge

-----------------------------------------------------------------------------
(* The kit is a one-shot gate.  A marker that a call made and did not      *)
(* report accepts nothing; a power loss ends every call at once.           *)

Given  == {c \in Challenge : making[c] = "handed"}
Backed == UNION {heads[j].consumed : j \in DOMAIN heads}

Verdict(v) ==
  IF calls[v].at # "ended" THEN "none"
  ELSE IF \E a \in accepted : a.by = v THEN "accepted" ELSE "refused"

Gate == INSTANCE OneShotGate
  WITH given <- Given, backed <- Backed, presented <- [v \in Call |-> calls[v].c],
       verdict <- [v \in Call |-> Verdict(v)]

(* Whatever calls race and whenever the machine loses power, a call of     *)
(* verifyPresentation ends as the gate's: decided once, accepted only for  *)
(* a challenge the contract has consumed, and alone.                       *)
GateSpec == Gate!Spec
=============================================================================

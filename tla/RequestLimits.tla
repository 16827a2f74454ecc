---------------------------- MODULE RequestLimits ----------------------------
(***************************************************************************)
(* How many requests the issuer service lets through.                      *)
(*                                                                         *)
(* A POST counts first against an in-memory counter of its process, then   *)
(* against a budget all processes share: a row of PostgreSQL, or of SQLite *)
(* for a service with a disk of its own.  Both do it in one statement, but *)
(* PostgreSQL reads the clock anew each time the statement names it, and   *)
(* SQLite is given the time the process read before it waited for the      *)
(* lock.                                                                   *)
(***************************************************************************)
EXTENDS Integers, Sequences, FiniteSets

CONSTANTS
  Server, Request,
  Nobody,          \* no process
  Store,           \* the stores an instance considers
  Limit, Window,   \* Limit requests in Window seconds
  AttemptLimit,    \* POSTs of one process in Window seconds
  MaxWait,         \* longest wait of a statement for a lock, in seconds
  MaxTime

(* A statement gives up after 15 seconds (PostgreSQL) or 5 (SQLite), which *)
(* is less than half of a window of 60.                                    *)
ASSUME LimitsAssumption ==
  /\ Store \subseteq {"postgres", "sqlite"}
  /\ {Limit, Window, AttemptLimit} \subseteq Nat \ {0}
  /\ {MaxWait, MaxTime} \subseteq Nat
  /\ 2 * MaxWait < Window /\ Window # 1
  /\ Nobody \notin Server

VARIABLES
  store,      \* VEILPASS_STORAGE of the deployment
  attempts,   \* each process: the entry of its attempts map
  budget,     \* the row of veilpass_limits, or of SQLite's limits
  waiting,    \* each request with its locals
  now,
  admitted    \* history: when the budget admitted a request, one after the other

limitVars == <<store, attempts, budget, waiting, now, admitted>>

Spent == [count |-> 0, until |-> 0]
Idle == [phase |-> "idle", server |-> Nobody, began |-> 0]

LimitInit ==
  /\ store \in Store
  /\ attempts = [s \in Server |-> Spent]
  /\ budget = Spent
  /\ waiting = [r \in Request |-> Idle]
  /\ now = 0
  /\ admitted = <<>>

Tick ==
  /\ now < MaxTime
  /\ now' = now + 1
  /\ UNCHANGED <<store, attempts, budget, waiting, admitted>>

-----------------------------------------------------------------------------
(* The counter of a process                                                *)

(* An entry is forgotten once its window is over.  Above the limit a count *)
(* is as good as the next.                                                 *)
Counted(s) ==
  IF attempts[s].until < now
  THEN [count |-> 1, until |-> now + Window]
  ELSE [attempts[s] EXCEPT !.count = IF @ > AttemptLimit THEN @ ELSE @ + 1]

Arrive(r, s) ==
  /\ waiting[r].phase = "idle"
  /\ attempts' = [attempts EXCEPT ![s] = Counted(s)]
  /\ waiting' = [waiting EXCEPT ![r] =
       IF Counted(s).count > AttemptLimit
       THEN [Idle EXCEPT !.phase = "refused"]
       ELSE [phase |-> "counted", server |-> s, began |-> 0]]
  /\ UNCHANGED <<store, budget, now, admitted>>

(* A GET has no counter.                                                   *)
ReadState(r, s) ==
  /\ waiting[r].phase = "idle"
  /\ waiting' = [waiting EXCEPT ![r] = [phase |-> "counted", server |-> s, began |-> 0]]
  /\ UNCHANGED <<store, attempts, budget, now, admitted>>

-----------------------------------------------------------------------------
(* The shared budget                                                       *)

BeginTake(r) ==
  /\ waiting[r].phase = "counted"
  /\ waiting' = [waiting EXCEPT ![r].phase = "taking", ![r].began = now]
  /\ UNCHANGED <<store, attempts, budget, now, admitted>>

Over(t) == budget.until <= t
HasRoom == budget.count < Limit

(* The readings of the clock in WHERE, for the new count and for the new   *)
(* end.  The second may turn between two of PostgreSQL's.                  *)
Readings(r) ==
  IF store = "sqlite"
  THEN {[t \in 1 .. 3 |-> waiting[r].began]}
  ELSE {f \in [1 .. 3 -> now .. now + 1] :
          f[1] = now /\ f[2] <= f[3] /\ f[3] <= MaxTime}

(* The statement has not timed out.                                        *)
Taking(r) == waiting[r].phase = "taking" /\ now - waiting[r].began <= MaxWait

(* Mutant: the statement writes the count of its own new row.              *)
OverwritingTaken(r, t) ==
  [count |-> 1,
   until |-> IF Over(t[3]) THEN waiting[r].began + Window ELSE budget.until]

Taken(r, t) ==
  [count |-> IF Over(t[2]) THEN 1 ELSE budget.count + 1,
   until |-> IF Over(t[3]) THEN waiting[r].began + Window ELSE budget.until]

Take(r, t) ==
  /\ Taking(r)
  /\ t \in Readings(r)
  /\ Over(t[1]) \/ HasRoom
  /\ budget' = Taken(r, t)
  /\ now' = IF t[3] > now THEN t[3] ELSE now
  /\ admitted' = Append(admitted, now)
  /\ waiting' = [waiting EXCEPT ![r].phase = "admitted", ![r].began = 0]
  /\ UNCHANGED <<store, attempts>>

(* The window is not over and has no room.                                 *)
Full(r) == \E t \in Readings(r) : ~ Over(t[1]) /\ ~ HasRoom

(* Mutant: a refusal starts the window anew.                               *)
PunishingRefuse(r) ==
  /\ Taking(r) /\ Full(r)
  /\ budget' = [budget EXCEPT !.until = now + Window]
  /\ waiting' = [waiting EXCEPT ![r] = [Idle EXCEPT !.phase = "refused"]]
  /\ UNCHANGED <<store, attempts, now, admitted>>

(* 429.                                                                    *)
Refuse(r) ==
  /\ Taking(r) /\ Full(r)
  /\ waiting' = [waiting EXCEPT ![r] = [Idle EXCEPT !.phase = "refused"]]
  /\ UNCHANGED <<store, attempts, budget, now, admitted>>

(* The answer, or a failure on the way; the count stays.                   *)
Finish(r) ==
  /\ waiting[r].phase # "idle"
  /\ waiting' = [waiting EXCEPT ![r] = Idle]
  /\ UNCHANGED <<store, attempts, budget, now, admitted>>

(* A process that is replaced forgets its counter, not the budget.         *)
Restart(s) ==
  /\ attempts' = [attempts EXCEPT ![s] = Spent]
  /\ waiting' = [r \in Request |-> IF waiting[r].server = s THEN Idle ELSE waiting[r]]
  /\ UNCHANGED <<store, budget, now, admitted>>

Limits ==
  \/ Tick
  \/ \E r \in Request, s \in Server : Arrive(r, s) \/ ReadState(r, s)
  \/ \E r \in Request :
       \/ BeginTake(r) \/ Refuse(r) \/ Finish(r)
       \/ \E t \in Readings(r) : Take(r, t)
  \/ \E s \in Server : Restart(s)

LimitSpec == LimitInit /\ [][Limits]_limitVars

-----------------------------------------------------------------------------
(* Types: no window ends later than one that began now, and a request has  *)
(* a process exactly while it is on its way.                               *)
LimitsTypeOK ==
  /\ store \in Store
  /\ attempts \in [Server -> [count : 0 .. AttemptLimit + 1, until : 0 .. now + Window]]
  /\ budget \in [count : 0 .. Limit, until : 0 .. now + Window]
  /\ waiting \in [Request ->
       [phase : {"idle", "refused"}, server : {Nobody}, began : {0}]
       \cup [phase : {"counted", "taking", "admitted"}, server : Server, began : 0 .. now]]
  /\ now \in 0 .. MaxTime
  /\ admitted \in Seq(0 .. now)

AdmittedIn(first, last) ==
  Cardinality({i \in 1 .. Len(admitted) : admitted[i] \in first .. last})

(* The budget is global: in any Window seconds, all processes together     *)
(* admit at most the requests of two windows, across restarts and on       *)
(* whichever side of a window's end the readings of the clock fall; three  *)
(* when a window that waited for its lock was shorter for it.              *)
WithinBudget ==
  \A t \in 0 .. MaxTime :
    AdmittedIn(t, t + Window - 1) <= (IF MaxWait = 0 THEN 2 ELSE 3) * Limit

(* How long a request can count against another: SQLite goes by the time   *)
(* before the wait.                                                        *)
Reach == IF store = "sqlite" THEN Window + MaxWait ELSE Window

(* Nobody is locked out: whoever is refused comes within a window of an    *)
(* admission, which came within one of the admission before, and so on     *)
(* through a whole limit of them.  Refusals, failures and new processes do *)
(* not count.  That they all lie in the last two windows would be too      *)
(* much: an admission at the turn of a window passes the count on.         *)
RefusalIsDue ==
  \A r \in Request : Taking(r) /\ Full(r) =>
    /\ Len(admitted) >= Limit
    /\ now - admitted[Len(admitted)] < Reach
    /\ \A i \in Len(admitted) - Limit + 1 .. Len(admitted) - 1 :
         admitted[i + 1] - admitted[i] < Reach

=============================================================================

------------------------- MODULE HostedDatabaseProofs -------------------------
(***************************************************************************)
(* What the hosted service keeps in its database, for any number of        *)
(* processes and requests: the row of the authority, whose writes stand,   *)
(* whose identity stays and which opens with the current key; and the row  *)
(* of the budget all processes share.                                      *)
(***************************************************************************)
EXTENDS AuthorityRecovery, RequestLimits, FiniteSetTheorems, TLAPS

-----------------------------------------------------------------------------
(* The authority's row                                                     *)

(* The steps at which a task holds a row it read.                          *)
Holding == {"read", "saved", "reread"}

(* A task that can insert a new identity.                                  *)
Creating(p) == pc[p] \in Running /\ task[p].kind = "bootstrap" /\ task[p].create

Kinds ==
  /\ task \in [Task -> Job \cup {None}]
  /\ \A p \in Task :
       /\ pc[p] \in {"saved", "reread"} => task[p].kind = "rotate"
       /\ pc[p] = "read" => task[p].kind \in {"write", "backup", "rotate"}
       /\ pc[p] = "inserted" => task[p].kind = "bootstrap"

(* No version a task holds is ahead of the row, and one that is level with *)
(* it was read from the row as it stands.                                  *)
Fenced(p) ==
  /\ seen[p] \in Row /\ seen[p].sealed.issuer = seen[p].fingerprint
  /\ row # None =>
       /\ seen[p].version <= row.version
       /\ seen[p].version = row.version => seen[p] = row

Fence == \A p \in Task : pc[p] \in Holding => Fenced(p)

(* The table is empty for the first time as long as nothing was pinned,    *)
(* and whoever may create an identity came in that time or finds a row.    *)
Beginning ==
  /\ row = None /\ pinned = None => \A p \in Task : pc[p] \notin Holding
  /\ \A p \in Task : row = None /\ Creating(p) => pinned = None

(* A restore runs alone, with a backup of the pinned identity.             *)
Quiet ==
  \A p \in Task : pc[p] \in Running /\ task[p].kind = "restore" =>
    /\ \A q \in Task : pc[q] \in Running => q = p
    /\ task[p].from.fingerprint = pinned /\ pinned # None

IInv ==
  /\ TypeOK /\ Kinds /\ Fence /\ Beginning /\ Quiet
  /\ OneIssuer /\ CurrentKeyOpens

(* What an action property asks of one step.                               *)
Stand == row # None /\ row' # None => row.sealed.writes \subseteq row'.sealed.writes

LEMMA InitIInv == Init => IInv
<1> SUFFICES ASSUME Init PROVE IInv
  OBVIOUS
<1>1. TypeOK
  BY DEF Init, TypeOK
<1>2. Kinds /\ Fence /\ Beginning /\ Quiet
  BY DEF Init, Kinds, Job, Fence, Holding, Beginning, Creating, Running, Quiet
<1>3. OneIssuer /\ CurrentKeyOpens
  BY DEF Init, OneIssuer, CurrentKeyOpens
<1> QED
  BY <1>1, <1>2, <1>3 DEF IInv

-----------------------------------------------------------------------------
(* Steps that leave the row alone.                                         *)

LEMMA StartStep ==
  ASSUME IInv, NEW p \in Task, Start(p) PROVE IInv' /\ Stand
<1>1. PICK j \in Jobs : task' = [task EXCEPT ![p] = j]
  BY DEF Start
<1>2. /\ pc[p] = "idle" /\ pc' = [pc EXCEPT ![p] = "queued"]
      /\ \A q \in Busy : task[q].kind # "restore"
      /\ UNCHANGED <<tables, seen>>
  BY DEF Start, Goto
<1> USE <1>2 DEF tables
<1>3. j \in Job
  BY DEF IInv, TypeOK, Jobs, Job, Restores
<1>4. /\ pc'[p] = "queued" /\ task'[p] = j /\ task' \in [Task -> Job \cup {None}]
      /\ \A q \in Task \ {p} : pc'[q] = pc[q] /\ task'[q] = task[q]
  BY <1>1, <1>3 DEF IInv, TypeOK, Kinds
<1>5. TypeOK'
  <2>1. pc' \in [Task -> Running \cup {"idle", "done", "failed"}]
    BY DEF IInv, TypeOK, Running
  <2> QED
    BY <2>1, <1>3, <1>4 DEF IInv, TypeOK
<1>6. Kinds' /\ Fence'
  BY <1>4 DEF IInv, Kinds, Fence, Fenced, Holding
<1>7. Beginning'
  <2>1. j.kind = "bootstrap" => j.create \in {FALSE, pinned = None}
    BY DEF Jobs, Restores
  <2> QED
    BY <2>1, <1>4 DEF IInv, Beginning, Creating, Holding
<1>8. Quiet'
  <2>1. CASE j.kind = "restore"
    <3>1. j.from.fingerprint = pinned /\ Busy = {} /\ j.from \in Snapshot
      BY <2>1 DEF Jobs, Restores, IInv, TypeOK
    <3>2. pinned # None /\ \A q \in Task : pc[q] \notin Running
      BY <3>1, RecoveryAssumption DEF Snapshot, Busy
    <3> QED
      BY <3>1, <3>2, <1>4 DEF Quiet
  <2>2. CASE j.kind # "restore"
    BY <2>2, <1>4 DEF IInv, Quiet, Busy
  <2> QED
    BY <2>1, <2>2
<1>9. OneIssuer' /\ CurrentKeyOpens'
  BY DEF IInv, OneIssuer, CurrentKeyOpens
<1> QED
  BY <1>5, <1>6, <1>7, <1>8, <1>9 DEF IInv, Stand

(* A task moves on or ends; tables and rows held stay as they are.         *)
LEMMA MoveStep ==
  ASSUME IInv, NEW p \in Task, NEW s \in {"queued", "saved", "done", "failed"}, Goto(p, s),
         pc[p] \in Running,
         s = "queued" => pc[p] = "read" /\ task[p].kind = "write",
         s = "saved" => pc[p] = "read" /\ task[p].kind = "rotate",
         UNCHANGED <<row, pinned, current, drawn, task, seen>>,
         backups' \subseteq Snapshot
  PROVE  IInv' /\ Stand
<1>1. /\ pc' \in [Task -> Running \cup {"idle", "done", "failed"}] /\ pc'[p] = s
      /\ \A q \in Task \ {p} : pc'[q] = pc[q]
  BY DEF Goto, IInv, TypeOK, Running
<1>2. TypeOK'
  BY <1>1 DEF IInv, TypeOK, Running
<1>3. Kinds' /\ Fence' /\ Beginning'
  BY <1>1 DEF IInv, Kinds, Fence, Fenced, Holding, Beginning, Creating, Running
<1>4. Quiet'
  BY <1>1 DEF IInv, Quiet, Running
<1>5. OneIssuer' /\ CurrentKeyOpens'
  BY DEF IInv, OneIssuer, CurrentKeyOpens
<1> QED
  BY <1>2, <1>3, <1>4, <1>5 DEF IInv, Stand

LEMMA SaveStep ==
  ASSUME IInv, NEW p \in Task, Save(p) PROVE IInv' /\ Stand
<1>1. seen[p] \in Row
  BY DEF Save, IInv, Fence, Fenced, Holding
<1>2. backups' \subseteq Snapshot
  BY <1>1 DEF Save, IInv, TypeOK, Row, Snapshot
<1> QED
  BY <1>2, MoveStep DEF Save, Running

LEMMA ReadStep ==
  ASSUME IInv, NEW p \in Task, Read(p) PROVE IInv' /\ Stand
<1>1. PICK s \in {"read", "reread"} :
        /\ pc' = [pc EXCEPT ![p] = s]
        /\ s = "read" => pc[p] = "queued" /\ task[p].kind \in {"write", "backup", "rotate"}
        /\ s = "reread" => pc[p] = "saved"
  BY DEF Read, Goto
<1>2. /\ row # None /\ row \in Row /\ row.sealed.issuer = row.fingerprint
      /\ seen' = [seen EXCEPT ![p] = row]
      /\ UNCHANGED <<row, pinned, current, drawn, backups, task>>
  BY DEF Read, Opens, tables, IInv, TypeOK
<1>3. /\ pc' \in [Task -> Running \cup {"idle", "done", "failed"}] /\ pc'[p] = s
      /\ seen' \in [Task -> Row \cup {None}] /\ seen'[p] = row
      /\ \A q \in Task \ {p} : pc'[q] = pc[q] /\ seen'[q] = seen[q]
      /\ pc[p] \in Running
  BY <1>1, <1>2 DEF IInv, TypeOK, Running
<1> USE <1>2
<1>4. TypeOK'
  BY <1>3 DEF IInv, TypeOK, Running
<1>5. Kinds'
  BY <1>1, <1>3 DEF IInv, Kinds
<1>6. Fence'
  BY <1>3 DEF IInv, Fence, Fenced, Holding, Row
<1>7. Beginning' /\ Quiet'
  BY <1>3 DEF IInv, Beginning, Creating, Quiet
<1>8. OneIssuer' /\ CurrentKeyOpens'
  BY DEF IInv, OneIssuer, CurrentKeyOpens
<1> QED
  BY <1>4, <1>5, <1>6, <1>7, <1>8 DEF IInv, Stand

LEMMA AdmitStep ==
  ASSUME IInv, NEW p \in Task, Admit(p) PROVE IInv' /\ Stand
<1>1. /\ row # None /\ row \in Row
      /\ pinned \in {None, row.fingerprint} /\ pinned' = row.fingerprint
      /\ pc' = [pc EXCEPT ![p] = "done"]
      /\ UNCHANGED <<row, current, drawn, backups, task, seen>>
  BY DEF Admit, Opens, Goto, IInv, TypeOK
<1>2. /\ pc' \in [Task -> Running \cup {"idle", "done", "failed"}] /\ pc'[p] = "done"
      /\ \A q \in Task \ {p} : pc'[q] = pc[q]
      /\ pc[p] \in Running
  BY <1>1 DEF Admit, IInv, TypeOK, Running
<1> USE <1>1
<1>3. TypeOK'
  BY <1>2 DEF IInv, TypeOK, Row, Running
<1>4. Kinds' /\ Fence' /\ Beginning'
  BY <1>2 DEF IInv, Kinds, Fence, Fenced, Holding, Beginning
<1>5. Quiet'
  BY <1>2 DEF IInv, Quiet, Running
<1>6. OneIssuer' /\ CurrentKeyOpens'
  BY DEF IInv, OneIssuer, CurrentKeyOpens
<1> QED
  BY <1>3, <1>4, <1>5, <1>6 DEF IInv, Stand

-----------------------------------------------------------------------------
(* Steps that change the row.                                              *)

(* An update under the version read: the row is the one the task read, so  *)
(* what it seals is what was there, with what the task adds.               *)
LEMMA UpdateStep ==
  ASSUME IInv, NEW p \in Task, pc[p] \in Holding, Unmoved(p),
         NEW sealed \in Sealed, Update(sealed), current' \in Key, Goto(p, "done"),
         sealed.issuer = seen[p].sealed.issuer,
         seen[p].sealed.writes \subseteq sealed.writes,
         sealed.key = current',
         UNCHANGED <<pinned, drawn, backups, task, seen>>
  PROVE  IInv' /\ Stand
<1>1. /\ row # None /\ row \in Row /\ seen[p] = row
      /\ row.sealed.issuer = row.fingerprint
  BY DEF Unmoved, IInv, TypeOK, Fence, Fenced, OneIssuer
<1>2. row' = [row EXCEPT !.version = @ + 1, !.sealed = sealed]
  BY DEF Update
<1>3. /\ row' \in Row /\ row'.version = row.version + 1 /\ row'.sealed = sealed
      /\ row'.fingerprint = row.fingerprint
  <2>1. \A r \in Row, n \in Nat \ {0} :
          /\ [r EXCEPT !.version = n] \in Row
          /\ [r EXCEPT !.version = n].version = n
          /\ [r EXCEPT !.version = n].fingerprint = r.fingerprint
    BY DEF Row
  <2>2. \A r \in Row :
          /\ [r EXCEPT !.sealed = sealed] \in Row
          /\ [r EXCEPT !.sealed = sealed].sealed = sealed
          /\ [r EXCEPT !.sealed = sealed].version = r.version
          /\ [r EXCEPT !.sealed = sealed].fingerprint = r.fingerprint
    BY DEF Row
  <2>3. row.version + 1 \in Nat \ {0}
    BY <1>1 DEF Row
  <2>4. PICK r \in Row : r = [row EXCEPT !.version = row.version + 1]
    BY <1>1, <2>1, <2>3
  <2>5. r.version = row.version + 1 /\ r.fingerprint = row.fingerprint
    BY <1>1, <2>1, <2>3, <2>4
  <2>6. row' = [r EXCEPT !.sealed = sealed]
    BY <1>2, <2>4
  <2> QED
    BY <2>2, <2>5, <2>6
<1>4. /\ pc' \in [Task -> Running \cup {"idle", "done", "failed"}] /\ pc'[p] = "done"
      /\ \A q \in Task \ {p} : pc'[q] = pc[q]
      /\ pc[p] \in Running
  BY DEF Goto, IInv, TypeOK, Holding, Running
<1>5. TypeOK'
  BY <1>3, <1>4 DEF IInv, TypeOK, Running
<1>6. Kinds'
  BY <1>4 DEF IInv, Kinds
<1>7. Fence'
  <2> SUFFICES ASSUME NEW q \in Task, pc'[q] \in Holding PROVE Fenced(q)'
    BY DEF Fence
  <2>1. Fenced(q) /\ seen[q].version <= row.version
    BY <1>1, <1>4 DEF IInv, Fence, Fenced, Holding
  <2>2. seen[q].version \in Nat /\ row.version \in Nat
    BY <2>1, <1>1 DEF Fenced, Row
  <2> QED
    BY <2>1, <2>2, <1>3 DEF Fenced
<1>8. Quiet'
  BY <1>4 DEF IInv, Quiet, Running
<1>9. Beginning'
  BY <1>3, RecoveryAssumption DEF Beginning
<1>10. OneIssuer' /\ CurrentKeyOpens'
  BY <1>1, <1>3 DEF IInv, OneIssuer, CurrentKeyOpens
<1> QED
  BY <1>1, <1>3, <1>5, <1>6, <1>7, <1>8, <1>9, <1>10 DEF IInv, Stand

LEMMA WriteStep ==
  ASSUME IInv, NEW p \in Task, Write(p) PROVE IInv' /\ Stand
<1> DEFINE sealed == [seen[p].sealed EXCEPT !.writes = @ \cup {p}]
<1>1. seen[p] = row /\ row \in Row /\ current \in Key /\ row.sealed.key = current
  BY DEF Write, Unmoved, IInv, TypeOK, Fence, Fenced, Holding, CurrentKeyOpens, Row, Sealed
<1>2. seen[p].sealed \in Sealed
  BY <1>1 DEF Row
<1>3. /\ sealed \in Sealed /\ sealed.issuer = seen[p].sealed.issuer
      /\ seen[p].sealed.writes \subseteq sealed.writes /\ sealed.key = current
  BY <1>1, <1>2 DEF Sealed
<1>4. Update(sealed) /\ UNCHANGED <<pinned, current, drawn, backups, task, seen>>
  BY DEF Write
<1> HIDE DEF sealed
<1> QED
  BY <1>1, <1>3, <1>4, UpdateStep DEF Write, Holding

LEMMA RotateStep ==
  ASSUME IInv, NEW p \in Task, Rotate(p) PROVE IInv' /\ Stand
<1> DEFINE sealed == [seen[p].sealed EXCEPT !.key = task[p].new]
<1>1. seen[p] \in Row
  BY DEF Rotate, IInv, Fence, Fenced, Holding
<1>2. task[p] \in Job /\ task[p].kind = "rotate"
  BY DEF Rotate, IInv, TypeOK, Kinds
<1>3. task[p].new \in Key
  BY <1>2 DEF Job
<1>4. seen[p].sealed \in Sealed
  BY <1>1 DEF Row
<1>5. /\ sealed \in Sealed /\ sealed.issuer = seen[p].sealed.issuer
      /\ seen[p].sealed.writes \subseteq sealed.writes /\ sealed.key = task[p].new
  BY <1>3, <1>4 DEF Sealed
<1>6. /\ Update(sealed) /\ current' = task[p].new
      /\ UNCHANGED <<pinned, drawn, backups, task, seen>>
  BY DEF Rotate
<1> HIDE DEF sealed
<1> QED
  BY <1>3, <1>5, <1>6, UpdateStep DEF Rotate, Holding

(* An insert into the empty table, by a task while no row is held.         *)
LEMMA InsertStep ==
  ASSUME IInv, NEW p \in Task, row = None, NEW new \in Row, row' = new,
         current' = new.sealed.key, new.sealed.issuer = new.fingerprint,
         pinned \in {None, new.fingerprint},
         \A q \in Task : pc[q] \notin Holding,
         pc[p] \in Running,
         NEW s \in {"inserted", "done"}, Goto(p, s),
         s = "inserted" => task[p].kind = "bootstrap",
         drawn' \subseteq Issuer,
         UNCHANGED <<pinned, backups, task, seen>>
  PROVE  IInv' /\ Stand
<1>1. /\ pc' \in [Task -> Running \cup {"idle", "done", "failed"}] /\ pc'[p] = s
      /\ \A q \in Task \ {p} : pc'[q] = pc[q]
  BY DEF Goto, IInv, TypeOK, Running
<1>2. new # None /\ new.sealed.key \in Key
  BY RecoveryAssumption DEF Row, Sealed
<1>3. TypeOK'
  BY <1>1, <1>2 DEF IInv, TypeOK, Running
<1>4. Kinds'
  BY <1>1 DEF IInv, Kinds
<1>5. Fence' /\ Beginning'
  BY <1>1, <1>2 DEF Fence, Beginning, Holding
<1>6. Quiet'
  BY <1>1 DEF IInv, Quiet, Running
<1>7. OneIssuer' /\ CurrentKeyOpens'
  BY DEF OneIssuer, CurrentKeyOpens
<1> QED
  BY <1>3, <1>4, <1>5, <1>6, <1>7 DEF IInv, Stand

(* The same with a row in the table, which stays.                          *)
LEMMA IgnoredStep ==
  ASSUME IInv, NEW p \in Task, row # None, pc[p] \in Running,
         NEW s \in {"inserted", "failed"}, Goto(p, s),
         s = "inserted" => task[p].kind = "bootstrap",
         drawn' \subseteq Issuer,
         UNCHANGED <<row, current, pinned, backups, task, seen>>
  PROVE  IInv' /\ Stand
<1>1. /\ pc' \in [Task -> Running \cup {"idle", "done", "failed"}] /\ pc'[p] = s
      /\ \A q \in Task \ {p} : pc'[q] = pc[q]
  BY DEF Goto, IInv, TypeOK, Running
<1>2. TypeOK'
  BY <1>1 DEF IInv, TypeOK, Running
<1>3. Kinds' /\ Fence' /\ Beginning'
  BY <1>1 DEF IInv, Kinds, Fence, Fenced, Holding, Beginning
<1>4. Quiet'
  BY <1>1 DEF IInv, Quiet, Running
<1>5. OneIssuer' /\ CurrentKeyOpens'
  BY DEF IInv, OneIssuer, CurrentKeyOpens
<1> QED
  BY <1>2, <1>3, <1>4, <1>5 DEF IInv, Stand

LEMMA CreateStep ==
  ASSUME IInv, NEW p \in Task, Create(p) PROVE IInv' /\ Stand
<1>1. PICK i \in Issuer \ drawn :
        /\ Insert(NewIssuer(i, task[p].key), task[p].key)
        /\ drawn' = drawn \cup {i}
  BY DEF Create
<1>2. /\ pc[p] = "queued" /\ task[p].kind = "bootstrap" /\ task[p].create
      /\ Goto(p, "inserted")
      /\ UNCHANGED <<pinned, backups, task, seen>>
  BY DEF Create
<1>3. pc[p] \in Running /\ drawn' \subseteq Issuer /\ task[p] \in Job
  BY <1>1, <1>2 DEF IInv, TypeOK, Running
<1>4. CASE row = None
  <2> DEFINE new == NewIssuer(i, task[p].key)
  <2>1. task[p].key \in Key
    BY <1>3 DEF Job
  <2>2. /\ new \in Row /\ new.sealed.key = task[p].key
        /\ new.sealed.issuer = new.fingerprint
    BY <2>1 DEF NewIssuer, Row, Sealed
  <2>3. pinned = None /\ \A q \in Task : pc[q] \notin Holding
    BY <1>2, <1>3, <1>4 DEF IInv, Beginning, Creating
  <2>4. row' = new /\ current' = new.sealed.key
    BY <1>1, <1>4, <2>2 DEF Insert
  <2> HIDE DEF new
  <2> QED
    BY <1>2, <1>3, <1>4, <2>2, <2>3, <2>4, InsertStep
<1>5. CASE row # None
  BY <1>1, <1>2, <1>3, <1>5, IgnoredStep DEF Insert
<1> QED
  BY <1>4, <1>5

LEMMA RestoreStep ==
  ASSUME IInv, NEW p \in Task, Restore(p) PROVE IInv' /\ Stand
<1> DEFINE from == task[p].from
           new  == [version |-> 1, fingerprint |-> from.fingerprint, sealed |-> from.sealed]
<1>1. /\ pc[p] = "queued" /\ task[p].kind = "restore"
      /\ from.sealed.key = task[p].key
      /\ from.sealed.issuer = from.fingerprint
      /\ Insert(new, task[p].key)
      /\ Goto(p, IF row = None THEN "done" ELSE "failed")
      /\ UNCHANGED <<pinned, drawn, backups, task, seen>>
  BY DEF Restore
<1>2. pc[p] \in Running /\ drawn' \subseteq Issuer /\ task[p] \in Job
  BY <1>1 DEF IInv, TypeOK, Running
<1>3. from \in Snapshot
  BY <1>1, <1>2 DEF Job
<1>4. /\ from.fingerprint = pinned
      /\ \A q \in Task : pc[q] \notin Holding
  BY <1>1, <1>2 DEF IInv, Quiet, Holding, Running
<1>5. CASE row = None
  <2>1. /\ new \in Row /\ new.sealed.key = task[p].key
        /\ new.sealed.issuer = new.fingerprint /\ new.fingerprint = pinned
    BY <1>1, <1>3, <1>4 DEF Snapshot, Row
  <2>2. row' = new /\ current' = new.sealed.key
    BY <1>1, <1>5, <2>1 DEF Insert
  <2> HIDE DEF new, from
  <2> QED
    BY <1>1, <1>2, <1>4, <1>5, <2>1, <2>2, InsertStep
<1>6. CASE row # None
  BY <1>1, <1>2, <1>6, IgnoredStep DEF Insert
<1> QED
  BY <1>5, <1>6

LEMMA LoseStep == ASSUME IInv, LoseDatabase PROVE IInv' /\ Stand
<1>1. /\ pinned # None /\ row' = None
      /\ \A p \in Task : ~ Creating(p)
      /\ UNCHANGED <<pinned, current, drawn, backups, pc, task, seen>>
  BY DEF LoseDatabase, Busy, Creating
<1> USE <1>1
<1>2. TypeOK' /\ Kinds' /\ Fence' /\ Quiet'
  BY DEF IInv, TypeOK, Kinds, Fence, Fenced, Quiet
<1>3. Beginning'
  BY DEF Beginning, Creating
<1>4. OneIssuer' /\ CurrentKeyOpens'
  BY DEF OneIssuer, CurrentKeyOpens
<1> QED
  BY <1>2, <1>3, <1>4 DEF IInv, Stand

-----------------------------------------------------------------------------
LEMMA NextIInv == IInv /\ [Next]_vars => IInv' /\ Stand
<1> SUFFICES ASSUME IInv, [Next]_vars PROVE IInv' /\ Stand
  OBVIOUS
<1>1. ASSUME NEW p \in Task, Start(p) PROVE IInv' /\ Stand
  BY <1>1, StartStep
<1>2. ASSUME NEW p \in Task, Retry(p) PROVE IInv' /\ Stand
  BY <1>2, MoveStep DEF Retry, tables, Running, IInv, TypeOK
<1>3. ASSUME NEW p \in Task, Fail(p) PROVE IInv' /\ Stand
  BY <1>3, MoveStep DEF Fail, tables, IInv, TypeOK
<1>4. ASSUME NEW p \in Task, Step(p) PROVE IInv' /\ Stand
  BY <1>2, <1>3, <1>4, ReadStep, WriteStep, SaveStep, RotateStep, CreateStep, AdmitStep,
     RestoreStep DEF Step
<1>5. CASE UNCHANGED vars
  <2> USE <1>5 DEF vars, tables
  <2>1. TypeOK' /\ Kinds' /\ Fence' /\ Quiet'
    BY DEF IInv, TypeOK, Kinds, Fence, Fenced, Quiet
  <2>2. Beginning' /\ OneIssuer' /\ CurrentKeyOpens'
    BY DEF IInv, Beginning, Creating, OneIssuer, CurrentKeyOpens
  <2> QED
    BY <2>1, <2>2 DEF IInv, Stand
<1> QED
  BY <1>1, <1>4, <1>5, LoseStep DEF Next

LEMMA Inductive == Spec => []IInv
BY InitIInv, NextIInv, PTL DEF Spec

(* The row keeps the pinned identity through bootstraps, rotations, losses *)
(* and restores of any number of tasks.                                    *)
THEOREM IssuerKept == Spec => []OneIssuer
<1>1. IInv => OneIssuer
  BY DEF IInv
<1> QED
  BY <1>1, Inductive, PTL

(* No task that was started with an older key seals the row again.         *)
THEOREM KeyKept == Spec => []CurrentKeyOpens
<1>1. IInv => CurrentKeyOpens
  BY DEF IInv
<1> QED
  BY <1>1, Inductive, PTL

(* What was written stays written while the row exists.                    *)
THEOREM WritesKept == Spec => WritesStand
<1>1. IInv /\ [Next]_vars
        => [row # None /\ row' # None => row.sealed.writes \subseteq row'.sealed.writes]_vars
  BY NextIInv DEF Stand
<1> QED
  BY <1>1, Inductive, PTL DEF Spec, WritesStand

-----------------------------------------------------------------------------
(* The shared budget of requests                                           *)

(* How late an admission may come after its window's end, and how far the  *)
(* ends of two windows are apart.                                          *)
Late == IF store = "sqlite" THEN MaxWait ELSE 0
Apart == IF store = "sqlite" THEN Window ELSE Window - MaxWait - 1

(* Each admission is charged to the window that had room for it, named by  *)
(* its end, as the nth of that window.  An admission at the turn of a      *)
(* window is charged to the one before.                                    *)
Charge == [window : Nat, nth : 1 .. Limit]

Charged(ch) ==
  /\ ch \in Seq(Charge) /\ Len(ch) = Len(admitted)
  /\ \A i, j \in 1 .. Len(ch) : ch[i] = ch[j] => i = j
  /\ \A i \in 1 .. Len(ch) :
       /\ ch[i].window <= budget.until
       /\ ch[i].window = budget.until => ch[i].nth <= budget.count
       /\ ch[i].window < budget.until =>
            ch[i].window <= now /\ ch[i].window + Apart <= budget.until
       /\ admitted[i] < ch[i].window + Late
  /\ \A i, j \in 1 .. Len(ch) : ch[i].window < ch[j].window =>
       ch[i].window <= admitted[j] /\ ch[i].window + Apart <= ch[j].window

(* The admissions that the count stands for, one soon after the other.     *)
Chained ==
  /\ budget.count <= Len(admitted)
  /\ budget.count = 0 => budget.until = 0
  /\ budget.count > 0 => budget.until <= admitted[Len(admitted)] + Window
  /\ \A i \in Len(admitted) - budget.count + 1 .. Len(admitted) - 1 :
       admitted[i + 1] - admitted[i] < Reach

BudgetInv == LimitsTypeOK /\ Chained /\ \E ch : Charged(ch)

(* What the types say of the numbers.                                      *)
Sized ==
  /\ now \in Nat /\ now <= MaxTime /\ MaxTime \in Nat
  /\ budget.until \in Nat /\ budget.count \in Nat /\ budget.count <= Limit
  /\ Len(admitted) \in Nat
  /\ \A i \in 1 .. Len(admitted) : admitted[i] \in Nat /\ admitted[i] <= now
  /\ Window \in Nat /\ Limit \in Nat /\ MaxWait \in Nat /\ Limit > 0
  /\ MaxWait + 1 < Window /\ 2 * MaxWait < Window
  /\ Late \in Nat /\ Apart \in Nat /\ Reach = Window + Late

LEMMA Numbers ==
  ASSUME LimitsTypeOK
  PROVE  Sized
<1>1. /\ now \in Nat /\ now <= MaxTime /\ MaxTime \in Nat /\ budget.until \in Nat
      /\ budget.count \in 0 .. Limit /\ admitted \in Seq(0 .. now)
  BY LimitsAssumption DEF LimitsTypeOK
<1>2. /\ Window \in Nat /\ Limit \in Nat /\ MaxWait \in Nat
      /\ MaxWait + 1 < Window /\ 2 * MaxWait < Window /\ Limit > 0
  BY LimitsAssumption
<1>3. Len(admitted) \in Nat /\ \A i \in 1 .. Len(admitted) : admitted[i] \in 0 .. now
  BY <1>1
<1>4. Late \in Nat /\ Apart \in Nat /\ Reach = Window + Late
  BY <1>2 DEF Late, Apart, Reach
<1>5. budget.count \in Nat /\ budget.count <= Limit
  BY <1>1, <1>2
<1>6. \A i \in 1 .. Len(admitted) : admitted[i] \in Nat /\ admitted[i] <= now
  BY <1>1, <1>3
<1>. QED BY <1>1, <1>2, <1>3, <1>4, <1>5, <1>6 DEF Sized

-----------------------------------------------------------------------------
(* One admission, in a statement that began at b.                          *)

Admits(b, t) ==
  /\ b \in Nat /\ b <= now /\ now <= b + MaxWait
  /\ t[1] \in Nat /\ t[2] \in Nat /\ t[3] \in Nat /\ t[1] <= t[2] /\ t[2] <= t[3]
  /\ store = "sqlite" => t[1] = b /\ t[3] = b
  /\ store # "sqlite" => t[1] = now /\ t[3] <= now + 1
  /\ now' \in Nat /\ now <= now' /\ t[3] <= now' /\ now' <= MaxTime
  /\ store' = store /\ attempts' = attempts
  /\ budget.until <= t[1] \/ budget.count < Limit
  /\ budget'.count = IF budget.until <= t[2] THEN 1 ELSE budget.count + 1
  /\ budget'.until = IF budget.until <= t[3] THEN b + Window ELSE budget.until

LEMMA Admission ==
  ASSUME LimitsTypeOK, NEW r \in Request, NEW t \in Readings(r), Take(r, t)
  PROVE  Admits(waiting[r].began, t)
<1>1. Sized
  BY Numbers
<1>2. /\ waiting[r].phase = "taking" /\ now - waiting[r].began <= MaxWait
      /\ Over(t[1]) \/ HasRoom
      /\ budget' = Taken(r, t) /\ now' = (IF t[3] > now THEN t[3] ELSE now)
      /\ UNCHANGED <<store, attempts>>
  BY DEF Take, Taking
<1>3. waiting[r].began \in Nat /\ waiting[r].began <= now /\ now <= waiting[r].began + MaxWait
  <2>1. waiting[r] \in
          [phase : {"counted", "taking", "admitted"}, server : Server, began : 0 .. now]
    BY <1>2 DEF LimitsTypeOK
  <2>2. waiting[r].began \in 0 .. now
    BY <2>1
  <2>. QED BY <1>1, <1>2, <2>2 DEF Sized
<1>4. /\ t[1] \in Nat /\ t[2] \in Nat /\ t[3] \in Nat /\ t[1] <= t[2] /\ t[2] <= t[3]
      /\ store = "sqlite" => t[1] = waiting[r].began /\ t[3] = waiting[r].began
      /\ store # "sqlite" => t[1] = now /\ t[3] <= now + 1
      /\ t[3] <= MaxTime
  <2>1. CASE store = "sqlite"
    <3>1. t = [n \in 1 .. 3 |-> waiting[r].began]
      BY <2>1 DEF Readings
    <3>2. /\ t[1] = waiting[r].began /\ t[2] = waiting[r].began /\ t[3] = waiting[r].began
      BY <3>1
    <3>. QED BY <1>1, <1>3, <2>1, <3>2 DEF Sized
  <2>2. CASE store # "sqlite"
    <3>1. t \in [1 .. 3 -> now .. now + 1] /\ t[1] = now /\ t[2] <= t[3] /\ t[3] <= MaxTime
      BY <2>2 DEF Readings
    <3>2. t[2] \in now .. now + 1 /\ t[3] \in now .. now + 1
      BY <3>1
    <3>. QED BY <1>1, <2>2, <3>1, <3>2 DEF Sized
  <2>. QED BY <2>1, <2>2
<1>5. /\ budget'.count = IF budget.until <= t[2] THEN 1 ELSE budget.count + 1
      /\ budget'.until = IF budget.until <= t[3] THEN waiting[r].began + Window
                         ELSE budget.until
  BY <1>2 DEF Taken, Over
<1>6. now' \in Nat /\ now <= now' /\ t[3] <= now' /\ now' <= MaxTime
  BY <1>1, <1>2, <1>4 DEF Sized
<1>7. budget.until <= t[1] \/ budget.count < Limit
  BY <1>2 DEF Over, HasRoom
<1>. QED BY <1>2, <1>3, <1>4, <1>5, <1>6, <1>7 DEF Admits

(* What it makes of the window: a new one, one more in the same, or, when  *)
(* the second turns between two readings, one more in the old one while a  *)
(* new one begins.                                                         *)
Fresh ==
  /\ budget.until <= now /\ budget'.count = 1
  /\ budget.until < budget'.until /\ budget.until + Apart <= budget'.until
  /\ budget'.until <= now + Window /\ now < budget'.until + Late
Within ==
  /\ budget'.until = budget.until /\ budget'.count = budget.count + 1
  /\ budget.count < Limit /\ now < budget.until + Late /\ 0 < budget.until
Turning ==
  /\ now < budget.until /\ budget.until <= now' /\ budget.count < Limit
  /\ budget'.count \in {1, budget.count + 1}
  /\ budget.until < budget'.until /\ budget.until + Apart <= budget'.until
  /\ budget'.until <= now + Window

LEMMA Outcomes ==
  ASSUME LimitsTypeOK, NEW r \in Request, NEW t \in Readings(r), Take(r, t)
  PROVE  /\ budget'.until \in Nat /\ budget'.count \in 1 .. Limit
         /\ now' \in Nat /\ now <= now' /\ now' <= MaxTime
         /\ store' = store /\ attempts' = attempts
         /\ Fresh \/ Within \/ Turning
<1>. DEFINE b == waiting[r].began
<1>0. Sized /\ Admits(b, t)
  BY Numbers, Admission
<1>1. /\ budget.until \in Nat /\ budget.count \in Nat /\ budget.count <= Limit
      /\ now \in Nat /\ Limit \in Nat /\ 0 < Limit
  BY <1>0 DEF Sized
<1>2. /\ Window \in Nat /\ MaxWait \in Nat /\ MaxWait + 1 < Window
  BY <1>0 DEF Sized
<1>3. /\ b \in Nat /\ b <= now /\ now <= b + MaxWait
      /\ t[1] \in Nat /\ t[2] \in Nat /\ t[3] \in Nat /\ t[1] <= t[2] /\ t[2] <= t[3]
  BY <1>0 DEF Admits
<1>4. /\ store = "sqlite" => t[1] = b /\ t[3] = b
      /\ store # "sqlite" => t[1] = now /\ t[3] <= now + 1
  BY <1>0 DEF Admits
<1>5. budget.until <= t[1] \/ budget.count < Limit
  BY <1>0 DEF Admits
<1>6. /\ budget.until <= t[2] => budget'.count = 1
      /\ ~ (budget.until <= t[2]) => budget'.count = budget.count + 1
  BY <1>0 DEF Admits
<1>7. /\ budget.until <= t[3] => budget'.until = b + Window
      /\ ~ (budget.until <= t[3]) => budget'.until = budget.until
  BY <1>0 DEF Admits
<1>8. now' \in Nat /\ now <= now' /\ t[3] <= now' /\ now' <= MaxTime
  BY <1>0 DEF Admits
<1>9. /\ store = "sqlite" => Late = MaxWait /\ Apart = Window
      /\ store # "sqlite" => Late = 0 /\ Apart = Window - MaxWait - 1
  BY DEF Late, Apart
<1>. HIDE DEF b
<1>10. budget'.until \in Nat
  BY <1>1, <1>2, <1>3, <1>7
<1>11. budget'.count \in 1 .. Limit
  BY <1>1, <1>3, <1>5, <1>6
<1>12. ASSUME budget.until <= t[1] PROVE Fresh
  <2>1. budget'.until = b + Window /\ budget'.count = 1
    BY <1>1, <1>3, <1>6, <1>7, <1>12
  <2>2. CASE store = "sqlite"
    <3>1. budget.until <= b /\ Late = MaxWait /\ Apart = Window
      BY <1>4, <1>9, <1>12, <2>2
    <3>2. budget.until <= now
      BY <1>1, <1>3, <3>1
    <3>3. /\ budget.until < b + Window /\ budget.until + Apart <= b + Window
          /\ b + Window <= now + Window /\ now < b + Window + Late
      BY <1>1, <1>2, <1>3, <3>1
    <3>. QED BY <2>1, <3>2, <3>3 DEF Fresh
  <2>3. CASE store # "sqlite"
    <3>1. budget.until <= now /\ Late = 0 /\ Apart = Window - MaxWait - 1
      BY <1>4, <1>9, <1>12, <2>3
    <3>2. /\ budget.until < b + Window /\ budget.until + Apart <= b + Window
          /\ b + Window <= now + Window /\ now < b + Window + Late
      BY <1>1, <1>2, <1>3, <3>1
    <3>. QED BY <2>1, <3>1, <3>2 DEF Fresh
  <2>. QED BY <2>2, <2>3
<1>13. ASSUME ~ (budget.until <= t[3]) PROVE Within
  <2>1. budget'.until = budget.until /\ budget'.count = budget.count + 1 /\ budget.count < Limit
    BY <1>1, <1>3, <1>5, <1>6, <1>7, <1>13
  <2>2. CASE store = "sqlite"
    <3>1. ~ (budget.until <= b) /\ Late = MaxWait
      BY <1>4, <1>9, <1>13, <2>2
    <3>2. now < budget.until + Late /\ 0 < budget.until
      BY <1>1, <1>2, <1>3, <3>1
    <3>. QED BY <2>1, <3>2 DEF Within
  <2>3. CASE store # "sqlite"
    <3>1. t[1] = now /\ Late = 0
      BY <1>4, <1>9, <2>3
    <3>2. now < budget.until + Late /\ 0 < budget.until
      BY <1>1, <1>3, <1>13, <3>1
    <3>. QED BY <2>1, <3>2 DEF Within
  <2>. QED BY <2>2, <2>3
<1>14. ASSUME ~ (budget.until <= t[1]), budget.until <= t[3] PROVE Turning
  <2>1. budget'.until = b + Window /\ budget.count < Limit /\ store # "sqlite"
    BY <1>1, <1>3, <1>4, <1>5, <1>7, <1>14
  <2>2. budget'.count \in {1, budget.count + 1}
    BY <1>6
  <2>3. budget.until = now + 1 /\ Late = 0 /\ Apart = Window - MaxWait - 1
    BY <1>1, <1>3, <1>4, <1>9, <1>14, <2>1
  <2>4. budget.until <= now'
    BY <1>1, <1>3, <1>8, <1>14
  <2>5. /\ budget.until < b + Window /\ budget.until + Apart <= b + Window
        /\ b + Window <= now + Window /\ now < budget.until
    BY <1>1, <1>2, <1>3, <2>3
  <2>. QED BY <2>1, <2>2, <2>4, <2>5 DEF Turning
<1>15. Fresh \/ Within \/ Turning
  BY <1>12, <1>13, <1>14
<1>16. store' = store /\ attempts' = attempts
  BY <1>0 DEF Admits
<1>. QED BY <1>8, <1>10, <1>11, <1>15, <1>16

LEMMA Wider ==
  ASSUME NEW m \in Nat, NEW n \in Nat, m <= n, NEW w \in Nat
  PROVE  0 .. m + w \subseteq 0 .. n + w
  OBVIOUS

LEMMA SeqWidens ==
  ASSUME NEW S, NEW T, NEW s \in Seq(S), S \subseteq T
  PROVE  s \in Seq(T)
  OBVIOUS

(* The entry of the budget after it.                                       *)
LEMMA AdmissionBudget ==
  ASSUME LimitsTypeOK, NEW r \in Request, NEW t \in Readings(r), Take(r, t)
  PROVE  /\ budget' \in [count : 0 .. Limit, until : 0 .. now' + Window]
         /\ admitted' \in Seq(0 .. now')
<1>1. /\ budget'.until \in Nat /\ budget'.count \in 1 .. Limit
      /\ now' \in Nat /\ now <= now'
      /\ Fresh \/ Within \/ Turning
  BY Outcomes
<1>2. now \in Nat /\ Window \in Nat /\ Limit \in Nat
  BY Numbers DEF Sized
<1>3. budget'.count \in 0 .. Limit
  BY <1>1, <1>2
<1>4. budget'.until \in 0 .. now' + Window
  <2>1. budget.until \in 0 .. now + Window
    BY DEF LimitsTypeOK
  <2>2. budget'.until <= now + Window
    BY <1>1, <1>2, <2>1 DEF Fresh, Within, Turning
  <2>. QED BY <1>1, <1>2, <2>2
<1>5. budget' = [count |-> budget'.count, until |-> budget'.until]
  BY DEF Take, Taken
<1>6. admitted' \in Seq(0 .. now')
  <2>1. 0 .. now \subseteq 0 .. now' /\ now \in 0 .. now'
    BY <1>1, <1>2
  <2>2. admitted \in Seq(0 .. now)
    BY DEF LimitsTypeOK
  <2>3. admitted \in Seq(0 .. now')
    BY <2>1, <2>2, SeqWidens
  <2>. QED BY <2>1, <2>3 DEF Take
<1>. QED BY <1>3, <1>4, <1>5, <1>6

LEMMA AdmissionChained ==
  ASSUME LimitsTypeOK, Chained, NEW r \in Request, NEW t \in Readings(r), Take(r, t)
  PROVE  Chained'
<1>1. /\ now \in Nat /\ Window \in Nat /\ Limit \in Nat /\ Len(admitted) \in Nat
      /\ budget.count \in Nat /\ budget.until \in Nat
      /\ \A i \in 1 .. Len(admitted) : admitted[i] \in Nat /\ admitted[i] <= now
  BY Numbers DEF Sized
<1>2. Late \in Nat /\ Reach = Window + Late /\ Reach \in Nat
  BY <1>1, Numbers DEF Sized
<1>3. /\ budget'.until \in Nat /\ budget'.count \in 1 .. Limit
      /\ store' = store
      /\ Fresh \/ Within \/ Turning
  BY Outcomes
<1>4. /\ Len(admitted') = Len(admitted) + 1 /\ admitted'[Len(admitted) + 1] = now
      /\ \A i \in 1 .. Len(admitted) : admitted'[i] = admitted[i]
  <2>1. admitted' = Append(admitted, now) /\ admitted \in Seq(0 .. now)
    BY DEF Take, LimitsTypeOK
  <2>. QED BY <2>1
<1>5. Reach' = Reach
  BY <1>3 DEF Reach
<1>6. ASSUME 0 < budget.until
      PROVE  /\ 0 < budget.count /\ budget.count <= Len(admitted)
             /\ budget.until <= admitted[Len(admitted)] + Window
             /\ Len(admitted) \in 1 .. Len(admitted)
  <2>1. 0 < budget.count /\ budget.count <= Len(admitted)
    BY <1>1, <1>6 DEF Chained
  <2>2. budget.until <= admitted[Len(admitted)] + Window
    BY <2>1 DEF Chained
  <2>. QED BY <1>1, <2>1, <2>2
<1>7. budget'.until <= now + Window
  <2>1. CASE Within
    <3>1. budget.until <= admitted[Len(admitted)] + Window /\ admitted[Len(admitted)] <= now
          /\ admitted[Len(admitted)] \in Nat
      BY <1>1, <1>6, <2>1 DEF Within
    <3>2. budget'.until = budget.until
      BY <2>1 DEF Within
    <3>. QED BY <1>1, <3>1, <3>2
  <2>. QED BY <1>3, <2>1 DEF Fresh, Turning
<1>8. CASE budget'.count = 1
  <2>1. \A i \in Len(admitted') - budget'.count + 1 .. Len(admitted') - 1 : FALSE
    BY <1>1, <1>4, <1>8
  <2>2. budget'.count <= Len(admitted')
    BY <1>1, <1>4, <1>8
  <2>. QED BY <1>4, <1>7, <1>8, <2>1, <2>2 DEF Chained
<1>9. CASE budget'.count # 1
  <2>1. budget'.count = budget.count + 1 /\ 0 < budget.until /\ now < budget.until + Late
    BY <1>1, <1>2, <1>3, <1>9 DEF Fresh, Within, Turning
  <2>2. /\ 0 < budget.count /\ budget.count <= Len(admitted)
        /\ budget.until <= admitted[Len(admitted)] + Window
        /\ Len(admitted) \in 1 .. Len(admitted)
    BY <1>6, <2>1
  <2>3. now - admitted[Len(admitted)] < Reach
    <3>1. admitted[Len(admitted)] \in Nat
      BY <1>1, <2>2
    <3>. QED BY <1>1, <1>2, <2>1, <2>2, <3>1
  <2>4. ASSUME NEW i \in Len(admitted') - budget'.count + 1 .. Len(admitted') - 1
        PROVE  admitted'[i + 1] - admitted'[i] < Reach
    <3>1. i \in Len(admitted) - budget.count + 1 .. Len(admitted)
      BY <1>1, <1>4, <2>1, <2>2
    <3>2. CASE i = Len(admitted)
      BY <1>1, <1>4, <2>2, <2>3, <3>2
    <3>3. CASE i # Len(admitted)
      <4>1. /\ i \in Len(admitted) - budget.count + 1 .. Len(admitted) - 1
            /\ i \in 1 .. Len(admitted) /\ i + 1 \in 1 .. Len(admitted)
        BY <1>1, <2>2, <3>1, <3>3
      <4>2. admitted[i + 1] - admitted[i] < Reach
        BY <4>1 DEF Chained
      <4>. QED BY <1>4, <4>1, <4>2
    <3>. QED BY <3>2, <3>3
  <2>5. budget'.count <= Len(admitted') /\ budget'.count # 0
    BY <1>1, <1>4, <2>1, <2>2
  <2>6. budget'.until <= admitted'[Len(admitted')] + Window
    BY <1>4, <1>7
  <2>. QED BY <1>5, <2>4, <2>5, <2>6 DEF Chained
<1>. QED BY <1>8, <1>9

LEMMA AdmissionCharged ==
  ASSUME LimitsTypeOK, NEW ch, Charged(ch),
         NEW r \in Request, NEW t \in Readings(r), Take(r, t)
  PROVE  \E new : Charged(new)'
<1>1. /\ now \in Nat /\ Limit \in Nat /\ 0 < Limit /\ Len(admitted) \in Nat
      /\ budget.count \in Nat /\ budget.until \in Nat
      /\ Late \in Nat /\ Apart \in Nat
  BY Numbers DEF Sized
<1>2. /\ budget'.until \in Nat /\ budget'.count \in 1 .. Limit
      /\ now' \in Nat /\ now <= now'
      /\ store' = store
      /\ Fresh \/ Within \/ Turning
  BY Outcomes
<1>3. /\ Len(admitted') = Len(admitted) + 1 /\ admitted'[Len(admitted) + 1] = now
      /\ \A i \in 1 .. Len(admitted) : admitted'[i] = admitted[i]
  <2>1. admitted' = Append(admitted, now) /\ admitted \in Seq(0 .. now)
    BY DEF Take, LimitsTypeOK
  <2>. QED BY <2>1
<1>4. Late' = Late /\ Apart' = Apart
  BY <1>2 DEF Late, Apart
<1>5. /\ ch \in Seq(Charge) /\ Len(ch) = Len(admitted) /\ Len(ch) \in Nat
      /\ \A i \in 1 .. Len(ch) :
           ch[i] \in Charge /\ ch[i].window \in Nat /\ ch[i].nth \in Nat
  <2>1. ch \in Seq(Charge) /\ Len(ch) = Len(admitted)
    BY DEF Charged
  <2>2. \A i \in 1 .. Len(ch) : ch[i] \in Charge
    BY <2>1
  <2>3. \A x \in Charge : x.window \in Nat /\ x.nth \in Nat
    BY <1>1 DEF Charge
  <2>. QED BY <1>1, <2>1, <2>2, <2>3
(* The window that had room for it is new, or the one before.              *)
<1>6. PICK c \in Charge :
        /\ Fresh => c.window = budget'.until /\ c.nth = 1
        /\ Within \/ Turning => c.window = budget.until /\ c.nth = budget.count + 1
  <2>1. CASE Fresh
    <3>1. ~ Within /\ ~ Turning
      <4>1. budget.until <= now /\ budget.until < budget'.until
        BY <2>1 DEF Fresh
      <4>. QED BY <1>1, <1>2, <4>1 DEF Within, Turning
    <3>2. [window |-> budget'.until, nth |-> 1] \in Charge
      BY <1>1, <1>2 DEF Charge
    <3>. QED BY <3>1, <3>2
  <2>2. CASE Within \/ Turning
    <3>1. ~ Fresh
      <4>1. now < budget.until \/ budget'.until = budget.until
        BY <2>2 DEF Within, Turning
      <4>. QED BY <1>1, <1>2, <4>1 DEF Fresh
    <3>2. budget.count + 1 \in 1 .. Limit
      BY <1>1, <2>2 DEF Within, Turning
    <3>3. [window |-> budget.until, nth |-> budget.count + 1] \in Charge
      BY <1>1, <3>2 DEF Charge
    <3>. QED BY <3>1, <3>3
  <2>. QED BY <1>2, <2>1, <2>2
<1>7. c.window \in Nat /\ c.nth \in Nat
  BY <1>1 DEF Charge
(* The new charge itself.                                                  *)
<1>8. /\ c.window <= budget'.until
      /\ c.window = budget'.until => c.nth <= budget'.count
      /\ c.window < budget'.until => c.window <= now' /\ c.window + Apart <= budget'.until
      /\ now < c.window + Late
  <2>1. CASE Fresh
    BY <1>2, <1>6, <2>1 DEF Fresh
  <2>2. CASE Within
    <3>1. c.window = budget'.until /\ c.nth = budget'.count /\ now < c.window + Late
      BY <1>6, <2>2 DEF Within
    <3>. QED BY <1>7, <3>1
  <2>3. CASE Turning
    <3>1. /\ c.window = budget.until /\ budget.until <= now'
          /\ budget.until < budget'.until /\ budget.until + Apart <= budget'.until
      BY <1>6, <2>3 DEF Turning
    <3>2. now < budget.until + Late
      <4>1. now < budget.until /\ now \in Nat /\ budget.until \in Nat /\ Late \in Nat
        BY <1>1, <2>3 DEF Turning
      <4>. QED BY <4>1
    <3>3. budget.until \in Nat /\ budget'.until \in Nat
      BY <1>1, <1>2
    <3>. QED BY <3>1, <3>2, <3>3
  <2>. QED BY <1>2, <2>1, <2>2, <2>3
(* The older ones.                                                         *)
<1>9. ASSUME NEW i \in 1 .. Len(ch)
      PROVE  /\ ch[i].window <= budget'.until
             /\ ch[i].window = budget'.until => ch[i].nth <= budget'.count
             /\ ch[i].window < budget'.until =>
                  ch[i].window <= now' /\ ch[i].window + Apart <= budget'.until
             /\ ch[i].window < c.window =>
                  ch[i].window <= now /\ ch[i].window + Apart <= c.window
             /\ ch[i] # c /\ ~ (c.window < ch[i].window)
  <2>. PICK w, n : w = ch[i].window /\ n = ch[i].nth
    OBVIOUS
  <2>1. /\ w <= budget.until
        /\ w = budget.until => n <= budget.count
        /\ w < budget.until => w <= now /\ w + Apart <= budget.until
        /\ w \in Nat /\ n \in Nat
    BY <1>5 DEF Charged
  <2>2. /\ now \in Nat /\ now' \in Nat /\ now <= now' /\ Apart \in Nat
        /\ budget.until \in Nat /\ budget'.until \in Nat /\ budget.count \in Nat
    BY <1>1, <1>2
  (* A window that was over, or is over after this, ends well before.      *)
  <2>3. ASSUME budget.until < budget'.until, budget.until + Apart <= budget'.until
        PROVE  w < budget'.until /\ w + Apart <= budget'.until
    <3>1. CASE w < budget.until
      <4>1. w + Apart <= budget.until /\ w + Apart \in Int /\ w \in Int
        BY <2>1, <2>2, <3>1
      <4>2. budget.until \in Int /\ budget'.until \in Int
        BY <2>2
      <4>. QED BY <2>3, <3>1, <4>1, <4>2
    <3>2. CASE w = budget.until
      BY <2>3, <3>2
    <3>. QED BY <2>1, <2>2, <3>1, <3>2
  <2>4. w <= now \/ w = budget.until
    BY <2>1, <2>2
  <2>5. CASE Fresh
    <3>1. /\ c.window = budget'.until /\ budget.until <= now
          /\ budget.until < budget'.until /\ budget.until + Apart <= budget'.until
      BY <1>6, <2>5 DEF Fresh
    <3>2. w < budget'.until /\ w + Apart <= budget'.until
      BY <2>3, <3>1
    <3>3. w <= now /\ w <= now'
      BY <2>1, <2>2, <2>4, <3>1
    <3>4. budget'.until \in Int /\ w \in Int
      BY <2>1, <2>2
    <3>5. ch[i] # c /\ ~ (c.window < ch[i].window)
      BY <3>1, <3>2, <3>4
    <3>. QED BY <3>1, <3>2, <3>3, <3>4, <3>5
  <2>6. CASE Within \/ Turning
    <3>1. c.window = budget.until /\ c.nth = budget.count + 1
      BY <1>6, <2>6
    <3>2. ch[i] # c
      BY <2>1, <2>2, <3>1
    <3>3. /\ ~ (c.window < w)
          /\ w < c.window => w <= now /\ w + Apart <= c.window
      BY <2>1, <2>2, <3>1
    <3>4. CASE Within
      <4>1. budget'.until = budget.until /\ budget'.count = budget.count + 1
        BY <3>4 DEF Within
      <4>2. w = budget.until => n <= budget.count + 1
        BY <2>1, <2>2
      <4>3. w < budget.until => w <= now'
        BY <2>1, <2>2
      <4>. QED BY <2>1, <3>2, <3>3, <4>1, <4>2, <4>3
    <3>5. CASE Turning
      <4>1. /\ budget.until <= now' /\ budget.until < budget'.until
            /\ budget.until + Apart <= budget'.until
        BY <3>5 DEF Turning
      <4>2. w < budget'.until /\ w + Apart <= budget'.until
        BY <2>3, <4>1
      <4>3. w <= now'
        BY <2>1, <2>2, <4>1
      <4>. QED BY <2>1, <2>2, <3>2, <3>3, <4>2, <4>3
    <3>. QED BY <2>6, <3>4, <3>5
  <2>. QED BY <1>2, <2>5, <2>6
<1>10. PICK new : new = Append(ch, c)
  OBVIOUS
<1>11. /\ new \in Seq(Charge) /\ Len(new) = Len(ch) + 1 /\ new[Len(ch) + 1] = c
       /\ \A i \in 1 .. Len(ch) : new[i] = ch[i]
       /\ Len(new) = Len(admitted')
  BY <1>3, <1>5, <1>6, <1>10
<1>12. \A i \in 1 .. Len(new) : i \in 1 .. Len(ch) \/ i = Len(ch) + 1
  BY <1>5, <1>11
<1>13. ASSUME NEW i \in 1 .. Len(new), NEW j \in 1 .. Len(new), new[i] = new[j]
       PROVE  i = j
  <2>1. CASE i \in 1 .. Len(ch) /\ j \in 1 .. Len(ch)
    BY <1>5, <1>11, <1>13, <2>1 DEF Charged
  <2>2. CASE i = Len(ch) + 1 \/ j = Len(ch) + 1
    BY <1>9, <1>11, <1>12, <1>13, <2>2
  <2>. QED BY <1>12, <2>1, <2>2
<1>14. ASSUME NEW i \in 1 .. Len(new)
       PROVE  /\ new[i].window <= budget'.until
              /\ new[i].window = budget'.until => new[i].nth <= budget'.count
              /\ new[i].window < budget'.until =>
                   new[i].window <= now' /\ new[i].window + Apart <= budget'.until
              /\ admitted'[i] < new[i].window + Late
  <2>1. CASE i \in 1 .. Len(ch)
    <3>1. admitted[i] < ch[i].window + Late
      BY <1>5, <2>1 DEF Charged
    <3>2. admitted'[i] = admitted[i] /\ new[i] = ch[i]
      BY <1>3, <1>5, <1>11, <2>1
    <3>. QED BY <1>9, <2>1, <3>1, <3>2
  <2>2. CASE i = Len(ch) + 1
    <3>1. admitted'[i] = now /\ new[i] = c
      BY <1>3, <1>5, <1>11, <2>2
    <3>. QED BY <1>8, <3>1
  <2>. QED BY <1>12, <2>1, <2>2
<1>15. ASSUME NEW i \in 1 .. Len(new), NEW j \in 1 .. Len(new),
              new[i].window < new[j].window
       PROVE  new[i].window <= admitted'[j] /\ new[i].window + Apart <= new[j].window
  <2>1. CASE i \in 1 .. Len(ch) /\ j \in 1 .. Len(ch)
    <3>1. new[i] = ch[i] /\ new[j] = ch[j] /\ admitted'[j] = admitted[j]
      BY <1>3, <1>5, <1>11, <2>1
    <3>. QED BY <1>15, <2>1, <3>1 DEF Charged
  <2>2. CASE i \in 1 .. Len(ch) /\ j = Len(ch) + 1
    <3>1. new[i] = ch[i] /\ new[j] = c /\ admitted'[j] = now
      BY <1>3, <1>5, <1>11, <2>2
    <3>. QED BY <1>9, <1>15, <2>2, <3>1
  <2>3. CASE i = Len(ch) + 1 /\ j \in 1 .. Len(ch)
    <3>1. new[i] = c /\ new[j] = ch[j]
      BY <1>11, <2>3
    <3>. QED BY <1>9, <1>15, <2>3, <3>1
  <2>4. CASE i = Len(ch) + 1 /\ j = Len(ch) + 1
    BY <1>7, <1>11, <1>15, <2>4
  <2>. QED BY <1>12, <2>1, <2>2, <2>3, <2>4
<1>16. Charged(new)'
  <2>1. Charge' = Charge
    BY DEF Charge
  <2>. QED BY <1>4, <1>11, <1>13, <1>14, <1>15, <2>1 DEF Charged
<1>. QED BY <1>16

-----------------------------------------------------------------------------
(* Every other step leaves the budget as it is.                            *)

Steady == UNCHANGED <<store, budget, admitted>> /\ now' \in Nat /\ now <= now'

LEMMA SteadySteps ==
  ASSUME LimitsTypeOK, Limits
  PROVE  Steady \/ \E r \in Request : \E t \in Readings(r) : Take(r, t)
<1>. now \in Nat
  BY Numbers DEF Sized
<1>1. CASE Tick
  BY <1>1 DEF Tick, Steady
<1>2. CASE \E r \in Request, s \in Server : Arrive(r, s) \/ ReadState(r, s)
  BY <1>2 DEF Arrive, ReadState, Steady
<1>3. CASE \E r \in Request : BeginTake(r) \/ Refuse(r) \/ Finish(r)
  BY <1>3 DEF BeginTake, Refuse, Finish, Steady
<1>4. CASE \E s \in Server : Restart(s)
  BY <1>4 DEF Restart, Steady
<1>. QED BY <1>1, <1>2, <1>3, <1>4 DEF Limits

LEMMA SteadyChained ==
  ASSUME Chained, Steady
  PROVE  Chained'
  BY DEF Chained, Steady, Reach

LEMMA SteadyCharged ==
  ASSUME LimitsTypeOK, NEW ch, Charged(ch), Steady
  PROVE  Charged(ch)'
<1>1. Late' = Late /\ Apart' = Apart /\ Charge' = Charge
  BY DEF Late, Apart, Charge, Steady
<1>2. now \in Nat /\ now' \in Nat /\ now <= now' /\ budget' = budget /\ admitted' = admitted
  BY Numbers DEF Steady, Sized
<1>3. ASSUME NEW i \in 1 .. Len(ch), ch[i].window < budget.until
      PROVE  ch[i].window <= now' /\ ch[i].window + Apart <= budget.until
  <2>1. ch[i].window <= now /\ ch[i].window + Apart <= budget.until
    BY <1>3 DEF Charged
  <2>2. ch[i].window \in Nat
    <3>1. ch[i] \in Charge
      BY DEF Charged
    <3>. QED BY <3>1 DEF Charge
  <2>. QED BY <1>2, <2>1, <2>2
<1>. QED BY <1>1, <1>2, <1>3 DEF Charged

(* A request at rest, and one on its way.                                  *)
AtRest == [phase : {"idle", "refused"}, server : {Nobody}, began : {0}]
OnItsWay == [phase : {"counted", "taking", "admitted"}, server : Server, began : 0 .. now]

LEMMA NextTypes ==
  ASSUME LimitsTypeOK, Limits
  PROVE  LimitsTypeOK'
<1>0. now \in Nat /\ now' \in Nat /\ now <= now' /\ Window \in Nat
  BY Numbers, SteadySteps, Outcomes DEF Steady, Sized
<1>1. /\ 0 .. now \subseteq 0 .. now'
      /\ 0 .. now + Window \subseteq 0 .. now' + Window
  <2>1. 0 .. now \subseteq 0 .. now'
    BY <1>0
  <2>. QED BY <1>0, <2>1, Wider
<1>2. store' \in Store
  BY SteadySteps, Outcomes DEF LimitsTypeOK, Steady
<1>3. /\ budget' \in [count : 0 .. Limit, until : 0 .. now' + Window]
      /\ admitted' \in Seq(0 .. now')
  <2>1. CASE Steady
    <3>1. budget' \in [count : 0 .. Limit, until : 0 .. now' + Window]
      BY <1>1, <2>1 DEF LimitsTypeOK, Steady
    <3>2. admitted' \in Seq(0 .. now)
      BY <2>1 DEF LimitsTypeOK, Steady
    <3>. QED BY <1>1, <3>1, <3>2, SeqWidens
  <2>. QED BY <2>1, SteadySteps, AdmissionBudget
<1>5. now' \in 0 .. MaxTime
  <2>1. CASE Tick
    BY <1>0, <2>1, LimitsAssumption DEF Tick, LimitsTypeOK
  <2>2. ASSUME NEW r \in Request, NEW t \in Readings(r), Take(r, t) PROVE now' \in 0 .. MaxTime
    <3>1. now' \in Nat /\ now' <= MaxTime /\ MaxTime \in Nat
      BY <2>2, Outcomes, Numbers DEF Sized
    <3>. QED BY <3>1
  <2>3. CASE now' = now
    BY <2>3 DEF LimitsTypeOK
  <2>. QED
    BY <2>1, <2>2, <2>3
    DEF Limits, Arrive, ReadState, BeginTake, Refuse, Finish, Restart
<1>6. attempts' \in [Server -> [count : 0 .. AttemptLimit + 1, until : 0 .. now' + Window]]
  <2>1. attempts \in [Server -> [count : 0 .. AttemptLimit + 1, until : 0 .. now' + Window]]
    BY <1>1 DEF LimitsTypeOK
  <2>2. ASSUME NEW s \in Server
        PROVE  Counted(s) \in [count : 0 .. AttemptLimit + 1, until : 0 .. now' + Window]
    <3>1. AttemptLimit \in Nat
      BY LimitsAssumption
    <3>2. PICK a \in [count : 0 .. AttemptLimit + 1, until : 0 .. now' + Window] :
            a = attempts[s]
      BY <2>1
    <3>3. CASE a.until < now
      <4>1. now + Window \in 0 .. now + Window /\ 1 \in 0 .. AttemptLimit + 1
        BY <1>0, <3>1
      <4>. QED BY <1>1, <3>2, <3>3, <4>1 DEF Counted
    <3>4. CASE ~ (a.until < now)
      <4>1. Counted(s) = [a EXCEPT !.count = IF @ > AttemptLimit THEN @ ELSE @ + 1]
        BY <3>2, <3>4 DEF Counted
      <4>2. (IF a.count > AttemptLimit THEN a.count ELSE a.count + 1) \in 0 .. AttemptLimit + 1
        BY <3>1
      <4>. QED BY <4>1, <4>2
    <3>. QED BY <3>3, <3>4
  <2>3. Spent \in [count : 0 .. AttemptLimit + 1, until : 0 .. now' + Window]
    <3>1. AttemptLimit \in Nat
      BY LimitsAssumption
    <3>2. 0 \in 0 .. AttemptLimit + 1 /\ 0 \in 0 .. now + Window
      BY <1>0, <3>1
    <3>. QED BY <1>1, <3>2 DEF Spent
  <2>4. ASSUME NEW r \in Request, NEW s \in Server, Arrive(r, s)
        PROVE  attempts' = [attempts EXCEPT ![s] = Counted(s)]
    BY <2>4 DEF Arrive
  <2>5. ASSUME NEW s \in Server, Restart(s)
        PROVE  attempts' = [attempts EXCEPT ![s] = Spent]
    BY <2>5 DEF Restart
  <2>6. CASE attempts' = attempts
    BY <2>1, <2>6
  <2>7. CASE \E s \in Server : attempts' = [attempts EXCEPT ![s] = Counted(s)]
    BY <2>1, <2>2, <2>7
  <2>8. CASE \E s \in Server : attempts' = [attempts EXCEPT ![s] = Spent]
    BY <2>1, <2>3, <2>8
  <2>. QED
    BY <2>4, <2>5, <2>6, <2>7, <2>8
    DEF Limits, Tick, ReadState, BeginTake, Refuse, Finish, Take
<1>7. waiting' \in [Request -> AtRest \cup OnItsWay']
  <2>1. waiting \in [Request -> AtRest \cup OnItsWay']
    BY <1>1 DEF LimitsTypeOK, AtRest, OnItsWay
  <2>2. 0 \in 0 .. now' /\ now \in 0 .. now'
    BY <1>0
  <2>3. Idle \in AtRest /\ [Idle EXCEPT !.phase = "refused"] \in AtRest
    BY DEF Idle, AtRest
  <2>4. \A s \in Server : [phase |-> "counted", server |-> s, began |-> 0] \in OnItsWay'
    BY <2>2 DEF OnItsWay
  <2>5. ASSUME NEW r \in Request, waiting[r].phase \in {"counted", "taking"}
        PROVE  /\ [waiting[r] EXCEPT !.phase = "taking", !.began = now] \in OnItsWay'
               /\ [waiting[r] EXCEPT !.phase = "admitted", !.began = 0] \in OnItsWay'
    <3>1. waiting[r] \in OnItsWay'
      BY <2>1, <2>5 DEF AtRest
    <3>. QED BY <2>2, <3>1 DEF OnItsWay
  <2>6. CASE waiting' = waiting
    BY <2>1, <2>6
  <2>7. ASSUME NEW r \in Request, NEW x \in AtRest \cup OnItsWay',
               waiting' = [waiting EXCEPT ![r] = x]
        PROVE  waiting' \in [Request -> AtRest \cup OnItsWay']
    BY <2>1, <2>7
  <2>8. ASSUME NEW s \in Server, Restart(s)
        PROVE  waiting' \in [Request -> AtRest \cup OnItsWay']
    BY <2>1, <2>3, <2>8 DEF Restart
  <2>9. ASSUME NEW r \in Request, NEW s \in Server, Arrive(r, s) \/ ReadState(r, s)
        PROVE  waiting' \in [Request -> AtRest \cup OnItsWay']
    BY <2>3, <2>4, <2>7, <2>9 DEF Arrive, ReadState
  <2>10. ASSUME NEW r \in Request, BeginTake(r)
         PROVE  waiting' \in [Request -> AtRest \cup OnItsWay']
    <3>1. PICK x : x = [waiting[r] EXCEPT !.phase = "taking", !.began = now]
      OBVIOUS
    <3>2. waiting' = [waiting EXCEPT ![r] = x]
      BY <2>10, <3>1 DEF BeginTake
    <3>3. x \in OnItsWay'
      BY <2>5, <2>10, <3>1 DEF BeginTake
    <3>. QED BY <2>7, <3>2, <3>3
  <2>11. ASSUME NEW r \in Request, NEW t \in Readings(r), Take(r, t)
         PROVE  waiting' \in [Request -> AtRest \cup OnItsWay']
    <3>1. PICK x : x = [waiting[r] EXCEPT !.phase = "admitted", !.began = 0]
      OBVIOUS
    <3>2. waiting' = [waiting EXCEPT ![r] = x]
      BY <2>11, <3>1 DEF Take
    <3>3. x \in OnItsWay'
      BY <2>5, <2>11, <3>1 DEF Take, Taking
    <3>. QED BY <2>7, <3>2, <3>3
  <2>12. ASSUME NEW r \in Request, Refuse(r) \/ Finish(r)
         PROVE  waiting' \in [Request -> AtRest \cup OnItsWay']
    BY <2>3, <2>7, <2>12 DEF Refuse, Finish
  <2>. QED BY <2>6, <2>8, <2>9, <2>10, <2>11, <2>12 DEF Limits, Tick
<1>. QED BY <1>2, <1>3, <1>5, <1>6, <1>7 DEF LimitsTypeOK, AtRest, OnItsWay

-----------------------------------------------------------------------------
LEMMA LimitBegins ==
  ASSUME LimitInit
  PROVE  BudgetInv
<1>1. Limit \in Nat /\ Window \in Nat /\ AttemptLimit \in Nat /\ MaxTime \in Nat
  BY LimitsAssumption
<1>2. LimitsTypeOK
  <2>1. 0 \in 0 .. Limit /\ 0 \in 0 .. AttemptLimit + 1 /\ 0 \in 0 .. MaxTime
    BY <1>1
  <2>2. now = 0 /\ now \in 0 .. MaxTime /\ 0 \in 0 .. now + Window
    BY <1>1, <2>1 DEF LimitInit
  <2>3. Spent \in [count : 0 .. AttemptLimit + 1, until : 0 .. now + Window]
    BY <2>1, <2>2 DEF Spent
  <2>4. Spent \in [count : 0 .. Limit, until : 0 .. now + Window]
    BY <2>1, <2>2 DEF Spent
  <2>5. Idle \in [phase : {"idle", "refused"}, server : {Nobody}, began : {0}]
    BY DEF Idle
  <2>6. store \in Store /\ admitted \in Seq(0 .. now)
    BY DEF LimitInit
  <2>. QED BY <2>2, <2>3, <2>4, <2>5, <2>6 DEF LimitInit, LimitsTypeOK
<1>3. Chained
  BY DEF LimitInit, Chained, Spent
<1>4. Charged(<<>>)
  BY DEF LimitInit, Charged
<1>. QED BY <1>2, <1>3, <1>4 DEF BudgetInv

LEMMA LimitSteps ==
  ASSUME BudgetInv, [Limits]_limitVars
  PROVE  BudgetInv'
<1>. PICK ch : Charged(ch)
  BY DEF BudgetInv
<1>1. LimitsTypeOK /\ Chained
  BY DEF BudgetInv
<1>2. CASE Limits
  <2>1. CASE Steady
    BY <1>1, <1>2, <2>1, NextTypes, SteadyChained, SteadyCharged DEF BudgetInv
  <2>2. ASSUME NEW r \in Request, NEW t \in Readings(r), Take(r, t) PROVE BudgetInv'
    BY <1>1, <1>2, <2>2, NextTypes, AdmissionChained, AdmissionCharged DEF BudgetInv
  <2>. QED BY <1>1, <1>2, <2>1, <2>2, SteadySteps
<1>3. CASE UNCHANGED limitVars
  <2>1. LimitsTypeOK'
    BY <1>1, <1>3 DEF LimitsTypeOK, limitVars
  <2>2. Steady
    BY <1>1, <1>3, Numbers DEF Steady, limitVars, Sized
  <2>. QED BY <1>1, <2>1, <2>2, SteadyChained, SteadyCharged DEF BudgetInv
<1>. QED BY <1>2, <1>3

(* Every admission is charged to a place of its own in a window, and those *)
(* the count stands for come soon one after the other.                     *)
THEOREM BudgetInvariant == LimitSpec => []BudgetInv
<1>. QED BY LimitBegins, LimitSteps, PTL DEF LimitSpec


(* A refusal is due: a whole limit of admissions, each within a window's   *)
(* reach of the one before, ends less than that ago (the WHERE of the      *)
(* UPDATE in postgres.ts and request-store.ts, on either clock).           *)
THEOREM RefusalsDue == LimitSpec => []RefusalIsDue
<1>1. ASSUME BudgetInv, NEW r \in Request, Taking(r), Full(r)
      PROVE  /\ Len(admitted) >= Limit
             /\ now - admitted[Len(admitted)] < Reach
             /\ \A i \in Len(admitted) - Limit + 1 .. Len(admitted) - 1 :
                  admitted[i + 1] - admitted[i] < Reach
  <2>1. LimitsTypeOK /\ Chained
    BY <1>1 DEF BudgetInv
  <2>2. /\ now \in Nat /\ Limit \in Nat /\ 0 < Limit /\ Window \in Nat
        /\ Len(admitted) \in Nat /\ budget.until \in Nat
        /\ budget.count \in Nat /\ budget.count <= Limit
        /\ Late \in Nat /\ Reach = Window + Late
    BY <2>1, Numbers DEF Sized
  <2>3. PICK t \in Readings(r) : ~ (budget.until <= t[1]) /\ ~ (budget.count < Limit)
    BY <1>1 DEF Full, Over, HasRoom
  <2>4. budget.count = Limit
    BY <2>2, <2>3
  <2>5. Limit <= Len(admitted) /\ budget.until <= admitted[Len(admitted)] + Window
    BY <2>1, <2>2, <2>4 DEF Chained
  <2>6. admitted[Len(admitted)] \in Nat
    <3>1. Len(admitted) \in 1 .. Len(admitted)
      BY <2>2, <2>5
    <3>. QED BY <2>1, <3>1, Numbers DEF Sized
  <2>7. now < budget.until + Late
    <3>1. CASE store = "sqlite"
      <4>1. t[1] = waiting[r].began
        BY <2>3, <3>1 DEF Readings
      <4>2. waiting[r].began \in 0 .. now
        BY <1>1, <2>1 DEF Taking, LimitsTypeOK
      <4>3. now - waiting[r].began <= MaxWait /\ Late = MaxWait /\ MaxWait \in Nat
        BY <1>1, <3>1, LimitsAssumption DEF Taking, Late
      <4>. QED BY <2>2, <2>3, <4>1, <4>2, <4>3
    <3>2. CASE store # "sqlite"
      <4>1. t[1] = now
        BY <3>2 DEF Readings
      <4>. QED BY <2>2, <2>3, <4>1
    <3>. QED BY <3>1, <3>2
  <2>8. now - admitted[Len(admitted)] < Reach
    BY <2>2, <2>5, <2>6, <2>7
  <2>9. \A i \in Len(admitted) - Limit + 1 .. Len(admitted) - 1 :
          admitted[i + 1] - admitted[i] < Reach
    BY <2>1, <2>4 DEF Chained
  <2>. QED BY <2>2, <2>5, <2>8, <2>9
<1>2. BudgetInv => RefusalIsDue
  BY <1>1 DEF RefusalIsDue
<1>. QED BY <1>2, BudgetInvariant, PTL

-----------------------------------------------------------------------------
(* How many windows there is room for in one                               *)

(* Windows charged for admissions in so much time: one may end later, the  *)
(* others end there, and well apart.                                       *)
Spaced(S, first, width, late, apart) ==
  /\ first \in Nat /\ width \in Nat /\ late \in Nat /\ apart \in Nat /\ 0 < apart
  /\ S \subseteq Nat
  /\ \A x \in S : first < x + late
  /\ \A x, y \in S : x < y => x <= first + width - 1 /\ x + apart <= y

LEMMA AtMostThree ==
  ASSUME NEW S, NEW first, NEW width, NEW late, NEW apart,
         Spaced(S, first, width, late, apart), width <= 2 * apart - late + 1
  PROVE  \E a, b, c \in Nat : S \subseteq {a, b, c}
<1>. USE DEF Spaced
<1>1. ASSUME NEW p \in S, NEW q \in S, NEW r \in S, NEW s \in S, p < q, q < r, r < s
      PROVE  FALSE
  <2>1. p \in Nat /\ q \in Nat /\ r \in Nat /\ s \in Nat
    OBVIOUS
  <2>2. first < p + late /\ p + apart <= q /\ q + apart <= r /\ r <= first + width - 1
    BY <1>1
  <2>. QED BY <2>1, <2>2
<1>2. ASSUME NEW p \in S, NEW q \in S, NEW r \in S, NEW s \in S,
             p # q, p # r, p # s, q # r, q # s, r # s
      PROVE  FALSE
  <2>1. p \in Nat /\ q \in Nat /\ r \in Nat /\ s \in Nat
    OBVIOUS
  <2>2. ASSUME NEW u \in S, NEW v \in S, NEW w \in S, u < v, v < w
        PROVE  \A x \in S : x \in {u, v, w}
    <3>1. ASSUME NEW x \in S, x \notin {u, v, w} PROVE FALSE
      <4>1. u \in Nat /\ v \in Nat /\ w \in Nat /\ x \in Nat
        OBVIOUS
      <4>2. x < u \/ (u < x /\ x < v) \/ (v < x /\ x < w) \/ w < x
        BY <2>2, <3>1, <4>1
      <4>. QED BY <1>1, <2>2, <4>2
    <3>. QED BY <3>1
  <2>3. \/ p < q /\ q < r
        \/ p < r /\ r < q
        \/ q < p /\ p < r
        \/ q < r /\ r < p
        \/ r < p /\ p < q
        \/ r < q /\ q < p
    BY <1>2, <2>1
  <2>. QED BY <1>2, <2>2, <2>3
<1>3. CASE S = {}
  BY <1>3
<1>4. ASSUME NEW a \in S, ~ \E b, c \in S : S \subseteq {a, b, c}
      PROVE  FALSE
  <2>1. PICK b \in S : b # a
    BY <1>4
  <2>2. PICK c \in S : c \notin {a, b}
    BY <1>4
  <2>3. PICK d \in S : d \notin {a, b, c}
    BY <1>4
  <2>. QED BY <1>2, <2>1, <2>2, <2>3
<1>5. CASE S # {}
  <2>1. PICK a \in S : TRUE
    BY <1>5
  <2>2. PICK b, c \in S : S \subseteq {a, b, c}
    BY <1>4
  <2>3. a \in Nat /\ b \in Nat /\ c \in Nat
    OBVIOUS
  <2>. QED BY <2>2, <2>3
<1>. QED BY <1>3, <1>5

LEMMA AtMostTwo ==
  ASSUME NEW S, NEW first, NEW width, NEW apart,
         Spaced(S, first, width, 0, apart), width <= apart + 1
  PROVE  \E a, b \in Nat : S \subseteq {a, b}
<1>. USE DEF Spaced
<1>1. ASSUME NEW p \in S, NEW q \in S, NEW r \in S, p < q, q < r
      PROVE  FALSE
  <2>1. p \in Nat /\ q \in Nat /\ r \in Nat
    OBVIOUS
  <2>2. first < p /\ p + apart <= q /\ q <= first + width - 1
    BY <1>1
  <2>. QED BY <2>1, <2>2
<1>2. ASSUME NEW p \in S, NEW q \in S, NEW r \in S, p # q, p # r, q # r
      PROVE  FALSE
  <2>1. p \in Nat /\ q \in Nat /\ r \in Nat
    OBVIOUS
  <2>3. \/ p < q /\ q < r
        \/ p < r /\ r < q
        \/ q < p /\ p < r
        \/ q < r /\ r < p
        \/ r < p /\ p < q
        \/ r < q /\ q < p
    BY <1>2, <2>1
  <2>. QED BY <1>1, <2>3
<1>3. CASE S = {}
  BY <1>3
<1>4. ASSUME NEW a \in S, ~ \E b \in S : S \subseteq {a, b}
      PROVE  FALSE
  <2>1. PICK b \in S : b # a
    BY <1>4
  <2>2. PICK c \in S : c \notin {a, b}
    BY <1>4
  <2>. QED BY <1>2, <2>1, <2>2
<1>5. CASE S # {}
  <2>1. PICK a \in S : TRUE
    BY <1>5
  <2>2. PICK b \in S : S \subseteq {a, b}
    BY <1>4
  <2>3. a \in Nat /\ b \in Nat
    OBVIOUS
  <2>. QED BY <2>2, <2>3
<1>. QED BY <1>3, <1>5

(* So many places have as many windows.                                    *)
LEMMA Places ==
  ASSUME NEW a, NEW b, NEW c, Limit \in Nat
  PROVE  /\ IsFiniteSet({a, b, c} \X (1 .. Limit))
         /\ Cardinality({a, b, c} \X (1 .. Limit)) <= 3 * Limit
         /\ IsFiniteSet({a, b} \X (1 .. Limit))
         /\ Cardinality({a, b} \X (1 .. Limit)) <= 2 * Limit
<1>1. IsFiniteSet(1 .. Limit) /\ Cardinality(1 .. Limit) = Limit
  BY FS_Interval
<1>2. IsFiniteSet({a}) /\ Cardinality({a}) = 1
  BY FS_Singleton
<1>3. {a, b} = {a} \cup {b} /\ {a, b, c} = {a, b} \cup {c}
  OBVIOUS
<1>4. IsFiniteSet({a, b}) /\ Cardinality({a, b}) \in {1, 2}
  BY <1>2, <1>3, FS_AddElement
<1>5. IsFiniteSet({a, b, c}) /\ Cardinality({a, b, c}) \in {1, 2, 3}
  BY <1>3, <1>4, FS_AddElement
<1>6. /\ IsFiniteSet({a, b, c} \X (1 .. Limit))
      /\ Cardinality({a, b, c} \X (1 .. Limit)) = Cardinality({a, b, c}) * Limit
  BY <1>1, <1>5, FS_Product
<1>7. /\ IsFiniteSet({a, b} \X (1 .. Limit))
      /\ Cardinality({a, b} \X (1 .. Limit)) = Cardinality({a, b}) * Limit
  BY <1>1, <1>4, FS_Product
<1>8. 1 * Limit <= 3 * Limit /\ 2 * Limit <= 3 * Limit /\ 1 * Limit <= 2 * Limit
  OBVIOUS
<1>. QED BY <1>4, <1>5, <1>6, <1>7, <1>8

LEMMA InPlaces ==
  ASSUME NEW I, IsFiniteSet(I), NEW P, IsFiniteSet(P), NEW f \in [I -> P],
         \A i, j \in I : f[i] = f[j] => i = j
  PROVE  Cardinality(I) <= Cardinality(P)
<1>1. Cardinality(I) \in Nat /\ Cardinality(P) \in Nat
  BY FS_CardinalityType
<1>2. ~ (Cardinality(P) < Cardinality(I))
  BY FS_PigeonHole
<1>. QED BY <1>1, <1>2

(* In one window's time all processes together admit no more than two      *)
(* windows have room for, or three where a statement may wait, for every   *)
(* number of processes and requests and through every restart.             *)
THEOREM WithinLimits == LimitSpec => []WithinBudget
<1>1. ASSUME BudgetInv, NEW first \in 0 .. MaxTime
      PROVE  AdmittedIn(first, first + Window - 1)
               <= (IF MaxWait = 0 THEN 2 ELSE 3) * Limit
  <2>1. PICK ch : Charged(ch)
    BY <1>1 DEF BudgetInv
  <2>2. /\ now \in Nat /\ Limit \in Nat /\ Window \in Nat /\ MaxWait \in Nat
        /\ MaxTime \in Nat /\ MaxWait + 1 < Window /\ 2 * MaxWait < Window
        /\ Len(admitted) \in Nat
    BY <1>1, Numbers DEF BudgetInv, Sized
  <2>3. /\ Late \in Nat /\ Apart \in Nat /\ 0 < Apart
        /\ Window <= 2 * Apart - Late + 1
        /\ MaxWait = 0 => Late = 0 /\ Window <= Apart + 1
    BY <2>2 DEF Late, Apart
  <2>4. \A i \in 1 .. Len(admitted) : admitted[i] \in Nat
    BY <1>1, Numbers DEF BudgetInv, Sized
  <2>5. /\ Len(ch) = Len(admitted)
        /\ \A i \in 1 .. Len(admitted) :
             /\ ch[i] \in Charge /\ ch[i].window \in Nat /\ ch[i].nth \in 1 .. Limit
             /\ ch[i] = [window |-> ch[i].window, nth |-> ch[i].nth]
             /\ admitted[i] < ch[i].window + Late
        /\ \A i, j \in 1 .. Len(admitted) : ch[i] = ch[j] => i = j
        /\ \A i, j \in 1 .. Len(admitted) : ch[i].window < ch[j].window =>
             ch[i].window <= admitted[j] /\ ch[i].window + Apart <= ch[j].window
    <3>1. ch \in Seq(Charge) /\ Len(ch) = Len(admitted)
      BY <2>1 DEF Charged
    <3>2. \A i \in 1 .. Len(admitted) : ch[i] \in Charge
      BY <3>1
    <3>3. \A x \in Charge : /\ x.window \in Nat /\ x.nth \in 1 .. Limit
                            /\ x = [window |-> x.window, nth |-> x.nth]
      BY DEF Charge
    <3>. QED BY <2>1, <3>1, <3>2, <3>3 DEF Charged
  <2>6. PICK I : I = {i \in 1 .. Len(admitted) : admitted[i] \in first .. first + Window - 1}
    OBVIOUS
  <2>7. /\ I \subseteq 1 .. Len(admitted)
        /\ \A i \in I : first <= admitted[i] /\ admitted[i] <= first + Window - 1
    BY <2>2, <2>6
  <2>8. IsFiniteSet(I)
    <3>1. IsFiniteSet(1 .. Len(admitted))
      BY <2>2, FS_Interval
    <3>. QED BY <2>7, <3>1, FS_Subset
  <2>9. PICK S : S = {ch[i].window : i \in I}
    OBVIOUS
  <2>10. first \in Nat /\ S \subseteq Nat /\ \A x \in S : first < x + Late
    <3>1. first \in Nat
      BY <2>2
    <3>2. ASSUME NEW i \in I
          PROVE  ch[i].window \in Nat /\ first < ch[i].window + Late
      <4>1. i \in 1 .. Len(admitted)
        BY <2>7
      <4>2. ch[i].window \in Nat /\ admitted[i] < ch[i].window + Late /\ admitted[i] \in Nat
        BY <2>4, <2>5, <4>1
      <4>3. first <= admitted[i]
        BY <2>7
      <4>. QED BY <2>3, <3>1, <4>2, <4>3
    <3>. QED BY <2>9, <3>1, <3>2
  <2>11. \A x, y \in S : x < y => x <= first + Window - 1 /\ x + Apart <= y
    <3>1. ASSUME NEW i \in I, NEW j \in I, ch[i].window < ch[j].window
          PROVE  ch[i].window <= first + Window - 1 /\ ch[i].window + Apart <= ch[j].window
      <4>1. i \in 1 .. Len(admitted) /\ j \in 1 .. Len(admitted)
        BY <2>7
      <4>2. ch[i].window <= admitted[j] /\ ch[i].window + Apart <= ch[j].window
        BY <2>5, <3>1, <4>1
      <4>3. admitted[j] <= first + Window - 1 /\ admitted[j] \in Nat /\ ch[i].window \in Nat
        BY <2>4, <2>5, <2>7, <4>1
      <4>. QED BY <2>2, <2>10, <4>2, <4>3
    <3>. QED BY <2>9, <3>1
  <2>12. Spaced(S, first, Window, Late, Apart)
    BY <2>2, <2>3, <2>10, <2>11 DEF Spaced
  <2>13. ASSUME NEW W, S \subseteq W, IsFiniteSet(W \X (1 .. Limit))
         PROVE  Cardinality(I) <= Cardinality(W \X (1 .. Limit))
    <3>1. PICK f : f = [i \in I |-> <<ch[i].window, ch[i].nth>>]
      OBVIOUS
    <3>2. f \in [I -> W \X (1 .. Limit)]
      BY <2>5, <2>7, <2>9, <2>13, <3>1
    <3>3. ASSUME NEW i \in I, NEW j \in I, f[i] = f[j]
          PROVE  i = j
      <4>1. ch[i].window = ch[j].window /\ ch[i].nth = ch[j].nth
        BY <3>1, <3>3
      <4>2. ch[i] = ch[j]
        BY <2>5, <2>7, <4>1
      <4>. QED BY <2>5, <2>7, <4>2
    <3>. QED BY <2>8, <2>13, <3>2, <3>3, InPlaces
  <2>14. Cardinality(I) \in Nat
    BY <2>8, FS_CardinalityType
  <2>15. CASE MaxWait = 0
    <3>1. PICK a, b \in Nat : S \subseteq {a, b}
      <4>1. Late = 0 /\ Window <= Apart + 1
        BY <2>3, <2>15
      <4>. QED BY <2>12, <4>1, AtMostTwo
    <3>2. /\ IsFiniteSet({a, b} \X (1 .. Limit))
          /\ Cardinality({a, b} \X (1 .. Limit)) <= 2 * Limit
      BY <2>2, Places
    <3>3. Cardinality(I) <= Cardinality({a, b} \X (1 .. Limit))
      BY <2>13, <3>1, <3>2
    <3>4. Cardinality({a, b} \X (1 .. Limit)) \in Nat /\ 2 * Limit \in Nat
      BY <2>2, <3>2, FS_CardinalityType
    <3>. QED BY <2>6, <2>14, <2>15, <3>2, <3>3, <3>4 DEF AdmittedIn
  <2>16. CASE MaxWait # 0
    <3>1. PICK a, b, c \in Nat : S \subseteq {a, b, c}
      <4>1. Window <= 2 * Apart - Late + 1
        BY <2>3
      <4>. QED BY <2>12, <4>1, AtMostThree
    <3>2. /\ IsFiniteSet({a, b, c} \X (1 .. Limit))
          /\ Cardinality({a, b, c} \X (1 .. Limit)) <= 3 * Limit
      BY <2>2, Places
    <3>3. Cardinality(I) <= Cardinality({a, b, c} \X (1 .. Limit))
      BY <2>13, <3>1, <3>2
    <3>4. Cardinality({a, b, c} \X (1 .. Limit)) \in Nat /\ 3 * Limit \in Nat
      BY <2>2, <3>2, FS_CardinalityType
    <3>. QED BY <2>6, <2>14, <2>16, <3>2, <3>3, <3>4 DEF AdmittedIn
  <2>. QED BY <2>15, <2>16
<1>2. BudgetInv => WithinBudget
  BY <1>1 DEF WithinBudget
<1>. QED BY <1>2, BudgetInvariant, PTL

=============================================================================

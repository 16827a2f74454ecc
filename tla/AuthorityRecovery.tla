--------------------------- MODULE AuthorityRecovery ---------------------------
(***************************************************************************)
(* The life of the hosted authority's row: bootstrap, the writes of the    *)
(* request handlers, the encrypted backup, the rotation of the storage     *)
(* key, the loss of the database and the restore of a backup into an empty *)
(* one (PostgresStorage in integrations/issuance/src/postgres.ts, run by   *)
(* scripts/render-preflight.ts and scripts/authority-recovery.ts).         *)
(*                                                                         *)
(* Each task reads the row, decrypts and encrypts over several awaits, and *)
(* writes once; it can die anywhere.  A server keeps the storage key it    *)
(* was started with, so a handler or a tool may come with an old one.      *)
(* What an operation does to the authority is IssuerService's business:    *)
(* here the authority is its signing identity and the writes it contains.  *)
(***************************************************************************)
EXTENDS Naturals, FiniteSets

CONSTANTS
  Task,    \* the handlers and tools that ever run
  Issuer,  \* the signing identities ever drawn
  Key,     \* the storage keys
  None

VARIABLES
  row,      \* veilpass_authority, or None while the table is empty
  pinned,   \* the fingerprint the deployment is configured with
  current,  \* history: the key of the last bootstrap, rotation or restore
  drawn,    \* history: the identities drawn so far
  backups,  \* the snapshot files
  pc, task, \* what each task is and how far it got
  seen      \* the row a task read

tables == <<row, pinned, current, drawn, backups>>
vars   == <<tables, pc, task, seen>>

(* An encrypted authority; only its key opens it.                          *)
Sealed   == [issuer : Issuer, key : Key, writes : SUBSET Task]
Row      == [version : Nat \ {0}, fingerprint : Issuer, sealed : Sealed]
Snapshot == [fingerprint : Issuer, sealed : Sealed]

ASSUME RecoveryAssumption == None \notin Task \cup Issuer \cup Key \cup Row

Job ==
  [kind : {"write", "backup"}, key : Key]
    \cup [kind : {"bootstrap"}, key : Key, create : BOOLEAN]
    \cup {j \in [kind : {"rotate"}, key : Key, new : Key] : j.key # j.new}
    \cup [kind : {"restore"}, key : Key, from : Snapshot]

Running == {"queued", "read", "saved", "reread", "inserted"}

TypeOK ==
  /\ row \in Row \cup {None}
  /\ pinned \in Issuer \cup {None}
  /\ current \in Key \cup {None}
  /\ drawn \subseteq Issuer
  /\ backups \subseteq Snapshot
  /\ pc \in [Task -> Running \cup {"idle", "done", "failed"}]
  /\ \A p \in Task : pc[p] # "idle" => task[p] \in Job
  /\ seen \in [Task -> Row \cup {None}]

Init ==
  /\ row = None
  /\ pinned = None
  /\ current = None
  /\ drawn = {}
  /\ backups = {}
  /\ pc   = [p \in Task |-> "idle"]
  /\ task = [p \in Task |-> None]
  /\ seen = [p \in Task |-> None]

Busy == {p \in Task : pc[p] \in Running}

Goto(p, s) == pc' = [pc EXCEPT ![p] = s]

-----------------------------------------------------------------------------
(* What is started.  Creation is allowed only until an identity is pinned; *)
(* a backup is restored only if it has the pinned identity, with every     *)
(* write stopped until the restore has ended (docs/OPERATIONS.md): the     *)
(* restored row counts versions from one again.                            *)

Restores ==
  {j \in [kind : {"restore"}, key : Key, from : backups] :
     j.from.fingerprint = pinned /\ Busy = {}}

Jobs ==
  [kind : {"write", "backup"}, key : Key]
    \cup [kind : {"bootstrap"}, key : Key, create : {FALSE, pinned = None}]
    \cup {j \in [kind : {"rotate"}, key : Key, new : Key] : j.key # j.new}
    \cup Restores

Start(p) ==
  /\ pc[p] = "idle"
  /\ \A q \in Busy : task[q].kind # "restore"
  /\ \E j \in Jobs : task' = [task EXCEPT ![p] = j]
  /\ Goto(p, "queued")
  /\ UNCHANGED <<tables, seen>>

(* SELECT, decrypt, compare the fingerprint.                               *)
Opens(r, k) == r # None /\ r.sealed.key = k /\ r.sealed.issuer = r.fingerprint

Read(p) ==
  /\ \/ /\ pc[p] = "queued" /\ task[p].kind \in {"write", "backup", "rotate"}
        /\ Goto(p, "read")
     \/ pc[p] = "saved" /\ Goto(p, "reread")
  /\ Opens(row, task[p].key)
  /\ seen' = [seen EXCEPT ![p] = row]
  /\ UNCHANGED <<tables, task>>

(* Mutant: the update does not compare versions.                           *)
Anyhow(p) == row # None

(* WHERE id = 1 AND version = ...                                          *)
Unmoved(p) == row # None /\ row.version = seen[p].version

Update(sealed) == row' = [row EXCEPT !.version = @ + 1, !.sealed = sealed]

(* withIssuer: the outcome, encrypted again under the handler's key.       *)
Write(p) ==
  /\ pc[p] = "read" /\ task[p].kind = "write"
  /\ Unmoved(p)
  /\ Update([seen[p].sealed EXCEPT !.writes = @ \cup {p}])
  /\ Goto(p, "done")
  /\ UNCHANGED <<pinned, current, drawn, backups, task, seen>>

(* The row moved on: withIssuer reads again.                               *)
Retry(p) ==
  /\ pc[p] = "read" /\ task[p].kind = "write"
  /\ ~ Unmoved(p)
  /\ Goto(p, "queued")
  /\ UNCHANGED <<tables, task, seen>>

(* A snapshot file; the rotation command saves one first.                  *)
Save(p) ==
  /\ pc[p] = "read" /\ task[p].kind \in {"backup", "rotate"}
  /\ backups' = backups \cup
       {[fingerprint |-> seen[p].fingerprint, sealed |-> seen[p].sealed]}
  /\ Goto(p, IF task[p].kind = "rotate" THEN "saved" ELSE "done")
  /\ UNCHANGED <<row, pinned, current, drawn, task, seen>>

Rotate(p) ==
  /\ pc[p] = "reread"
  /\ Unmoved(p)
  /\ row.fingerprint = seen[p].fingerprint
  /\ Update([seen[p].sealed EXCEPT !.key = task[p].new])
  /\ current' = task[p].new
  /\ Goto(p, "done")
  /\ UNCHANGED <<pinned, drawn, backups, task, seen>>

-----------------------------------------------------------------------------
(* Bootstrap and restore.                                                  *)

(* A fresh issuer, sealed under the server's key.                           *)
NewIssuer(i, k) ==
  [version |-> 1, fingerprint |-> i,
   sealed |-> [issuer |-> i, key |-> k, writes |-> {}]]

(* Mutant: ON CONFLICT DO UPDATE.                                          *)
Upsert(r, k) == row' = r /\ current' = k

(* INSERT ... ON CONFLICT DO NOTHING.                                      *)
Insert(r, k) ==
  IF row = None THEN row' = r /\ current' = k ELSE UNCHANGED <<row, current>>

Create(p) ==
  /\ pc[p] = "queued" /\ task[p].kind = "bootstrap"
  /\ task[p].create
  /\ \E i \in Issuer \ drawn :
       /\ Insert(NewIssuer(i, task[p].key), task[p].key)
       /\ drawn' = drawn \cup {i}
  /\ Goto(p, "inserted")
  /\ UNCHANGED <<pinned, backups, task, seen>>

(* The stored issuer opens; the deployment pins its fingerprint if it has  *)
(* none and refuses another.                                               *)
Admit(p) ==
  /\ \/ pc[p] = "inserted"
     \/ pc[p] = "queued" /\ task[p].kind = "bootstrap" /\ ~ task[p].create
  /\ Opens(row, task[p].key)
  /\ pinned \in {None, row.fingerprint}
  /\ pinned' = row.fingerprint
  /\ Goto(p, "done")
  /\ UNCHANGED <<row, current, drawn, backups, task, seen>>

Restore(p) ==
  /\ pc[p] = "queued" /\ task[p].kind = "restore"
  /\ LET from == task[p].from IN
     /\ from.sealed.key = task[p].key
     /\ from.sealed.issuer = from.fingerprint
     /\ Insert([version |-> 1, fingerprint |-> from.fingerprint,
                sealed |-> from.sealed], task[p].key)
  /\ Goto(p, IF row = None THEN "done" ELSE "failed")
  /\ UNCHANGED <<pinned, drawn, backups, task, seen>>

(* A wrong key, a mismatch, an update that hit no row, a timeout, a crash. *)
Fail(p) ==
  /\ pc[p] \in Running
  /\ Goto(p, "failed")
  /\ UNCHANGED <<tables, task, seen>>

(* The database is lost, once the deployment is in service.                *)
LoseDatabase ==
  /\ row # None /\ pinned # None
  /\ \A p \in Busy : task[p].kind = "bootstrap" => ~ task[p].create
  /\ row' = None
  /\ UNCHANGED <<pinned, current, drawn, backups, pc, task, seen>>

Step(p) ==
  \/ Read(p) \/ Write(p) \/ Retry(p) \/ Save(p) \/ Rotate(p)
  \/ Create(p) \/ Admit(p) \/ Restore(p) \/ Fail(p)

Next == LoseDatabase \/ \E p \in Task : Start(p) \/ Step(p)

Spec == Init /\ [][Next]_vars

-----------------------------------------------------------------------------
(* Properties.                                                             *)

(* A committed write stays: no concurrent write, rotation, bootstrap or    *)
(* restore, however late, undoes it while the row exists.                  *)
WritesStand ==
  [][row # None /\ row' # None => row.sealed.writes \subseteq row'.sealed.writes]_vars

(* The deployment keeps its signing identity: whatever is bootstrapped,    *)
(* rotated, lost or restored, a row that exists is of the pinned issuer.   *)
OneIssuer ==
  row # None =>
    /\ row.sealed.issuer = row.fingerprint
    /\ pinned \in {None, row.fingerprint}

(* The row opens with the key of the last rotation or restore: a handler   *)
(* that still has an older key never seals the authority under it again.   *)
CurrentKeyOpens == row # None => row.sealed.key = current
=============================================================================

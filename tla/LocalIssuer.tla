------------------------------ MODULE LocalIssuer ------------------------------
(***************************************************************************)
(* The issuer of a single machine: the SQLite row that request handlers    *)
(* share (integrations/issuance/src/service.ts) and the start of a server  *)
(* that pins its identity in a marker file                                 *)
(* (integrations/issuance/src/bootstrap.ts).                               *)
(*                                                                         *)
(* A process may die between any two steps.  A process that reads no row   *)
(* draws an identity of its own; only one of those may come to stand.      *)
(***************************************************************************)
EXTENDS Naturals, FiniteSets

CONSTANTS
  Process,   \* handlers and starts of a server
  Issuer,    \* the identities drawn
  Attempts,  \* rounds of the compare-and-swap
  Empty,     \* the content of a marker file just created
  None

ASSUME LocalAssumption ==
  /\ Attempts \in Nat \ {0}
  /\ {None, Empty} \cap Issuer = {} /\ None # Empty
  /\ None \notin [version : Nat \ {0}, issuer : Issuer, writes : SUBSET Process]

VARIABLES
  file,      \* issuer.sqlite exists
  row,       \* its row, or None
  marker,    \* identity.sha256: None, Empty or an identity
  procs,     \* what each process does, and its locals
  answered,  \* history: the requests answered from the present database
  lost       \* history: the database was lost

vars == <<file, row, marker, procs, answered, lost>>

Row    == [version : Nat \ {0}, issuer : Issuer, writes : SUBSET Process]
Locals == [kind : {"request", "start"}, create : BOOLEAN, marked : BOOLEAN,
           at : {"idle", "open", "read", "compute", "committed", "marking", "done", "failed", "changed"},
           seen : Row \cup {None}, issuer : Issuer \cup {None}, tries : 0..Attempts]

TypeOK ==
  /\ file \in BOOLEAN /\ lost \in BOOLEAN
  /\ row \in Row \cup {None}
  /\ row # None => file
  /\ marker \in Issuer \cup {None, Empty}
  /\ procs \in [Process -> Locals]
  /\ answered \subseteq Process

Init ==
  /\ file = FALSE /\ row = None /\ marker = None
  /\ procs = [p \in Process |->
       [kind |-> "request", create |-> FALSE, marked |-> FALSE, at |-> "idle",
        seen |-> None, issuer |-> None, tries |-> 0]]
  /\ answered = {} /\ lost = FALSE

Ended   == {"idle", "done", "failed", "changed"}
Drawn   == {procs[p].issuer : p \in Process}
Now(p, kind, at) == procs[p].kind = kind /\ procs[p].at = at
Become(p, locals) == procs' = [procs EXCEPT ![p] = locals]
Goto(p, at) == Become(p, [procs[p] EXCEPT !.at = at])

-----------------------------------------------------------------------------
(* withIssuer.                                                             *)

(* After a loss the hosted server must start before it serves.             *)
ServeRequest(p) ==
  /\ Now(p, "request", "idle")
  /\ ~ lost \/ \E q \in Process : Now(q, "start", "done")
  /\ Goto(p, "open")
  /\ UNCHANGED <<file, row, marker, answered, lost>>

(* The file is created unless it exists, the table likewise.               *)
OpenDatabase(p) ==
  /\ procs[p].at = "open"
  /\ file' = TRUE
  /\ Goto(p, "read")
  /\ UNCHANGED <<row, marker, answered, lost>>

Read(p) ==
  /\ procs[p].at = "read"
  /\ procs[p].tries < Attempts
  /\ \E i \in IF row = None THEN Issuer \ Drawn ELSE {row.issuer} :
       Become(p, [procs[p] EXCEPT !.at = "compute", !.seen = row, !.issuer = i, !.tries = @ + 1])
  /\ UNCHANGED <<file, row, marker, answered, lost>>

(* Mutant: INSERT OR REPLACE.                                              *)
Replaced(p) ==
  LET seen == procs[p].seen IN
  seen # None => row # None /\ row.version = seen.version

(* UPDATE ... WHERE version, or INSERT OR IGNORE: the row is written.       *)
Written(p) ==
  LET seen == procs[p].seen IN
  IF seen = None THEN row = None ELSE row # None /\ row.version = seen.version

Changed(p) ==
  LET seen == procs[p].seen IN
  [version |-> IF seen = None THEN 1 ELSE seen.version + 1,
   issuer  |-> procs[p].issuer,
   writes  |-> (IF seen = None THEN {} ELSE seen.writes) \cup {p}]

Commit(p) ==
  /\ procs[p].at = "compute" /\ Written(p)
  /\ row' = Changed(p)
  /\ Goto(p, "committed")
  /\ UNCHANGED <<file, marker, answered, lost>>

Conflict(p) ==
  /\ procs[p].at = "compute" /\ ~ Written(p)
  /\ Goto(p, IF procs[p].tries < Attempts THEN "read" ELSE "failed")
  /\ UNCHANGED <<file, row, marker, answered, lost>>

Answer(p) ==
  /\ Now(p, "request", "committed")
  /\ answered' = answered \cup {p}
  /\ Goto(p, "done")
  /\ UNCHANGED <<file, row, marker, lost>>

-----------------------------------------------------------------------------
(* bootstrapIssuer.                                                        *)

(* Mutant: a missing database is not looked at.                            *)
AnyStart(create) == marker # None \/ create

MayStart(create) ==
  /\ marker # None => file
  /\ marker # None \/ create

Start(p, create) ==
  /\ procs[p].at = "idle"
  /\ MayStart(create)
  /\ Become(p, [procs[p] EXCEPT !.kind = "start", !.create = create,
                                !.marked = marker # None, !.at = "open"])
  /\ UNCHANGED <<file, row, marker, answered, lost>>

(* Mutant: the marker is not compared with the database.                   *)
TrustingCompare(p) ==
  /\ Now(p, "start", "committed") /\ procs[p].marked
  /\ Goto(p, "done")
  /\ UNCHANGED <<file, row, marker, answered, lost>>

Compare(p) ==
  /\ Now(p, "start", "committed") /\ procs[p].marked
  /\ Goto(p, IF marker = procs[p].issuer THEN "done" ELSE "changed")
  /\ UNCHANGED <<file, row, marker, answered, lost>>

CreateMarker(p) ==
  /\ Now(p, "start", "committed") /\ ~ procs[p].marked
  /\ marker = None
  /\ marker' = Empty
  /\ Goto(p, "marking")
  /\ UNCHANGED <<file, row, answered, lost>>

FillMarker(p) ==
  /\ procs[p].at = "marking"
  /\ marker' = procs[p].issuer
  /\ Goto(p, "done")
  /\ UNCHANGED <<file, row, answered, lost>>

(* It throws or dies.                                                      *)
Fail(p) ==
  /\ procs[p].at \notin Ended
  /\ Goto(p, "failed")
  /\ UNCHANGED <<file, row, marker, answered, lost>>

(* While nothing runs the volume loses the database; the server is down.   *)
LoseDatabase ==
  /\ file /\ \A p \in Process : procs[p].at \in Ended
  /\ file' = FALSE /\ row' = None /\ answered' = {} /\ lost' = TRUE
  /\ procs' = [p \in Process |-> IF procs[p].at = "done"
                                 THEN [procs[p] EXCEPT !.at = "failed"] ELSE procs[p]]
  /\ UNCHANGED marker

Step(p) ==
  \/ ServeRequest(p) \/ OpenDatabase(p) \/ Read(p) \/ Commit(p) \/ Conflict(p) \/ Answer(p)
  \/ \E create \in BOOLEAN : Start(p, create)
  \/ Compare(p) \/ CreateMarker(p) \/ FillMarker(p) \/ Fail(p)

Next == LoseDatabase \/ \E p \in Process : Step(p)

Spec == Init /\ [][Next]_vars

-----------------------------------------------------------------------------
(* Properties.                                                             *)

(* However many processes find an empty database at once, what was         *)
(* answered is in the row that stands, under the identity it was given by. *)
AnswersStand ==
  \A p \in answered :
    row # None /\ p \in row.writes /\ row.issuer = procs[p].issuer

(* A server that has started serves the identity in the marker, which is   *)
(* the one the database has until it is lost.                              *)
StartedAsMarked ==
  \A p \in Process :
    Now(p, "start", "done") =>
      /\ marker = procs[p].issuer
      /\ ~ lost => row # None /\ row.issuer = marker

(* A server that starts where the marker has outlived the database does    *)
(* not bring up another identity.                                          *)
NoNewIdentity ==
  [][\A p \in Process :
       procs[p].kind = "start" /\ procs[p].at = "compute" /\ procs'[p].at = "committed"
         /\ procs[p].marked => row # None]_vars
=============================================================================

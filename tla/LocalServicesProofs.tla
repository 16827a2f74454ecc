------------------------- MODULE LocalServicesProofs -------------------------
(***************************************************************************)
(* The services of a single machine.  The local issuer, for any number of  *)
(* handlers, starts and identities: what was answered stands, under the    *)
(* identity it was given by.  The local verifier, for any number of        *)
(* verifiers, credentials and challenges and any clock: a request is       *)
(* accepted once, in time, and the table of requests stays within its      *)
(* limit.                                                                  *)
(***************************************************************************)
EXTENDS LocalIssuer, Sequences, FiniteSetTheorems, TLAPS

(* The constants and the state of the local verifier.                      *)
CONSTANTS Verifier, Policy, Nonce, Credential, Level, IssuedAt, ExpiresAt
VARIABLES requests, drawn, presentations, status, active, accepted

Checks == INSTANCE LocalVerifier

-----------------------------------------------------------------------------
(* The local issuer.                                                       *)

(* A start of a server that went well.                                     *)
Started(p) == procs[p].kind = "start" /\ procs[p].at = "done"

(* What a process wrote is in the row that stands, under its identity.     *)
Standing(p) == row # None /\ p \in row.writes /\ row.issuer = procs[p].issuer

(* A row that was read is the row that stands or an earlier version of it; *)
(* its version tells which.                                                *)
Reading(p) ==
  procs[p].at = "compute" /\ procs[p].seen # None =>
    /\ row # None /\ row.issuer = procs[p].issuer
    /\ procs[p].seen.version <= row.version
    /\ procs[p].seen.version = row.version => procs[p].seen = row

ProcInv(p) ==
  /\ procs[p].at \in {"compute", "committed", "marking"} => procs[p].issuer \in Issuer
  /\ Reading(p)
  /\ procs[p].at \in {"committed", "marking"} \/ p \in answered \/ Started(p) => Standing(p)
  /\ p \in answered => procs[p].at = "done"
  /\ procs[p].marked => marker # None
  /\ procs[p].at = "marking" => marker = Empty
  /\ Started(p) => marker = procs[p].issuer
  /\ procs[p].at \notin Ended => file \/ (procs[p].at = "open" /\ marker = None)

(* Only one start fills the marker, and a marker without a row can only be *)
(* one that outlived its database.                                         *)
MarkerInv ==
  /\ \A p, q \in Process : procs[p].at = "marking" /\ procs[q].at = "marking" => p = q
  /\ marker # None /\ file => row # None
  /\ marker # None => file \/ lost

LInv == TypeOK /\ (\A p \in Process : ProcInv(p)) /\ MarkerInv

LEMMA InitLInv == Init => LInv
<1> SUFFICES ASSUME Init PROVE LInv
  OBVIOUS
<1>1. TypeOK
  <2>1. 0 \in 0 .. Attempts
    BY LocalAssumption
  <2> QED
    BY <2>1 DEF Init, TypeOK, Locals
<1>2. \A p \in Process : ProcInv(p)
  BY DEF Init, ProcInv, Started, Reading, Ended
<1>3. MarkerInv
  BY DEF Init, MarkerInv
<1> QED
  BY <1>1, <1>2, <1>3 DEF LInv

(* Rows, and that one is never taken for none.                             *)
LEMMA RowFields ==
  ASSUME NEW r \in Row
  PROVE  r # None /\ r.version \in Nat \ {0} /\ r.issuer \in Issuer /\ r.writes \subseteq Process
BY LocalAssumption DEF Row

(* The process that moves, and the others.                                 *)
Moves(p) ==
  /\ procs' \in [Process -> Locals]
  /\ \A q \in Process \ {p} : procs'[q] = procs[q]

(* The file stays, or the process opens it.                                *)
Opens(p) == file' = file \/ (procs[p].at = "open" /\ file' = TRUE)

(* The locals other than where it is.                                      *)
Keeps(p) ==
  /\ procs'[p].kind = procs[p].kind /\ procs'[p].marked = procs[p].marked
  /\ procs'[p].seen = procs[p].seen /\ procs'[p].issuer = procs[p].issuer

LEMMA OneMoves ==
  ASSUME LInv, NEW p \in Process, NEW new \in Locals, Become(p, new)
  PROVE  Moves(p) /\ procs'[p] = new
BY DEF LInv, TypeOK, Become, Moves

LEMMA Moved ==
  ASSUME LInv, NEW p \in Process, NEW at, Goto(p, at),
         at \in {"open", "read", "committed", "marking", "done", "failed", "changed"}
  PROVE  Moves(p) /\ Keeps(p) /\ procs'[p].at = at
<1>1. procs[p] \in Locals
  BY DEF LInv, TypeOK
<1>2. PICK new : new = [procs[p] EXCEPT !.at = at]
  OBVIOUS
<1>3. /\ new \in Locals /\ new.at = at /\ new.kind = procs[p].kind
      /\ new.marked = procs[p].marked /\ new.seen = procs[p].seen
      /\ new.issuer = procs[p].issuer
  BY <1>1, <1>2 DEF Locals
<1>4. Become(p, new)
  BY <1>2 DEF Goto
<1> QED
  BY <1>3, <1>4, OneMoves DEF Keeps

(* A step that leaves the row alone: of the rest only the process's own    *)
(* part has to be looked at.                                               *)
LEMMA RowStands ==
  ASSUME LInv, NEW p \in Process, Moves(p),
         UNCHANGED <<row, lost>>,
         Opens(p),
         \/ marker' = marker
         \/ marker = None /\ row # None /\ marker' = Empty
         \/ procs[p].at = "marking" /\ marker' = procs[p].issuer,
         answered' = answered \/ answered' = answered \cup {p},
         procs'[p].at = "marking" => marker = None,
         ProcInv(p)'
  PROVE  LInv'
<1>1. /\ procs' \in [Process -> Locals]
      /\ \A q \in Process \ {p} : procs'[q] = procs[q]
  BY DEF Moves
<1>2. /\ ProcInv(p) /\ TypeOK /\ MarkerInv
      /\ procs[p].at = "marking" => procs[p].issuer \in Issuer /\ marker = Empty
      /\ row # None => file /\ row \in Row
      /\ answered' \subseteq answered \cup {p} /\ answered \subseteq answered'
  BY DEF LInv, ProcInv, TypeOK
<1>3. TypeOK'
  BY <1>1, <1>2 DEF TypeOK, Opens
<1>6. file => file'
  BY DEF Opens
<1>4. ASSUME NEW q \in Process, q # p PROVE ProcInv(q)'
  <2>1. ProcInv(q) /\ procs'[q] = procs[q] /\ (q \in answered' <=> q \in answered)
    BY <1>1, <1>2, <1>4 DEF LInv
  <2>2. Started(q) => marker \in Issuer
    BY <2>1, <1>2, RowFields DEF ProcInv, Standing
  <2>3. Started(q) \/ procs[q].at = "marking" => marker' = marker
    BY <2>1, <2>2, <1>2, <1>4, LocalAssumption DEF ProcInv, MarkerInv
  <2>4. marker' # None => marker # None \/ row # None
    BY <1>2, LocalAssumption
  <2>5. marker # None => marker' # None
    BY <1>2, LocalAssumption
  <2>6. /\ procs'[q].at \in {"compute", "committed", "marking"} => procs'[q].issuer \in Issuer
        /\ Reading(q)'
    BY <2>1 DEF ProcInv, Reading
  <2>7. /\ procs'[q].at \in {"committed", "marking"} \/ q \in answered' \/ Started(q)'
             => Standing(q)'
        /\ q \in answered' => procs'[q].at = "done"
    BY <2>1 DEF ProcInv, Started, Standing
  <2>8. /\ procs'[q].marked => marker' # None
        /\ procs'[q].at = "marking" => marker' = Empty
        /\ Started(q)' => marker' = procs'[q].issuer
    BY <2>1, <2>3, <2>5 DEF ProcInv, Started
  <2>9. procs'[q].at \notin Ended => file' \/ (procs'[q].at = "open" /\ marker' = None)
    BY <2>1, <2>4, <1>2, <1>6 DEF ProcInv
  <2> QED
    BY <2>6, <2>7, <2>8, <2>9 DEF ProcInv
<1>5. MarkerInv'
  <2>1. \A q, r \in Process : procs'[q].at = "marking" /\ procs'[r].at = "marking" => q = r
    <3>1. ASSUME procs'[p].at = "marking", NEW q \in Process \ {p}, procs[q].at = "marking"
          PROVE  FALSE
      BY <3>1, LocalAssumption DEF LInv, ProcInv
    <3> QED
      BY <3>1, <1>1, <1>2 DEF MarkerInv
  <2>2. marker' # None /\ file' => row' # None
    <3>1. marker # None /\ file' => file
      BY <1>2, LocalAssumption DEF ProcInv, Ended, Opens
    <3>2. procs[p].at = "marking" => row # None
      BY <1>2 DEF ProcInv, Standing
    <3> QED
      BY <3>1, <3>2, <1>2 DEF MarkerInv
  <2>3. marker' # None => file' \/ lost'
    BY <1>2, <1>6, LocalAssumption DEF MarkerInv
  <2> QED
    BY <2>1, <2>2, <2>3 DEF MarkerInv
<1> QED
  BY <1>3, <1>4, <1>5 DEF LInv

LEMMA GotoStep ==
  ASSUME LInv, NEW p \in Process, NEW at, Goto(p, at),
         at \in {"open", "read", "done", "failed", "changed"},
         procs[p].at \notin {"done", "failed", "changed"},
         at = "open" => procs[p].at = "idle" /\ (marker # None => file),
         at = "read" => procs[p].at = "compute" \/ file',
         at = "done" => procs[p].at = "committed" /\ (Started(p)' => marker = procs[p].issuer),
         Opens(p),
         answered' = answered \/ (at = "done" /\ answered' = answered \cup {p}),
         UNCHANGED <<row, marker, lost>>
  PROVE  LInv'
<1>1. Moves(p) /\ Keeps(p) /\ procs'[p].at = at
  BY Moved
<1>2. ProcInv(p) /\ p \notin answered /\ (file => file')
  BY DEF LInv, ProcInv, Opens
<1>3. ~ Started(p) /\ (at # "done" => ~ Started(p)')
  BY <1>1 DEF Started
<1>4. ProcInv(p)'
  <2>1. p \in answered' => at = "done"
    BY <1>2
  <2>2. at = "done" => Standing(p)'
    BY <1>1, <1>2 DEF ProcInv, Standing, Keeps
  <2>3. procs'[p].marked => marker' # None
    BY <1>1, <1>2 DEF ProcInv, Keeps
  <2>4. at \notin Ended => file' \/ (at = "open" /\ marker' = None)
    BY <1>1, <1>2 DEF ProcInv, Ended
  <2>5. Started(p)' => marker' = procs'[p].issuer
    BY <1>1, <1>3 DEF Keeps
  <2> QED
    BY <1>1, <1>3, <2>1, <2>2, <2>3, <2>4, <2>5 DEF ProcInv, Reading
<1> QED
  BY <1>1, <1>4, RowStands

LEMMA ReadStep == ASSUME LInv, NEW p \in Process, Read(p) PROVE LInv'
<1>1. PICK i \in IF row = None THEN Issuer \ Drawn ELSE {row.issuer} :
        procs' = [procs EXCEPT ![p] =
          [procs[p] EXCEPT !.at = "compute", !.seen = row, !.issuer = i, !.tries = @ + 1]]
  BY DEF Read, Become
<1> DEFINE new == [procs[p] EXCEPT !.at = "compute", !.seen = row, !.issuer = i,
                                   !.tries = procs[p].tries + 1]
<1>2. /\ procs[p] \in Locals /\ procs[p].at = "read" /\ procs[p].tries < Attempts
      /\ UNCHANGED <<file, row, marker, answered, lost>>
      /\ row \in Row \cup {None}
  BY DEF Read, LInv, TypeOK
<1>3. i \in Issuer /\ (row # None => i = row.issuer)
  BY <1>1, <1>2, RowFields
<1>4. procs[p].tries + 1 \in 0 .. Attempts
  BY <1>2, LocalAssumption DEF Locals
<1>5. /\ new \in Locals /\ new.at = "compute" /\ new.kind = procs[p].kind
      /\ new.marked = procs[p].marked /\ new.seen = row /\ new.issuer = i
  BY <1>2, <1>3, <1>4 DEF Locals
<1>6. Become(p, new)
  BY <1>1 DEF Become
<1> HIDE DEF new
<1>7. Moves(p) /\ procs'[p] = new
  BY <1>5, <1>6, OneMoves
<1>8. ProcInv(p) /\ p \notin answered
  BY <1>2 DEF LInv, ProcInv
<1>9. row # None => row.version <= row.version
  BY <1>2, RowFields
<1>10. file
  BY <1>2, <1>8 DEF ProcInv, Ended
<1>11. ProcInv(p)'
  BY <1>2, <1>3, <1>5, <1>7, <1>8, <1>9, <1>10 DEF ProcInv, Reading, Started, Ended
<1>12. Opens(p)
  BY <1>2 DEF Opens
<1> QED
  BY <1>2, <1>5, <1>7, <1>11, <1>12, RowStands

(* The row a commit leaves is the next version of the one it read, and of  *)
(* the identity it had.                                                    *)
LEMMA CommittedRow ==
  ASSUME LInv, NEW p \in Process, procs[p].at = "compute", Written(p)
  PROVE  /\ Changed(p) \in Row /\ p \in Changed(p).writes
         /\ Changed(p).issuer = procs[p].issuer
         /\ row # None => /\ Changed(p).version = row.version + 1
                          /\ Changed(p).issuer = row.issuer
                          /\ row.writes \subseteq Changed(p).writes
<1> DEFINE seen == procs[p].seen
<1>1. procs[p] \in Locals /\ row \in Row \cup {None} /\ ProcInv(p)
  BY DEF LInv, TypeOK
<1>2. seen \in Row \cup {None} /\ procs[p].issuer \in Issuer
  BY <1>1 DEF Locals, ProcInv
<1>3. CASE seen = None
  <2>1. row = None /\ Changed(p) = [version |-> 1, issuer |-> procs[p].issuer, writes |-> {p}]
    BY <1>3 DEF Written, Changed
  <2> QED
    BY <1>2, <2>1 DEF Row
<1>4. CASE seen # None
  <2>1. row # None /\ row = seen /\ row.issuer = procs[p].issuer
    BY <1>1, <1>4 DEF Written, ProcInv, Reading
  <2>2. /\ row.version + 1 \in Nat \ {0} /\ row.writes \cup {p} \subseteq Process
    BY <1>1, <2>1, RowFields
  <2>3. Changed(p) = [version |-> row.version + 1, issuer |-> procs[p].issuer,
                      writes |-> row.writes \cup {p}]
    BY <1>4, <2>1 DEF Changed
  <2> QED
    BY <1>2, <2>1, <2>2, <2>3 DEF Row
<1> QED
  BY <1>3, <1>4

LEMMA CommitStep == ASSUME LInv, NEW p \in Process, Commit(p) PROVE LInv'
<1>1. /\ procs[p].at = "compute" /\ Written(p) /\ row' = Changed(p)
      /\ Goto(p, "committed") /\ UNCHANGED <<file, marker, answered, lost>>
  BY DEF Commit
<1>2. /\ row' \in Row /\ row' # None /\ p \in row'.writes /\ row'.issuer = procs[p].issuer
      /\ row # None => /\ row'.version = row.version + 1 /\ row'.issuer = row.issuer
                       /\ row.writes \subseteq row'.writes
  BY <1>1, CommittedRow, RowFields
<1>5. /\ procs' \in [Process -> Locals] /\ procs'[p].at = "committed" /\ Keeps(p)
      /\ \A q \in Process \ {p} : procs'[q] = procs[q]
  BY <1>1, Moved DEF Moves
<1>6. ProcInv(p) /\ p \notin answered
  BY <1>1 DEF LInv, ProcInv
<1>7. ProcInv(p)'
  BY <1>1, <1>2, <1>5, <1>6 DEF ProcInv, Reading, Standing, Started, Ended, Keeps
<1>8. ASSUME NEW q \in Process \ {p} PROVE ProcInv(q)'
  <2>1. ProcInv(q) /\ procs'[q] = procs[q]
    BY <1>5 DEF LInv
  <2>2. Standing(q) => Standing(q)'
    BY <1>2, <2>1 DEF Standing
  <2>3. Reading(q)'
    <3>1. SUFFICES ASSUME procs[q].at = "compute", procs[q].seen # None PROVE Reading(q)'
      BY <2>1 DEF Reading
    <3>2. /\ row # None /\ row.issuer = procs[q].issuer
          /\ procs[q].seen.version <= row.version
      BY <2>1, <3>1 DEF ProcInv, Reading
    <3>3. row \in Row /\ procs[q].seen \in Row
      BY <3>1, <3>2 DEF LInv, TypeOK, Locals
    <3>4. row.version \in Nat /\ procs[q].seen.version \in Nat
      BY <3>3, RowFields
    <3> QED
      BY <1>2, <2>1, <3>2, <3>4 DEF Reading
  <2> QED
    BY <1>1, <2>1, <2>2, <2>3 DEF ProcInv, Started
<1>9. TypeOK'
  <2>1. file
    BY <1>1, <1>6 DEF ProcInv, Ended
  <2> QED
    BY <1>1, <1>2, <1>5, <2>1 DEF LInv, TypeOK
<1>10. MarkerInv'
  BY <1>1, <1>2, <1>5 DEF LInv, MarkerInv
<1> QED
  BY <1>7, <1>8, <1>9, <1>10 DEF LInv

LEMMA StartStep ==
  ASSUME LInv, NEW p \in Process, NEW create \in BOOLEAN, Start(p, create) PROVE LInv'
<1> DEFINE m   == (marker # None)
           new == [procs[p] EXCEPT !.kind = "start", !.create = create, !.marked = m,
                                   !.at = "open"]
<1>1. /\ procs[p].at = "idle" /\ (marker # None => file) /\ Become(p, new)
      /\ UNCHANGED <<file, row, marker, answered, lost>>
  BY DEF Start, MayStart
<1>2. procs[p] \in Locals /\ m \in BOOLEAN
  BY DEF LInv, TypeOK
<1>3. new \in Locals /\ new.at = "open" /\ new.marked = m
  <2> HIDE DEF m
  <2> QED
    BY <1>2 DEF Locals
<1>4. new.marked => marker # None
  BY <1>3
<1> HIDE DEF new
<1>5. Moves(p) /\ procs'[p] = new
  BY <1>1, <1>3, OneMoves
<1>6. p \notin answered
  BY <1>1 DEF LInv, ProcInv
<1>7. ProcInv(p)'
  BY <1>1, <1>3, <1>4, <1>5, <1>6 DEF ProcInv, Reading, Started
<1>8. procs'[p].at # "marking"
  BY <1>3, <1>5
<1>9. Opens(p)
  BY <1>1 DEF Opens
<1> QED
  BY <1>1, <1>5, <1>7, <1>8, <1>9, RowStands

LEMMA CreateMarkerStep == ASSUME LInv, NEW p \in Process, CreateMarker(p) PROVE LInv'
<1>1. /\ Now(p, "start", "committed") /\ ~ procs[p].marked
      /\ marker = None /\ marker' = Empty /\ Goto(p, "marking")
      /\ UNCHANGED <<file, row, answered, lost>>
  BY DEF CreateMarker
<1>2. Moves(p) /\ Keeps(p) /\ procs'[p].at = "marking"
  BY <1>1, Moved
<1>3. ProcInv(p) /\ p \notin answered /\ row # None /\ file
  BY <1>1 DEF LInv, ProcInv, Now, Standing, TypeOK
<1>4. ProcInv(p)'
  BY <1>1, <1>2, <1>3, LocalAssumption DEF ProcInv, Reading, Standing, Started, Now, Keeps
<1>5. Opens(p)
  BY <1>1 DEF Opens
<1> QED
  BY <1>1, <1>2, <1>3, <1>4, <1>5, RowStands

LEMMA FillMarkerStep == ASSUME LInv, NEW p \in Process, FillMarker(p) PROVE LInv'
<1>1. /\ procs[p].at = "marking" /\ marker' = procs[p].issuer /\ Goto(p, "done")
      /\ UNCHANGED <<file, row, answered, lost>>
  BY DEF FillMarker
<1>2. Moves(p) /\ Keeps(p) /\ procs'[p].at = "done"
  BY <1>1, Moved
<1>3. ProcInv(p) /\ p \notin answered /\ procs[p].issuer \in Issuer
  BY <1>1 DEF LInv, ProcInv
<1>4. ProcInv(p)'
  BY <1>1, <1>2, <1>3, LocalAssumption DEF ProcInv, Reading, Standing, Started, Ended, Keeps
<1>5. procs'[p].at # "marking"
  BY <1>2
<1>6. Opens(p)
  BY <1>1 DEF Opens
<1> QED
  BY <1>1, <1>2, <1>4, <1>5, <1>6, RowStands

LEMMA LoseStep == ASSUME LInv, LoseDatabase PROVE LInv'
<1>1. /\ \A p \in Process : procs[p].at \in Ended
      /\ file' = FALSE /\ row' = None /\ answered' = {} /\ lost' = TRUE /\ marker' = marker
      /\ procs' = [p \in Process |-> IF procs[p].at = "done"
                                     THEN [procs[p] EXCEPT !.at = "failed"] ELSE procs[p]]
  BY DEF LoseDatabase
<1>2. ASSUME NEW p \in Process
      PROVE  /\ procs'[p] \in Locals /\ procs'[p].at \in Ended \ {"done"}
             /\ procs'[p].marked = procs[p].marked
  <2>1. procs[p] \in Locals
    BY DEF LInv, TypeOK
  <2> QED
    BY <1>1, <2>1 DEF Ended, Locals
<1>3. TypeOK'
  BY <1>1, <1>2 DEF LInv, TypeOK
<1>4. \A p \in Process : ProcInv(p)'
  BY <1>1, <1>2 DEF LInv, ProcInv, Reading, Started, Ended
<1>5. MarkerInv'
  BY <1>1, <1>2 DEF MarkerInv, Ended
<1> QED
  BY <1>3, <1>4, <1>5 DEF LInv

LEMMA NextLInv == LInv /\ [Next]_vars => LInv'
<1> SUFFICES ASSUME LInv, [Next]_vars PROVE LInv'
  OBVIOUS
<1>1. CASE LoseDatabase
  BY <1>1, LoseStep
<1>2. ASSUME NEW p \in Process, Step(p) PROVE LInv'
  <2>0. ProcInv(p) /\ MarkerInv
    BY DEF LInv
  <2>1. CASE ServeRequest(p)
    <3>1. marker # None => file
      <4>1. ASSUME NEW q \in Process, Now(q, "start", "done") PROVE file
        BY <4>1 DEF LInv, ProcInv, Started, Standing, Now, TypeOK
      <4> QED
        BY <2>1, <4>1, <2>0 DEF ServeRequest, MarkerInv
    <3>2. /\ Goto(p, "open") /\ procs[p].at = "idle"
          /\ Opens(p) /\ UNCHANGED <<row, marker, answered, lost>>
      BY <2>1 DEF ServeRequest, Now, Opens
    <3> QED
      BY <3>1, <3>2, GotoStep
  <2>2. CASE OpenDatabase(p)
    <3>1. /\ Goto(p, "read") /\ procs[p].at = "open" /\ Opens(p) /\ file'
          /\ UNCHANGED <<row, marker, answered, lost>>
      BY <2>2 DEF OpenDatabase, Opens
    <3> QED
      BY <3>1, GotoStep
  <2>3. CASE Read(p)
    BY <2>3, ReadStep
  <2>4. CASE Commit(p)
    BY <2>4, CommitStep
  <2>5. CASE Conflict(p)
    <3>1. /\ procs[p].at = "compute" /\ (Goto(p, "read") \/ Goto(p, "failed"))
          /\ Opens(p) /\ UNCHANGED <<row, marker, answered, lost>>
      BY <2>5 DEF Conflict, Opens
    <3> QED
      BY <3>1, GotoStep
  <2>6. CASE Answer(p)
    <3>1. /\ Goto(p, "done") /\ procs[p].at = "committed" /\ procs[p].kind = "request"
          /\ answered' = answered \cup {p} /\ Opens(p)
          /\ UNCHANGED <<row, marker, lost>>
      BY <2>6 DEF Answer, Now, Opens
    <3>2. ~ Started(p)'
      BY <3>1, Moved DEF Started, Keeps
    <3> QED
      BY <3>1, <3>2, GotoStep
  <2>7. ASSUME NEW create \in BOOLEAN, Start(p, create) PROVE LInv'
    BY <2>7, StartStep
  <2>8. CASE Compare(p)
    <3>1. /\ procs[p].at = "committed"
          /\ (Goto(p, "done") /\ marker = procs[p].issuer) \/ Goto(p, "changed")
          /\ Opens(p) /\ UNCHANGED <<row, marker, answered, lost>>
      BY <2>8 DEF Compare, Now, Opens
    <3> QED
      BY <3>1, GotoStep
  <2>9. CASE CreateMarker(p)
    BY <2>9, CreateMarkerStep
  <2>10. CASE FillMarker(p)
    BY <2>10, FillMarkerStep
  <2>11. CASE Fail(p)
    <3>1. /\ Goto(p, "failed") /\ procs[p].at \notin {"done", "failed", "changed"}
          /\ Opens(p) /\ UNCHANGED <<row, marker, answered, lost>>
      BY <2>11 DEF Fail, Ended, Opens
    <3> QED
      BY <3>1, GotoStep
  <2> QED
    BY <1>2, <2>1, <2>2, <2>3, <2>4, <2>5, <2>6, <2>7, <2>8, <2>9, <2>10, <2>11 DEF Step
<1>3. CASE UNCHANGED vars
  BY <1>3 DEF vars, LInv, TypeOK, ProcInv, Reading, Standing, Started, MarkerInv
<1> QED
  BY <1>1, <1>2, <1>3 DEF Next

(* Rows, locals and the marker stay consistent: a row read tells by its    *)
(* version whether it still stands, one start at most fills the marker,    *)
(* and a marker without a row is one that outlived its database.           *)
THEOREM LocalInvariant == Spec => []LInv
BY InitLInv, NextLInv, PTL DEF Spec

(* However many processes find an empty database at once, what was         *)
(* answered stands, under the identity it was given by.                    *)
THEOREM AnswersKept == Spec => []AnswersStand
<1>1. LInv => AnswersStand
  BY DEF LInv, TypeOK, ProcInv, Standing, AnswersStand
<1> QED
  BY <1>1, LocalInvariant, PTL

(* A server that started serves the identity in the marker, also when      *)
(* other starts, handlers and losses of the database came in between.      *)
THEOREM ServesAsMarked == Spec => []StartedAsMarked
<1>1. LInv => StartedAsMarked
  BY DEF LInv, ProcInv, Started, Standing, StartedAsMarked, Now
<1> QED
  BY <1>1, LocalInvariant, PTL

(* A start that found a marker never brings a new identity up: it fails    *)
(* where the database is gone.                                             *)
THEOREM IdentityKept == Spec => NoNewIdentity
<1>1. LInv /\ [Next]_vars =>
        [\A p \in Process :
           procs[p].kind = "start" /\ procs[p].at = "compute" /\ procs'[p].at = "committed"
             /\ procs[p].marked => row # None]_vars
  BY DEF LInv, ProcInv, MarkerInv, Ended
<1> QED
  BY <1>1, LocalInvariant, PTL DEF Spec, NoNewIdentity

-----------------------------------------------------------------------------
(* The local verifier.                                                     *)

(* The nonce of a request tells which one it is, of which verifier.        *)
Keyed ==
  \A v, w \in Verifier : \A r \in requests[v], s \in requests[w] :
    r.nonce = s.nonce => v = w /\ r = s

(* A pending request was drawn, and lives at most the longest lifetime.    *)
Dated ==
  \A v \in Verifier : \A r \in requests[v] :
    r.nonce \in drawn /\ r.expiresAt <= r.createdAt + Checks!MaxLifetime

(* What was accepted was drawn, and if still in the table it is used.      *)
Spent ==
  \A i \in DOMAIN accepted :
    LET n == accepted[i].presentation.context.nonce IN
    /\ n \in drawn
    /\ \A v \in Verifier : \A r \in requests[v] : r.nonce = n => r.used

ChecksInv ==
  /\ Checks!TypeOK /\ Keyed /\ Dated /\ Spent
  /\ Checks!AcceptedOnce /\ Checks!AcceptedFresh /\ Checks!WithinLimit

(* Sets are counted alike here and in the module of the verifier.          *)
LEMMA Counting ==
  ASSUME NEW S
  PROVE  (Checks!IsFiniteSet(S) <=> IsFiniteSet(S)) /\ Checks!Cardinality(S) = Cardinality(S)
<1>1. Checks!IsFiniteSet(S) <=> IsFiniteSet(S)
  BY DEF Checks!IsFiniteSet, IsFiniteSet
<1>2. Checks!Cardinality(S) = Cardinality(S)
  BY DEF Checks!Cardinality, Cardinality
<1> QED
  BY <1>1, <1>2

LEMMA InitChecksInv == Checks!Init => ChecksInv
<1> SUFFICES ASSUME Checks!Init PROVE ChecksInv
  OBVIOUS
<1>1. Checks!TypeOK
  BY DEF Checks!Init, Checks!TypeOK
<1>2. Keyed /\ Dated /\ Spent /\ Checks!AcceptedOnce /\ Checks!AcceptedFresh
  BY DEF Checks!Init, Keyed, Dated, Spent, Checks!AcceptedOnce, Checks!AcceptedFresh
<1>3. Checks!WithinLimit
  BY FS_EmptySet, Counting DEF Checks!Init, Checks!WithinLimit, Checks!MaxPending
<1> QED
  BY <1>1, <1>2, <1>3 DEF ChecksInv

(* What is left of a table after the expired requests were dropped.        *)
LEMMA Pruned ==
  ASSUME ChecksInv, NEW v \in Verifier, NEW t
  PROVE  /\ Checks!Unexpired(v, t) \subseteq requests[v]
         /\ IsFiniteSet(Checks!Unexpired(v, t))
         /\ Cardinality(Checks!Unexpired(v, t)) <= Checks!MaxPending
         /\ Cardinality(Checks!Unexpired(v, t)) \in Nat
<1>1. Checks!Unexpired(v, t) \subseteq requests[v]
  BY DEF Checks!Unexpired
<1>2. IsFiniteSet(requests[v]) /\ Cardinality(requests[v]) <= Checks!MaxPending
  BY Counting DEF ChecksInv, Checks!WithinLimit
<1>3. /\ IsFiniteSet(Checks!Unexpired(v, t))
      /\ Cardinality(Checks!Unexpired(v, t)) <= Cardinality(requests[v])
  BY <1>1, <1>2, FS_Subset
<1>4. Cardinality(Checks!Unexpired(v, t)) \in Nat /\ Cardinality(requests[v]) \in Nat
  BY <1>2, <1>3, FS_CardinalityType
<1> QED
  BY <1>1, <1>2, <1>3, <1>4 DEF Checks!MaxPending

LEMMA FullTableStep ==
  ASSUME ChecksInv, NEW v \in Verifier, NEW t \in Nat, Checks!FullTable(v, t) PROVE ChecksInv'
<1> DEFINE kept == Checks!Unexpired(v, t)
<1>1. kept \subseteq requests[v] /\ IsFiniteSet(kept) /\ Cardinality(kept) <= Checks!MaxPending
  BY Pruned
<1>2. /\ requests' = [requests EXCEPT ![v] = kept]
      /\ UNCHANGED <<drawn, presentations, status, active, accepted>>
  BY DEF Checks!FullTable
<1> HIDE DEF kept
<1>3. \A w \in Verifier : requests'[w] \subseteq requests[w]
  BY <1>1, <1>2 DEF ChecksInv, Checks!TypeOK
<1>4. Checks!TypeOK'
  BY <1>1, <1>2 DEF ChecksInv, Checks!TypeOK
<1>5. Keyed' /\ Dated' /\ Spent'
  BY <1>2, <1>3 DEF ChecksInv, Keyed, Dated, Spent
<1>6. Checks!AcceptedOnce' /\ Checks!AcceptedFresh'
  BY <1>2 DEF ChecksInv, Checks!AcceptedOnce, Checks!AcceptedFresh
<1>7. Checks!WithinLimit'
  BY <1>1, <1>2, Counting DEF ChecksInv, Checks!TypeOK, Checks!WithinLimit
<1> QED
  BY <1>4, <1>5, <1>6, <1>7 DEF ChecksInv

LEMMA ChallengeStep ==
  ASSUME ChecksInv, NEW v \in Verifier, NEW t \in Nat, NEW lifetime \in 1 .. Checks!MaxLifetime,
         NEW nonce \in Nonce, Checks!Challenge(v, t, lifetime, nonce)
  PROVE  ChecksInv'
<1> DEFINE kept == Checks!Unexpired(v, t)
           new  == Checks!Drawn(t, lifetime, nonce)
<1>1. /\ kept \subseteq requests[v] /\ IsFiniteSet(kept)
      /\ Cardinality(kept) \in Nat /\ Cardinality(kept) < Checks!MaxPending
  BY Pruned, Counting DEF Checks!Challenge
<1>2. /\ nonce \notin drawn
      /\ requests' = [requests EXCEPT ![v] = kept \cup {new}]
      /\ drawn' = drawn \cup {nonce}
      /\ UNCHANGED <<presentations, status, active, accepted>>
  BY DEF Checks!Challenge
<1>3. /\ new \in Checks!Request /\ new.nonce = nonce
      /\ new.expiresAt <= new.createdAt + Checks!MaxLifetime
  BY DEF Checks!Drawn, Checks!Request, Checks!MaxLifetime
<1> HIDE DEF kept, new
<1>4. \A w \in Verifier : \A r \in requests'[w] : r \in requests[w] \/ (w = v /\ r = new)
  BY <1>1, <1>2 DEF ChecksInv, Checks!TypeOK
<1>5. \A w \in Verifier : \A r \in requests[w] : r.nonce # nonce
  BY <1>2 DEF ChecksInv, Dated
<1>6. Checks!TypeOK'
  BY <1>1, <1>2, <1>3 DEF ChecksInv, Checks!TypeOK
<1>7. Keyed'
  <2> SUFFICES ASSUME NEW w \in Verifier, NEW x \in Verifier,
                      NEW r \in requests'[w], NEW s \in requests'[x], r.nonce = s.nonce
               PROVE  w = x /\ r = s
    BY DEF Keyed
  <2>1. CASE r \in requests[w] /\ s \in requests[x]
    BY <2>1 DEF ChecksInv, Keyed
  <2>2. CASE w = v /\ r = new
    BY <2>2, <1>3, <1>4, <1>5
  <2>3. CASE x = v /\ s = new
    BY <2>3, <1>3, <1>4, <1>5
  <2> QED
    BY <1>4, <2>1, <2>2, <2>3
<1>8. Dated'
  BY <1>2, <1>3, <1>4 DEF ChecksInv, Dated
<1>9. Spent'
  <2> SUFFICES ASSUME NEW i \in DOMAIN accepted
               PROVE  LET n == accepted[i].presentation.context.nonce IN
                      /\ n \in drawn'
                      /\ \A w \in Verifier : \A r \in requests'[w] : r.nonce = n => r.used
    BY <1>2 DEF Spent
  <2>1. accepted[i].presentation.context.nonce \in drawn
    BY DEF ChecksInv, Spent
  <2>2. accepted[i].presentation.context.nonce # nonce
    BY <2>1, <1>2
  <2> QED
    BY <2>1, <2>2, <1>2, <1>3, <1>4 DEF ChecksInv, Spent
<1>10. Checks!AcceptedOnce' /\ Checks!AcceptedFresh'
  BY <1>2 DEF ChecksInv, Checks!AcceptedOnce, Checks!AcceptedFresh
<1>11. Checks!WithinLimit'
  <2>1. /\ IsFiniteSet(kept \cup {new})
        /\ \/ Cardinality(kept \cup {new}) = Cardinality(kept)
           \/ Cardinality(kept \cup {new}) = Cardinality(kept) + 1
    BY <1>1, FS_AddElement
  <2>2. Cardinality(kept \cup {new}) <= Checks!MaxPending
    BY <2>1, <1>1 DEF Checks!MaxPending
  <2> QED
    BY <2>1, <2>2, <1>2, Counting DEF ChecksInv, Checks!TypeOK, Checks!WithinLimit
<1> QED
  BY <1>6, <1>7, <1>8, <1>9, <1>10, <1>11 DEF ChecksInv

LEMMA VerifyStep ==
  ASSUME ChecksInv, NEW v \in Verifier, NEW t \in Nat, NEW after \in Nat,
         NEW r \in requests[v], NEW p \in presentations, Checks!Verify(v, r, p, t, after)
  PROVE  ChecksInv'
<1> DEFINE used == [r EXCEPT !.used = TRUE]
           new  == [verifier |-> v, presentation |-> p, checked |-> t, after |-> after]
<1>1. /\ requests' = [requests EXCEPT ![v] = (@ \ {r}) \cup {used}]
      /\ accepted' = Append(accepted, new)
      /\ UNCHANGED <<drawn, presentations, status, active>>
  BY DEF Checks!Verify
<1>2. /\ r.nonce = p.context.nonce /\ ~ r.used
      /\ p.context.verifier = v /\ p.context.expiresAt = r.expiresAt
      /\ r.createdAt <= p.createdAt
      /\ after < r.expiresAt /\ after < ExpiresAt[p.cred]
  BY DEF Checks!Verify, Checks!Presentable, Checks!StillGood
<1>3. r \in Checks!Request /\ p \in Checks!Presentation /\ accepted \in Seq(Checks!Acceptance)
  BY DEF ChecksInv, Checks!TypeOK
<1>4. /\ used \in Checks!Request /\ used.nonce = r.nonce /\ used.used
      /\ used.createdAt = r.createdAt /\ used.expiresAt = r.expiresAt
  BY <1>3 DEF Checks!Request
<1>5. new \in Checks!Acceptance /\ new.verifier = v /\ new.presentation = p /\ new.after = after
  BY <1>3 DEF Checks!Acceptance
<1> HIDE DEF used, new
<1>6. /\ DOMAIN accepted' = DOMAIN accepted \cup {Len(accepted) + 1}
      /\ \A i \in DOMAIN accepted : accepted'[i] = accepted[i]
      /\ accepted'[Len(accepted) + 1] = new
      /\ Len(accepted) + 1 \notin DOMAIN accepted
  BY <1>1, <1>3, <1>5
<1>7. \A w \in Verifier : \A s \in requests'[w] :
        \/ s \in requests[w] /\ s # r
        \/ w = v /\ s = used
  <2> SUFFICES ASSUME NEW w \in Verifier, NEW s \in requests'[w]
               PROVE  (s \in requests[w] /\ s # r) \/ (w = v /\ s = used)
    OBVIOUS
  <2>1. CASE w = v
    BY <2>1, <1>1 DEF ChecksInv, Checks!TypeOK
  <2>2. CASE w # v
    BY <2>2, <1>1 DEF ChecksInv, Checks!TypeOK, Keyed
  <2> QED
    BY <2>1, <2>2
<1>8. \A w \in Verifier : \A s \in requests[w] : s.nonce = r.nonce => s = r
  BY DEF ChecksInv, Keyed
<1>9. Checks!TypeOK'
  BY <1>1, <1>3, <1>4, <1>5 DEF ChecksInv, Checks!TypeOK
<1>10. Keyed'
  <2> SUFFICES ASSUME NEW w \in Verifier, NEW x \in Verifier,
                      NEW a \in requests'[w], NEW b \in requests'[x], a.nonce = b.nonce
               PROVE  w = x /\ a = b
    BY DEF Keyed
  <2>1. CASE a \in requests[w] /\ b \in requests[x]
    BY <2>1 DEF ChecksInv, Keyed
  <2>2. CASE w = v /\ a = used
    BY <2>2, <1>4, <1>7, <1>8
  <2>3. CASE x = v /\ b = used
    BY <2>3, <1>4, <1>7, <1>8
  <2> QED
    BY <1>7, <2>1, <2>2, <2>3
<1>11. Dated'
  BY <1>1, <1>4, <1>7 DEF ChecksInv, Dated
<1>12. \A i \in DOMAIN accepted : accepted[i].presentation.context.nonce # r.nonce
  BY <1>2 DEF ChecksInv, Spent
<1>13. Spent'
  <2>1. r.nonce \in drawn
    BY DEF ChecksInv, Dated
  <2>2. \A w \in Verifier : \A s \in requests'[w] : s.nonce = r.nonce => s.used
    BY <1>4, <1>7, <1>8
  <2>3. \A i \in DOMAIN accepted :
          /\ accepted[i].presentation.context.nonce \in drawn
          /\ \A w \in Verifier : \A s \in requests'[w] :
               s.nonce = accepted[i].presentation.context.nonce => s.used
    BY <1>4, <1>7, <1>12 DEF ChecksInv, Spent
  <2> QED
    BY <2>1, <2>2, <2>3, <1>1, <1>2, <1>5, <1>6 DEF Spent
<1>14. Checks!AcceptedOnce'
  <2>1. \A i \in DOMAIN accepted :
          accepted'[i].presentation.context.nonce # accepted'[Len(accepted) + 1].presentation.context.nonce
    BY <1>2, <1>5, <1>6, <1>12
  <2> QED
    BY <2>1, <1>6 DEF ChecksInv, Checks!AcceptedOnce
<1>15. Checks!AcceptedFresh'
  <2>1. r.expiresAt <= r.createdAt + Checks!MaxLifetime
    BY DEF ChecksInv, Dated
  <2>2. after < p.createdAt + Checks!MaxLifetime
    BY <2>1, <1>2, <1>3 DEF Checks!Request, Checks!Presentation, Checks!MaxLifetime
  <2>3. /\ new.presentation.context.verifier = new.verifier
        /\ new.after < new.presentation.createdAt + Checks!MaxLifetime
        /\ new.after < new.presentation.context.expiresAt
        /\ new.after < ExpiresAt[new.presentation.cred]
    BY <2>2, <1>2, <1>5
  <2> QED
    BY <2>3, <1>6 DEF ChecksInv, Checks!AcceptedFresh
<1>16. Checks!WithinLimit'
  <2>1. IsFiniteSet(requests[v]) /\ Cardinality(requests[v]) <= Checks!MaxPending
    BY Counting DEF ChecksInv, Checks!WithinLimit
  <2>2. /\ IsFiniteSet(requests[v] \ {r})
        /\ Cardinality(requests[v] \ {r}) = Cardinality(requests[v]) - 1
    BY <2>1, FS_RemoveElement
  <2>3. /\ IsFiniteSet((requests[v] \ {r}) \cup {used})
        /\ \/ Cardinality((requests[v] \ {r}) \cup {used}) = Cardinality(requests[v] \ {r})
           \/ Cardinality((requests[v] \ {r}) \cup {used}) = Cardinality(requests[v] \ {r}) + 1
    BY <2>2, FS_AddElement
  <2>4. Cardinality(requests[v]) \in Nat
    BY <2>1, FS_CardinalityType
  <2>5. Cardinality((requests[v] \ {r}) \cup {used}) <= Checks!MaxPending
    BY <2>1, <2>2, <2>3, <2>4 DEF Checks!MaxPending
  <2> QED
    BY <2>3, <2>5, <1>1, Counting DEF ChecksInv, Checks!TypeOK, Checks!WithinLimit
<1> QED
  BY <1>9, <1>10, <1>11, <1>13, <1>14, <1>15, <1>16 DEF ChecksInv

(* The steps that leave the tables and the answers alone.                  *)
LEMMA OtherStep ==
  ASSUME ChecksInv, Checks!TypeOK', UNCHANGED <<requests, drawn, accepted>> PROVE ChecksInv'
BY DEF ChecksInv, Keyed, Dated, Spent, Checks!AcceptedOnce, Checks!AcceptedFresh, Checks!WithinLimit

LEMMA NextChecksInv == ChecksInv /\ [Checks!Next]_(Checks!vars) => ChecksInv'
<1> SUFFICES ASSUME ChecksInv, [Checks!Next]_(Checks!vars) PROVE ChecksInv'
  OBVIOUS
<1>1. ASSUME NEW v \in Verifier, NEW t \in Nat, Checks!FullTable(v, t) PROVE ChecksInv'
  BY <1>1, FullTableStep
<1>2. ASSUME NEW v \in Verifier, NEW t \in Nat, NEW lifetime \in 1 .. Checks!MaxLifetime,
             NEW nonce \in Nonce, Checks!Challenge(v, t, lifetime, nonce)
      PROVE  ChecksInv'
  BY <1>2, ChallengeStep
<1>3. ASSUME NEW v \in Verifier, NEW t \in Nat, NEW r \in requests[v],
             NEW p \in presentations, NEW after \in Nat, Checks!Verify(v, r, p, t, after)
      PROVE  ChecksInv'
  BY <1>3, VerifyStep
<1>4. ASSUME NEW c \in Credential, NEW context \in Checks!Context, NEW t \in Nat,
             Checks!Present(c, context, t)
      PROVE  ChecksInv'
  <2>1. Checks!TypeOK'
    BY <1>4 DEF ChecksInv, Checks!TypeOK, Checks!Present, Checks!Presentation
  <2> QED
    BY <2>1, <1>4, OtherStep DEF Checks!Present
<1>5. ASSUME NEW c \in Credential, Checks!SetStatus(c) PROVE ChecksInv'
  <2>1. Checks!TypeOK'
    BY <1>5 DEF ChecksInv, Checks!TypeOK, Checks!SetStatus
  <2> QED
    BY <2>1, <1>5, OtherStep DEF Checks!SetStatus
<1>6. ASSUME Checks!Deactivate PROVE ChecksInv'
  <2>1. Checks!TypeOK'
    BY <1>6 DEF ChecksInv, Checks!TypeOK, Checks!Deactivate
  <2> QED
    BY <2>1, <1>6, OtherStep DEF Checks!Deactivate
<1>7. ASSUME UNCHANGED Checks!vars PROVE ChecksInv'
  <2>1. Checks!TypeOK'
    BY <1>7 DEF ChecksInv, Checks!TypeOK, Checks!vars
  <2> QED
    BY <2>1, <1>7, OtherStep DEF Checks!vars
<1> QED
  BY <1>1, <1>2, <1>3, <1>4, <1>5, <1>6, <1>7 DEF Checks!Next

LEMMA ChecksInductive == Checks!Spec => []ChecksInv
BY InitChecksInv, NextChecksInv, PTL DEF Checks!Spec

(* Whatever the clocks do and whoever relays a presentation, a request is  *)
(* accepted at most once, over all verifiers.                              *)
THEOREM LocalOnce == Checks!Spec => []Checks!AcceptedOnce
<1>1. ChecksInv => Checks!AcceptedOnce
  BY DEF ChecksInv
<1> QED
  BY <1>1, ChecksInductive, PTL

(* What is accepted was signed for that verifier less than five minutes    *)
(* before, and neither request nor credential had run out.                 *)
THEOREM LocalFresh == Checks!Spec => []Checks!AcceptedFresh
<1>1. ChecksInv => Checks!AcceptedFresh
  BY DEF ChecksInv
<1> QED
  BY <1>1, ChecksInductive, PTL

(* The table of pending requests never grows beyond its limit.             *)
THEOREM LocalWithinLimit == Checks!Spec => []Checks!WithinLimit
<1>1. ChecksInv => Checks!WithinLimit
  BY DEF ChecksInv
<1> QED
  BY <1>1, ChecksInductive, PTL
=============================================================================

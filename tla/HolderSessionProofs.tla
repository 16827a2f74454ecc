-------------------------- MODULE HolderSessionProofs --------------------------
(***************************************************************************)
(* Proofs about a visit to the holder page, for any keys, credentials,     *)
(* passphrases and provers and every bound on locks, objects and consents. *)
(***************************************************************************)
EXTENDS HolderSession, TLAPS

-----------------------------------------------------------------------------
(* The inductive invariant.                                                *)

(* What an action in progress carries with it.                             *)
Op == [do : {"nothing", "unlock", "create", "enroll", "check", "prove", "import"},
       at : {"rest", "load", "restore", "encrypt", "trust", "issue", "ask",
         "proving", "read"},
       h : Object \cup {None}, version : Nat, pass : Pass \cup {None},
       item : Credential \cup {None}, text : Backup \cup {None},
       consent : Remote \cup {None}]

(* The page's holder is an object that was made and kept, and what is      *)
(* shown is in the backup.                                                 *)
Page ==
  /\ holder # None => /\ holder \in Object /\ heap[holder] # None /\ shown # None
                      /\ ~ heap[holder].stray
  /\ shown # None => backup # None /\ shown \subseteq backup.creds

(* An enrollment, a check or a proof works with the page's holder, or with *)
(* the one that was locked since.                                          *)
WithHolder ==
  op.do \in {"enroll", "check", "prove"} =>
    /\ op.h \in Object /\ heap[op.h] # None /\ ~ heap[op.h].stray
    /\ holder \in {None, op.h}
    /\ op.item \in Credential
    /\ backup # None

(* While a holder is created the page has neither holder nor backup, and   *)
(* the text to store is that of the new holder.                            *)
Creating ==
  op.do = "create" =>
    /\ holder = None /\ shown = None /\ backup = None
    /\ op.pass \in Pass
    /\ op.at \in {"load", "encrypt"}
    /\ op.at = "load" => op.h = None
    /\ op.at = "encrypt" =>
         /\ op.h \in Object /\ heap[op.h] # None /\ heap[op.h].creds = {}
         /\ ~ heap[op.h].stray
         /\ op.text # None /\ op.text.key = heap[op.h].key /\ op.text.creds = {}

(* The controls are disabled meanwhile: the text restored is the backup.   *)
Unlocking == op.do = "unlock" => op.text = backup /\ backup # None

(* An import locked the page first.                                        *)
Importing == op.do = "import" => holder = None /\ shown = None /\ presentation = None

(* The passphrase of an enrollment opens the backup; the text it encrypted *)
(* has what the backup and its holder have, and no more if the holder is   *)
(* still the page's.                                                       *)
Enrolling ==
  op.do = "enroll" =>
    /\ op.pass = backup.pass
    /\ op.at \in {"trust", "issue", "encrypt"}
    /\ op.at = "encrypt" =>
         /\ op.text # None
         /\ op.text.key = backup.key /\ op.text.pass = backup.pass
         /\ backup.creds \subseteq op.text.creds
         /\ op.text.key = heap[op.h].key
         /\ heap[op.h].creds \subseteq op.text.creds
         /\ holder = op.h => op.text.creds = heap[op.h].creds

(* The credential being proved is in the backup.                           *)
Proving == op.do = "prove" => op.item \in backup.creds

(* Consents to a prover that no proof has used: the one ticked and the one *)
(* taken along.                                                            *)
ConsentsLeft(r) ==
  (IF consent = r THEN 1 ELSE 0)
    + (IF op.do = "prove" /\ op.at = "ask" /\ op.consent = r THEN 1 ELSE 0)

(* Each consent given is unused, used once or withdrawn.                   *)
ConsentKept == \A r \in Remote : sends[r] + ConsentsLeft(r) <= ticks[r]

(* Leaving the page locked the holder and moved the selection past that of *)
(* every action that could still adopt one.                                *)
Visiting ==
  /\ op.version <= selection
  /\ visit = "left" =>
       /\ holder = None
       /\ op.do = "unlock" => op.at # "load"
       /\ op.do \in {"create", "unlock"} => op.version < selection

(* The inductive invariant.                                                *)
HInv ==
  /\ TypeOK /\ op \in Op
  /\ Page /\ WithHolder /\ Creating /\ Unlocking /\ Importing /\ Enrolling /\ Proving
  /\ Visiting /\ ConsentKept
  /\ NothingLeftOpen /\ HolderHasBackup /\ PresentationMatches

-----------------------------------------------------------------------------
(* The steps.                                                              *)

(* Locking an object closes it and leaves the other objects alone.         *)
LEMMA Locking ==
  ASSUME heap \in [Object -> Holder \cup {None}], NEW o \in Object \cup {None},
         o # None => heap[o] # None
  PROVE  /\ LockObject(o) \in [Object -> Holder \cup {None}]
         /\ \A i \in Object \ {o} : LockObject(o)[i] = heap[i]
         /\ o # None => LockObject(o)[o] = LockedHolder(heap[o])
         /\ o # None => LockObject(o)[o] # None
<1>1. CASE o = None
  BY <1>1, NoneAssumption DEF LockObject
<1>2. CASE o # None
  <2>1. LockedHolder(heap[o]) \in Holder
    BY <1>2 DEF LockedHolder, Holder
  <2>. QED BY <1>2, <2>1, NoneAssumption DEF LockObject
<1>. QED BY <1>1, <1>2

(* What a person changes on the screen without starting an action.         *)
LEMMA ScreenKeeps ==
  ASSUME HInv,
         \/ Export \/ Connect \/ Forget \/ Consent \/ Withdraw
         \/ \E c \in Credential : Paste(c)
         \/ \E p \in Policy : SelectPolicy(p)
         \/ \E prover \in Prover : Discover(prover)
  PROVE  HInv'
<1>. USE HolderAssumption, NoneAssumption DEF HInv, Export, Connect, Forget,
     Consent, Withdraw, Paste, SelectPolicy, Discover
<1>1. /\ UNCHANGED <<heap, holder, selection, visit, backup, shown, op, sends>>
      /\ op = Idle
  BY DEF Ready, secrets, local, network, screen
<1>2. TypeOK'
  <2>. USE DEF TypeOK, network, screen, local
  <2>1. CASE Export
    BY <1>1, <2>1
  <2>2. CASE Connect
    BY <1>1, <2>2
  <2>3. CASE Forget
    BY <1>1, <2>3
  <2>4. CASE Withdraw
    BY <1>1, <2>4
  <2>5. CASE Consent
    BY <1>1, <2>5
  <2>6. CASE \E c \in Credential : Paste(c)
    BY <1>1, <2>6
  <2>7. CASE \E p \in Policy : SelectPolicy(p)
    BY <1>1, <2>7
  <2>8. CASE \E prover \in Prover : Discover(prover)
    BY <1>1, <2>8
  <2>. QED BY <2>1, <2>2, <2>3, <2>4, <2>5, <2>6, <2>7, <2>8
<1>3. ConsentKept'
  BY DEF Ready, ConsentKept, ConsentsLeft, TypeOK, Idle, screen, network, Prover
<1>4. PresentationMatches'
  BY <1>1 DEF PresentationMatches, screen, network
<1>5. op' \in Op /\ Page' /\ WithHolder' /\ Creating' /\ Unlocking' /\ Importing' /\ Enrolling' /\ Proving'
  BY <1>1 DEF Idle, Op, Page, WithHolder, Creating, Unlocking, Importing,
    Enrolling, Proving
<1>6. NothingLeftOpen' /\ HolderHasBackup' /\ Visiting'
  BY <1>1 DEF NothingLeftOpen, HolderHasBackup, Open, Visiting
<1>. QED BY <1>1, <1>2, <1>3, <1>4, <1>5, <1>6

(* An action that only begins.                                             *)
Begun ==
  /\ Ready /\ op'.version \in {0, selection}
  /\ UNCHANGED <<local, network, secrets, shown, pending>>
  /\ consent' \in {consent, None} /\ presentation' \in {presentation, None}
  /\ op' \in Op /\ op'.at # "rest"

(* What an action in its first step keeps, whatever it is.                 *)
LEMMA BegunKeeps ==
  ASSUME HInv, Begun,
         op'.do # "create" \/ op'.h = None,
         op'.consent = None \/ (op'.consent = consent /\ consent' = None)
  PROVE  /\ TypeOK' /\ Page' /\ Visiting' /\ ConsentKept'
         /\ NothingLeftOpen' /\ HolderHasBackup' /\ PresentationMatches'
<1>. USE HolderAssumption, NoneAssumption DEF HInv, Begun, Ready, local, network, secrets
<1>1. TypeOK'
  BY DEF TypeOK, Op
<1>2. ConsentKept'
  <2>. SUFFICES ASSUME NEW r \in Remote
                PROVE  sends'[r] + ConsentsLeft(r)' <= ticks'[r]
    BY DEF ConsentKept
  <2>1. sends[r] \in Nat /\ ticks[r] \in Nat
    BY DEF TypeOK
  <2>2. ConsentsLeft(r) = IF consent = r THEN 1 ELSE 0
    BY DEF ConsentsLeft, Idle
  <2>3. ConsentsLeft(r)' <= ConsentsLeft(r) /\ ConsentsLeft(r)' \in Nat
    BY <2>2 DEF ConsentsLeft
  <2>. QED BY <2>1, <2>2, <2>3 DEF ConsentKept
<1>3. Page' /\ HolderHasBackup' /\ PresentationMatches'
  BY DEF Page, HolderHasBackup, PresentationMatches
<1>4. NothingLeftOpen'
  BY DEF NothingLeftOpen, Open, Idle
<1>5. Visiting'
  BY DEF Visiting, TypeOK
<1>. QED BY <1>1, <1>2, <1>3, <1>4, <1>5

(* The first steps of the actions.                                         *)
LEMMA CreateKeeps ==
  ASSUME HInv, NEW pass \in Pass, Create(pass)
  PROVE  HInv'
<1>1. /\ Ready /\ UNCHANGED <<local, network, secrets, screen>>
      /\ shown = None /\ backup = None
      /\ op' = [do |-> "create", at |-> "load", h |-> None, version |-> selection,
                pass |-> pass, item |-> None, text |-> None, consent |-> None]
  BY DEF Create, Idle
<1>2. op' \in Op
  BY <1>1, HolderAssumption DEF HInv, TypeOK, Op
<1>3. holder = None
  BY <1>1 DEF HInv, Page
<1>4. Begun
  BY <1>1, <1>2 DEF Begun, screen
<1>5. /\ TypeOK' /\ Page' /\ Visiting' /\ ConsentKept'
      /\ NothingLeftOpen' /\ HolderHasBackup' /\ PresentationMatches'
  BY <1>1, <1>4, BegunKeeps
<1>6. WithHolder' /\ Creating' /\ Unlocking' /\ Importing' /\ Enrolling' /\ Proving'
  BY <1>1, <1>3 DEF WithHolder, Creating, Unlocking, Importing, Enrolling, Proving,
    local, secrets, screen
<1>. QED BY <1>2, <1>5, <1>6 DEF HInv

LEMMA UnlockKeeps ==
  ASSUME HInv, NEW pass \in Pass, Unlock(pass)
  PROVE  HInv'
<1>1. /\ Ready /\ UNCHANGED <<local, network, secrets, screen>>
      /\ shown = None /\ backup # None
      /\ op' = [do |-> "unlock", at |-> "load", h |-> None, version |-> 0,
                pass |-> pass, item |-> None, text |-> backup, consent |-> None]
  BY DEF Unlock, Idle
<1>2. op' \in Op
  BY <1>1 DEF HInv, TypeOK, Op
<1>4. Begun
  BY <1>1, <1>2 DEF Begun, screen
<1>5. /\ TypeOK' /\ Page' /\ Visiting' /\ ConsentKept'
      /\ NothingLeftOpen' /\ HolderHasBackup' /\ PresentationMatches'
  BY <1>1, <1>4, BegunKeeps
<1>6. WithHolder' /\ Creating' /\ Unlocking' /\ Importing' /\ Enrolling' /\ Proving'
  BY <1>1 DEF WithHolder, Creating, Unlocking, Importing, Enrolling, Proving, local
<1>. QED BY <1>2, <1>5, <1>6 DEF HInv

LEMMA EnrollKeeps ==
  ASSUME HInv, NEW pass \in Pass, Enroll(pass)
  PROVE  HInv'
<1>1. /\ Ready /\ UNCHANGED <<local, network, secrets, screen>>
      /\ shown # None /\ holder # None /\ offer # None /\ pass = backup.pass
      /\ op' = [do |-> "enroll", at |-> "trust", h |-> holder, version |-> 0,
                pass |-> pass, item |-> offer, text |-> None, consent |-> None]
  BY DEF Enroll, OpensBackup, Idle
<1>2. op' \in Op
  BY <1>1 DEF HInv, TypeOK, Op
<1>3. /\ holder \in Object /\ heap[holder] # None /\ ~ heap[holder].stray
      /\ backup # None /\ offer \in Credential
  BY <1>1 DEF HInv, Page, TypeOK
<1>4. Begun
  BY <1>1, <1>2 DEF Begun, screen
<1>5. /\ TypeOK' /\ Page' /\ Visiting' /\ ConsentKept'
      /\ NothingLeftOpen' /\ HolderHasBackup' /\ PresentationMatches'
  BY <1>1, <1>4, BegunKeeps
<1>6. WithHolder' /\ Creating' /\ Unlocking' /\ Importing' /\ Enrolling' /\ Proving'
  BY <1>1, <1>3 DEF WithHolder, Creating, Unlocking, Importing, Enrolling, Proving,
    local, secrets
<1>. QED BY <1>2, <1>5, <1>6 DEF HInv

(* A check and a proof begin alike; a proof takes the consent with it.     *)
LEMMA AskKeeps ==
  ASSUME HInv, NEW c \in Credential, Check(c) \/ Prove(c)
  PROVE  HInv'
<1>1. PICK what \in {"check", "prove"}, given \in {consent, None} :
      /\ Ready /\ UNCHANGED <<local, network, secrets, shown, pending>>
      /\ shown # None /\ holder # None /\ c \in shown
      /\ op' = [do |-> what, at |-> "ask", h |-> holder, version |-> 0,
                pass |-> None, item |-> c, text |-> None, consent |-> given]
      /\ given # None => consent' = None
      /\ consent' \in {consent, None} /\ presentation' \in {presentation, None}
  BY DEF Check, Prove, Idle, screen
<1>2. op' \in Op
  BY <1>1 DEF HInv, TypeOK, Op
<1>3. /\ holder \in Object /\ heap[holder] # None /\ ~ heap[holder].stray
      /\ backup # None /\ c \in backup.creds
  BY <1>1 DEF HInv, Page, TypeOK
<1>4. Begun
  BY <1>1, <1>2 DEF Begun
<1>5. /\ TypeOK' /\ Page' /\ Visiting' /\ ConsentKept'
      /\ NothingLeftOpen' /\ HolderHasBackup' /\ PresentationMatches'
  BY <1>1, <1>4, BegunKeeps
<1>6. WithHolder' /\ Creating' /\ Unlocking' /\ Importing' /\ Enrolling' /\ Proving'
  BY <1>1, <1>3 DEF WithHolder, Creating, Unlocking, Importing, Enrolling, Proving,
    local, secrets
<1>. QED BY <1>2, <1>5, <1>6 DEF HInv

(* What lock() and leaving the page do to the objects: the page's holder   *)
(* is locked, so whatever is still open is being created.                  *)
LEMMA LockKeeps ==
  ASSUME HInv, LockPage \/ Unmount
  PROVE  /\ heap' \in [Object -> Holder \cup {None}]
         /\ \A o \in Object : heap'[o] # heap[o] => o = holder /\ heap'[o] # None
         /\ \A o \in Object : Open(o)' =>
              /\ heap'[o] = heap[o]
              /\ (op.do = "create" /\ op.h = o) \/ heap[o].stray
         /\ holder' = None /\ selection' \in 0..MaxLocks /\ selection' = selection + 1
<1>1. heap' = LockObject(holder) /\ holder' = None /\ selection' \in 0..MaxLocks
      /\ selection' = selection + 1
  BY HolderAssumption DEF LockPage, Unmount, HInv, TypeOK
<1>2. /\ heap' \in [Object -> Holder \cup {None}]
      /\ \A i \in Object \ {holder} : heap'[i] = heap[i]
      /\ holder # None => heap'[holder] = LockedHolder(heap[holder]) /\ heap'[holder] # None
  BY <1>1, Locking DEF HInv, TypeOK, Page
<1>3. holder # None => ~ heap'[holder].open
  BY <1>2 DEF LockedHolder, HInv, TypeOK, Holder, Page
<1>4. ASSUME NEW o \in Object, Open(o)'
      PROVE  heap'[o] = heap[o] /\ ((op.do = "create" /\ op.h = o) \/ heap[o].stray)
  <2>1. o # holder
    BY <1>3, <1>4 DEF Open
  <2>2. heap'[o] = heap[o]
    BY <1>2, <2>1
  <2>. QED BY <1>4, <2>1, <2>2 DEF HInv, NothingLeftOpen, Open
<1>. QED BY <1>1, <1>2, <1>4, NoneAssumption

(* The timer and leaving the page strike while an action is in progress.   *)
LEMMA StrikeKeeps ==
  ASSUME HInv, IdleLock \/ Unmount
  PROVE  HInv'
<1>. USE HolderAssumption, NoneAssumption DEF HInv
<1>1. /\ heap' \in [Object -> Holder \cup {None}]
      /\ \A o \in Object : heap'[o] # heap[o] => o = holder /\ heap'[o] # None
      /\ \A o \in Object : Open(o)' =>
           /\ heap'[o] = heap[o]
           /\ (op.do = "create" /\ op.h = o) \/ heap[o].stray
      /\ holder' = None /\ selection' \in 0..MaxLocks /\ selection' = selection + 1
  BY LockKeeps DEF IdleLock
<1>2. /\ UNCHANGED <<local, network, op>>
      /\ visit' \in {"here", "left", "abandoned"}
      /\ visit' = "left" => ~ At("unlock", "load")
      /\ shown' \in {shown, None} /\ pending' \in {pending, None}
      /\ presentation' \in {presentation, None} /\ consent' \in {consent, None}
  BY DEF IdleLock, LockPage, Unmount, screen, TypeOK
<1>3. op.do = "create" => holder = None
  BY DEF Creating
<1>4. \A o \in Object : heap[o] # None => /\ heap'[o] # None
                                         /\ heap'[o].key = heap[o].key
                                         /\ heap'[o].creds \subseteq heap[o].creds
                                         /\ heap'[o].stray = heap[o].stray
  <2>. SUFFICES ASSUME holder # None
       PROVE  /\ heap'[holder].key = heap[holder].key
              /\ heap'[holder].creds \subseteq heap[holder].creds
              /\ heap'[holder].stray = heap[holder].stray
    BY <1>1 DEF TypeOK
  <2>1. holder \in Object /\ heap[holder] \in Holder
    BY DEF TypeOK, Page
  <2>2. heap'[holder] = LockedHolder(heap[holder])
    BY Locking DEF IdleLock, LockPage, Unmount, TypeOK, Page
  <2>. QED BY <2>1, <2>2 DEF Holder, LockedHolder
<1>5. TypeOK' /\ op' \in Op
  BY <1>1, <1>2 DEF TypeOK, local, network
<1>6. Page' /\ HolderHasBackup' /\ PresentationMatches'
  BY <1>1, <1>2 DEF Page, HolderHasBackup, PresentationMatches, local, network
<1>7. ConsentKept'
  BY <1>2 DEF ConsentKept, ConsentsLeft, TypeOK, network
<1>8. WithHolder' /\ Unlocking' /\ Importing' /\ Proving'
  BY <1>1, <1>2, <1>4 DEF WithHolder, Unlocking, Importing, Proving, local, Op
<1>9. Creating'
  BY <1>1, <1>2, <1>3 DEF Creating, local
<1>10. Enrolling'
  BY <1>1, <1>2, <1>4 DEF Enrolling, WithHolder, local
<1>11. NothingLeftOpen'
  BY <1>1, <1>2 DEF NothingLeftOpen
<1>12. Visiting'
  <2>1. op.version \in Nat /\ selection \in Nat /\ op.version <= selection
    BY DEF Visiting, TypeOK, Op
  <2>. QED BY <1>1, <1>2, <2>1 DEF Visiting, At
<1>. QED BY <1>12, <1>5, <1>6, <1>7, <1>8, <1>9, <1>10, <1>11

(* Locking between two actions: the button, removal and import.            *)
LEMMA EndLockKeeps ==
  ASSUME HInv, LockButton \/ Remove \/ \E file \in files \cup {None} : Import(file)
  PROVE  HInv'
<1>. USE HolderAssumption, NoneAssumption DEF HInv
<1>1. /\ heap' \in [Object -> Holder \cup {None}]
      /\ \A o \in Object : heap'[o] # heap[o] => o = holder /\ heap'[o] # None
      /\ \A o \in Object : Open(o)' =>
           /\ heap'[o] = heap[o]
           /\ (op.do = "create" /\ op.h = o) \/ heap[o].stray
      /\ holder' = None /\ selection' \in 0..MaxLocks /\ selection' = selection + 1
  BY LockKeeps DEF LockButton, Remove, Import
<1>2. /\ op = Idle
      /\ UNCHANGED <<files, network, visit>>
      /\ shown' = None /\ pending' = None /\ presentation' = None /\ consent' = None
      /\ backup' \in {backup, None} /\ offer' \in {offer, None}
  BY DEF LockButton, Remove, Import, Ready, LockPage, local
<1>3. PICK file \in Backup \cup {None} :
        op' \in {Idle, [do |-> "import", at |-> "read", h |-> None,
          version |-> selection',
                        pass |-> None, item |-> None, text |-> file,
                          consent |-> None]}
  <2>1. CASE LockButton \/ Remove
    BY <1>2, <2>1 DEF LockButton, Remove
  <2>2. ASSUME NEW file \in files \cup {None}, Import(file)
        PROVE  op' = [do |-> "import", at |-> "read", h |-> None,
          version |-> selection',
                      pass |-> None, item |-> None, text |-> file, consent |-> None]
    BY <2>2 DEF Import, Idle
  <2>. QED BY <2>1, <2>2 DEF TypeOK
<1>4. op' \in Op
  BY <1>1, <1>3 DEF Op, Idle
<1>5. TypeOK'
  BY <1>1, <1>2, <1>4 DEF TypeOK, Op, network
<1>6. Page' /\ HolderHasBackup' /\ PresentationMatches'
  BY <1>1, <1>2 DEF Page, HolderHasBackup, PresentationMatches
<1>7. ConsentKept'
  BY <1>2, <1>3 DEF ConsentKept, ConsentsLeft, TypeOK, network, Idle
<1>8. NothingLeftOpen'
  BY <1>1, <1>2 DEF NothingLeftOpen, Idle
<1>9. WithHolder' /\ Creating' /\ Unlocking' /\ Importing' /\ Enrolling' /\ Proving'
  BY <1>1, <1>2, <1>3 DEF WithHolder, Creating, Unlocking, Importing, Enrolling,
    Proving, Idle
<1>10. Visiting'
  BY <1>1, <1>2, <1>3 DEF Visiting, Idle, TypeOK
<1>. QED BY <1>10, <1>4, <1>5, <1>6, <1>7, <1>8, <1>9

(* The further steps of the actions.                                       *)
LEMMA ImportReadKeeps ==
  ASSUME HInv, ImportRead
  PROVE  HInv'
<1>. USE HolderAssumption, NoneAssumption DEF HInv
<1>1. /\ op.do = "import" /\ op' = Idle /\ backup' \in {backup, op.text}
      /\ UNCHANGED <<files, offer, network, secrets, screen>>
      /\ holder = None /\ shown = None /\ presentation = None
  BY DEF ImportRead, At, End, Importing
<1>2. op' \in Op /\ TypeOK'
  BY <1>1 DEF TypeOK, Op, Idle, network, secrets, screen
<1>3. ConsentKept'
  BY <1>1 DEF ConsentKept, ConsentsLeft, Idle, network, screen
<1>4. NothingLeftOpen'
  BY <1>1 DEF NothingLeftOpen, Open, secrets
<1>5. Visiting'
  BY <1>1 DEF Visiting, Idle, TypeOK, secrets
<1>. QED BY <1>5, <1>1, <1>2, <1>3, <1>4 DEF Page, HolderHasBackup, PresentationMatches,
     secrets, screen,
   WithHolder, Creating, Unlocking, Importing, Enrolling, Proving, Idle

LEMMA CreateLoadedKeeps ==
  ASSUME HInv, CreateLoaded
  PROVE  HInv'
<1>. USE HolderAssumption, NoneAssumption DEF HInv
<1>1. PICK o \in Object, k \in Key :
        /\ heap[o] = None
        /\ heap' = [heap EXCEPT ![o] = NewHolder(k, {})]
        /\ op' = [op EXCEPT !.at = "encrypt", !.h = o,
                            !.text = [key |-> k, pass |-> op.pass, creds |-> {}]]
  BY DEF CreateLoaded, Fresh
<1>2. /\ op.do = "create" /\ op.pass \in Pass /\ op.at = "load"
      /\ holder = None /\ shown = None /\ backup = None /\ op.h = None
      /\ UNCHANGED <<local, network, holder, selection, visit, screen>>
  BY DEF CreateLoaded, At, Creating
<1>3. NewHolder(k, {}) \in Holder /\ [key |-> k, pass |-> op.pass,
     creds |-> {}] \in Backup
  BY <1>2 DEF NewHolder, Holder, Backup
<1>4. /\ op'.do = "create" /\ op'.at = "encrypt" /\ op'.h = o /\ op'.pass = op.pass
      /\ op'.text = [key |-> k, pass |-> op.pass, creds |-> {}]
      /\ op' \in Op
  BY <1>1, <1>2, <1>3 DEF Op
<1>5. heap' \in [Object -> Holder \cup {None}] /\ heap'[o] = NewHolder(k,
     {}) /\ heap'[o] # None
  BY <1>1, <1>3 DEF TypeOK
<1>6. TypeOK'
  BY <1>2, <1>4, <1>5 DEF TypeOK, local, network, screen
<1>7. Page' /\ HolderHasBackup' /\ PresentationMatches'
  BY <1>2 DEF Page, HolderHasBackup, PresentationMatches, local, network, screen
<1>8. ConsentKept'
  BY <1>2, <1>4 DEF ConsentKept, ConsentsLeft, network, screen
<1>9. NothingLeftOpen'
  BY <1>1, <1>2, <1>4 DEF NothingLeftOpen, Open, TypeOK
<1>10. Creating'
  <2>1. op'.text # None /\ op'.text.key = k /\ op'.text.creds = {}
    BY <1>3, <1>4
  <2>2. heap'[o].key = k /\ heap'[o].creds = {} /\ ~ heap'[o].stray
    BY <1>5 DEF NewHolder
  <2>. QED BY <1>2, <1>4, <1>5, <2>1, <2>2 DEF Creating, local, screen
<1>11. WithHolder' /\ Unlocking' /\ Importing' /\ Enrolling' /\ Proving'
  BY <1>4 DEF WithHolder, Unlocking, Importing, Enrolling, Proving
<1>12. Visiting'
  BY <1>1, <1>2, <1>4 DEF Visiting, Op
<1>. QED BY <1>12, <1>4, <1>6, <1>7, <1>8, <1>9, <1>10, <1>11

LEMMA CreatedKeeps ==
  ASSUME HInv, Created
  PROVE  HInv'
<1>. USE HolderAssumption, NoneAssumption DEF HInv
<1>1. /\ op.do = "create" /\ op.at = "encrypt" /\ op' = Idle
      /\ holder = None /\ shown = None /\ backup = None
      /\ op.h \in Object /\ heap[op.h] \in Holder /\ heap[op.h].creds = {}
      /\ ~ heap[op.h].stray /\ (op.version = selection => visit # "left")
      /\ op.text \in Backup /\ op.text.key = heap[op.h].key /\ op.text.creds = {}
      /\ UNCHANGED <<files, offer, network, selection, visit, pending,
        presentation, consent>>
  BY DEF Created, At, End, Creating, Visiting, TypeOK, Op
<1>2. /\ heap' \in [Object -> Holder \cup {None}]
      /\ \A i \in Object \ {op.h} : heap'[i] = heap[i]
      /\ \/ heap' = heap /\ holder' = op.h /\ backup' = op.text /\ shown' = {}
            /\ visit # "left"
         \/ /\ heap'[op.h] # None /\ ~ heap'[op.h].open
            /\ UNCHANGED <<holder, backup, shown>>
  <2>1. CASE op.version # selection
    <3>1. heap' = LockObject(op.h) /\ UNCHANGED <<holder, backup, shown>>
      BY <2>1 DEF Created
    <3>2. ~ LockedHolder(heap[op.h]).open
      BY <1>1 DEF LockedHolder, Holder
    <3>. QED BY <1>1, <3>1, <3>2, Locking DEF TypeOK
  <2>2. CASE op.version = selection
    BY <1>1, <2>2 DEF Created, TypeOK
  <2>. QED BY <2>1, <2>2
<1>3. op' \in Op /\ TypeOK'
  BY <1>1, <1>2 DEF TypeOK, Op, Idle, network
<1>4. ConsentKept'
  BY <1>1 DEF ConsentKept, ConsentsLeft, Idle, network
<1>5. Page' /\ HolderHasBackup' /\ PresentationMatches'
  BY <1>1, <1>2 DEF Page, HolderHasBackup, PresentationMatches, network
<1>6. NothingLeftOpen'
  BY <1>1, <1>2 DEF NothingLeftOpen, Open
<1>7. WithHolder' /\ Creating' /\ Unlocking' /\ Importing' /\ Enrolling' /\ Proving'
  BY <1>1 DEF WithHolder, Creating, Unlocking, Importing, Enrolling, Proving, Idle
<1>8. Visiting'
  BY <1>1, <1>2 DEF Visiting, Idle, TypeOK
<1>. QED BY <1>8, <1>3, <1>4, <1>5, <1>6, <1>7

LEMMA UnlockLoadedKeeps ==
  ASSUME HInv, UnlockLoaded
  PROVE  HInv'
<1>. USE HolderAssumption, NoneAssumption DEF HInv
<1>1. /\ op.do = "unlock" /\ op.at = "load" /\ selection \in Nat
      /\ op' = [op EXCEPT !.at = "restore", !.version = selection]
      /\ UNCHANGED <<local, network, secrets, screen>>
  BY DEF UnlockLoaded, At, TypeOK
<1>2. op' \in Op
  BY <1>1 DEF Op
<1>3. op'.do = "unlock" /\ op'.text = op.text /\ op'.version = selection
  BY <1>1 DEF Op
<1>4. TypeOK'
  BY <1>1, <1>2 DEF TypeOK, Op, local, network, secrets, screen
<1>5. ConsentKept'
  BY <1>1, <1>3 DEF ConsentKept, ConsentsLeft, network, screen
<1>6. Page' /\ HolderHasBackup' /\ PresentationMatches' /\ NothingLeftOpen'
  BY <1>1 DEF Page, HolderHasBackup, PresentationMatches, NothingLeftOpen, Open,
    local, network, secrets, screen
<1>7. WithHolder' /\ Creating' /\ Unlocking' /\ Importing' /\ Enrolling' /\ Proving'
  BY <1>1, <1>3 DEF WithHolder, Creating, Unlocking, Importing, Enrolling, Proving,
    local
<1>8. Visiting'
  BY <1>1, <1>3 DEF Visiting, Op, TypeOK, secrets
<1>. QED BY <1>8, <1>2, <1>4, <1>5, <1>6, <1>7

LEMMA UnlockedKeeps ==
  ASSUME HInv, Unlocked
  PROVE  HInv'
<1>. USE HolderAssumption, NoneAssumption DEF HInv
<1>1. /\ op.do = "unlock" /\ op' = Idle
      /\ op.text = backup /\ backup \in Backup
      /\ op.version = selection => visit # "left"
      /\ UNCHANGED <<local, network, selection, visit, pending, presentation,
        consent>>
  BY DEF Unlocked, At, End, Unlocking, Visiting, TypeOK
<1>2. PICK o \in Object :
       /\ heap[o] = None
       /\ LET h == NewHolder(backup.key, backup.creds) IN
          \/ /\ heap' = [heap EXCEPT ![o] = LockedHolder(h)]
             /\ UNCHANGED <<holder, shown>>
          \/ /\ heap' = [LockObject(holder) EXCEPT ![o] = h]
             /\ holder' = o /\ shown' = h.creds /\ visit # "left"
  BY <1>1 DEF Unlocked, Fresh
<1>. DEFINE h == NewHolder(backup.key, backup.creds)
<1>3. /\ h \in Holder /\ LockedHolder(h) \in Holder /\ ~ LockedHolder(h).open
      /\ h.key = backup.key /\ h.creds = backup.creds /\ ~ h.stray
  BY <1>1 DEF NewHolder, Holder, Backup, LockedHolder
<1>. HIDE DEF h
<1>4. o # holder
  BY <1>2 DEF Page
<1>5. /\ LockObject(holder) \in [Object -> Holder \cup {None}]
      /\ \A i \in Object \ {holder} : LockObject(holder)[i] = heap[i]
      /\ holder # None => ~ LockObject(holder)[holder].open
  <2>1. holder # None => ~ LockedHolder(heap[holder]).open
    BY DEF TypeOK, Page, LockedHolder, Holder
  <2>. QED BY <2>1, Locking DEF TypeOK, Page
<1>6. /\ heap' \in [Object -> Holder \cup {None}]
      /\ \/ /\ UNCHANGED <<holder, shown>>
            /\ \A i \in Object \ {o} : heap'[i] = heap[i]
            /\ heap'[o] = LockedHolder(h)
         \/ /\ holder' = o /\ shown' = backup.creds /\ visit # "left"
            /\ heap'[o] = h
            /\ \A i \in Object \ {o} : Open(i)' => i # holder /\ heap'[i] = heap[i]
  <2>1. CASE /\ heap' = [heap EXCEPT ![o] = LockedHolder(h)]
             /\ UNCHANGED <<holder, shown>>
    BY <1>3, <2>1 DEF TypeOK
  <2>2. CASE /\ heap' = [LockObject(holder) EXCEPT ![o] = h]
             /\ holder' = o /\ shown' = h.creds /\ visit # "left"
    BY <1>3, <1>5, <2>2 DEF Open
  <2>. QED BY <1>2, <2>1, <2>2 DEF h
<1>7. op' \in Op /\ TypeOK'
  BY <1>1, <1>6 DEF TypeOK, Op, Idle, local, network, Backup
<1>8. ConsentKept'
  BY <1>1 DEF ConsentKept, ConsentsLeft, Idle, network
<1>9. Page' /\ HolderHasBackup'
  <2>1. CASE UNCHANGED <<holder, shown>>
    BY <1>1, <1>3, <1>4, <1>6, <2>1 DEF Page, HolderHasBackup, local, TypeOK
  <2>2. CASE holder' = o /\ shown' = backup.creds /\ heap'[o] = h
    BY <1>1, <1>3, <2>2 DEF Page, HolderHasBackup, local, Backup
  <2>. QED BY <1>6, <2>1, <2>2
<1>12. PresentationMatches'
  BY <1>1 DEF PresentationMatches, local, network
<1>10. NothingLeftOpen'
  BY <1>1, <1>3, <1>6 DEF NothingLeftOpen, Open
<1>11. WithHolder' /\ Creating' /\ Unlocking' /\ Importing' /\ Enrolling' /\ Proving'
  BY <1>1 DEF WithHolder, Creating, Unlocking, Importing, Enrolling, Proving, Idle
<1>14. Visiting'
  BY <1>1, <1>6 DEF Visiting, Idle, TypeOK
<1>. QED BY <1>14, <1>7, <1>8, <1>9, <1>10, <1>11, <1>12

(* The Holder a restore leaves behind is stray; the others are as before.  *)
LEMMA RestoreThrowsKeeps ==
  ASSUME HInv, RestoreThrows
  PROVE  HInv'
<1>. USE HolderAssumption, NoneAssumption DEF HInv
<1>1. /\ op.do = "unlock" /\ op' = Idle /\ op.text \in Backup
      /\ UNCHANGED <<local, network, holder, selection, visit, screen>>
  BY DEF RestoreThrows, At, End, Unlocking, TypeOK
<1>2. PICK o \in Object :
        /\ heap[o] = None
        /\ heap' = [heap EXCEPT ![o] = [NewHolder(op.text.key, {}) EXCEPT !.stray = TRUE]]
  BY DEF RestoreThrows, Fresh
<1>. DEFINE h == [NewHolder(op.text.key, {}) EXCEPT !.stray = TRUE]
<1>3. h \in Holder /\ h.stray
  BY <1>1 DEF NewHolder, Holder, Backup
<1>. HIDE DEF h
<1>4. /\ heap' \in [Object -> Holder \cup {None}]
      /\ heap'[o].stray
      /\ \A i \in Object \ {o} : heap'[i] = heap[i]
      /\ holder # None => heap'[holder] = heap[holder]
  <2>1. heap' = [heap EXCEPT ![o] = h]
    BY <1>2 DEF h
  <2>2. o # holder
    BY <1>2 DEF Page
  <2>. QED BY <1>3, <2>1, <2>2 DEF TypeOK
<1>5. op' \in Op /\ TypeOK'
  BY <1>1, <1>4 DEF TypeOK, Op, Idle, local, network, screen
<1>6. ConsentKept'
  BY <1>1 DEF ConsentKept, ConsentsLeft, Idle, network, screen
<1>7. Page' /\ HolderHasBackup' /\ PresentationMatches'
  BY <1>1, <1>4 DEF Page, HolderHasBackup, PresentationMatches, local, network,
    screen
<1>8. NothingLeftOpen'
  BY <1>1, <1>4 DEF NothingLeftOpen, Open
<1>9. WithHolder' /\ Creating' /\ Unlocking' /\ Importing' /\ Enrolling' /\ Proving'
  BY <1>1 DEF WithHolder, Creating, Unlocking, Importing, Enrolling, Proving, Idle
<1>10. Visiting'
  BY <1>1 DEF Visiting, Idle, TypeOK
<1>. QED BY <1>5, <1>6, <1>7, <1>8, <1>9, <1>10

LEMMA RequestKeeps ==
  ASSUME HInv, Request
  PROVE  HInv'
<1>. USE HolderAssumption, NoneAssumption DEF HInv
<1>1. /\ op.do = "enroll" /\ op.at = "trust" /\ op' = [op EXCEPT !.at = "issue"]
      /\ UNCHANGED <<local, network, secrets, screen>>
  BY DEF Request, At, Goto
<1>2. /\ op' \in Op /\ op'.do = "enroll" /\ op'.at = "issue"
      /\ op'.h = op.h /\ op'.item = op.item /\ op'.pass = op.pass
  BY <1>1 DEF Op
<1>3. TypeOK'
  BY <1>1, <1>2 DEF TypeOK, Op, local, network, secrets, screen
<1>4. ConsentKept'
  BY <1>1, <1>2 DEF ConsentKept, ConsentsLeft, network, screen
<1>5. Page' /\ HolderHasBackup' /\ PresentationMatches'
  BY <1>1 DEF Page, HolderHasBackup, PresentationMatches, local, network, secrets,
    screen
<1>6. NothingLeftOpen'
  BY <1>1, <1>2 DEF NothingLeftOpen, Open, secrets
<1>7. WithHolder' /\ Creating' /\ Unlocking' /\ Importing' /\ Enrolling' /\ Proving'
  BY <1>1, <1>2 DEF WithHolder, Creating, Unlocking, Importing, Enrolling, Proving,
    local, secrets
<1>8. Visiting'
  BY <1>1, <1>2 DEF Visiting, Op, TypeOK, secrets
<1>. QED BY <1>8, <1>2, <1>3, <1>4, <1>5, <1>6, <1>7

(* The issuer answers a holder that may have been locked in the meantime.  *)
(* Only a holder still open encrypts a new backup: it is then the page's   *)
(* holder, whose backup has no credential it lacks.                        *)
LEMMA IssueKeeps ==
  ASSUME HInv, Issue
  PROVE  HInv'
<1>. USE HolderAssumption, NoneAssumption DEF HInv
<1>. DEFINE creds == heap[op.h].creds \cup {op.item}
            text == [key |-> heap[op.h].key, pass |-> op.pass, creds |-> creds]
<1>1. /\ op.do = "enroll" /\ op.at = "issue"
      /\ op.h \in Object /\ op.item \in Credential /\ heap[op.h] \in Holder
      /\ ~ heap[op.h].stray /\ holder \in {None, op.h} /\ backup \in Backup
      /\ op.pass = backup.pass
      /\ UNCHANGED <<backup, files, offer, network, holder, selection, visit,
        screen>>
  BY DEF Issue, At, WithHolder, Enrolling, TypeOK
<1>2. creds \in SUBSET Credential /\ text \in Backup
  BY <1>1 DEF Holder, Backup
<1>3. \/ heap' = heap /\ op' = Idle
      \/ /\ heap' = [heap EXCEPT ![op.h] = [@ EXCEPT !.creds = creds]]
         /\ op' = Idle \/ (Open(op.h) /\ op' = [op EXCEPT !.at = "encrypt",
           !.text = text])
  BY DEF Issue, End
<1>. HIDE DEF creds, text
<1>4. /\ heap' \in [Object -> Holder \cup {None}]
      /\ \A i \in Object \ {op.h} : heap'[i] = heap[i]
      /\ heap'[op.h] \in Holder /\ heap'[op.h].key = heap[op.h].key
      /\ heap'[op.h].open = heap[op.h].open /\ heap'[op.h].stray = heap[op.h].stray
      /\ heap[op.h].creds \subseteq heap'[op.h].creds
      /\ heap' # heap => heap'[op.h].creds = creds
  <2>1. CASE heap' = heap
    BY <1>1, <2>1 DEF TypeOK
  <2>2. CASE heap' = [heap EXCEPT ![op.h] = [@ EXCEPT !.creds = creds]]
    <3>1. /\ [heap[op.h] EXCEPT !.creds = creds] \in Holder
          /\ [heap[op.h] EXCEPT !.creds = creds].key = heap[op.h].key
          /\ [heap[op.h] EXCEPT !.creds = creds].open = heap[op.h].open
          /\ [heap[op.h] EXCEPT !.creds = creds].stray = heap[op.h].stray
          /\ [heap[op.h] EXCEPT !.creds = creds].creds = creds
      BY <1>1, <1>2 DEF Holder
    <3>. QED BY <1>1, <2>2, <3>1 DEF TypeOK, creds
  <2>. QED BY <1>3, <2>1, <2>2
<1>5. \/ op' = Idle
      \/ /\ op'.do = "enroll" /\ op'.at = "encrypt"
         /\ op'.version = op.version /\ op'.h = op.h /\ op'.item = op.item /\ op'.pass = op.pass
         /\ op'.text = text /\ op' \in Op
         /\ Open(op.h) /\ heap'[op.h].creds = creds
  <2>1. CASE op' = Idle
    BY <2>1
  <2>2. CASE /\ heap' = [heap EXCEPT ![op.h] = [@ EXCEPT !.creds = creds]]
             /\ Open(op.h) /\ op' = [op EXCEPT !.at = "encrypt", !.text = text]
    <3>1. heap'[op.h].creds = creds
      BY <1>1, <2>2 DEF TypeOK, Holder
    <3>. QED BY <1>1, <1>2, <2>2, <3>1 DEF Op
  <2>. QED BY <1>3, <2>1, <2>2
<1>6. op' \in Op /\ TypeOK'
  BY <1>1, <1>4, <1>5 DEF TypeOK, Op, Idle, network, screen
<1>7. Page' /\ HolderHasBackup' /\ PresentationMatches'
  BY <1>1, <1>4 DEF Page, HolderHasBackup, PresentationMatches, network, screen
<1>8. ConsentKept'
  BY <1>1, <1>5 DEF ConsentKept, ConsentsLeft, Idle, network, screen
<1>9. NothingLeftOpen'
  BY <1>1, <1>4 DEF NothingLeftOpen, Open
<1>10. WithHolder' /\ Creating' /\ Unlocking' /\ Importing' /\ Proving'
  BY <1>1, <1>4, <1>5 DEF WithHolder, Creating, Unlocking, Importing, Proving,
    Idle, Backup
<1>11. Enrolling'
  <2>1. CASE op' = Idle
    BY <2>1 DEF Enrolling, Idle
  <2>2. CASE /\ op'.do = "enroll" /\ op'.at = "encrypt" /\ op'.h = op.h /\ op'.pass = op.pass
             /\ op'.text = text
             /\ Open(op.h) /\ heap'[op.h].creds = creds
    <3>1. text.key = heap[op.h].key /\ text.pass = backup.pass /\ text.creds = creds
      BY <1>1 DEF text
    <3>2. op.h = holder
      BY <1>1, <2>2 DEF NothingLeftOpen
    <3>3. backup.key = heap[op.h].key /\ backup.creds \subseteq creds
      BY <1>1, <3>2 DEF HolderHasBackup, creds
    <3>. QED BY <1>1, <1>2, <1>4, <2>2, <3>1, <3>3 DEF Enrolling
  <2>. QED BY <1>5, <2>1, <2>2
<1>12. Visiting'
  BY <1>1, <1>5 DEF Visiting, Idle, TypeOK
<1>. QED BY <1>12, <1>6, <1>7, <1>8, <1>9, <1>10, <1>11

(* The new backup takes the place of the one it was made from.             *)
LEMMA EnrolledKeeps ==
  ASSUME HInv, Enrolled
  PROVE  HInv'
<1>. USE HolderAssumption, NoneAssumption DEF HInv
<1>1. /\ op.do = "enroll" /\ op.at = "encrypt" /\ op' = Idle
      /\ op.h \in Object /\ heap[op.h] \in Holder /\ holder \in {None, op.h} /\ ~ heap[op.h].stray
      /\ backup \in Backup /\ op.text \in Backup
      /\ backup' = op.text /\ shown' = heap[op.h].creds /\ offer' = None /\ pending' = None
      /\ UNCHANGED <<files, network, secrets, presentation, consent>>
      /\ backup.creds \subseteq op.text.creds
      /\ op.text.key = heap[op.h].key
      /\ heap[op.h].creds \subseteq op.text.creds
      /\ holder = op.h => op.text.creds = heap[op.h].creds
  BY DEF Enrolled, At, End, Enrolling, WithHolder, TypeOK, Op
<1>2. op' \in Op /\ TypeOK'
  BY <1>1 DEF TypeOK, Op, Idle, network, secrets, Holder
<1>3. ConsentKept'
  BY <1>1 DEF ConsentKept, ConsentsLeft, Idle, network
<1>4. Page' /\ HolderHasBackup'
  BY <1>1 DEF Page, HolderHasBackup, secrets, Holder
<1>5. PresentationMatches'
  BY <1>1 DEF PresentationMatches, network
<1>6. NothingLeftOpen'
  BY <1>1 DEF NothingLeftOpen, Open, secrets
<1>7. WithHolder' /\ Creating' /\ Unlocking' /\ Importing' /\ Enrolling' /\ Proving'
  BY <1>1 DEF WithHolder, Creating, Unlocking, Importing, Enrolling, Proving, Idle
<1>8. Visiting'
  BY <1>1 DEF Visiting, Idle, TypeOK, secrets
<1>. QED BY <1>8, <1>2, <1>3, <1>4, <1>5, <1>6, <1>7

(* An action that ends with the page as it was, but for what it shows.     *)
LEMMA EndKeeps ==
  ASSUME HInv, Checked \/ Proved
  PROVE  HInv'
<1>. USE HolderAssumption, NoneAssumption DEF HInv
<1>1. /\ op.do \in {"check", "prove"} /\ op.item \in Credential /\ op' = Idle
      /\ op.do = "prove" => op.item \in backup.creds /\ backup # None
      /\ UNCHANGED <<local, network, secrets, shown>>
      /\ pending' \in {pending, op.item} /\ consent' \in {consent, None}
      /\ \/ presentation' = presentation
         \/ op.do = "prove" /\ presentation' = [item |-> op.item, policy |-> policy]
  BY DEF Checked, Proved, At, End, WithHolder, Proving
<1>2. op' \in Op /\ TypeOK'
  BY <1>1 DEF TypeOK, Op, Idle, local, network, secrets
<1>3. ConsentKept'
  <2>. SUFFICES ASSUME NEW r \in Remote
                PROVE  sends'[r] + ConsentsLeft(r)' <= ticks'[r]
    BY DEF ConsentKept
  <2>1. sends[r] \in Nat /\ ticks[r] \in Nat
    BY DEF TypeOK
  <2>2. ConsentsLeft(r)' = (IF consent' = r THEN 1 ELSE 0)
    BY <1>1 DEF ConsentsLeft, Idle
  <2>3. ConsentsLeft(r)' <= ConsentsLeft(r) /\ ConsentsLeft(r)' \in Nat /\ ConsentsLeft(r) \in Nat
    BY <1>1, <2>2 DEF ConsentsLeft
  <2>. QED BY <1>1, <2>1, <2>3 DEF ConsentKept, network
<1>4. Page' /\ HolderHasBackup'
  BY <1>1 DEF Page, HolderHasBackup, local, secrets
<1>5. PresentationMatches'
  BY <1>1 DEF PresentationMatches, local, network
<1>6. NothingLeftOpen'
  BY <1>1 DEF NothingLeftOpen, Open, secrets
<1>7. WithHolder' /\ Creating' /\ Unlocking' /\ Importing' /\ Enrolling' /\ Proving'
  BY <1>1 DEF WithHolder, Creating, Unlocking, Importing, Enrolling, Proving, Idle
<1>8. Visiting'
  BY <1>1 DEF Visiting, Idle, TypeOK, secrets
<1>. QED BY <1>8, <1>2, <1>3, <1>4, <1>5, <1>6, <1>7

(* The consent a proof carries is used up by the one send to the prover.   *)
LEMMA PresentKeeps ==
  ASSUME HInv, Present
  PROVE  HInv'
<1>. USE HolderAssumption, NoneAssumption DEF HInv
<1>1. /\ op.do = "prove" /\ op.at = "ask" /\ op' = [op EXCEPT !.at = "proving"]
      /\ config \in Remote => op.consent = config
      /\ sends' = [r \in Remote |-> IF r = config THEN sends[r] + 1 ELSE sends[r]]
      /\ UNCHANGED <<local, policy, config, wallet, ticks, secrets, screen>>
  BY DEF Present, At, Goto, Allowed
<1>2. /\ op' \in Op /\ op'.do = "prove" /\ op'.at = "proving"
      /\ op'.h = op.h /\ op'.item = op.item
  BY <1>1 DEF Op
<1>3. ASSUME NEW r \in Remote
      PROVE  sends'[r] + ConsentsLeft(r)' <= ticks[r] /\ sends'[r] \in 0..MaxTicks
  <2>1. sends[r] \in Nat /\ ticks[r] \in 0..MaxTicks /\ sends[r] + ConsentsLeft(r) <= ticks[r]
    BY DEF TypeOK, ConsentKept
  <2>2. ConsentsLeft(r)' = (IF consent = r THEN 1 ELSE 0)
    BY <1>1, <1>2 DEF ConsentsLeft, screen
  <2>3. ConsentsLeft(r) = (IF consent = r THEN 1 ELSE 0) + (IF op.consent = r THEN 1 ELSE 0)
    BY <1>1 DEF ConsentsLeft
  <2>4. sends'[r] = sends[r] + (IF r = config THEN 1 ELSE 0)
    BY <1>1, <2>1
  <2>5. r = config => op.consent = r
    BY <1>1
  <2>. QED BY <2>1, <2>2, <2>3, <2>4, <2>5
<1>4. ConsentKept'
  BY <1>1, <1>3 DEF ConsentKept
<1>5. TypeOK'
  BY <1>1, <1>2, <1>3 DEF TypeOK, Op, local, secrets, screen
<1>6. Page' /\ HolderHasBackup' /\ PresentationMatches'
  BY <1>1 DEF Page, HolderHasBackup, PresentationMatches, local, secrets, screen
<1>7. NothingLeftOpen'
  BY <1>1, <1>2 DEF NothingLeftOpen, Open, secrets
<1>8. WithHolder' /\ Creating' /\ Unlocking' /\ Importing' /\ Enrolling' /\ Proving'
  BY <1>1, <1>2 DEF WithHolder, Creating, Unlocking, Importing, Enrolling, Proving,
    local, secrets
<1>9. Visiting'
  BY <1>1, <1>2 DEF Visiting, Op, TypeOK, secrets
<1>. QED BY <1>9, <1>2, <1>4, <1>5, <1>6, <1>7, <1>8

(* An action that fails; a holder being created is locked.                 *)
LEMMA FailKeeps ==
  ASSUME HInv, Fail
  PROVE  HInv'
<1>. USE HolderAssumption, NoneAssumption DEF HInv
<1>1. op' = Idle /\ UNCHANGED <<local, network, holder, selection, visit, screen>>
  BY DEF Fail, End
<1>2. /\ heap' \in [Object -> Holder \cup {None}]
      /\ holder # None => heap'[holder] = heap[holder]
      /\ \A o \in Object : Open(o)' => heap'[o] = heap[o] /\ (o # holder \/ visit = "left" => heap[o].stray)
  <2>1. CASE At("create", "encrypt")
    <3>1. op.h \in Object /\ heap[op.h] \in Holder /\ holder = None
      BY <2>1 DEF At, Creating, TypeOK
    <3>2. ~ LockedHolder(heap[op.h]).open
      BY <3>1 DEF LockedHolder, Holder
    <3>3. heap' = LockObject(op.h)
      BY <2>1 DEF Fail
    <3>. QED BY <2>1, <3>1, <3>2, <3>3, Locking DEF At, NothingLeftOpen, Open,
         TypeOK
  <2>2. CASE ~ At("create", "encrypt")
    <3>1. heap' = heap
      BY <2>2 DEF Fail
    <3>2. op.do = "create" => op.h = None
      BY <2>2 DEF At, Creating
    <3>. QED BY <3>1, <3>2 DEF NothingLeftOpen, Open, TypeOK
  <2>. QED BY <2>1, <2>2
<1>3. op' \in Op /\ TypeOK'
  BY <1>1, <1>2 DEF TypeOK, Op, Idle, local, network, screen
<1>4. ConsentKept'
  <2>. SUFFICES ASSUME NEW r \in Remote
                PROVE  sends'[r] + ConsentsLeft(r)' <= ticks'[r]
    BY DEF ConsentKept
  <2>1. sends[r] \in Nat /\ ticks[r] \in Nat
    BY DEF TypeOK
  <2>2. ConsentsLeft(r)' = (IF consent = r THEN 1 ELSE 0)
    BY <1>1 DEF ConsentsLeft, Idle, screen
  <2>3. ConsentsLeft(r)' <= ConsentsLeft(r) /\ ConsentsLeft(r)' \in Nat /\ ConsentsLeft(r) \in Nat
    BY <2>2 DEF ConsentsLeft
  <2>. QED BY <1>1, <2>1, <2>3 DEF ConsentKept, network
<1>5. Page' /\ HolderHasBackup' /\ PresentationMatches'
  BY <1>1, <1>2 DEF Page, HolderHasBackup, PresentationMatches, local, network,
    screen
<1>6. NothingLeftOpen'
  BY <1>1, <1>2 DEF NothingLeftOpen
<1>7. WithHolder' /\ Creating' /\ Unlocking' /\ Importing' /\ Enrolling' /\ Proving'
  BY <1>1 DEF WithHolder, Creating, Unlocking, Importing, Enrolling, Proving, Idle
<1>8. Visiting'
  BY <1>1 DEF Visiting, Idle, TypeOK
<1>. QED BY <1>8, <1>3, <1>4, <1>5, <1>6, <1>7

(* The inductive invariant holds at first and is kept by every step.       *)
LEMMA HInvInit == Init => HInv
<1>. SUFFICES ASSUME Init PROVE HInv
  OBVIOUS
<1>. USE HolderAssumption, NoneAssumption DEF Init
<1>1. TypeOK
  <2>1. heap \in [Object -> Holder \cup {None}]
    OBVIOUS
  <2>2. ticks \in [Remote -> 0..MaxTicks] /\ sends \in [Remote -> 0..MaxTicks]
    OBVIOUS
  <2>3. selection \in 0..MaxLocks /\ policy \in Policy
    BY DEF Policy
  <2>. QED BY <2>1, <2>2, <2>3 DEF TypeOK, Idle, Foreign
<1>2. op \in Op
  BY DEF Op, Idle
<1>3. ConsentKept
  BY DEF ConsentKept, ConsentsLeft, Idle
<1>4. NothingLeftOpen
  BY DEF NothingLeftOpen, Open
<1>5. Visiting
  BY DEF Visiting, Idle
<1>. QED BY <1>1, <1>2, <1>3, <1>4, <1>5 DEF HInv, Page, WithHolder, Creating, Unlocking,
     Importing, Enrolling, Proving, Idle,
     HolderHasBackup, PresentationMatches

LEMMA HInvStep == HInv /\ [Next]_vars => HInv'
<1>. SUFFICES ASSUME HInv, [Next]_vars PROVE HInv'
  OBVIOUS
<1>1. CASE User
  BY <1>1, ScreenKeeps, EndLockKeeps, CreateKeeps, UnlockKeeps, EnrollKeeps,
    AskKeeps DEF User
<1>2. CASE Progress
  BY <1>2, ImportReadKeeps, CreateLoadedKeeps, CreatedKeeps, UnlockLoadedKeeps,
    UnlockedKeeps, RestoreThrowsKeeps, RequestKeeps,
     IssueKeeps, EnrolledKeeps, EndKeeps, PresentKeeps, FailKeeps DEF Progress
<1>3. CASE IdleLock \/ Unmount
  BY <1>3, StrikeKeeps
<1>4. CASE UNCHANGED vars
  <2>1. UNCHANGED <<heap, holder, selection, visit, backup, files, shown, offer,
       pending, policy,
                    config, wallet, consent, presentation, ticks, sends, op>>
    BY <1>4 DEF vars, local, network, secrets, screen
  <2>2. HInv = HInv'
    BY <2>1 DEF HInv, TypeOK, Page, WithHolder, Creating, Unlocking, Importing,
      Enrolling, Proving,
      Visiting, ConsentKept, ConsentsLeft, NothingLeftOpen, Open, HolderHasBackup,
        PresentationMatches
  <2>. QED BY <2>2
<1>. QED BY <1>1, <1>2, <1>3, <1>4 DEF Next

-----------------------------------------------------------------------------
(* The theorems.                                                           *)

(* A visit to the page keeps the invariant, for any number of keys,        *)
(* credentials, passphrases, provers, locks and holder objects.            *)
THEOREM HolderInvariant == Spec => []HInv
BY HInvInit, HInvStep, PTL DEF Spec

(* The variables keep their types (useRef, useState of holder/page.tsx).   *)
THEOREM HolderTypeCorrect == Spec => []TypeOK
BY HolderInvariant, PTL DEF HInv

(* lock(), the idle timer, leaving the page and the failure of create      *)
(* leave no open seed out of reach, but for the code's two exceptions: a   *)
(* page left while an unlock loads its modules, and the Holder of a        *)
(* restore that accept stopped.                                            *)
THEOREM SeedsLocked == Spec => []NothingLeftOpen
<1>1. HInv => NothingLeftOpen
  BY DEF HInv
<1>. QED BY <1>1, HolderInvariant, PTL

(* The holder that unlock, create and enroll leave on the page has a       *)
(* backup of its key with no credential it lacks.                          *)
THEOREM HolderRecoverable == Spec => []HolderHasBackup
<1>1. HInv => HolderHasBackup
  BY DEF HInv
<1>. QED BY <1>1, HolderInvariant, PTL

(* The transaction offered for verification is of a credential in the      *)
(* present backup and of the selected policy, although selecting, locking, *)
(* importing and proving all change one of them.                           *)
THEOREM OfferedTransactionFits == Spec => []PresentationMatches
<1>1. HInv => PresentationMatches
  BY DEF HInv
<1>. QED BY <1>1, HolderInvariant, PTL

(* requireProverConsent and its reset: private inputs reach a remote       *)
(* prover at most as often as the person consented to that prover.         *)
THEOREM OneConsentPerProof == Spec => []ConsentPerProof
<1>1. HInv => ConsentPerProof
  <2>. SUFFICES ASSUME HInv, NEW r \in Remote PROVE sends[r] <= ticks[r]
    BY DEF ConsentPerProof
  <2>1. sends[r] \in Nat /\ ticks[r] \in Nat /\ ConsentsLeft(r) \in Nat
    BY HolderAssumption DEF HInv, TypeOK, ConsentsLeft
  <2>2. sends[r] + ConsentsLeft(r) <= ticks[r]
    BY DEF HInv, ConsentKept
  <2>. QED BY <2>1, <2>2
<1>. QED BY <1>1, HolderInvariant, PTL

(* Only the last step of an enrollment changes the backup while one is in  *)
(* progress.                                                               *)
LEMMA EnrolledOnly ==
  ASSUME HInv, [Next]_vars, op.do = "enroll", backup' # backup
  PROVE  Enrolled
<1>1. ~ User
  <2>1. ~ Ready
    BY DEF Ready, Idle
  <2>. QED BY <2>1 DEF User, LockButton, Remove, Export, Connect, Forget, Consent,
       Withdraw,
         Import, Create, Unlock, Enroll, Paste, Check, Prove, SelectPolicy, Discover
<1>2. ~ (IdleLock \/ Unmount \/ UNCHANGED vars)
  BY DEF IdleLock, Unmount, vars, local
<1>3. CASE Progress
  BY <1>3 DEF Progress, At, ImportRead, CreateLoaded, Created, UnlockLoaded,
    Unlocked, RestoreThrows, Request, Issue, Checked,
     Present, Proved, Fail, local
<1>. QED BY <1>1, <1>2, <1>3 DEF Next

(* enroll never replaces the backup by one of another key or passphrase or *)
(* by one that lacks a credential.                                         *)
THEOREM EnrollmentLosesNothing == Spec => BackupOnlyGrows
<1>1. ASSUME HInv, [Next]_vars, op.do = "enroll", backup' # backup
      PROVE  backup'.key = backup.key /\ backup'.pass = backup.pass
             /\ backup.creds \subseteq backup'.creds
  BY <1>1, EnrolledOnly DEF Enrolled, At, HInv, Enrolling
<1>. QED BY <1>1, HolderInvariant, PTL DEF Spec, BackupOnlyGrows
================================================================================

----------------------------- MODULE HolderSession -----------------------------
(***************************************************************************)
(* One visit to the holder page (apps/web/app/holder/page.tsx): the        *)
(* unlocked Holder it keeps (integrations/issuance/src/index.ts), the      *)
(* encrypted backup, enrollment with the issuer and network proofs through *)
(* a wallet and a prover (apps/web/lib/signed-midnight.ts).                *)
(*                                                                         *)
(* The page runs one action at a time and disables its controls meanwhile; *)
(* the inactivity timer and leaving the page still strike between its      *)
(* awaits.  Awaits with no effect and no check between them are one step.  *)
(***************************************************************************)
EXTENDS Naturals

CONSTANTS
  Key,         \* signing keys a holder may draw
  Serial,      \* tells the credentials of one key apart
  Pass,        \* vault passphrases
  Remote,      \* pinned remote provers, which need consent
  Loopback,    \* provers on the holder's machine
  MaxLocks,    \* bound: times the selection moves on
  MaxHolders,  \* bound: Holder objects
  MaxTicks,    \* bound: consents given
  None

ASSUME HolderAssumption ==
  /\ MaxLocks \in Nat /\ MaxHolders \in Nat /\ MaxTicks \in Nat
  /\ Remote \cap Loopback = {}
  /\ None \notin Key \cup Remote \cup Loopback

Credential == Key \X Serial
Policy     == {1, 2}
Object     == 1..MaxHolders
Prover     == Remote \cup Loopback

(* A Holder object: its seed is present or zeroed; stray when nothing      *)
(* refers to it any more, whatever its seed.  A backup: what a passphrase  *)
(* opens.                                                                  *)
Holder == [key : Key, open : BOOLEAN, creds : SUBSET Credential, stray : BOOLEAN]
Backup == [key : Key, pass : Pass, creds : SUBSET Credential]

(* accept takes every credential of the backup; one made elsewhere may     *)
(* hold a credential of another key.                                       *)
Sound(b) == \A c \in b.creds : c[1] = b.key
Foreign == {b \in Backup : ~ Sound(b) /\ \E c \in Credential : b.creds = {c}}

VARIABLES
  heap,          \* the Holder objects made so far
  holder,        \* holder.current
  selection,     \* selection.current
  visit,         \* the page is here, left, or abandoned: left while an unlock loads
  backup, files, \* the backup of the page; files at hand, exported or made elsewhere
  shown,         \* records: the credentials shown, None when locked
  offer,         \* the enrollment offer pasted
  pending,       \* the credential of the last local check
  policy,
  config, wallet, consent, presentation,
  ticks, sends,  \* history, per prover: consents given, private inputs prepared
  op             \* the action in progress

local   == <<backup, files, offer>>
network == <<policy, config, wallet, ticks, sends>>
secrets == <<heap, holder, selection, visit>>
screen  == <<shown, pending, presentation, consent>>
vars    == <<local, network, secrets, screen, op>>

(* None is no object, record or set of credentials.                        *)
ASSUME NoneAssumption ==
  /\ None \notin Object \cup Holder \cup Backup \cup Credential
  /\ \A creds \in SUBSET Credential : creds # None
  /\ None \notin [item : Credential, policy : Policy]

Idle == [do |-> "nothing", at |-> "rest", h |-> None, version |-> 0,
         pass |-> None, item |-> None, text |-> None, consent |-> None]

TypeOK ==
  /\ heap \in [Object -> Holder \cup {None}]
  /\ holder \in Object \cup {None}
  /\ selection \in 0..MaxLocks
  /\ visit \in {"here", "left", "abandoned"}
  /\ backup \in Backup \cup {None}
  /\ files \subseteq Backup
  /\ shown \in (SUBSET Credential) \cup {None}
  /\ {offer, pending} \subseteq Credential \cup {None}
  /\ policy \in Policy
  /\ config \in Prover \cup {None}
  /\ wallet \in BOOLEAN
  /\ consent \in Remote \cup {None}
  /\ presentation \in [item : Credential, policy : Policy] \cup {None}
  /\ ticks \in [Remote -> 0..MaxTicks]
  /\ sends \in [Remote -> 0..MaxTicks]
  /\ op.do \in {"nothing", "unlock", "create", "enroll", "check", "prove", "import"}
  /\ op.at \in {"rest", "load", "restore", "encrypt", "trust", "issue", "ask",
                "proving", "read"}

Init ==
  /\ heap = [o \in Object |-> None]
  /\ holder = None /\ selection = 0 /\ visit = "here"
  /\ backup = None /\ files = Foreign /\ offer = None
  /\ shown = None /\ pending = None /\ presentation = None /\ consent = None
  /\ policy = 1 /\ config = None /\ wallet = FALSE
  /\ ticks = [r \in Remote |-> 0]
  /\ sends = [r \in Remote |-> 0]
  /\ op = Idle

Ready == visit = "here" /\ op = Idle
At(what, where) == op.do = what /\ op.at = where
Goto(where) == op' = [op EXCEPT !.at = where]
End == op' = Idle

-----------------------------------------------------------------------------
(* The Holder object.                                                      *)

Open(o) == o # None /\ heap[o] # None /\ heap[o].open

LockedHolder(x) == [x EXCEPT !.open = FALSE, !.creds = {}]

LockObject(o) == IF o = None THEN heap ELSE [heap EXCEPT ![o] = LockedHolder(@)]

(* The next object, from a key and what a backup holds.                    *)
Fresh(o) == heap[o] = None /\ \A i \in 1..(o - 1) : heap[i] # None
NewHolder(k, c) == [key |-> k, open |-> TRUE, creds |-> c, stray |-> FALSE]

(* lock(): by the timer, the button, an import or a removal.               *)
LockPage ==
  /\ selection < MaxLocks
  /\ selection' = selection + 1
  /\ heap' = LockObject(holder)
  /\ holder' = None
  /\ shown' = None /\ pending' = None /\ presentation' = None /\ consent' = None
  /\ UNCHANGED visit

IdleLock ==
  /\ visit = "here" /\ holder # None
  /\ LockPage
  /\ UNCHANGED <<local, network, op>>

LockButton ==
  /\ Ready /\ shown # None
  /\ LockPage
  /\ UNCHANGED <<local, network, op>>

Remove ==
  /\ Ready /\ backup # None
  /\ LockPage
  /\ backup' = None /\ offer' = None
  /\ UNCHANGED <<files, network, op>>

(* Leaving the page: the clean-up of the effect, the timer with it.        *)
Unmount ==
  /\ visit = "here" /\ selection < MaxLocks
  /\ visit' = IF At("unlock", "load") THEN "abandoned" ELSE "left"
  /\ selection' = selection + 1
  /\ heap' = LockObject(holder)
  /\ holder' = None
  /\ UNCHANGED <<local, network, screen, op>>

-----------------------------------------------------------------------------
(* Backups: export, import, create, unlock.                                *)

Export ==
  /\ Ready /\ backup # None
  /\ files' = files \cup {backup}
  /\ UNCHANGED <<backup, offer, network, secrets, screen, op>>

(* Mutant: the import does not lock the holder.                            *)
BareImport(file) ==
  /\ Ready
  /\ backup' = None
  /\ op' = [Idle EXCEPT !.do = "import", !.at = "read", !.version = selection, !.text = file]
  /\ UNCHANGED <<files, offer, network, secrets, screen>>

(* importFile; the file may be none or unreadable (Fail).                  *)
Import(file) ==
  /\ Ready
  /\ LockPage
  /\ backup' = None
  /\ op' = [Idle EXCEPT !.do = "import", !.at = "read", !.version = selection', !.text = file]
  /\ UNCHANGED <<files, offer, network>>

ImportRead ==
  /\ At("import", "read")
  /\ backup' = IF op.version = selection THEN op.text ELSE backup
  /\ End
  /\ UNCHANGED <<files, offer, network, secrets, screen>>

Create(pass) ==
  /\ Ready /\ shown = None /\ backup = None
  /\ op' = [Idle EXCEPT !.do = "create", !.at = "load", !.version = selection, !.pass = pass]
  /\ UNCHANGED <<local, network, secrets, screen>>

(* A key nobody drew before.                                               *)
Drawn == {heap[o].key : o \in {i \in Object : heap[i] # None}}

CreateLoaded ==
  /\ At("create", "load")
  /\ \E o \in Object, k \in Key \ Drawn :
       /\ Fresh(o)
       /\ heap' = [heap EXCEPT ![o] = NewHolder(k, {})]
       /\ op' = [op EXCEPT !.at = "encrypt", !.h = o,
                           !.text = [key |-> k, pass |-> op.pass, creds |-> {}]]
  /\ UNCHANGED <<local, network, holder, selection, visit, screen>>

Created ==
  /\ At("create", "encrypt")
  /\ \/ /\ op.version # selection
        /\ heap' = LockObject(op.h)
        /\ UNCHANGED <<backup, holder, shown>>
     \/ /\ op.version = selection
        /\ holder' = op.h /\ backup' = op.text /\ shown' = heap[op.h].creds
        /\ UNCHANGED heap
  /\ End
  /\ UNCHANGED <<files, offer, network, selection, visit, pending, presentation, consent>>

Unlock(pass) ==
  /\ Ready /\ shown = None /\ backup # None
  /\ op' = [Idle EXCEPT !.do = "unlock", !.at = "load", !.pass = pass, !.text = backup]
  /\ UNCHANGED <<local, network, secrets, screen>>

(* The selection is read after the modules were loaded.                    *)
UnlockLoaded ==
  /\ At("unlock", "load")
  /\ op' = [op EXCEPT !.at = "restore", !.version = selection]
  /\ UNCHANGED <<local, network, secrets, screen>>

(* Mutant: the page adopts the holder whatever happened meanwhile.         *)
HastyUnlocked ==
  /\ At("unlock", "restore")
  /\ op.pass = op.text.pass /\ Sound(op.text)
  /\ \E o \in Object :
       /\ Fresh(o)
       /\ LET h == NewHolder(op.text.key, op.text.creds) IN
          /\ heap' = [LockObject(holder) EXCEPT ![o] = h]
          /\ holder' = o /\ shown' = h.creds
  /\ End
  /\ UNCHANGED <<local, network, selection, visit, pending, presentation, consent>>

(* Holder.restore, then the page adopts the holder or locks it again.      *)
Unlocked ==
  /\ At("unlock", "restore")
  /\ op.pass = op.text.pass /\ Sound(op.text)
  /\ \E o \in Object :
       /\ Fresh(o)
       /\ LET h == NewHolder(op.text.key, op.text.creds) IN
          \/ /\ op.version # selection
             /\ heap' = [heap EXCEPT ![o] = LockedHolder(h)]
             /\ UNCHANGED <<holder, shown>>
          \/ /\ op.version = selection
             /\ heap' = [LockObject(holder) EXCEPT ![o] = h]
             /\ holder' = o /\ shown' = h.creds
  /\ End
  /\ UNCHANGED <<local, network, selection, visit, pending, presentation, consent>>

(* accept refuses a credential: restore throws, and the Holder it was      *)
(* building stays behind with its seed.                                    *)
RestoreThrows ==
  /\ At("unlock", "restore")
  /\ op.pass = op.text.pass /\ ~ Sound(op.text)
  /\ \E o \in Object :
       /\ Fresh(o)
       /\ heap' = [heap EXCEPT ![o] = [NewHolder(op.text.key, {}) EXCEPT !.stray = TRUE]]
  /\ End
  /\ UNCHANGED <<local, network, holder, selection, visit, screen>>

-----------------------------------------------------------------------------
(* Enrollment.                                                             *)

Paste(c) ==
  /\ Ready /\ shown # None
  /\ offer' = c
  /\ UNCHANGED <<backup, files, network, secrets, screen, op>>

(* Mutant: the passphrase is not tried on the present backup.              *)
AnyPass(pass) == TRUE

(* Holder.restore(backup, passphrase) must succeed.                        *)
OpensBackup(pass) == pass = backup.pass

Enroll(pass) ==
  /\ Ready /\ shown # None /\ offer # None /\ holder # None
  /\ OpensBackup(pass)
  /\ op' = [Idle EXCEPT !.do = "enroll", !.at = "trust", !.h = holder, !.pass = pass, !.item = offer]
  /\ UNCHANGED <<local, network, secrets, screen>>

(* The holder signs the request.                                           *)
Request ==
  /\ At("enroll", "trust") /\ Open(op.h)
  /\ Goto("issue")
  /\ UNCHANGED <<local, network, secrets, screen>>

(* The issuer signs, once per offer, for the holder it approved; the       *)
(* holder keeps the credential and starts to encrypt a new backup, unless  *)
(* its seed is gone.                                                       *)
Issue ==
  /\ At("enroll", "issue") /\ op.item[1] = heap[op.h].key
  /\ \/ End /\ UNCHANGED heap                  \* the answer is lost
     \/ LET creds == heap[op.h].creds \cup {op.item} IN
        /\ heap' = [heap EXCEPT ![op.h].creds = creds]
        /\ \/ ~ Open(op.h) /\ End
           \/ /\ Open(op.h)
              /\ op' = [op EXCEPT !.at = "encrypt",
                          !.text = [key |-> heap[op.h].key, pass |-> op.pass, creds |-> creds]]
  /\ UNCHANGED <<backup, files, offer, network, holder, selection, visit, screen>>

Enrolled ==
  /\ At("enroll", "encrypt")
  /\ backup' = op.text
  /\ shown' = heap[op.h].creds
  /\ offer' = None /\ pending' = None
  /\ End
  /\ UNCHANGED <<files, network, secrets, presentation, consent>>

-----------------------------------------------------------------------------
(* Local checks and network proofs.                                        *)

Presentable == op.item \in heap[op.h].creds /\ Open(op.h)

Check(c) ==
  /\ Ready /\ shown # None /\ c \in shown /\ holder # None
  /\ op' = [Idle EXCEPT !.do = "check", !.at = "ask", !.h = holder, !.item = c]
  /\ UNCHANGED <<local, network, secrets, screen>>

Checked ==
  /\ At("check", "ask") /\ Presentable
  /\ pending' = op.item
  /\ End
  /\ UNCHANGED <<local, network, secrets, shown, presentation, consent>>

(* Mutant: the presentation made for the other policy stays.               *)
KeepingSelectPolicy(p) ==
  /\ Ready /\ shown # None /\ p # policy
  /\ policy' = p /\ pending' = None
  /\ UNCHANGED <<local, config, wallet, ticks, sends, secrets, shown, presentation, consent, op>>

SelectPolicy(p) ==
  /\ Ready /\ shown # None /\ p # policy
  /\ policy' = p /\ pending' = None /\ presentation' = None
  /\ UNCHANGED <<local, config, wallet, ticks, sends, secrets, shown, consent, op>>

Discover(prover) ==
  /\ Ready /\ shown # None
  /\ config' = prover /\ consent' = None
  /\ UNCHANGED <<local, policy, wallet, ticks, sends, secrets, shown, pending, presentation, op>>

Connect ==
  /\ Ready /\ shown # None /\ config # None
  /\ wallet' = TRUE
  /\ UNCHANGED <<local, policy, config, ticks, sends, secrets, screen, op>>

Forget ==
  /\ Ready /\ shown # None /\ wallet
  /\ wallet' = FALSE /\ consent' = None /\ presentation' = None
  /\ UNCHANGED <<local, policy, config, ticks, sends, secrets, shown, pending, op>>

Consent ==
  /\ Ready /\ shown # None /\ config \in Remote /\ ticks[config] < MaxTicks
  /\ consent' = config
  /\ ticks' = [ticks EXCEPT ![config] = @ + 1]
  /\ UNCHANGED <<local, policy, config, wallet, sends, secrets, shown, pending, presentation, op>>

Withdraw ==
  /\ Ready /\ shown # None /\ consent # None
  /\ consent' = None
  /\ UNCHANGED <<local, network, secrets, shown, pending, presentation, op>>

(* requireProverConsent                                                    *)
Allowed(given) == config \in Remote => given = config

(* Mutant: the consent is left ticked for the next attempt.                *)
StickyProve(c) ==
  /\ Ready /\ shown # None /\ c \in shown /\ holder # None /\ wallet /\ config # None
  /\ Allowed(consent)
  /\ op' = [Idle EXCEPT !.do = "prove", !.at = "ask", !.h = holder, !.item = c, !.consent = consent]
  /\ presentation' = None
  /\ UNCHANGED <<local, network, secrets, shown, pending, consent>>

Prove(c) ==
  /\ Ready /\ shown # None /\ c \in shown /\ holder # None /\ wallet /\ config # None
  /\ Allowed(consent)
  /\ op' = [Idle EXCEPT !.do = "prove", !.at = "ask", !.h = holder, !.item = c, !.consent = consent]
  /\ consent' = None /\ presentation' = None
  /\ UNCHANGED <<local, network, secrets, shown, pending>>

(* With the challenge, the status path and the wallet's network at hand:   *)
(* the private inputs, which the prover gets.                              *)
Present ==
  /\ At("prove", "ask") /\ Presentable
  /\ Allowed(op.consent)
  /\ sends' = [r \in Remote |-> IF r = config THEN sends[r] + 1 ELSE sends[r]]
  /\ Goto("proving")
  /\ UNCHANGED <<local, policy, config, wallet, ticks, secrets, screen>>

Proved ==
  /\ At("prove", "proving")
  /\ presentation' = [item |-> op.item, policy |-> policy]
  /\ consent' = None
  /\ End
  /\ UNCHANGED <<local, network, secrets, shown, pending>>

(* An await throws: a wrong passphrase, a service or wallet that fails, a  *)
(* seed or credential that is gone.                                        *)
Fail ==
  /\ op # Idle
  /\ heap' = IF At("create", "encrypt") THEN LockObject(op.h) ELSE heap
  /\ End
  /\ UNCHANGED <<local, network, holder, selection, visit, screen>>

User ==
  \/ LockButton \/ Remove \/ Export \/ Connect \/ Forget \/ Consent \/ Withdraw
  \/ \E file \in files \cup {None} : Import(file)
  \/ \E pass \in Pass : Create(pass) \/ Unlock(pass) \/ Enroll(pass)
  \/ \E c \in Credential : Paste(c) \/ Check(c) \/ Prove(c)
  \/ \E p \in Policy : SelectPolicy(p)
  \/ \E prover \in Prover : Discover(prover)

Progress ==
  \/ ImportRead \/ CreateLoaded \/ Created \/ UnlockLoaded \/ Unlocked \/ RestoreThrows
  \/ Request \/ Issue \/ Enrolled \/ Checked \/ Present \/ Proved \/ Fail

Next == User \/ Progress \/ IdleLock \/ Unmount

Spec == Init /\ [][Next]_vars

-----------------------------------------------------------------------------
(* Properties.                                                             *)

(* A seed that can sign is the page's holder's, and the page can still     *)
(* lock it, or belongs to the Holder a creation in progress will adopt or  *)
(* lock.  The code has two exceptions: a page left while an unlock loads   *)
(* its modules adopts the holder afterwards (the selection is read only    *)
(* then), and restore leaves a Holder behind when accept refuses a         *)
(* credential of the backup.                                               *)
NothingLeftOpen ==
  \A o \in Object :
    Open(o) => \/ o = holder /\ visit # "left"
               \/ op.do = "create" /\ op.h = o
               \/ heap[o].stray

(* docs/SIGNED_ISSUANCE.md: five minutes without pointer or keyboard       *)
(* activity lock the holder.  So while a Holder is open and no action is   *)
(* in progress, the page with the timer is still there to lock it.         *)
TimerReachesHolder == op = Idle /\ Open(holder) => visit = "here"

(* Whoever is unlocked can be recovered: the page has a backup of the same *)
(* key with no credential the unlocked holder lacks.                       *)
HolderHasBackup ==
  holder # None =>
    /\ backup # None
    /\ backup.key = heap[holder].key
    /\ backup.creds \subseteq heap[holder].creds

(* An enrollment replaces the backup by one of the same key under the same *)
(* passphrase that lacks none of its credentials, though the holder may be *)
(* locked, emptied, and even given the new credential in the meantime.     *)
BackupOnlyGrows ==
  [][op.do = "enroll" /\ backup' # backup =>
       /\ backup'.key = backup.key
       /\ backup'.pass = backup.pass
       /\ backup.creds \subseteq backup'.creds]_vars

(* Each time private inputs are prepared for a remote prover the person    *)
(* has consented to that prover anew.                                      *)
ConsentPerProof == \A r \in Remote : sends[r] <= ticks[r]

(* The transaction the page offers to verify proves a credential in the    *)
(* present backup, for the policy that is selected.                        *)
PresentationMatches ==
  presentation # None =>
    /\ backup # None /\ presentation.item \in backup.creds
    /\ presentation.policy = policy
=============================================================================

---------------------------- MODULE PreprodOperator ----------------------------
(***************************************************************************)
(* The life of the Preprod contract in the operator's hands: its           *)
(* deployment by one of two commands, the acceptance trial, and the        *)
(* publications of StatusPublication.                                      *)
(*                                                                         *)
(* Two commands deploy.  scripts/preprod-operator.ts is a console on the   *)
(* loopback for an installed wallet: it plans at its start, and asks the   *)
(* wallet through a page that may answer after the console stopped         *)
(* waiting.  scripts/preprod-terminal.ts owns a wallet.  Each has a        *)
(* directory of its own with one attempt record, and they share the        *)
(* contract's administration keys.  Any of their processes may die at any  *)
(* await, and what it handed to a wallet may be included later.            *)
(*                                                                         *)
(* preprod-release.ts only reads; that its report leads to                 *)
(* deploy/preprod/network.json is the action Release.                      *)
(***************************************************************************)
EXTENDS StatusPublication

CONSTANTS
  Process,  \* the processes of the two deployment commands
  Admin,    \* the administration keys they ever draw
  None

VARIABLES
  keys,         \* .private/preprod-operator/keys.json
  dust,         \* the registration of the terminal wallet's test NIGHT
  attempt,      \* the attempt record in each command's directory: the
                \* transaction's reference, once there is one
  deployer,     \* each process: where it is and what it read
  offered,      \* the deployments the console's page offers for submission
  airborne,     \* the deployments handed to a wallet and not in a block
  contracts,    \* the deployments included
  deployments,  \* deployment.json of each directory
  released,     \* deploy/preprod/network.json
  trial,        \* the acceptance run, with the reference it knows
  minted,       \* history: the credential the hosted service gave the run
  unclean       \* history: the run died, or its last call failed

ceremony  == <<keys, dust, attempt, deployer, offered, airborne, contracts, deployments>>
published == <<now, ledger, status, indexed, operator, record>>
acceptance == <<trial, minted, unclean>>
allVars   == <<ceremony, released, published, acceptance>>

Place == {"console", "terminal"}

(* A deployment transaction; who made it stands for its reference.         *)
Deployment == [by : Process, place : Place, root : Root, admin : Admin]

(* An attempt record, before and after it names its transaction.           *)
AttemptRecord == [reference : Deployment \cup {None}]

ASSUME PreprodAssumption == None \notin Admin \cup Deployment \cup AttemptRecord

TrialSteps == {"none", "started", "issued", "read", "submitted", "authorized", "revoked",
               "reread", "resubmitted", "closing", "over"}

(* `seen` is the issuer's state the process read: its authority version    *)
(* changes with it and its root is computed from it.                       *)
Locals == [pc : {"new", "checked", "planned", "keyless", "keyed", "serving", "agreed",
                 "preparing", "recorded", "sent", "done", "failed"},
           place : Place \cup {None},
           seen  : [Credential -> {"none", "valid", "revoked"}],
           admin : Admin \cup {None}]

PreprodTypeOK ==
  /\ TypeOK
  /\ keys \in Admin \cup {None}
  /\ dust \in {"unregistered", "recorded", "submitted", "generated"}
  /\ attempt \in [Place -> {None} \cup AttemptRecord]
  /\ deployer \in [Process -> Locals]
  /\ offered \cup airborne \cup contracts \subseteq Deployment
  /\ deployments \in [Place -> Deployment \cup {None}]
  /\ released \in Deployment \cup {None}
  /\ trial \in [pc : TrialSteps, cred : Credential \cup {None}, revoked : BOOLEAN, root : Root]
  /\ minted \in Credential \cup {None}
  /\ unclean \in BOOLEAN

PreprodInit ==
  /\ Init
  /\ keys = None
  /\ dust = "unregistered"
  /\ attempt = [d \in Place |-> None]
  /\ deployer = [p \in Process |->
                   [pc |-> "new", place |-> None, seen |-> status, admin |-> None]]
  /\ offered = {} /\ airborne = {} /\ contracts = {}
  /\ deployments = [d \in Place |-> None]
  /\ released = None
  /\ trial = [pc |-> "none", cred |-> None, revoked |-> FALSE, root |-> {}]
  /\ minted = None
  /\ unclean = FALSE

-----------------------------------------------------------------------------
(* Deployment.                                                             *)

At(p, d, pc) == deployer[p].place = d /\ deployer[p].pc = pc

To(p, pc) == deployer' = [deployer EXCEPT ![p].pc = pc]

Transaction(p) ==
  [by    |-> p,
   place |-> deployer[p].place,
   root  |-> {k \in Credential : deployer[p].seen[k] = "valid"},
   admin |-> deployer[p].admin]

(* Registration of the wallet's coins, recorded exclusively before it is   *)
(* submitted; generation is confirmed, if ever, by the chain.              *)
Register ==
  /\ \/ dust = "unregistered" /\ dust' = "recorded"
     \/ dust = "recorded" /\ dust' = "submitted"
     \/ dust = "submitted" /\ dust' = "generated"
  /\ UNCHANGED <<keys, attempt, deployer, offered, airborne, contracts, deployments>>

(* The console plans as soon as it starts; the terminal command first      *)
(* looks whether its directory has a record.                               *)
Open(p) ==
  /\ deployer[p].pc = "new"
  /\ \/ deployer' = [deployer EXCEPT ![p] =
           [pc |-> "planned", place |-> "console", seen |-> status, admin |-> None]]
     \/ /\ dust = "generated" /\ attempt["terminal"] = None
        /\ deployer' = [deployer EXCEPT ![p].pc = "checked", ![p].place = "terminal"]
  /\ UNCHANGED <<keys, dust, attempt, offered, airborne, contracts, deployments>>

Plan(p) ==
  /\ At(p, "terminal", "checked")
  /\ deployer' = [deployer EXCEPT ![p].pc = "planned", ![p].seen = status]
  /\ UNCHANGED <<keys, dust, attempt, offered, airborne, contracts, deployments>>

(* Without a file the console goes on to draw keys, the terminal stops.    *)
LoadKeys(p) ==
  /\ deployer[p].pc = "planned"
  /\ \/ /\ keys # None
        /\ deployer' = [deployer EXCEPT ![p].admin = keys,
             ![p].pc = IF deployer[p].place = "console" THEN "keyed" ELSE "agreed"]
     \/ /\ keys = None /\ deployer[p].place = "console"
        /\ To(p, "keyless")
  /\ UNCHANGED <<keys, dust, attempt, offered, airborne, contracts, deployments>>

(* Mutant: the keys are written over those of another process.             *)
OverwritingCreateKeys(p) ==
  /\ deployer[p].pc = "keyless"
  /\ \E a \in Admin \ {deployer[q].admin : q \in Process} :
       /\ keys' = a
       /\ deployer' = [deployer EXCEPT ![p].pc = "keyed", ![p].admin = a]
  /\ UNCHANGED <<dust, attempt, offered, airborne, contracts, deployments>>

(* Drawn and written exclusively.                                          *)
CreateKeys(p) ==
  /\ deployer[p].pc = "keyless" /\ keys = None
  /\ \E a \in Admin \ {deployer[q].admin : q \in Process} :
       /\ keys' = a
       /\ deployer' = [deployer EXCEPT ![p].pc = "keyed", ![p].admin = a]
  /\ UNCHANGED <<dust, attempt, offered, airborne, contracts, deployments>>

(* The console goes on to listen if there is no record of an attempt.      *)
Serve(p) ==
  /\ At(p, "console", "keyed")
  /\ attempt["console"] = None
  /\ To(p, "serving")
  /\ UNCHANGED <<keys, dust, attempt, offered, airborne, contracts, deployments>>

(* The port admits one console at a time.                                  *)
Busy == {p \in Process : deployer[p].place = "console"
                         /\ deployer[p].pc \in {"agreed", "preparing", "recorded", "sent"}}

(* POST /deploy, once per process: the authority must not have changed.    *)
Deploy(p) ==
  /\ At(p, "console", "serving")
  /\ Busy = {}
  /\ deployer[p].seen = status
  /\ To(p, "agreed")
  /\ UNCHANGED <<keys, dust, attempt, offered, airborne, contracts, deployments>>

(* Mutant: an attempt is recorded whatever the directory holds.            *)
OverwritingRecordAttempt(p) ==
  /\ deployer[p].pc = "agreed"
  /\ attempt' = [attempt EXCEPT ![deployer[p].place] = [reference |-> None]]
  /\ To(p, "preparing")
  /\ UNCHANGED <<keys, dust, offered, airborne, contracts, deployments>>

(* The attempt is recorded exclusively, then proved.                       *)
RecordAttempt(p) ==
  /\ deployer[p].pc = "agreed"
  /\ attempt[deployer[p].place] = None
  /\ attempt' = [attempt EXCEPT ![deployer[p].place] = [reference |-> None]]
  /\ To(p, "preparing")
  /\ UNCHANGED <<keys, dust, offered, airborne, contracts, deployments>>

(* Proved and balanced, its reference replaces the record.                 *)
RecordTransaction(p) ==
  /\ deployer[p].pc = "preparing"
  /\ attempt' = [attempt EXCEPT ![deployer[p].place] = [reference |-> Transaction(p)]]
  /\ offered' = IF deployer[p].place = "console"
                THEN offered \cup {Transaction(p)} ELSE offered
  /\ To(p, "recorded")
  /\ UNCHANGED <<keys, dust, airborne, contracts, deployments>>

(* The terminal's own wallet; the console is told by its page.             *)
Sent(p) ==
  /\ deployer[p].pc = "recorded"
  /\ \/ deployer[p].place = "terminal" /\ airborne' = airborne \cup {Transaction(p)}
     \/ /\ deployer[p].place = "console" /\ Transaction(p) \notin offered
        /\ UNCHANGED airborne
  /\ To(p, "sent")
  /\ UNCHANGED <<keys, dust, attempt, offered, contracts, deployments>>

(* The user submits on the page, whether or not the console still waits.   *)
UserSubmits(t) ==
  /\ t \in offered
  /\ offered' = offered \ {t}
  /\ airborne' = airborne \cup {t}
  /\ UNCHANGED <<keys, dust, attempt, deployer, contracts, deployments>>

Mine(t) ==
  /\ t \in airborne
  /\ airborne' = airborne \ {t}
  /\ contracts' = contracts \cup {t}
  /\ UNCHANGED <<keys, dust, attempt, deployer, offered, deployments>>

Confirmed(p) ==
  /\ deployer[p].pc = "sent"
  /\ Transaction(p) \in contracts
  /\ deployments' = [deployments EXCEPT ![deployer[p].place] = Transaction(p)]
  /\ To(p, "done")
  /\ UNCHANGED <<keys, dust, attempt, offered, airborne, contracts>>

(* A refusal, a wallet that declined or answered too late, a dead process. *)
Stop(p) ==
  /\ deployer[p].pc \notin {"new", "done", "failed"}
  /\ To(p, "failed")
  /\ UNCHANGED <<keys, dust, attempt, offered, airborne, contracts, deployments>>

Ceremony ==
  /\ \/ Register
     \/ \E p \in Process :
          \/ Open(p) \/ Plan(p) \/ LoadKeys(p) \/ CreateKeys(p) \/ Serve(p) \/ Deploy(p)
          \/ RecordAttempt(p) \/ RecordTransaction(p) \/ Sent(p) \/ Confirmed(p) \/ Stop(p)
     \/ \E t \in offered : UserSubmits(t)
     \/ \E t \in airborne : Mine(t)
  /\ UNCHANGED <<released, published, acceptance>>

(* The configuration of a confirmed deployment becomes the network's; the  *)
(* release check reads that it is there and active.                        *)
Release(d) ==
  /\ released = None
  /\ deployments[d] # None
  /\ released' = deployments[d]
  /\ heads' = <<[heads[1] EXCEPT !.root = deployments[d].root]>>
  /\ UNCHANGED <<ceremony, now, authorizations, status, indexed, operator, record, acceptance>>

-----------------------------------------------------------------------------
(* The acceptance run, once per directory: its record is exclusive and     *)
(* stands for good.  A synthetic credential is issued, published, used     *)
(* with both applications, revoked, and the new root published.            *)

TrialAt(pc) == trial.pc = pc

Records == UNCHANGED <<ceremony, released, now, authorizations, indexed, operator, attempts,
                       sends, checked, confirmed>>

(* The wallet has one owner: no publication is under way.                  *)
TrialStart ==
  /\ released # None
  /\ TrialAt("none") /\ step \in Ended
  /\ trial' = [trial EXCEPT !.pc = "started"]
  /\ Records /\ UNCHANGED <<status, pending, heads, minted, unclean>>

(* Approved and issued by the hosted service; its answer may be lost, or   *)
(* the holder refuse it: then the run never knows the reference.           *)
TrialIssue(k) ==
  /\ TrialAt("started")
  /\ status[k] = "none"
  /\ status' = [status EXCEPT ![k] = "valid"]
  /\ minted' = k
  /\ \/ trial' = [trial EXCEPT !.pc = "issued", !.cred = k]
     \/ trial' = [trial EXCEPT !.pc = "closing"]
  /\ Records /\ UNCHANGED <<pending, heads, unclean>>

(* The root is read from the hosted service and published as it was read,  *)
(* the submission recorded before.                                         *)
TrialRead ==
  /\ \/ TrialAt("issued") /\ trial' = [trial EXCEPT !.pc = "read", !.root = CurrentRoot]
     \/ TrialAt("revoked") /\ trial' = [trial EXCEPT !.pc = "reread", !.root = CurrentRoot]
  /\ Records /\ UNCHANGED <<status, pending, heads, minted, unclean>>

TrialSubmit ==
  /\ trial.root \notin pending
  /\ \/ TrialAt("read") /\ trial' = [trial EXCEPT !.pc = "submitted"]
     \/ TrialAt("reread") /\ trial' = [trial EXCEPT !.pc = "resubmitted"]
  /\ pending' = pending \cup {trial.root}
  /\ Records /\ UNCHANGED <<status, heads, minted, unclean>>

(* Canonical confirmation.  The authorizations of both applications need   *)
(* the root to be the contract's; the last one must be refused.            *)
TrialConfirm ==
  /\ trial.root \notin pending /\ Seen.root = trial.root
  /\ \/ TrialAt("submitted") /\ Last.active /\ Last.root = trial.root
        /\ trial' = [trial EXCEPT !.pc = "authorized"]
     \/ TrialAt("resubmitted") /\ trial.cred \notin Last.root
        /\ trial' = [trial EXCEPT !.pc = "over"]
  /\ Records /\ UNCHANGED <<status, pending, heads, minted, unclean>>

(* Mutant: the credential counts as revoked before the service answered.   *)
HastyTrialRevoke ==
  /\ TrialAt("authorized")
  /\ \/ /\ status' = [status EXCEPT ![trial.cred] = "revoked"]
        /\ trial' = [trial EXCEPT !.pc = "revoked", !.revoked = TRUE]
     \/ trial' = [trial EXCEPT !.pc = "closing", !.revoked = TRUE] /\ UNCHANGED status
  /\ Records /\ UNCHANGED <<pending, heads, minted, unclean>>

(* Revoking again is no error; the answer may be lost.                     *)
TrialRevoke ==
  /\ TrialAt("authorized")
  /\ \/ /\ status' = [status EXCEPT ![trial.cred] = "revoked"]
        /\ trial' = [trial EXCEPT !.pc = "revoked", !.revoked = TRUE]
     \/ /\ \/ status' = [status EXCEPT ![trial.cred] = "revoked"] \/ UNCHANGED status
        /\ trial' = [trial EXCEPT !.pc = "closing"]
  /\ Records /\ UNCHANGED <<pending, heads, minted, unclean>>

TrialFail ==
  /\ trial.pc \notin {"none", "closing", "over"}
  /\ trial' = [trial EXCEPT !.pc = "closing"]
  /\ Records /\ UNCHANGED <<status, pending, heads, minted, unclean>>

(* finally: the credential whose reference is known is revoked unless it   *)
(* was; that call can fail.                                                *)
TrialClose ==
  /\ TrialAt("closing")
  /\ trial' = [trial EXCEPT !.pc = "over"]
  /\ IF trial.cred = None \/ trial.revoked
     THEN UNCHANGED <<status, unclean>>
     ELSE \/ status' = [status EXCEPT ![trial.cred] = "revoked"] /\ UNCHANGED unclean
          \/ unclean' = TRUE /\ UNCHANGED status
  /\ Records /\ UNCHANGED <<pending, heads, minted>>

(* The process dies.                                                       *)
TrialDies ==
  /\ trial.pc \notin {"none", "over"}
  /\ trial' = [trial EXCEPT !.pc = "over"]
  /\ unclean' = TRUE
  /\ Records /\ UNCHANGED <<status, pending, heads, minted>>

Trial ==
  \/ TrialStart \/ TrialRead \/ TrialSubmit \/ TrialConfirm \/ TrialRevoke
  \/ TrialFail \/ TrialClose \/ TrialDies
  \/ \E k \in Credential : TrialIssue(k)

-----------------------------------------------------------------------------
(* The issuer works all the time, the contract once it is released; a      *)
(* publication does not start during the trial.                            *)
Publication ==
  /\ \/ \E k \in Credential : Issue(k) \/ Revoke(k)
     \/ released # None /\ Environment
     \/ released # None /\ trial.pc \in {"none", "over"} /\ Run
  /\ UNCHANGED <<ceremony, released, acceptance>>

PreprodNext ==
  \/ Ceremony
  \/ \E d \in Place : Release(d)
  \/ Trial
  \/ Publication

PreprodSpec == PreprodInit /\ [][PreprodNext]_allVars

-----------------------------------------------------------------------------
(* Properties.                                                             *)

(* Whatever was handed to a wallet from a directory is the transaction its *)
(* record names, so that it can be reconciled, and no second one was ever  *)
(* made there: neither by another process, nor after a time limit, nor by  *)
(* a page that submits late.                                               *)
DeploymentsRecorded ==
  /\ \A t \in offered \cup airborne \cup contracts : attempt[t.place] = [reference |-> t]
  /\ \A d \in Place : deployments[d] # None => deployments[d] \in contracts

(* No deployment is administered by keys that are lost: the stable keys in *)
(* the file are those of every contract, whoever drew them first.          *)
AdministrationKept ==
  \A t \in offered \cup airborne \cup contracts : t.admin = keys

(* In whatever step the acceptance run fails, the credential the hosted    *)
(* service gave it is revoked in the end, but for three cases: the process *)
(* died, the last call failed as well, or the run never knew the reference *)
(* of what was issued, so that it had nothing to revoke.                   *)
TrialCleansUp ==
  trial.pc = "over" /\ minted # None /\ ~ unclean =>
    trial.cred = None \/ status[minted] = "revoked"
=============================================================================

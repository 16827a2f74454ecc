--------------------------- MODULE StatusPublication ---------------------------
(***************************************************************************)
(* The publication of the issuer's status root on the ledger: the operator *)
(* command scripts/preprod-publish.ts, run by hand after the hosted issuer *)
(* issued or revoked, with packages/network/confirmed-submit.ts.           *)
(*                                                                         *)
(* The issuer keeps issuing and revoking while a run reads, proves and     *)
(* submits.  A run can stop at any await; the transaction it sent may      *)
(* still be included, later than anything.  What the runs leave behind is  *)
(* one attempt record per root, in a directory that is the same for every  *)
(* run (scripts/preprod-terminal.ts).  Runs do not overlap: the command    *)
(* owns the operator's wallet (docs/OPERATIONS.md).                        *)
(***************************************************************************)
EXTENDS AuthorizationLedger, FiniteSets

CONSTANT MaxRuns  \* model bound: the runs of the command

ASSUME PublicationAssumption == MaxRuns \in Nat

VARIABLES
  status,    \* the hosted issuer's record of each credential
  indexed,   \* how many heads the indexer has
  attempts,  \* the attempt record of each root: its "state"
  pending,   \* the roots of the transactions sent and not yet in a block
  step,      \* where the run is
  wanted,    \* the root the run read and is to publish
  runs,      \* how many runs were started
  sends,     \* history: how often a transaction for a root was sent
  checked,   \* history: the credentials revoked when the run last checked
  confirmed, \* history: those of the last run that confirmed
  settled    \* history: no run has begun with something under way

operator == <<step, wanted, runs, settled>>
record   == <<attempts, pending, sends, checked, confirmed>>
vars     == <<now, ledger, status, indexed, operator, record>>

Root == SUBSET Credential

AttemptState == {"none", "preparing", "submitted", "confirmed"}

Steps == {"idle", "read", "compared", "proving", "recorded", "sent", "included",
          "done", "skipped", "failed", "refused"}

Ended == {"idle", "done", "skipped", "failed", "refused"}

TypeOK ==
  /\ LedgerTypeOK
  /\ status \in [Credential -> {"none", "valid", "revoked"}]
  /\ indexed \in 1 .. Len(heads)
  /\ attempts \in [Root -> AttemptState]
  /\ pending \subseteq Root
  /\ step \in Steps
  /\ wanted \in Root
  /\ runs \in Nat
  /\ sends \in [Root -> Nat]
  /\ checked \subseteq Credential
  /\ confirmed \subseteq Credential
  /\ settled \in BOOLEAN

(* The root of the status tree: revoked and unissued leaves are the same.  *)
CurrentRoot == {k \in Credential : status[k] = "valid"}

Revoked == {k \in Credential : status[k] = "revoked"}

(* The contract was deployed with the root of a new issuer.                *)
Init ==
  /\ LedgerInit
  /\ heads[1].root = {}
  /\ status = [k \in Credential |-> "none"]
  /\ indexed = 1
  /\ attempts = [r \in Root |-> "none"]
  /\ pending = {}
  /\ step = "idle"
  /\ wanted = {}
  /\ runs = 0
  /\ sends = [r \in Root |-> 0]
  /\ checked = {}
  /\ confirmed = {}
  /\ settled = TRUE

-----------------------------------------------------------------------------
(* The hosted issuer and the chain.                                        *)

Issue(k) ==
  /\ status[k] = "none"
  /\ status' = [status EXCEPT ![k] = "valid"]
  /\ UNCHANGED <<now, ledger, indexed, operator, record>>

Revoke(k) ==
  /\ status[k] = "valid"
  /\ status' = [status EXCEPT ![k] = "revoked"]
  /\ UNCHANGED <<now, ledger, indexed, operator, record>>

Include(root) ==
  /\ root \in pending
  /\ PublishStatus(root)
  /\ pending' = pending \ {root}
  /\ UNCHANGED <<status, indexed, operator, attempts, sends, checked, confirmed>>

(* A transaction that is never included, or fails in its block.            *)
Drop(root) ==
  /\ root \in pending
  /\ pending' = pending \ {root}
  /\ UNCHANGED <<now, ledger, status, indexed, operator, attempts, sends, checked, confirmed>>

Retire ==
  /\ Last.active
  /\ Deactivate
  /\ UNCHANGED <<status, indexed, operator, record>>

CatchUp ==
  /\ indexed < Len(heads)
  /\ indexed' = indexed + 1
  /\ UNCHANGED <<now, ledger, status, operator, record>>

Environment ==
  \/ \E k \in Credential : Issue(k) \/ Revoke(k)
  \/ \E root \in Root : Include(root) \/ Drop(root)
  \/ Retire \/ CatchUp

-----------------------------------------------------------------------------
(* A run of the command.                                                   *)

Seen == heads[indexed]

Goto(s) == step' = s /\ UNCHANGED <<wanted, runs, settled>>

(* The command fetches and decrypts the issuer's state.  The messages of   *)
(* earlier runs ask the operator to reconcile first what they sent.        *)
Start ==
  /\ step \in Ended
  /\ runs < MaxRuns
  /\ settled' = (settled /\ pending = {} /\ indexed = Len(heads))
  /\ wanted' = CurrentRoot
  /\ step' = "read"
  /\ runs' = runs + 1
  /\ UNCHANGED <<now, ledger, status, indexed, record>>

(* Nothing to do if the contract has that root; nothing to be done if the  *)
(* issuer contract is inactive.                                            *)
Examine ==
  /\ step = "read"
  /\ Goto(IF ~ Seen.active THEN "failed"
          ELSE IF Seen.root = wanted THEN "skipped" ELSE "compared")
  /\ UNCHANGED <<now, ledger, status, indexed, record>>

(* Mutant: an existing record is overwritten.                              *)
OverwritingPrepare ==
  /\ step = "compared"
  /\ attempts' = [attempts EXCEPT ![wanted] = "preparing"]
  /\ Goto("proving")
  /\ UNCHANGED <<now, ledger, status, indexed, pending, sends, checked, confirmed>>

(* The attempt record is created exclusively (flag wx).                    *)
Prepare ==
  /\ step = "compared"
  /\ attempts[wanted] = "none"
  /\ attempts' = [attempts EXCEPT ![wanted] = "preparing"]
  /\ Goto("proving")
  /\ UNCHANGED <<now, ledger, status, indexed, pending, sends, checked, confirmed>>

(* EEXIST.                                                                 *)
Refuse ==
  /\ step = "compared"
  /\ attempts[wanted] # "none"
  /\ Goto("refused")
  /\ UNCHANGED <<now, ledger, status, indexed, record>>

(* Mutant: the issuer's root is not read again.                            *)
BlindRecheck ==
  /\ step = "proving"
  /\ attempts' = [attempts EXCEPT ![wanted] = "submitted"]
  /\ checked' = Revoked
  /\ Goto("recorded")
  /\ UNCHANGED <<now, ledger, status, indexed, pending, sends, confirmed>>

(* Proved: the issuer's root is read again, and the transaction recorded   *)
(* before it is handed to the wallet.                                      *)
Recheck ==
  /\ step = "proving"
  /\ wanted = CurrentRoot
  /\ attempts' = [attempts EXCEPT ![wanted] = "submitted"]
  /\ checked' = Revoked
  /\ Goto("recorded")
  /\ UNCHANGED <<now, ledger, status, indexed, pending, sends, confirmed>>

Send ==
  /\ step = "recorded"
  /\ pending' = pending \cup {wanted}
  /\ sends' = [sends EXCEPT ![wanted] = @ + 1]
  /\ Goto("sent")
  /\ UNCHANGED <<now, ledger, status, indexed, attempts, checked, confirmed>>

(* submitAndConfirm polls the indexer for the transaction.                 *)
Poll ==
  /\ step = "sent"
  /\ wanted \notin pending
  /\ \E i \in 2 .. indexed : heads[i].root = wanted /\ heads[i].version = heads[i - 1].version + 1
  /\ Goto("included")
  /\ UNCHANGED <<now, ledger, status, indexed, record>>

(* The command reads the contract's root back.                             *)
Confirm ==
  /\ step = "included"
  /\ Seen.root = wanted
  /\ attempts' = [attempts EXCEPT ![wanted] = "confirmed"]
  /\ confirmed' = checked
  /\ Goto("done")
  /\ UNCHANGED <<now, ledger, status, indexed, pending, sends, checked>>

(* The run throws or dies: the issuer's root moved during the proof, the   *)
(* wait for a confirmation timed out, the root shown is another, a service *)
(* does not answer.                                                        *)
Fail ==
  /\ step \notin Ended
  /\ Goto("failed")
  /\ UNCHANGED <<now, ledger, status, indexed, record>>

Run ==
  Start \/ Examine \/ Prepare \/ Refuse \/ Recheck \/ Send \/ Poll \/ Confirm \/ Fail

Next == Environment \/ Run

Spec == Init /\ [][Next]_vars

-----------------------------------------------------------------------------
(* Properties.                                                             *)

(* A crash between any two steps leaves the records truthful, and the next *)
(* run bound by them: a root is submitted at most once, what may be under  *)
(* way or on the ledger is recorded as submitted, and a record that says   *)
(* confirmed names a root the ledger has had.                              *)
RecordsAreTruthful ==
  /\ \A root \in Root : sends[root] <= 1
  /\ \A root \in Root :
       sends[root] > 0 => attempts[root] \in {"submitted", "confirmed"}
  /\ \A root \in Root :
       attempts[root] = "confirmed" => \E i \in 1 .. indexed : heads[i].root = root

(* "Do not promise network revocation until publication confirms": once a  *)
(* run confirmed, no credential that was revoked when it submitted is in   *)
(* the ledger's root, nor comes back with a later run or an earlier one    *)
(* that was thought lost, as long as the operator reconciles between runs. *)
ConfirmedRevocationHolds == settled => Last.root \cap confirmed = {}

(* A run refuses a root only because an earlier attempt at that root is    *)
(* unresolved: after a confirmed one there is nothing to reconcile.        *)
RefusesOnlyUnresolved ==
  settled /\ step = "refused" => attempts[wanted] # "confirmed"
=============================================================================

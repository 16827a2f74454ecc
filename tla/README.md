# VeilPass in TLA+

This directory holds the formal models of VeilPass: TLA+ modules translated from the
source, configurations that check them with TLC, and theorems about them that TLAPS
proves. It is meant to be read beside the code.

VeilPass issues signed credentials to holders, publishes which of them are valid as a
Merkle root on the Midnight ledger, lets a holder prove on the ledger that it has a valid
credential (without saying which), and lets a verifier open a gate once per such proof.

## 1. Inventory

| Component | State it keeps | Operations | Hard behaviour |
|---|---|---|---|
| Issuer authority (`integrations/issuance/src/index.ts`) | pending offers, receipts of completed enrollments, issued credentials with status, active flag | `approve`, `issueOrResume`, `revoke`, `deactivate`, reads, `exportState`/`fromState` | expiry and pruning of offers and receipts, limits, idempotent retries |
| Hosted issuer service (`postgres.ts`, `app/api/issuance/route.ts`) | one database row (version, encrypted authority), audit log, operators, budgets | GET and POST, `withIssuer`, restore, key rotation | handlers on several replicas, compare-and-swap, retries, lost answers, clock skew |
| Local issuer store (`service.ts`, `bootstrap.ts`) | SQLite row, identity marker file | `withIssuer`, `bootstrapIssuer` | first use, crash between database and marker |
| Recovery and rotation (`postgres.ts`, `scripts/authority-recovery.ts`, `scripts/render-preflight.ts`) | the database row, snapshot files, the pinned fingerprint | bootstrap, backup, `rotateStorageKey`, `restoreSnapshot` | old keys still in use, a lost database, versions that restart |
| Authorization contract (`authorization.compact`) | active flag, status root and version, consumed request keys, results | `publishStatus`, `deactivate`, `authorize` | order of publication and authorization, block time against deadlines |
| Signed verifier (`verifier.ts`, `midnight-adapter.ts`, `challenge-store.ts`, `app/api/signed-network/route.ts`) | stored challenges | `createChallenge`, `verify` | concurrent calls, an indexer that lags, expiry during awaits |
| Status publication (`scripts/preprod-publish.ts`, `confirmed-submit.ts`) | one attempt record per root | the publish command | crashes at any await, late transactions, issuer moving during proofs |
| Status tree (`status-tree.ts`) | leaves | root, path | sparse tree algorithm |
| Operator accounts (`operators.ts`, `operator-access.ts`, `scripts/operator-admin.ts`) | accounts, credential files | provision, rotate, disable, authenticate | disabled while a request runs, a statement that lands late |
| Request budgets (`request-store.ts`, `service-access.ts`, `postgres.ts`) | a counter per process, one shared window | take, refuse | window boundaries, several readings of the clock in one statement, waits for a lock |
| Issuer page (`issuer/page.tsx`) | inputs, the offer shown, the confirmation | approve, revoke | answers that come late or never |
| Holder page and Holder (`holder/page.tsx`, `signed-midnight.ts`, `index.ts`) | the unlocked holder, the encrypted backup, consent, presentation | create, unlock, lock, import, enroll, check, prove | an idle lock or leaving the page strikes during awaits |
| Local verifier (`index.ts`) | used challenges | verify | a reference implementation in one process |
| V2 kit and lifecycle contract (`packages/sdk`, `contracts/lifecycle`) | challenge files, contract state | `createChallenge`, `verifyPresentation`, revoke, deactivate, authorize | power loss between writing and syncing, concurrent calls, a lagging indexer |
| Workbench (`packages/lifecycle`, `api/lifecycle/route.ts`, `lifecycle/page.tsx`) | sessions in memory, challenges, what a page shows | the V2 flow, with revocation and restart | session limits and expiry, a second tab, restarts |
| Preprod operator scripts (`scripts/preprod-operator.ts`, `preprod-terminal.ts`, `preprod-acceptance.ts`, `preprod-release.ts`) | keys, attempt records, deployment files | register, deploy, release, the acceptance run | crashes between record, wallet and chain; a wallet that answers late; two processes |
| Network utilities (`packages/network`) | none | fee iteration, prover consent, wallet connection | convergence, late answers |
| Read-only routes, other pages, the first contract | none that matters | rendering, proxies, a first demonstration | outside the scope |

How they interact. The route runs every authority operation inside `withIssuer`, which
reads the row, runs the operation in memory and writes back under the version read. The
publication command reads the same row, computes the status root and calls
`publishStatus`. A holder builds its proof against the published root and calls
`authorize`, which records the verifier's challenge as a request key. The verifier looks
the key up through an indexer, compares status and times, and consumes the challenge in
its store. The operator deploys the contract with one of two commands, proves it with the
acceptance run, and publishes from then on. `PROJECT.json` lists each component with its
status, and each hazard at its line with the properties that are there for it.

## 2. Modules

```
IssuerAuthority <-- IssuerService     <-- MCIssuerService, IssuerServiceProofs
                          ^--(refines)--> AtomicService

AuthorizationLedger <-- SignedVerifier <-- MCSignedVerifier
      ^                       ^-------------------------------- NetworkProofs
      ^---------------- StatusPublication <-- MCStatusPublication    |
                              ^                                      |
                        PreprodOperator   <--------------------------+
                              ^-- MCPreprodOperator  --(INSTANCE)--> StatusTree, DustFee

OperatorAccess <-- IssuerConsole <-- MCIssuerConsole, OperatorAccessProofs

AuthorityRecovery <-- MCAuthorityRecovery, HostedDatabaseProofs
RequestLimits     <-- MCLocalServices, HostedDatabaseProofs
LocalIssuer       <-- MCLocalServices, LocalServicesProofs --(INSTANCE)--> LocalVerifier

HolderSession <-- MCHolderSession, HolderSessionProofs
LifecycleKit  <-- MCLifecycleKit, LifecycleKitProofs
SignedVerifier, LifecycleKit --(refine)--> OneShotGate
Workbench     <-- MCWorkbench, WorkbenchProofs
```

An arrow points to the module that is extended. The modules named `...Proofs` hold the
theorems; two of them speak of two components that do not share state, but belong
together: the database of the hosted service, and the services of a single machine.
`MCLocalServices` likewise explores two of them in one run, each while the other is at rest.

### IssuerAuthority and IssuerService

`IssuerAuthority` holds the authority as a record and its methods as operators: `CanX`
is what a method checks, `AfterX` what it leaves, and `Outcomes(o, a, t, fresh)` the set
of (authority, result) pairs an operation may have, empty when it throws. A signature is
the name of its signer plus whether the signed body was altered; random values are fresh
elements of `Challenge` and `Credential`.

`IssuerService` is `PostgresStorage.withIssuer` around those operations. A request goes
through `Submit`, `Select` (the SELECT; then decryption), `Compute` or `Reject` (the
synchronous operation; then encryption), `Commit` or `Conflict` (the UPDATE ... WHERE
version, with the audit row in the same statement), `Respond`; `Lose` is a crash, a query
timeout or a lost response at any await. A client that asks again is another request. The
row, the audit table and the reference clock are shared; every server's and holder's
clock reads within `Skew` of the reference.

Choices that need saying: two reads of the clock in one synchronous call are one; an
UPDATE that lands after the client gave up is `Commit` followed by `Lose`; a status-path
GET of an unknown credential throws and changes nothing, which `Lose` covers; the
operator's authentication (`OperatorAccess`) and the request budgets (`RequestLimits`)
come before `Submit`.

`AtomicService` is what the service promises: each request takes effect on the state in
one step, at most once, or is refused without effect. Its refinement mapping is in
`IssuerService` (`Atomic`).

### AuthorizationLedger and SignedVerifier

`AuthorizationLedger` keeps the contract's public state as the sequence of the heads it
went through, so an indexer that lags is an earlier index. A status root is the set of
credentials in its tree. `Authorize` has the contract's guards: active, credential in the
root, deadline window with respect to block time and credential validity, request key not
consumed. Signature checks are left out: a credential's rightful holder can always pass
them.

`SignedVerifier` takes `verify` apart at its awaits: `Load` (read the stored challenge),
`Match` (the first indexer answer: a head and the authorization it shows), `Compare` (the
second answer, freshness and same status), `Consume`, `Accept`; `GiveUp` is any throw.
`Hosted` selects PostgreSQL, whose `consume` checks the expiry on the database's clock
and whose `put` deletes rows long expired, or the SQLite store, which does neither.

`OneShotGate` is what the application behind a verifier relies on: a challenge is given
out, some of those given are backed by the ledger, a call presents one of them, and is
accepted or refused in one step and for good, accepted only for a backed challenge that
was not accepted before. `SignedVerifier` and `LifecycleKit` both implement it
(`GateSpec`). To the first, a call whose consumption was lost with its server is refused,
though its challenge is spent; to the second, a power loss refuses all calls under way at
once, and a marker that nobody reported accepts nothing. The gate has no clock: that an
acceptance is in time is in properties of their own. That no two calls consume one
challenge (`AcceptedOnce`) is part of the gate's promise, and in the proofs its reason.

### StatusPublication

Runs of the publish command over the same ledger: `Start` (read the issuer's state),
`Examine`, `Prepare` or `Refuse` (the attempt record, created exclusively), `Recheck`
(after the proof: read the issuer again and record the submission), `Send`, `Poll`,
`Confirm`; `Fail` at any await. Meanwhile the issuer issues and revokes, transactions are
included late or never, and the indexer catches up. Runs do not overlap
(docs/OPERATIONS.md: "Never run two operator wallet processes concurrently"). `settled`
is a history variable: it stays true as long as each run began with no transaction under
way and an indexer that had caught up, which is what "reconcile" asks of the operator.

### AuthorityRecovery

What happens to the hosted row besides requests. `Task`s are request handlers and tools,
each with the storage key its process was started with: a write, a backup, a bootstrap, a
rotation or a restore. Each reads (`Read`), works over awaits and writes once (`Write`,
`Rotate`, `Insert`); `Fail` at any point is a wrong key, an update that hit no row or a
crash. An encrypted authority is a record that only its key opens (`Sealed`); its content
is the identity and the set of the writes in it, because what a write does is the matter
of `IssuerService`. `pinned` is the fingerprint in the deployment's configuration.

The environment follows the documents and the code: an identity is created only until one
is pinned (`hosted-bootstrap.ts`, deploy/render/README.md), the database is lost only
after that, and a restore starts when all writes have stopped and nothing starts until it
has ended (docs/OPERATIONS.md). `withIssuer` gives up after five attempts; here it may
retry without a limit, which allows more.

### LocalIssuer

The issuer of one machine. `ServeRequest` and `Start` are the two callers of `withIssuer` of
`service.ts`: `OpenDatabase` creates file and table, `Read` draws an identity when there
is no row, `Commit` is the update or `INSERT OR IGNORE` that changed the row and
`Conflict` the one that did not. A start goes on to `Compare`, or to `CreateMarker` and
`FillMarker`, which are two steps because the code creates the file and then writes it.
A process fails between any two steps. `LoseDatabase` takes the volume's database while
nothing runs; after that a server starts before requests are served.

### HolderSession

One visit to the holder page. The page runs one action at a time (`op`: what it does,
which await it is at, and its local variables, which are what it captured when it
started); the idle timer (`IdleLock`) and leaving the page (`Unmount`) strike between the
awaits, and what is under way goes on without the page. `visit` says whether the page is
here, was left, or was left while an unlock was loading its modules (`abandoned`). `heap`
has every `Holder` object made in the visit, with its seed present or zeroed, because an
action keeps its own reference to the object it began with; `stray` marks one that nothing
refers to any more. `holder` is the one the page holds, `selection` the counter by which an
action notices a lock. `files` begins with backups made elsewhere (`Foreign`), with a
credential that is not the holder's: `restore` throws on them after its `Holder` exists
(`RestoreThrows`). The
issuer, the wallet and the prover answer or fail (`Fail`). Saving to `localStorage` has no
effect on the visit and is left out; a reload is another visit. `ticks` and `sends` are
history: how often the person consented to a remote prover, and how often private inputs
were prepared for it.

### LifecycleKit

The V2 verifier kit over the lifecycle contract. The contract is a sequence of heads, as
in `AuthorizationLedger`; a block's time is the chain's, up to `Drift` off the verifier's
clock (`BlockTime`). The circuit judges deadlines by the block's time, the kit by its own
clock; the adapter refuses a head more than `Tolerance` ahead of that clock and takes one
that is less ahead for observed now (`Canonical`, `ObservedAt`), and `FreshState` asks for
an observation that is neither later than now nor too old. The store is a set of files,
each absent, empty or full; creating one is exclusive, and until its directory is synced
(`dirty`) a `PowerLoss` may take away the entry or the content. `verifyPresentation` is
`Load`, `Match` (the indexer shows the authorization and the state right after it),
`Compare` (a second look, which may be at any head; freshness, expiry, same status; the
consumption file is created), `Marked` (written) and `Accept` (synced); `Refuse` ends a
call at any point. The entry of the store's directory itself is taken as durable.

### OperatorAccess and IssuerConsole

`OperatorAccess` is the table of accounts, the credential files, the runs of
`operator-admin` and the requests. A run writes its file (`Provision`) and sends its
statement, which executes sooner or later or never (`Execute`), with the conditions of the
SQL: an insert that finds a row and an update that finds none change nothing. A request is
authenticated once (`Authenticate`) and takes effect later (`Commit`); `Restart` replaces
a process, perhaps with the recovery secret switched on or off. `standing` is history: all
that a request's credential granted at some moment since the request arrived.

`IssuerConsole` is the issuer page as a client of that service: inputs, the two buttons,
an operation under way with what was read from the page at the click (`asked`), its answer
or the loss of it, and leaving the page. The controls are disabled while an operation is
under way; the mutant of `ActsAsShown` is an input that is not. One request of
the service is the page's; the others are anybody's.

### RequestLimits

The counter a process keeps and the budget all processes share, each of one entry since
entries of different callers do not touch. The shared one is PostgreSQL's or SQLite's.
PostgreSQL evaluates its clock each time the statement names it, so `Readings` has three
values that may straddle a second, and the new window's end is counted from the value the
process sent; SQLite gets one value, read before the wait for the lock. `MaxWait` bounds
that wait, as the statement timeouts do (15 s and 5 s, for a window of 60). `admitted` is
history: when each request was admitted, in order.

### Workbench

The route's table of sessions, the engine of each session over its contract, and the page
in one tab, with what other tabs and clients of the same cookie do (`Elsewhere`). A call is
sent, served by the route, may await a challenge file, and is answered; the session may
expire, be pruned or be restarted in between. A result carries, as history, the session
that decided and the contract's status it decided under. The store and verifier are those of
`LifecycleKit`, here one read and one creation.

### PreprodOperator

The contract from its deployment to its publications, composed with `StatusPublication`:
`Ceremony` is the registration of the wallet's coins and the two deployment commands, each
with its directory and attempt record and both with one file of keys; `Release` makes a
confirmed deployment the network's contract, with the root it was deployed with; `Trial`
is the acceptance run, which issues a synthetic credential, publishes, authorizes,
revokes it and publishes again, and revokes it in its `finally`; `Publication` is
`StatusPublication` with the issuer at work all the time, the contract once it is
released, and no run of the command during the trial, whose wallet has one owner. A
process may stop at any await, a page may submit after its console gave up, and what a
wallet was handed may be included late. `minted` and `unclean` are history: the credential
the hosted service issued to the trial, whether or not the trial heard of it, and that the
trial died or failed in its last call.

### StatusTree and DustFee

Pure algorithms, as operators over sequences and folds. `StatusTree` is the sparse tree,
its paths, and the circuit's climb from a leaf to a root, with hashes taken for injective.
`DustFee` is the loop that chooses the coins that pay a fee which depends on the coins.
`MCPreprodOperator` evaluates both in assumptions: every tree of four leaves, with every
choice of revoked entries, against every other, and every fee function of wallets of up to
three coins. One of these facts is what the other models take for granted, that roots are
equal exactly when the same credentials are active.

### LocalVerifier

The in-process reference verifier. Its operations have no await, but read clocks that no
two parties share and that may go back; such a model has no bound that would let TLC
exhaust it and say anything, so it is proved about (section 4) and has no run.

## 3. Runs

All bounds are constants whose names start with `Max`, or the sizes of the sets.
`CHECK_DEADLOCK FALSE` everywhere: requests, calls and runs are finite in number and
the clock and chain are bounded, so the models do stop.

| Run | Instance | Shows | States |
|---|---|---|---|
| `service_contention` | 3 requests at once, 4 in all where they are an approval, an enrollment, its retry and a revocation; 3 challenges, every limit 1, 2 attempts; requests in order instead of symmetry, fair handlers | the refinement of `AtomicService`; `AuditTrail`; `BusyOnlyUnderContention`; `StoredStateLoads`; `NoRevokedAnswer`; `EveryRequestEnds` | 139 thousand |
| `service_clocks` | 3 requests, 2 in progress, 2 holders, clocks 1 s apart, offers live 2 s, receipts 4 s | `OneCredentialPerChallenge`, `RetryReturnsCredential`, `AnswersAreMinted`, `StatusNeverRollsBack` | 2.4 million |
| `verifier` | 2 calls, 1 challenge, 4 heads, drift 1, maximum age 0, rows purged at once | the refinement of `OneShotGate`; `AcceptedOnce`, `NoStaleAcceptance`, `AcceptedInTime` | 252 thousand |
| `publication_runs` | 2 credentials, 3 runs of the publish command, 5 heads, 2 deployment processes, 2 keys, the trial | `ConfirmedRevocationHolds`, `RecordsAreTruthful`, `DeploymentsRecorded`, `AdministrationKept`, `TrialCleansUp`; the facts about `StatusTree` and `DustFee` | 2.2 million |
| `publication_refused` | `StatusPublication` alone, 2 credentials, 4 runs | `RefusesOnlyUnresolved` is violated (section 6) | |
| `recovery_rotation` | 5 tasks, 2 identities, 2 keys | `OneIssuer`, `CurrentKeyOpens`, `WritesStand` | 529 thousand |
| `local_services` | `LocalIssuer` with 3 processes, 3 identities, 2 attempts; `RequestLimits` with 2 requests of 1 process, both stores, limit 2 in 3 s, 1 attempt a process, waits to 1 s, clock to 6 | `AnswersStand`, `StartedAsMarked`, `NoNewIdentity`; `WithinBudget`, `RefusalIsDue` | 1.6 million |
| `holder` | 2 keys with 2 credentials each, 2 passphrases, a remote prover, 2 locks, 2 holder objects, 1 consent | `NothingLeftOpen`, `HolderHasBackup`, `BackupOnlyGrows`, `ConsentPerProof`, `PresentationMatches` | 3.7 million |
| `holder_left` | 2 keys with 1 credential each, 1 passphrase | `TimerReachesHolder` is violated (section 6) | |
| `kit` | 2 calls, 2 challenges, 3 heads, block times 2 off, tolerance 1, lifetime 2, validity from 1 to 3, clock to 3, maximum age 0 | the refinement of `OneShotGate`; `HandedIsReadable`, `AcceptedAreDue` | 1.1 million |
| `access` | 1 operator, 2 credentials and the recovery secret, 3 commands, 1 server, 1 request and the page's | `ActorStood`, `NobodyStranded`, `ActsAsShown` | 1.3 million |
| `workbench` | 1 tab and others of its cookie, 2 sessions of which the table has room for 1, 1 challenge | `ResultFits`, `SessionsStand` | 1.1 million |

The state counts with symmetry and a view vary a little from run to run. Each module with
a state defines its type invariant, except the abstract `AtomicService` and `OneShotGate`,
and `IssuerConsole`, which adds a page to `OperatorAccess`. They are proved, by themselves
or as parts of the inductive invariants of section 4; the configurations leave them out,
so that the runs check what could go wrong.

Why these bounds are enough for the cases that matter. Three concurrent handlers let one
lose to a second while a third loses to both; two attempts make both outcomes of
`Conflict` happen; limits of one make every limit bind. Three requests are approve, issue
and a retry or a revocation, in any interleaving; in `service_contention` four are all of
them, so that a revocation lands between a retry's read and its write. Offers of two
seconds, receipts of four and a clock that runs to four reach both sides of each expiry
with skew. Two calls suffice for a race (that a challenge's row is purged while another is
written needs a second challenge, which is beyond this run and within the proof
`VerifierIsGate`); four heads are an authorization, a publication, a deactivation and a
later observation. Three publication runs with the trial's two, and five heads, let a root
recur and a late transaction undo a later one; in `publication_refused` four runs do. Two
deployment processes with two keys race in one directory or meet from both. Five tasks are
a bootstrap, a write, a rotation, a late write or tool with the old key, and a restore.
Three processes are two that race on an empty database and a third that finds what they
left. Two holder objects are the page's and the one an action makes; two locks are one
that strikes an action and one after it. Three heads are an authorization, a change of
status and nothing else or a later block; with drift 2 and tolerance 1 a head is refused,
taken for now, or old. Three commands are a creation, a rotation that lands late and a
disabling; an account lives one second of a clock with two values. A limit of two in a
window of three with waits of one and a clock to six has a window shortened by its wait,
full ones beside it, and a count that is passed on at the turn of a window. One tab with
all others in `Elsewhere`, and a table with room for one of two sessions, make a session
expire, be refused and be replaced.

`publication_runs` has a view. Once a contract is released the deployment commands only
go on by themselves: no other action reads or writes their state, and what they can still
do they could do without the release, where it is explored in full. So the view forgets
them then; the two properties about them are checked before it.

The constants scale the code's: offers 300 s, receipts, 5 attempts, limits in the
thousands, maximum age of an observation in seconds. No property depends on their size,
and the theorems below hold for all of them.

Fairness. `EveryRequestEnds` is the only liveness property (the other components promise
nothing in time: their waits are for people, wallets and chains, with no retry of their
own). It assumes weak fairness of each handler's own steps (`Handle`): every await in
`withIssuer` is on a query with a time limit (postgres.ts, `statement_timeout` and
connection timeouts) or on local cryptography, so a handler that can go on does go on or
is lost. Nothing is assumed of clients, time or losses; the constraint of
`service_contention` only leaves out submissions, which are not fair.

Each property has a mutant: a plausible bug in a definition of the model (such as
`LastWriterWins` for `Unmoved`, `ReusableConsumable` for `Consumable`), under which TLC
finds the property violated.

## 4. Proofs

The theorems hold for all values of the constants under the modules' named `ASSUME`s,
which TLC evaluates in each run. Each rests on an inductive invariant, a conjunction of
named parts: the first states have it, each action keeps it (one lemma per action or per
kind of step), and the property follows from it. The invariants are needed because the
properties speak of the past: what a handler read, what a call saw, what a record was
written for. Each part says how that past is tied to the state as it is now.

`IssuerServiceProofs`, for every number of requests, holders and credentials, all limits,
clocks and skews. It begins with lemmas about the authority's operators: what each
operation does to offers, receipts and statuses, and what it discloses.

- `CASCorrect` is the invariant of the compare-and-swap, `CASInv`: which locals a handler
  has in which phase (`Locals`); no version seen is ahead of the row, and one that is
  level with it was read from the row as it stands (`Fence`); a draft is an outcome of the
  request's operation on the authority it read (`DraftFits`). `Fence` is why the
  compare-and-swap works: when the version stands, committing the draft is one step of the
  operation on the stored state. `TypeCorrect` is a part of it.
- From it: `StatusIsFinal` (`StatusNeverRollsBack`), `ReceiptsBacked` and
  `RevokedIsNotAnswered` (`NoRevokedAnswer`), `AuditIsExact` (`AuditTrail`), and
  `ServiceIsAtomic`: the service implements `AtomicService`, step by step.
- `BusyIsContended` (`BusyOnlyUnderContention`), because every conflict a request has met
  is a commit after its arrival (`Contended`); `StoredStaysLoadable` (`StoredStateLoads`),
  because each operation counts before it adds.
- `HistoryHolds` is the invariant of the history, `HistInv`: offers and receipts are those
  of the holder approved for their challenge, and what was minted has lost its offer for
  good and keeps its receipt until it has lapsed by every clock. From it `OneCredential`,
  `AnswersMinted` and `RetryReturns`, which are the properties of `service_clocks` about
  retries. `RetryReturns` is for every date a holder's clock may have shown: a retry dated
  by a clock ahead of the server's is refused until the server has caught up, every other
  one in time gets its credential, and none gets another.

`NetworkProofs`, for any number of credentials, heads, calls, runs and processes, every
drift, age and tolerance.

- Of `SignedVerifier`, with either store: `VerifierInvariant` (`VInv`: the heads are
  ordered in time and version and inactivity lasts, an authorization stands at a head that
  had its credential, each call's locals describe the challenge it targets, the head it
  found and the time it decided), and from it `VerifierTypeCorrect`, `InTime` (which has
  the credential's expiry in it), `NotStale`, `OneAcceptance`
  (`AcceptedOnce`).
  `VerifierIsGate`: it implements `OneShotGate`. The steps need, besides, that a call has
  a challenge from its presentation on and that the ledger answers only challenges that
  were given out (`Presented`).
- Of the publish command by itself: `Truthful` and `RevocationHolds`. The invariant
  `PubInv` says that what is under way or was published was sent (`SentOnce`), that with
  an operator who reconciles only the last run's transaction can be under way (`Alone`),
  that this run's root is free of what was revoked when it looked again (`Clean`), and that
  a run that sees its root published sees the contract's (`Standing`).
- Of `PreprodOperator`: `Recorded` and `Administrable`, because a process that went past
  the exclusive creation of a record owns its directory (`Owned`, `Sole`) and whoever has
  keys has those of the file (`Keyed`); `CleansUp` (`TrialCleansUp`), because what the
  acceptance run counts as revoked is, and the reference it holds is that of the credential
  it was given (`TrialInv`).
- Of the command beside deployments and the acceptance run: `TruthfulThroughout`
  (`RecordsAreTruthful`) and `RevocationHoldsThroughout` (`ConfirmedRevocationHolds`).
  There `Standing` is false: the acceptance run publishes roots of its own, so a command
  may see its root published without having sent it. `ChainInv` says instead that no root
  is or will be under way that undoes a confirmed revocation (`Spotless`), and what an
  indexer can still show to a command that found another root (`OwnRoot`).

`HostedDatabaseProofs`, for any number of tasks, identities, keys, processes and requests.

- Of `AuthorityRecovery`: `IssuerKept` (`OneIssuer`), `KeyKept` (`CurrentKeyOpens`) and
  `WritesKept` (`WritesStand`). Versions restart after a restore, so the compare-and-swap
  is not enough: `Fence` (a row held at the table's version is the table's row) survives an
  insert only because nobody holds a row then, which is what `Quiet` and `Beginning` say.
- Of `RequestLimits`: `BudgetInvariant`, `WithinLimits` (`WithinBudget`) and `RefusalsDue`
  (`RefusalIsDue`), with either store's clock. An admission takes one of three forms
  (`Fresh`, `Within`, `Turning`: it begins a window, adds to one, or both, when the clock
  turns between its readings). By the invariant every admission is charged to a place of
  its own in a window that had room for it (`Charged`), windows end at least `Apart` from
  each other, and an admission comes at most `Late` after the end of its window. So the
  admissions of one window's time are charged to three windows at most, two where nothing
  waits, and there are no more of them than places; this is a pigeonhole argument and not
  an induction over the sequence of admissions. `Chained` ties the count to the admissions
  it stands for, hence a refusal to theirs.

`HolderSessionProofs`, for any keys, credentials, passphrases and provers: `HolderInvariant`
(`HInv`: which objects hold open seeds, which backup belongs to the page, what a page that
was left may still hold (`Visiting`), and what each action carries over its awaits:
`WithHolder`, `Creating`, `Enrolling`, `Proving`), and from
it `HolderTypeCorrect`, `SeedsLocked` (`NothingLeftOpen`), `HolderRecoverable`
(`HolderHasBackup`), `OfferedTransactionFits` (`PresentationMatches`), `OneConsentPerProof`
(`ConsentPerProof`) and the action property `EnrollmentLosesNothing` (`BackupOnlyGrows`).

`LifecycleKitProofs`, for any chain, drift and tolerance and any number of challenges and
calls: `KitInvariant` (`KInv`: how far the creation of a challenge came shows in its file,
a call's locals are due when it consumes, and a marker has one owner whose file is synced
once it is accepted), and from it `KitTypeCorrect`, `OneAcceptancePerChallenge`
(`AcceptedOnce`), `ChallengeSurvives` (`HandedIsReadable`) and `AcceptancesAreDue`
(`AcceptedAreDue`), all through power losses. `KitIsGate`: it implements `OneShotGate`,
because a call that was accepted has ended, with the challenge it was accepted for
(`Answered`), and owns the only marker of it.

`WorkbenchProofs`, for any number of tabs, sessions and challenges: `BenchInvariant`
(`BInv`: what a page shows fits together, what a call of the page is about is what the
page still shows, what a verification is about to report it found in the challenge's
session and under the authorization's status, the table is bounded), `ResultsFit`
(`ResultFits`) and the action property `SessionsKept` (`SessionsStand`).

`OperatorAccessProofs`, for any number of operators, commands, servers and requests: `Stands`
(`ActorStood`) and `NoneStranded` (`NobodyStranded`); and `PageIsAClient`: each step of
`IssuerConsole` is a step of `OperatorAccess` or leaves it alone, so that `PageStands` has
both properties with the page as a client. `PageActsAsShown` (`ActsAsShown`) is about the
page itself: while an operation is under way its inputs are those that were sent (`PageInv`).

`LocalServicesProofs`, for any number of handlers, starts and identities: `LocalInvariant`
(`LInv`: a row read tells by its version whether it still stands; one start at most fills
the marker, and a marker without a row outlived its database), `AnswersKept`
(`AnswersStand`), `ServesAsMarked` (`StartedAsMarked`) and `IdentityKept`
(`NoNewIdentity`). Of `LocalVerifier`, whatever its clock shows: `LocalOnce` (no challenge
is accepted twice), `LocalFresh` (what is accepted was signed for a challenge the verifier
drew, less than five minutes before the second reading of the clock, and neither had run
out) and `LocalWithinLimit` (at most 128 requests are pending).

Only model-checked: `EveryRequestEnds`, since liveness under fairness and ENABLED are out of
the prover's reach; and the facts about `StatusTree` and `DustFee`, whose operators are
evaluated on small trees and wallets, because what a fold computes for every input is
induction over data.

## 5. Assumptions and what is not modelled

- Cryptography is ideal; serialisation is faithful except where `fromState` refuses a
  state (`Loadable`). Random values do not repeat.
- The PostgreSQL row is linearizable, as a single-row UPDATE is.
- The ledger does not fork, and block times stay within `Drift` of real time.
- `ConfirmedRevocationHolds` speaks of the behaviours in which the operator reconciled
  before each run (`settled`), as the error messages of `confirmed-submit.ts` and
  docs/PREPROD_OPERATOR.md ask. Otherwise it fails: a run times out on the wait for root
  A, a credential in A is revoked, a second run publishes root B and confirms, then the
  transaction for A is included and the revoked credential is valid on the ledger again
  until the next publication. Nothing in the code prevents it: `publishStatus` takes no
  expected version.
- `ActorStood` allows what the code allows: an account is looked at once, so that requests
  under way when it is disabled still act. What it excludes is a request that acts for an
  account closed before it came, or beyond what the account granted while it was served.
- `TrialCleansUp` does not speak of a credential whose reference never reached the run:
  when the answer of the issue is lost (preprod-acceptance.ts:47 and :79) there is nothing
  the run could revoke, and the credential stays valid until the operator, whom the attempt
  record (line 25) tells to reconcile it, finds it.
- `NothingLeftOpen` names two exceptions of the code: the unlock of section 6, and a
  `restore` that throws when a stored credential is refused (index.ts:589), which leaves the
  seed of the `Holder` it was building to the garbage collector, not zeroed.
- `HolderSession` shows one thing no property rules out: when the idle timer locks the
  page while an enrollment is encrypting the new backup, `view` sets the records again and
  the page looks unlocked without a holder. Its actions then ask to unlock first, and the
  lock button clears it.
- `WithinBudget` is what the statements give, not the configured limit: a fixed window
  lets through twice the limit around its end, and three times where a wait for the lock
  shortened a window. It assumes that a wait is less than half of a window, which the
  timeouts see to.
- `RefusalIsDue` speaks of a chain of admissions and not of the last two windows, because
  PostgreSQL's clock may turn between two readings of one statement: an admission then
  adds to the count of the old window and begins a new one, to which it passes the count
  on. A caller who is admitted in that second again and again sees a limit that is spent by
  admissions of earlier windows, each less than a window's reach from the one before.
- Not modelled: the rendering of pages, read-only routes and proxies; the first
  qualification contract (one circuit, superseded by the authorization contract); the
  browser and network end-to-end scripts and the scripts that check or film the interface,
  which drive the components from outside; `preprod-finalize.ts`, which only reads; wallet
  seed and checkpoint files, which the SDK owns; the wallet connection, whose state is a
  third party's; codecs, parsers and signature code, which have no state; the audit rows
  of restore and rotation.

## 6. Findings

`publication_refused`. The publish command creates its attempt record, one file per root,
with flag `wx` and never removes it, not even after the publication was confirmed. But
roots recur: unissued and revoked leaves are both zero, so issuing a credential,
publishing, revoking it and publishing again leads back to the root before. When a
recurring root was itself published earlier, the command fails with EEXIST although
nothing is unresolved, and the revocation stays unpublished until someone deletes the
file by hand. docs/OPERATIONS.md asks to run the command "after issuance or revocation
changes"; the record is documented (docs/PREPROD_OPERATOR.md) as what "prevents automatic
retries after a failure, timeout or restart".

`holder_left`. `unlock` reads the selection counter only after its first await, loading
the modules (holder/page.tsx:137-138); `create` reads it before. If the page is left
during that await, the clean-up has already raised the counter and cleared the idle timer;
`unlock` sees no change, and the restored holder stays unlocked in a page that is gone.
docs/SIGNED_ISSUANCE.md says that "five minutes without pointer/keyboard activity locks
the holder"; nothing locks this one.

One observation that is not a run. `bootstrap.ts:31`: the first start of a local server
creates the marker file and fills it in a second step. A start that comes in between, or any
start after a crash in between, finds an empty marker, compares it with the fingerprint and
stops with "Issuer identity changed: restore the matching database and key", although nothing
changed. After a crash it stays so until someone removes the file. `LocalIssuer` has these
steps (`CreateMarker`, `FillMarker`), and `StartedAsMarked` holds through them.

## 7. Plan

Done: every component that keeps state of its own, except where section 5 says; the
composition of the page with the accounts and of the deployment with the publication; the
theorems of section 4.

What would add most next:

1. The acceptance run as a refinement of the publish command: its publications are steps
   of their own in `PreprodOperator`, and do what a run of the command does.
2. An abstract ledger of revocations, which says for how long a revoked credential can
   still pass, composed of the issuer, the publication and the verifier: today each part
   proves its own share (`StatusNeverRollsBack`, `ConfirmedRevocationHolds`,
   `NoStaleAcceptance`).

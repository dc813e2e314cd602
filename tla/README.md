# Models and proofs of the StudentHub platform

TLA+ specifications of the parts of this repository whose correctness depends
on what happens *between* two statements: a gateway process that waits for a
lock, a COMMIT whose acknowledgement is lost, a callback served twice, a daemon
that dies between two files. Every definition is translated from the source;
`PROJECT.json` names the lines of each. The modules are checked with TLC on
small instances. Safe writes, documents, organizations with their grants and
contracts, worker jobs, e-mail, login, the search index, profile saves, the
worker supervisor and the coordinator's ledger, ticks and landings are also proved correct for instances of any size (section 4).

## 1. The system and its parts

The repository is a monorepo of two programs and their shared packages (the
StudentHub platform: a *gateway* that serves HTTP and a *worker* that runs
scheduled jobs, both over PostgreSQL), and of the development orchestration in
`.github/coordinator` (a coordinator that hands work orders to a *supervisor*,
which runs builders and reviewers as processes).

| part | state it keeps | operations | modelled |
|---|---|---|---|
| Safe write contract (`packages/safe-write-contract`, `packages/db/src/safe-write-store.ts`) | `person_preferences`, audit rows, per-process set of spent tokens | preview, confirm | SafeWrite |
| Profile editing (`profile-browser-edit-http.ts`, `person-profile-store.ts`) | `person_profiles`, audit rows, imported values, sessions | form, save, status check, recovery | ProfileSave |
| Login (`login-application.ts`, `postgres-login-store.ts`) | `login_states`, `external_identities`, `login_sessions`, `principals` | start, callback, logout, unlock | Login |
| Worker jobs (`packages/observability/src/jobs.ts`, `postgres-job-runs-store.ts`) | `job_leases`, `job_runs` | runJob with renewals, alerts | JobRunner |
| E-mail outbox (`email-outbox.ts`, `postgres-email-outbox-store.ts`) | `email_outbox`, `email_attempts` | enqueue, processDue, complete | EmailOutbox |
| Worker supervisor (`supervisor.mjs`, `supervisor-worker.mjs`) | files under intents, branches, orders, runs, launches, completions; processes | submit, launch, exit, recover, status, shutdown | Supervisor |
| Organizations, grants, pay contracts (`packages/organizations`, `packages/pay-contracts`, `packages/db/src/postgres-organization-*`, `postgres-authz-store.ts`, `postgres-pay-contract-*`) | organization tree, deletions, stores, grants, contracts, their audit rows | create, delete, appoint, grant, revoke, contract changes | Organizations |
| Candidate documents and idempotency (`packages/private-documents`, `packages/idempotency-contract`) | one snapshot row, reservations, immutable objects in R2, receipts | authorize, direct and gateway PUT, finalize, remove, audited reads | CandidateDocuments |
| Search index (`typesense-indexer.ts`) | collections and an alias of an external server | publish | SearchPublish |
| Identity provider's keys (`login-runtime.ts`) | a cache per process | resolve with overlapping fetches | JwksResolver |
| Coordinator: capacity ledger (`capacity-scheduler.mjs`) | one file, a lock directory | reserve, move, pause, expire | CapacityScheduler |
| Coordinator: ticks (`reconcile.mjs`, `single-run-activation.mjs`, `review-routing.mjs`, `supervisor-dispatch.mjs`) | receipts as comments on a card | arm, reserve, launch, poll, recover, release | Reconcile |
| Coordinator: landings (`service/card-land.mjs`, `merge-readiness.mjs`) | pull request, landing lock and takeover marker, merge-attempt record | update from main, wait for green, lock, merge, record | CardLand |
| Coordinator: push broker, incidents, card runs before they land | bundles, receipts, system units | push, report, run | no |
| Deployment (`deploy/coolify`) | ownership of the staging slot | take over, switch, roll back | no |
| Catalogue, profile records, notifications, exports | one table row per operation | validation and single statements | no |
| Gateway routing, pages, administration | none of their own | parse, call a store, render | no |
| Migrations, bootstrap, restore check | schema, run by hand under an advisory lock | | no |
| Verifier receipts, repository policy, tools, docs | none | pure functions of files | no |

### How they interact

* The gateway's processes share nothing but the database. They meet in advisory
  locks keyed by the principal (safe writes, profile saves), in unique indexes
  (tokens, subjects) and in row locks. ProfileSave contains the other users of
  the same lock as `OtherWriter`.
* Login registers principals; SafeWrite and ProfileSave depend on a principal
  still existing. Both model its removal and its cascade at any moment.
* A session that Login stores is what ProfileSave authorizes with, before and
  after it waited for the lock.
* The worker runs the outbox under JobRunner's lease. Since a run may go on
  after it lost its lease (run `job_lost`), EmailOutbox assumes nothing of the
  lease: its workers overlap freely.
* Everything in Organizations meets in row locks: a deletion takes its
  organization FOR UPDATE, whoever adds to it FOR SHARE, a write its asker's
  grants FOR SHARE, contracts an advisory lock per candidate and store. The
  safe-write contract's preview and confirm stand before all of them; its token
  is SafeWrite's and left out there.
* Candidate documents hold the row of a person's snapshot while they write
  objects to a bucket that knows nothing of the transaction; the idempotency
  receipts are in the same row.
* The coordinator talks to the supervisor with signed orders and repeats an
  order whose answer it did not get. In Supervisor the coordinator is an
  environment that may send any order and any status question at any time; in
  Reconcile the supervisor is reduced to its answers (an order is unknown,
  admitted, begun, held, refused with or without records, completed).
* A card's episode ends in a PASS of the review (Reconcile); a landing begins
  with the newest PASS (CardLand) and ends on GitHub's main, which people use
  as well.

### What is hard, and the properties that make each part correct

* **Safe write.** Ownership and value are checked before the transaction, which
  then waits for a connection and a lock; tokens are spent in memory of one
  process only; COMMIT's answer may be lost. A token must leave at most one
  receipt (`SingleUse`), what lands must be what was shown (`AppliedAsShown`),
  nothing may be written without audit or lost (`RecordIsAudited`), answers
  must be true (`AnswerIsTrue`), a removed principal must not be written
  (`WritesNeedAPrincipal`), nobody may wait for ever (`EveryCallEnds`).
* **Profile saves.** The same, plus double submissions of one form, retries
  after an unknown outcome, imported values that change under a form, two
  fields that exclude each other, and sessions that end during the wait:
  `FormSavesOnce`, `AnswerIsTrue`, `LateNeverSaves`, `MotherRule`,
  `EveryRequestEnds`.
* **Login.** Callbacks are repeated, crossed between browsers and served
  concurrently; addresses are reassigned by the identity provider; principals
  are deleted meanwhile: `SessionsAreEarned`, `NoOrphans`,
  `OnlyTheRecordedId`. Fetches of the provider's keys overlap while keys
  retire: `RetiredKeysGo`.
* **Organizations.** A check is one statement and the write another, with any
  other transaction between them: `DeletedIsEmpty`, `NoOverlap`,
  `AuditTellsTheStory`, `ActsWithAuthority`.
* **Documents.** A row and a bucket that fail apart, late objects, retries under
  a key, two uploads against one version: `KeyActsOnce`, `ReferencedIsStored`,
  `NothingIsLost`, `OkIsDurable`, `ReplacesWhatItSaw`.
* **Search.** Requests obeyed after they were given up, clean-up after a switch
  of unknown outcome: `AliasIsComplete`.
* **Jobs.** A lease with a clock, renewals in flight, work that goes on after
  the lease is lost: `SupersededFails`.
* **Outbox.** Claims with a lease, overlapping and dying workers, a provider
  that delivers and then fails to say so: `BoundedSends`, `EveryMessageEnds`.
* **Supervisor.** One admission is up to four durable writes, a launch four
  more; the daemon may die between any two while the workers go on:
  `OneProcess`, `OneWriterPerBranch`, `DisownedNeverRuns`,
  `SettledHasReceipt`, `AwaitedLaunches`.
* **Capacity ledger.** Read, evaluate and replace are three file operations of
  processes that die; reservations expire by age while their workers may run:
  `WorkersHaveRoom`, `SpendingIsBounded`, `NothingIsUndone`.
* **Ticks.** A tick works on what it read when it began; a receipt may be
  written and not acknowledged, an order admitted and not answered:
  `NobodyWorksUnseen`, `StepsFollow`.
* **Landings.** GitHub obeys late; main moves under a head that was green; a
  lock whose owner died is taken over by several at once: `LandsAsReviewed`,
  `OneMergeStep`.

`PROJECT.json`, "hazards", lists each hazard at its line with the properties
that would catch it, including the ones nothing covers yet.

## 2. Modules

Names of actions and stages follow the source. In every module an action is
what the code does between two `await`s (or, for the supervisor, the ledger and
the landing lock, between two file operations), or one statement or transaction
of the database. Failures are actions: a statement that throws, an answer that
is lost after the server acted, a process that dies. Histories (variables that
no action's guard reads) are marked as such.

An `MC*` module puts components that share no state side by side for TLC: a
variable `part` says which of them a behaviour is of, and the others stay in
their initial state, so the state space is the *sum* of theirs. It EXTENDS one
of the components and INSTANCEs the others; renamed variables are given with
WITH. MCPlatform is Organizations and CandidateDocuments; MCPeople is Login,
SearchPublish, JobRunner and ProfileSave twice (one ordinary field; the two
origin fields); MCCoordinator is CapacityScheduler, Reconcile and CardLand;
MCSupervisor is Supervisor and JwksResolver; MCEndings is EmailOutbox and
ProfileSave under fairness. What an instance needs of its constants is assumed,
by name, in the module that declares them, and TLC evaluates it. The theorems
about the instanced modules are about `AllSpec` of the MC module, for any values
of its constants: the instance is only in the `.cfg`, and what the runs leave
out as symmetric or unread (`MCBound`) is not left out of the theorems. The
type invariants of all modules (`AllTypesOK`
in the MC modules) were checked on the same instances; they are not among the
listed properties.

### SafeWrite and AuditedRecord

`Preview` and `Confirm` start a call; `ConfirmOwned` and `ConfirmRead` are the
two reads before the transaction, `TakeLock`, `VerifyInside`, `CompareAndWrite`
and `InsertReceipt` its statements, `ServerCommit`/`ServerRollback` what the
server does with it, `ConfirmAcknowledged`/`CommitThrows` what the caller hears.
`Restart` empties a process's memory and drops its calls, whose transactions
the server still decides. `RemovePrincipal` waits for the row that a write in
flight has locked, as the foreign key makes it.

`AuditedRecord` is the promise to callers: an offer is applied at most once,
only on the very value it showed, and in the same step leaves its receipt.
SafeWrite implements it (`ImplementsAuditedRecord`) with the offers computed
from the issued tokens and every other variable mapped to itself; `ServerCommit`
is `Apply`, everything else a preview, a removal, a registration or a stutter.

### ProfileSave

One person (everything is keyed by the principal), any number of processes.
`Edit`, `Submit` and `CheckStatus` are the three kinds of request; their stages
are those of `save` and of the store's transaction. The two origin fields have
the catalogue's rules (`Available`, `Written`). A page is rendered in a step of
its own, after the reads that fill it. Requests use tokens and recovery proofs
that were delivered in a page, as a browser does.

### Login

A row of `login_states` lives from `Start` to the callback's `Consume`
(DELETE ... RETURNING). `Exchange` asks the provider; `FindIdentity`,
`CreateIdentity`, `BindStableId` and `PutSession` are the store's statements
and transactions, each of which may commit and lose its answer. The provider is
trusted for one thing: a code's token has the claims of the login it belongs to.

### JobRunner

One job (every statement is keyed by it). A renewal is a message: sent,
granted or denied by the server, answered later, so an answer can be stale when
it arrives. `Expires` may happen whenever a lease is held, since clock and
scheduling of a process are not under its control.

### EmailOutbox

A worker claims a batch, processes row by row (`Take`, `Send`, `Complete`) and
claims again. `ComesDue` is the clock: a retry's delay or a claim's lease has
passed. `Fault` counts crashes, stalls and failed statements and marks the
messages they touch.

### Supervisor

Six kinds of files, the daemon's memory (the handler it is in, scheduled
launches, watched children) and the processes. The daemon's handlers never
await, so they do not interleave with each other; but `Crash`, and the workers'
own steps, may come between any two durable writes. `accept` is `Submit`,
`ClaimBranch` (the walk along the ownership chain of a branch), `CreateOrder`
and `CreateRun`; `launch` is `Launch`, `MarkSpawn`, `Spawn`, `RecordRunning` and
`RecordLaunched`; the exit handler is `ExitSeen` and `FinishRun`; `recover` goes
through the pending intents and then the attempts, before the socket opens
(`Listen`). A daemon that is stopped (`Shutdown`, `Exit`) closes its socket; one
that crashes leaves the socket's file, and the next refuses to start over it
(`supervisor-service.mjs:26`, `supervisor.mjs:861`) until somebody removes it
(`RemoveSocket`, an operator's step). `dispatch` is the launch gate of the daemon
that runs: set when it starts, shut when it stops.
A file is created, or replaced, atomically (`durableCreate`, `durableReplace`).
A child's "error" event is taken to come only from a child that is gone.
`HoldIncomplete` stands for every reason to hold a running attempt; the SIGTERM
it sends may come late or never (`WorkerDies` has no fairness).

### JwksResolver

One process's cache. A call that finds no fresh key asks the issuer
(`Ask`), whose answer is the document of some moment since (`IssuerAnswers`),
and replaces the cache when it arrives (`Arrives`), in any order.

### Organizations

A request is a transaction that runs the list of statements `Plan` gives for
its kind. A statement waits for the locks in `Needs` (`Free`, `Conflicts`), then
either passes on what is committed (`Passes`) or refuses. What it writes is
installed at `commit` by `CreateOrg`, `CreateStore`, `RemoveStore`, `WritePay`,
`RemovePay`, `Appoint`, `DeleteOrg`, `GrantRoles` or `RevokeRoles`, because
nobody reads it before, and what its rows conflict with is already in `Needs`.
`seen` is what an audit row's "before" read.

### CandidateDocuments

`Send`, `Lock`, then `Replay`, `Refuse` or `Execute` on the row the lock
shows (a finalization whose direct object is `Missing` can only fail, as
unavailable); `Reserve`, `Write` and `WriteUnknown` for the objects, `SendCommit`, and
the server's `ServerCommits`/`ServerAborts`, which the caller hears of
(`Acknowledged`) or not (`Unacknowledged`). `Land` is a PUT obeyed after it was
given up, `PutDirect` the browser's own PUT. `Executed` is what each operation
does to the row. Each process has its own clock, so whether a key, upload or
link has expired is decided anew by each request.

### SearchPublish

A publisher looks for, creates, fills and counts the collection of its
documents, switches the alias and, if anything fails, cleans up what it created.
A request given up is in `late` until the server obeys it. Two uses of the index
break the alias, contrary to the comment at `typesense-indexer.ts:172`: the
answer of the *switch* is lost, and the clean-up deletes the collection the
alias now names; or a given-up deletion, or the clean-up of a second publisher
of the same documents, hits a collection in use. `AliasIsComplete` states
exactly these exceptions (`shaken`).

### CapacityScheduler

`Lock`, `Read` (with `Expires`), `Evaluate` per order of the batch (or
`Transition`, `PauseResource`), `Write`, `Unlock`; `Busy` when the lock stands.
`Admits` is the order of the code's refusals. `Throws` is the error path: a file
operation throws, or the ledger does not parse, and the `finally` of `withLock`
removes the lock, unless removing it is what threw. The callers (`Launch`,
`WorkerEnds`, `Proper`) follow CAPACITY-SCHEDULER.md. A process that dies leaves
its lock, which is never stolen: the ledger is then read-only for good, as the
code intends. A reservation that was handed on ("dispatching") stays until its
caller moves it, launched or not: the ledger promises no more, so no property
does.

### Reconcile

`Armed` decides what an activation may still launch from the receipts of its
episode, `Due` which step is next, `Ended` whether it is over. A tick begins
with what it reads (`Begin`) and walks the code's loops in their order
(`Phase`, `Turn`): stranded reservations, disowned launches, recovery, polling,
resumption, then, if nothing moved, a new reservation (`Reserve`), its
read-back, the launch intent and the submission. `Send` is a receipt that is
written and acknowledged, written and not, or lost.

### CardLand

`Start` finds the PASS and opens the pull request; `ReadMain`, `SendUpdate`
and `TakeUpdate` bring it up to main, accepting only an update that merges main
into the known head and keeps the reviewed blobs (`OnlyMainCameIn`);
`ReadChecks` waits for two green reads in a row. `TakeLock` is the landing lock
and its takeover, one file operation each, the look-up of the holder's pid in
`/proc` (`LookUpHolder`) a step of its own after the read (`ReadHolder`); under
the marker the two are one, as a pid that was gone stays gone. In the merge step the landing looks
at main, reads every authority, records its intent (`Prepare`), reads them
again (`Confirm`), asks for the merge (`SendMerge`), reads GitHub (`ReadBack`)
and records the end. GitHub's `ServerUpdates` and `ServerMerges` happen at any
time while a request is in `asked`, also after the landing has given up; people
commit, push, update and merge. A landing that dies while it writes the lock's
pid, or during a takeover, leaves a lock only a person removes, as the comment
at `card-land.mjs:869` says.

## 3. Runs

Every property of a passing run has a mutant: a version of one definition with
a plausible bug (a dropped check, a missing reset, a swapped order), kept next
to the definition it replaces and listed in `PROJECT.json`, under which TLC
finds that property violated in the run's own instance.

| run | instance | shows |
|---|---|---|
| `safe_write` | 1 person, 1 restarting process, 4 calls, 1 value beside "absent" | all safety properties, refinement of AuditedRecord, every call ends |
| `people` | Login: 2 logins, 3 callbacks, 2 browsers, 2 addresses, 2 stable ids or none. Search: 3 publishers, 2 contents. Editor: 3 requests on one field, 2 on the origin fields, at most 2 receipts. Jobs: 2 runs | sessions, the alias, forms that save once, true answers, the mother rule, lost leases |
| `platform` | Organizations: 2 transactions of any two kinds, 1 company, 2 new ids of each row, 2 people. Documents: 4 requests on one slot, 2 bodies | nothing stranded, no overlap, whole audit trails, no revoked authority; keys, versions and bodies |
| `coordinator` | Ledger: 2 processes, 4 orders, 1 death or 1 call that throws. Ticks: 2 episodes on 1 or 2 cards. Landings: 3 cards, 2 workers, 1 person's act or 1 death | limits and budget, no worker unseen, chains of verdicts, landings as reviewed, one merge step |
| `supervisor` | 2 attempts on 1 branch, the daemon crashes or is stopped twice; 2 keys, 2 calls | the supervisor's safety and liveness; retired keys go |
| `endings` | 2 messages, 2 workers, 2 attempts, 1 fault; 3 requests that need one lock | bounded sends, every message and every request ends |

Six more runs end in a violation: the code disagrees with what the repository
says of it.

| run | disagreement |
|---|---|
| `receipt_failed` | "A receipt failure means nothing happened": COMMIT's answer was lost after the server committed; the person is told `receipt_failed` and the change is durable. |
| `login_locked` | a mismatch "revokes its login sessions and rejects all later sign-ins": a callback that had passed the check stores its session after the lock. |
| `job_lost` | a run that lost its lease is reported failed: a renewal granted long ago and answered only after the work is taken for the final renewal, and the run is recorded as succeeded. |
| `supervisor_accepted` | "Accepted-but-not-launched work resumes after restart": an order refused while its branch was busy keeps that hold code when it is sent again and admitted; nothing ever launches it. |
| `reconcile_busy` | a review that found its sandbox busy "stays a retryable FAILED": the retry has the same attempt id and is answered with the stored completion, so it fails again without having run. |
| `reconcile_ended` | an ended episode's launch of unknown outcome is "asked over status only, never submitted": one that never reached the supervisor is submitted by the next episode's tick. |

### Bounds, and why they are enough

* *Calls, requests, callbacks, runs* are consumed: each is one request of one
  behaviour. Three are the smallest number in which a form meets two competing
  uses of it. SafeWrite has four: two previews with a confirm of each, so that
  one change lands between another's preview and its confirm. In Login two of
  the three callbacks can share a login while the third serves another. Two
  runs of a job are enough for one to take over the other's lease, the theorem
  covers any number.
* *People*: SafeWrite has one; the records of two share nothing but the check
  of a token's owner, and the theorems cover any number.
* *Processes*: SafeWrite's instance has one process whose restarts play the
  part of the others (what distinguishes processes is only their memory).
  ProfileSave's, Login's and the documents' processes keep nothing between
  requests and need no name.
* *Values*: SafeWrite compares a value with the one shown; one value besides
  "absent" makes both outcomes possible. The origin fields need the country
  Kuwait and one other.
* *MaxReceipts* (ProfileSave) bounds how often other writers write: two allow a
  change after a form is shown and a second one after the first submission.
* *Editor* (`EditorBound` in MCPeople): a token expires, or an import changes,
  only when a save is about to ask for it; nobody reads either before.
* *Organizations* (`TreeBound` in MCPlatform): the hazards are all races of two
  transactions, so there are two, of any kinds. The operator organization is
  only created under; contracts are for the first store; start rows are chosen
  up to renaming.
* *Documents* (`DocumentsBound`): the row's lock admits one transaction at a
  time, and a request that waits has touched nothing, so requests are sent one
  after the other, the next when the one before has sent its COMMIT or has
  ended; late commits, aborts and objects still overlap with all later ones.
  One request fails or one brings another body. `Capacity` is 3 bodies, which
  the instance reaches.
* *Ledger* (`LedgerBound`): a process dies or a call throws, or a resource is
  paused before anything is reserved, not both; failures between the lock and
  the write are taken just before the write. Of two calls that have not asked
  for the lock yet, one is chosen after the other has asked.
* *Ticks*: `MaxFails` bounds the failures of one attempt, the `Max...` of the
  committed configuration are small, so that every limit is reached.
* *Landings* (`LandingsBound`): one person's act or one death; a commit
  touches no card's files, or those of every other unmerged card; checks turn
  green only while their landing waits and red only in the merge step (what
  they do elsewhere nobody reads). Three cards are needed for a takeover that
  two others race for.
* *MaxFaults* (EmailOutbox) is one fault of any kind at any point. With it two
  claims of a row overlap, which is what every property is about.
* *MaxCrashes* (Supervisor) counts crashes and stops; it is two, so that
  recovery itself is interrupted. Two attempts on one branch compete for it, and
  a chain of two has every case of `ClaimBranch`.
* CHECK_DEADLOCK is off because every behaviour of a bounded instance ends:
  when its requests are used up nothing is left to do.
* Symmetry is used only in runs without liveness properties.

### Fairness

* SafeWrite, ProfileSave: weak fairness of each request's own next step and of
  the server's decision about an open transaction. A process that lives goes on,
  and PostgreSQL commits, or rolls back when the connection is gone. No fairness
  of arrivals, failures, expiry or other writers. Waiting for a lock is not a
  step, so `EveryCallEnds` rests on every holder's giving it up.
* EmailOutbox: weak fairness of a worker's steps and of the clock; strong
  fairness of a claim that includes a given due message, since the host's
  schedule starts the job again and again and the claim takes what is due and
  unlocked. A worker whose step is always possible may still die instead.
* Supervisor: weak fairness of the handler in progress; strong fairness of each
  queued launch, which the event loop serves between other handlers. None of the
  workers' ending, of exits and deadlines, of orders being sent, of crashes, and
  *none of a restart*: the unit tries three times in a minute
  (`StartLimitBurst=3`, `shu-supervisor.service.in:3-4`), and "after an unclean
  crash, bounded retries can fail until an operator confirms the prior daemon is
  gone, inspects workers/state, and removes only its stale socket"
  (`service/README.md:218-220`). So `AwaitedLaunches` is conditional: what awaits
  its launch is launched or settled, *or* the daemon that admitted or recovered
  it dies, stops or runs with the gate shut (`dispatch = "off"`); the promise is
  then the next daemon's, whenever it is started. `AcceptedResumes`, which run
  `supervisor_accepted` refutes, has the same condition: its counterexample
  is a daemon that lives and dispatches, and launches nothing.
* JwksResolver: weak fairness of a fetch's end, which the code's timeout
  guarantees, and of the clock that expires keys. None of the issuer's rotations.
* The other modules are checked for safety only.

## 4. Proofs

### SafeWriteProofs

It proves, for any sets of people, processes, calls and values
and with the assumptions `AbsentAssumption` and `NoneAssumption` only (the two
placeholders are none of the other values):

| theorem | states |
|---|---|
| `Invariance` | the inductive invariant `IInv` |
| `TypeCorrect` | `TypeOK` |
| `SingleUseHolds`, `AppliedAsShownHolds`, `RecordIsAuditedHolds`, `AnswerIsTrueHolds` | the safety invariants of `safe_write` |
| `WritesNeedAPrincipalHolds` | an action property: only a registered principal's record is written |
| `Refinement` | `Spec => ImplementsAuditedRecord` |

**The argument.** The properties are not inductive: from an arbitrary state in
which each token has at most one receipt, a call in the middle of its
transaction could add a second. `IInv` adds what the code relies on:

* `CallInv`: what a call has checked before its transaction (token, owner,
  value shown) stays true of it, because tokens never change once issued and a
  call's own fields change only where the code assigns them.
* `TxInv`: a call past `TakeLock` holds the lock of its principal until the
  server has decided, and an open transaction belongs to such a call or to one
  whose caller is gone.
* `VerifiedInv`: what the transaction verified (token unused, value unchanged,
  principal present) still holds when the server commits it, since every other
  writer of these needs the same lock, or waits for the row.
* `AnswerInv`: a durable transaction's token has its receipt, two durable calls
  have different tokens, and a spent token in memory has a receipt.
* `ForeignKeyInv`, `ErasedInv`: a stored value has its principal; a removal is
  remembered at a length the ledger has had.

`InitIInv` and `NextIInv` give `Invariance`; `NextIInv` has one lemma per
conjunct, each with a step per action that can disturb it. What calls, the
ledger and the transactions may change at all is stated once (`GotoEffect`,
`AnswerEffect`, `CallMoves`, `CommitFacts`, `LedgerStep`, `TxOrigin`) and cited.
`RecordIsAudited` needs `VerifiedInv` to know that the receipt appended starts
where the ledger left the record. `Refinement` is `InitRefines` and
`StepRefines`: `VerifiedInv` provides the preconditions of `Apply`, and
`AppliedAsShown` (through `BoundFrom`) shows that what is applied was offered.

### CandidateDocumentsProofs

For any requests, slots, bodies and capacity:

| theorem | states |
|---|---|
| `Invariance` | the inductive invariant `IInv` |
| `ReferencedIsStoredHolds` | the invariant `ReferencedIsStored` of `platform` |
| `KInvariance` | the inductive invariants `KInv` and `DInv` |
| `TypeCorrect` | `TypeOK`, of the rows that transactions carry as well |
| `KeyActsOnceHolds`, `OkIsDurableHolds`, `NothingIsLostHolds` | the invariants `KeyActsOnce`, `OkIsDurable` and `NothingIsLost` of `platform` |
| `ReplacesWhatItSawHolds` | the action property `ReplacesWhatItSaw` of `platform` |

That the committed row refers only to stored bodies is not inductive: the row
that is about to be committed must do so too. `IInv` says of every request that
is writing that what its next row adds is either in the bucket or still on its
list of objects to write, and of a COMMIT that was sent that nothing is left on
that list (`Covered`); so an object that arrives late only adds to the bucket,
and a rollback changes nothing. The key of an upload that an authorization
answers, or that a receipt promises, is reserved (`Answerable`, `Promised`).
`KInv` adds what the row's lock gives: one transaction at a time
(`Alone`), how far each request and its transaction are (`Phase`), that the row
being written extends the committed one and knew nothing of the key before
(`Pending`), and that what a durable request left in the row stays (`Durable`).
From these, no two requests act under one key (`ActsOnce`).

That nothing is lost is a fact about the history (which requests acted) and the
row, and it must hold of a row that is still being written, with the history it
will have. So `DInv` says it of a row, a set of requests and their operations
(`Whole`): the versions that those requests finalized are the row's current and
retired ones, each in one slot or held, each with its body, each of an upload of
its own that is closed; every upload is one that such a request was given, and
every receipt of an authorization names one that is there. The committed row is
whole for the requests that acted, and the row a request carries is whole for
these and itself (`Carries`), replaces only what its operation saw (`Replaces`)
and loses and reopens no upload (`GoesOn`). What a client can ask is proper
(`Proper`): it was told of the uploads it names, so `KInv` finds their receipts.
There is one lemma per operation (`AuthorizeLeaves`, `PutLeaves`,
`FinalizeLeaves`, `RemoveLeaves`, `ReadLeaves`) on `Executed`. A commit then only
makes a fact about the carried row one about the committed row, since nobody
else carries one (`Alone`). `NoneAssumption` says that None is no request,
upload or receipt.

### EmailOutboxProofs

For any messages and workers, and any limits on attempts and faults: `Invariance`,
`TypeCorrect` and `BoundedSendsHolds`, that the provider is asked at most
`MaxAttempts` times for a message, and that one which nothing disturbed is
delivered at most once. Requests of overlapping workers can
outnumber the claims they were made under, so the invariant pays for each of
them: `Stages` says what a worker holds at each stage, `AttemptsAreOwn` that an
attempt belongs to one claim, `HeldIsClaimed` that what a worker holds is a
claimed row, and `Budget` that the requests made and still to be made are at most
the claims. `Undisturbed` says of a message without a fault that its only holder
is the one that claimed it last; a fault takes the message out of the claim.

### SupervisorProofs

For any attempts and branches and any number of crashes:

| theorem | states |
|---|---|
| `Invariance`, `TypeCorrect` | the inductive invariant `IInv`, `TypeOK` |
| `OneProcessHolds` | an attempt is spawned at most once |
| `OneWriterPerBranchHolds` | two attempts of one branch do not run together |
| `DisownedNeverRunsHolds` | what the coordinator was told is refused never runs |
| `SettledHasReceiptHolds` | a settled, launched attempt has a completion receipt |

`FilesFollow` is the order of the durable writes, read backwards: a later file
is there only if the earlier ones are. `ProcessFollowsMarker` says that a
process exists only behind the marker written before it, which is why recovery
does not spawn again. `OneChain` is why a branch has one writer: its claims form
one path, in which every attempt that has a successor has ended; `OrdersAreOwned`
puts whatever got an order on that path. `InAccept`, `InLaunch`, `InFinish` and
`InRecovery` say what has been written at each step of each handler; a crash
leaves only the file invariants, and `InRecovery` starts from them.

### CapacitySchedulerProofs

For any processes and orders, any limits the code's validation of the policy
lets pass (`PolicyAssumption`), and finitely many orders (`OrderAssumption`;
`NoneAssumption`: a placeholder is no reservation): `Invariance`, `TypeCorrect`,
`WorkersHaveRoomHolds` (the workers that run keep every limit and do not collide),
`SpendingIsBoundedHolds` (what is spent and promised exceeds the budget by no more
than ended workers exceeded their estimates), `BudgetIsKept` (so that it never
exceeds the budget where no task costs more than its order estimates: a case of
the constants, which the run does not assume) and `NothingIsUndoneHolds` (an action
property: what a caller was told is never undone). The property is about workers, the code counts reservations: `Good` is
that every ledger written keeps to the policy, and `BoundIsSecured` that a task
that runs, or that a process was told to launch, has a reservation without a
deadline, so that no expiry frees its room. Between `Read` and `Write` both must
hold of a copy as well: `CopyFollows` and `CallsInPlace` say that it loses nothing
the ledger has, because a process in its transaction owns the lock.
`OneCaller`, `LaunchesApart` and `EndsTheEnded` are what the callers promise, and
`AnswersAreBacked` is the ledger behind each answer.

The budget is about two sums over the reservations. `Budgeted`, a part of `Good`,
is the bound with one fact the code keeps implicitly: a reservation that is still
active has been charged nothing, so that ending it moves its estimate from
`Committed` to `spent` and anything above it to `Overruns`, once (`BudgetCharged`);
`BudgetAffords` is a reservation that passed `Affords`, `BudgetShrinks` an expiry;
`Charged` is that a charge is a cost a worker may have. What the folds compute
is proved by `SubsetInduction`, an induction over the subsets of a finite set
whose property is itself a *set* of subsets: with no operator as a parameter, the
provers can use the library's well-foundedness of strict inclusion. From
it, `SumOfAny` takes one element out of a sum, whichever it is, and `SumOfSame`,
`SumOfZeros` and `SumOfFewer` compare sums.

### CoordinatorProofs

About MCCoordinator's ticks and landings, for any episodes, cards, processes and
limits (`TicksAssumption`, `LandingsAssumption`: limits are numbers, the
placeholder None is none of the values it is compared with):

| theorem | states |
|---|---|
| `LandingsInvariance` | the inductive invariant `LandingsInv` |
| `OneMergeStepHolds` | one landing at a time is in the merge step, with the lock |
| `LandsAsReviewedHolds` | what a landing merged is what the review passed, on the main it looked at |
| `TicksInvariance` | the inductive invariant `TicksInv` |
| `NobodyWorksUnseenHolds` | a worker that lives has a receipt in one of the slots |
| `StepsFollowHolds` | the steps of an episode are one chain of verdicts |

`LockInv` is the takeover protocol: who made the lock's directory is the one who
writes its pid, and a lock is removed only by the holder of the marker, who looked
at it a second time under the marker; so a lock seen stale is still the same one
when it is removed. `RecordInv` follows a merge from the intent to main: GitHub
obeys only what a landing asked for (`AskedFor`), a landing asks for a head whose
intent it recorded (`RecordTells`) after two looks at all the authorities
(`RunsKnow`), and what is on main stays there (`MainFollows`). `TicksInv` adds
to the two properties that what a tick is about to write still holds when it is
written: a reservation is of an attempt without one, on a free card and with a
slot left, and what gives an attempt up has no worker (`PostFollows`); a
submission comes only behind a recorded intent (`IntentFollows`). One tick runs
at a time, and nobody else writes receipts.

### PeopleProofs

About MCPeople's login, search and profile editor, and about JobRunner, for any
logins, callbacks, browsers, addresses, publishers, contents, requests, fields,
values, number of receipts and runs (`PeopleAssumption`, `EditorAssumption`,
and the hypothesis of the last three theorems: again about None):

| theorem | states |
|---|---|
| `LoginInvariance` | the inductive invariant `LoginInv` |
| `SessionsAreEarnedHolds` | a session comes from one callback of its browser's login |
| `NoOrphansHolds` | no principal without an identity |
| `OnlyTheRecordedIdHolds` | only the recorded stable id signs in |
| `SearchInvariance`, `AliasIsCompleteHolds` | `SearchInv`; the alias names a complete collection |
| `EditorInvariance` | the inductive invariant `EditorInv` of the editor of ordinary fields |
| `FormSavesOnceHolds` | a form saves at most once, over what it showed |
| `AnswerIsTrueHolds` | what the page says of a request is true |
| `LateNeverSavesHolds` | a session that ended during the wait saves nothing |
| `MotherInvariance`, `MotherRuleHolds` | `MotherInv`; the two origin fields exclude each other |
| `JobInvariance`, `JobTypeCorrect` | `JobInv`; the types of the lease, the runs and the log |
| `SupersededFailsHolds` | a run whose lease was taken over never succeeds |

* `LoginInv`: a callback past `Consume` is the only one that has its login
  (`CallbacksFollow`), what a callback found or created is in the tables until
  the person is removed (`PeopleFollow`), and a session's row names a callback
  that passed the check (`SessionsFollow`).
* `SearchInv`: a content that no unfinished or repeated publishing has touched
  has one publisher at work (`AloneAtWork`), and what the alias names, or is
  about to, is complete (`CompleteWhenNamed`). `shaken` is exactly the exception.
* `EditorInv`: a save is of a form that was delivered and whose token can no
  longer change (`SavesFollow`); a transaction in progress holds the person's
  lock (`LockFollows`); one that is about to commit has no receipt for its token
  yet and its field still has the form's baseline (`CommitFollows`); each receipt
  of a form is of its own token and baseline (`LedgerFollows`). `SentFollows`,
  `AnswersFollow` and `LateFollows` carry the same across a COMMIT whose answer
  is lost.
* `MotherInv`: a request past the lock owns it, and if its transaction has sent
  COMMIT of an answer about the mother, the nationality it found under the lock
  is still not Kuwait; the other field's write clears that answer itself.
* `JobInv`: a run whose lease was taken over while it worked, with no granted
  renewal on its way, has no way back (`NoWayBack`): nothing can grant it a
  renewal any more, it will be told before it records, and it records a failure.
  The granted renewal on its way is exactly the exception that run `job_lost`
  exhibits.

### OrganizationsProofs

About MCPlatform's organizations, for any organizations, stores, contracts, sets
of days, people, names, requests and grants to begin with:

| theorem | states |
|---|---|
| `TreeInvariance` | the inductive invariant `TreeInv` |
| `DeletedIsEmptyHolds` | nothing live is left in a deleted organization |
| `NoOverlapHolds` | contracts of one candidate at one store never overlap |
| `AuditTellsTheStoryHolds` | each audit row begins where the last one ended |
| `ActsWithAuthorityHolds` | a commit rests on a grant that is there when it commits |

None of the four is inductive: that a deletion strands nothing depends on what
every other open transaction has already found. `TreeInv` says it of each of
them. `Passed(r, what)` is that request `r` has the statement `what` behind it;
from `Plan` follow which statements came before it (`Before`) and what a COMMIT
has behind it (`Complete`). Then:

* `Locked`, `OrgLocked`, `GrantsLocked`: a transaction holds the locks of the
  statements behind it, and `Compatible`: no two transactions hold conflicting
  ones. `Free` is what makes a statement preserve that. Of a deletion's FOR
  UPDATE and the others' FOR SHARE follows that they are not about one
  organization (`DeletesAlone`), of the advisory locks that two writes of one
  kind, of one contract or of one candidate at a store are not open together
  (`WritesAlone`).
* `Found`: what each statement found is still so: the organization is not
  deleted, the store is there, the count that the audit row will carry is the
  count, no contract overlaps, there are no blockers. A COMMIT of another
  request cannot change it, because it is about another organization, store,
  contract or person (`OthersElsewhere`).
* `Authorized`: the grant that the decision rested on (`Grounds`) is still there
  with the transaction's share lock on its row. A revocation holds the rows it
  takes FOR UPDATE, and a widening those it replaces FOR NO KEY UPDATE, so
  neither takes a shared one (`GrantsPreserve`); a new organization only adds
  ancestors (`TreeGrows`).
* `IdsDiffer`, `RowsAreOwn`: nobody else inserts the id a creation chose, and a
  contract keeps its company and its store, which a change read before its
  transaction began.

`TreeAssumption` says that the placeholders for no row differ from each other
and from every row, and that stores and contracts are finitely many: the audit
rows carry counts.

### Model-checked only

* Liveness (`EveryCallEnds`, `EveryRequestEnds`, `EveryMessageEnds`,
  `AwaitedLaunches`, `RetiredKeysGo`): the proof system handles neither
  fairness nor ENABLED.

Every other property of a passing run, the safety invariants and the action
properties, is stated by a theorem.

## 5. Not modelled

* Cryptography: tokens, digests, signatures and HMACs are taken to be injective
  and unforgeable; what is modelled is what they bind.
* Syntactic validation (as of `validateChange`, which refuses a preview or a
  confirm from the request alone, `safe-write.ts:76-86`), wording, rendering, logging, metrics: they touch no
  state a property is about.
* The database below a statement: READ COMMITTED statements, advisory and row
  locks, unique indexes, foreign keys and cascades are modelled by their effect.
* Exhaustion of a connection pool: every waiting profile save holds a pooled
  connection (`person-profile-store.ts:268`).
* The recovery page: that "nothing was saved" can be untrue of an *earlier*
  attempt of the same form (`profile-browser-edit-http.ts:192`) is not claimed.
* The documents' cap (`r2-storage.ts:129`): a commit that crosses it leaves a
  row no later request can open. The model has it, and safety holds across it;
  the documentation promises no recovery, so no property does.
* Content validation of documents, organizations' own documents, the file store
  for isolated use.
* In Organizations: denial rules, deployment roles, brands and malls, amounts
  and currencies, the signed actor assertion.
* The supervisor's heartbeats and output capture; the removal of the socket of a
  daemon that still runs, which `service/README.md:217-223` forbids; its clients'
  own state; that a worker that ends between `recover`'s look for a completion and
  its probe (`supervisor.mjs:807`) is held as lost.
* In Reconcile: review-only and repair activations, pauses, routine merging by
  the tick, the hosted adapters, notes and evidence.
* In CardLand: settling and judging review threads (open ones count as checks
  that are not green), repairs of landings, a landing of one worker, which
  takes no lock.
* In Login: the sweep of expired rows and reading a session.
* The push broker, incidents, card runs before they land, installation, the
  contracts of cards: not yet (below), or text and I/O without a protocol.
* Catalogue, profile records, notifications, exports, gateway routing and pages,
  migrations, verifier receipts, policy and tools: validation and single
  statements, or pure functions of files.

## 6. Plan

1. **PushBroker** (bundle, push, receipt, with lost answers), and the selection
   of the card a run takes, under its lock.
2. The file document store with its lock file, and organizations' documents.
3. **ConnectionPool**: waiting saves against the pool's size.
4. **StagingOwnership** of the deployment scripts.

## 7. Running

    tlc -config SafeWrite.cfg SafeWrite          # a run: cfg and module as in PROJECT.json
    tlapm SafeWriteProofs.tla                    # a module of proofs

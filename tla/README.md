# VulnSeal: TLA+ models, model checking and proofs

VulnSeal lets a researcher commit to an encrypted vulnerability report on a Midnight ledger
and lets a vendor triage, patch, have retested, reward and close it. The ledger holds only
commitments; the ciphertext lies in a *cipherstore* (a small HTTP service, or several of
them); secrets and the submission journal lie in an encrypted *vault* in the browser.

This directory holds the TLA+ models of that program, the TLC configurations that check
them and the TLAPS proofs about them. Paths below are relative to the repository, which
`PROJECT.json` names `src/`.

- [Inventory](#inventory)
- [Modules](#modules)
- [Runs](#runs)
- [Fairness](#fairness)
- [Proofs](#proofs)
- [What the code does otherwise than its docs](#what-the-code-does-otherwise-than-its-docs)
- [What is only model-checked, and what is not modelled](#what-is-only-model-checked-and-what-is-not-modelled)
- [Plan](#plan)

## Inventory

| Part | State it keeps | Operations | Hard behaviour | Correct when |
|---|---|---|---|---|
| Contract `contract/src/vulnseal.compact` | `reports`, `payoutReceipts`, `sequence` on the ledger | eight circuits, each an atomic ledger call | calls of vendor, researcher and strangers for several reports in any order; a patch replaced after a failed retest; the last call number | what a record holds fits its status; each payout is backed by a passing retest of the recorded patch, once |
| Witnesses `contract/src/witnesses.ts` | private state of one proof | four witness functions | a witness is whatever the caller says, or what another call installed | nothing the caller chooses breaks the above |
| Directory lease `cipherstore/src/directory-lease.ts` | a lock directory and `owner.json` | acquire, release | crash between any two file operations, failed clean-up, clean-up by hand | one holder at a time |
| Cipherstore `server.ts`, `index.ts`, `capacity.ts`, `filesystem-storage.ts` | files; a queue per directory; `activeUploads`; a shared readiness probe; open connections | start, `PUT`, `GET`, `/readyz`, `/metrics`, SIGTERM | concurrent uploads against one quota, handlers that outlive their client, shutdown, crash | at most one writer, quota kept, acknowledged means stored, no slot leaked, everything answered, lease returned |
| SQLite backend `sqlite-storage.ts`, `sqlite-worker.ts` | database; worker thread; 128 pending requests | as the filesystem store | crash between file and schema, worker exit, close among pending requests | as the filesystem store; every request settles; a refused database never held anything |
| Backup and retirement `backup.ts`, `retire.ts` | manifest; reviewed plan; audit file | create, verify, plan, apply | server running, crash between removal and record, uploads between plan and apply | alone in the directory; backup complete; removals reviewed and accounted for |
| Restore `backup.ts`, `restore-state.ts` | marker in the destination | restore | failure in mid-file, changed backup, server started on the destination | a partial store is never served |
| Encrypted browser copies `web/src/encrypted-copy-storage.ts`, `role-autosave.ts`, `LocalRoleStorage.tsx`, `RoleCopyCatalog.tsx` | IndexedDB rows with revisions; one writer per tab; a debounce timer | open, save, autosave, delete | several tabs, late commits after a timeout, an old draft behind a new journal | a save takes nothing back |
| Role submissions `RoleWorkspace.tsx`, `submission-wait.ts`, `midnight/submission.ts`, `role-recovery.ts` | `currentVault` (12 versions), `saved`, `recoveryRequired`, deadlines | prepare, checkpoint, submit, confirm, record the receipt, edit drafts and notes | tab closed, wallet silent, deadline racing a late continuation, a vault an older release left | the identifier is saved before the wallet is called; nothing is sent twice by one session; the vault can always be saved |
| Combined session `App.tsx`, `journal-report-transaction.ts`, `report-journal.ts`, `recovery.ts`, `RecoveryAutosavePanel.tsx` | the live snapshot, its attempts, the leased writer and its copies | connect, create, seal, act, confirm, reset, export, restore | as above, with two saves per attempt, a checkpoint that outlives its deadline, restores of older copies | the snapshot can always be saved; what was broadcast stays journaled; no operation lasts for ever |
| API `api/src/api.ts`, `role-session.ts` | a queue per private-state provider | join, check the stage, call a circuit | stage read before a slow proof; sessions with one provider; a call that outlives its deadline | the witness installed is the one proved with |
| Cipherstore client `api/src/cipherstore-client.ts`, `web/src/ciphertext-batch.ts`, `save-prepared-report.ts` | none | put to every store, get from any | partial acknowledgement, timeout after storing | a report goes on-chain only when every store acknowledged |
| History and verification `contract-history.ts`, `replay-report-transaction.ts`, `public-verification.ts`, `web/src/transaction-verification.ts`, `report-reconciliation.ts` | a worker per check, what it has read, what the panel shows | status, policy, effect and lookup checks | several requests to two services during a reorganization, an incomplete history, late answers of old workers | what is shown as finalized is true and is about what is selected |
| Shared library, policies, handoff and recovery files, user interface, SDK wiring, scripts | none, or external | pure functions and forms | (none of the above) | (unit tests) |

How the parts meet: the browser workspace saves the vault, uploads the ciphertext through
the client to each cipherstore, then proves and submits a circuit call through a wallet; the
SDK calls back (`beforeSubmit`) with the transaction's identifier before the wallet sees the
transaction, and the workspace saves it first. Cipherstore servers and the offline tools meet
only through the data directory and its lease. Tabs meet only through IndexedDB (role workspaces) or the ledger
(combined sessions, whose copies have random names). Verification panels share nothing with the
rest: they ask an indexer and a node from workers of their own.

Every behaviour of this kind is listed in `PROJECT.json` under `hazards`, at its line and with
the properties that would catch it going wrong.

## Modules

```
ReportLifecycle <--implements-- VulnSealContract <--INSTANCE-- RoleSession
                                  VulnSealContractProofs       RoleSessionProofs
                                  MCVulnSealContract           MCRoleSession, MCRoleSessionLate

DirectoryLease <--extends-- Cipherstore <--extends-- CipherstoreMaintenance
      |                       MCCipherstore             CipherstoreProofs
      |                         |                       MCCipherstoreMaintenance
      |                         \--implements--> ImmutableStore <--implements-- SqliteStorage
      \--extends-- Restoration                                                  SqliteStorageProofs
                     RestorationProofs, MCRestoration                           MCSqliteStorage

RoleVault <--extends-- RoleJournal             RecoverySnapshot <--extends-- CombinedSession
                         RoleJournalProofs                                     CombinedSessionProofs
                         MCRoleJournal                                         MCCombinedSession

ChainObservation
  ChainObservationProofs, MCChainObservation
```

**`VulnSealContract`** has one action per circuit. A circuit call is atomic on the ledger and
a failed `assert` leaves the ledger alone, so each assertion is a guard. The caller is anyone:
secrets, preimages and evidence are parameters that `Next` chooses freely, the vendor's secret
included among strangers'. `persistentHash` is modelled as free of collisions (a hash is the
tuple of what was hashed). The casts to `Uint<64>` are checked by Compact, hence the guard in
`insert`. The constructor's policy fields never change and are left out. Operators named
`x_Something` (here and in the other modules) are wrong variants of `x`, used to show that a
property notices such a mistake; no action uses them.

**`ReportLifecycle`** is what the contract promises of one report: a stage, the patch now
anchored and the awards made. The contract implements it under `stageMap`, `anchoredMap`
and `awardMap`. `anchoredMap` forgets a patch once its retest failed, which the
abstract `Fail` does as well; so a payout for a patch that failed is a step `ReportLifecycle`
does not have.

**`DirectoryLease`** is `acquireDirectoryLease` in its file operations: `mkdir` (test and
claim), `owner.json`, and the release in reverse. A crash may come between any two, and the
operator removes a lock only when its process is gone.

**`Cipherstore`** adds the server to the lease: `entrypoint` start and stop, one record per
connection for the handler it runs, and a step per `await` between two effects of a handler
(`receiving`, `queued`, `writing`, `linking`, `cleaning`, `reading`, `awaiting` the probe).
`queue` is the chain of promises of `withDirectoryWrite`; its head has the turn. Blobs are
identified with their digest, because the handler refuses a body that does not hash to it;
a file is absent, intact or damaged from outside. Answers are told apart only as far as
something depends on them: acknowledgements are remembered. **`ImmutableStore`** is the
promise of both backends: a blob is stored once, within the quota, and acknowledged only once
stored.

**`SqliteStorage`** is the other backend. Each adapter has its worker, joined by two ports
(`posted`, `answers`), its `pending` requests by number, and the stages of `close`. The
database file and its rows are all that adapters share. The worker is synchronous and
`BEGIN IMMEDIATE` serializes connections, so a transaction is one step; the creation of the
file and the commit of its schema are two (`create`, `commitSchema`), because a process can end
between them. It implements `ImmutableStore` as well, under the identity.

**`CipherstoreMaintenance`** composes the filesystem server with `backup.js create` and
`retire.js`, which take the same lease, and **`Restoration`** models `backup.js restore` step by
step, files in part included, with a server that somebody points at the destination at any time.
The backup directory may lose a file or have one altered at any step (`backupChanges`); what is
copied is what was read (`bytes`), and only the digest that `readBlob` compares keeps altered bytes
out of the new store.

**`RoleVault`** is `role-recovery.ts`: the twelve versions of a role's vault, the fields each
version has, in the vault and in every journal entry, when a vault validates, and how each
operation of the workspace raises the version. A text is the number of its edits.

**`RoleJournal`** models every tab of the role workspace over such vaults: the vault in memory,
its writer and queue of saves, the debounce timer, the phases of a submission, and the rows of
IndexedDB. A save that its writer's end or a deadline abandoned may still commit (`orphan`). A
preparation that times out closes its wait (`expired`) before React discards its writer (`remount`);
in between a save may still be confirmed to the late continuation, which `assertActive` must stop
before the wallet.

**`RecoverySnapshot`** is `recovery.ts` and `report-journal.ts`: what a document of the combined
session holds, when it validates, and when the journal blocks another attempt.
**`CombinedSession`** is the session around it (`App.tsx`): one operation at a time (`task`) with
its deadlines, the checkpoint that is installed for it, the SDK calls that go on after their
deadline (`sdk`), the leased writer of the autosave panel with its queue, reload, reset and
restore, and the ledger with a pool of broadcast transactions.

**`RoleSession`** composes the role workspaces with `INSTANCE VulnSealContract`. A command
waits its turn on the provider of private state, installs its witnesses, reads the stage, proves
with whatever the provider holds then, and its transaction is applied later, if the circuit's
assertions still hold. A call can end without its outcome (`callRejects`: the wallet's two minutes,
or an error of indexer or SDK): it gives its place in the queue to the next session while its
transaction stays at the network, which may apply it (`applyTx`) or drop it (`dropTx`) at any later
time and tells nobody. Below the buttons is the cipherstore client: a put to every
store, with any mix of answers.

**`ChainObservation`** is the four read-only checks: what each asks the indexer and the node,
request by request, while the chain grows and is reorganized above its finalized head; the
worker that asks, and the panel that may have moved on when it answers. A block is identified
with the chain that ends in it, so a hash is a sequence of blocks. The contract's state is a function
of the chain (`StateAfter`), and what an indexer tells of a transaction (`Action`) is one of its block.
The history stream may bring any action of the chain next, again or too early; `inOrder` is what the
reader demands of each.

`PROJECT.json` maps each definition to the lines it models.

## Runs

`tlc -workers 2 -config <cfg> <module>` runs each; the slowest takes about three minutes.

| Run | Question | Bounds, and why they are enough |
|---|---|---|
| `contract` | Do status, commitments, payouts, receipts and call numbers stay consistent, and does the ledger follow `ReportLifecycle`? | two reports, a vendor and a researcher secret (each also tries the other's calls), two patches, tiers 0, 1, 4 and 5, `MaxSequence` 14. A report's longest interesting life (submit, triage, accept, patch, failed retest, patch, retest, payout, close) is nine calls, so with 13 calls one report lives to its end while the other is anywhere in the first part of its life, and the counter reaches its limit. |
| `cipherstore` | One writer, no leaked slot, nothing acknowledged lost, quota kept, across crashes? | two server processes (a successor and a rival), three connections of two requests each, two upload slots so that a third is turned away, a small and a large blob of which not both fit, a server with or without a retired digest |
| `sqlite` | Does the database keep the same promise, is a refused database always an empty one, does every request settle? | two adapters, the second independent of the first; one request pending beside `close` (`MaxPending` 1, so the limit is reached), two requests of the first adapter and one of the second; a small and a large ciphertext of which not both fit; `put` and `ready`, a call that only reads, stand for all operations |
| `maintenance` | Do backup, plan and audit tell the truth, is every request answered, is the lease returned after SIGTERM? | one server, both tools, two blobs, so that an audit can be half done and an upload can come between plan and apply; two connections: a holder of the turn and one that waits. Both blobs fit the quota; a refusal ends a handler in the step that checks it, which run `cipherstore` reaches |
| `restoration` | Is a partial or altered restore ever served? | two blobs in the manifest (one can be whole while the other is not), a third that only a server may store |
| `restoration_merge` | Is a restored directory always fresh? (violated, see below) | as above |
| `role_journal` | Is every broadcast identifier recoverable, and does a save ever take one back? | a researcher, two tabs on one copy, one transaction, one edit: enough for a stale tab, a delayed draft behind a journal save and a late commit |
| `role_journal_live` | Does a submission end, is an unknown outcome never followed by another attempt in its session, does a late checkpoint ever reach the wallet, can every vault be saved? | one tab, so that no other can raise its vault; a vendor's vault of today with two copies and two transactions, or a vault of version 2, 4 or 8 with an attempt as those releases left it; one edit of every kind |
| `combined_session` | Can the session always be saved, does every broadcast stay journaled, does every operation end? | a fresh browser or a copy of an earlier network session (accepted, or patched and retested, so that the rest of the workflow is in reach); two reports; two journaled attempts, which is then the journal's own limit, and three SDK calls, one more; two copies; a guided history of nine entries, the longest; tabs that keep copies have an empty guided history (`MaxKept` 0) |
| `role_session` | Is a record ever made of two callers' secrets, is a report on the ledger at every store, is a usable workspace free of calls? | the vendor and the researchers alice and bob, who share a provider; two interchangeable stores, one retired digest; four packages, forged ones among them; `MaxSequence` 6, so five calls: one report up to its patch, and its retest or another submission |
| `role_session_late` | Does the ledger apply a call only where the session would still allow it, however late it comes? | the vendor and one researcher in two tabs, each with a provider of its own, because calls of one provider wait for each other unless one was given up; one report, two patches, one store; `MaxSequence` 8, so seven calls: submit, triage, accept, patch, failed retest, replacement and the late retest of the first patch |
| `observation` | Is what a panel shows as finalized true, are the blocks it compared true, and is it of what is selected? | five forks of six transactions (a deployment, two first reports that compete, another report with two vendor calls), among them a fork with two actions in a block, one with a later deployment and one with a call that fails; nine subjects; two workers per page: one late, one current |

Symmetry is used only in runs without liveness properties, over interchangeable connections,
servers, reports, tabs, transactions and stores.

Every run but five checks for deadlock. `contract` does not: the ledger stops when the last call
number is used or every report is closed. The two `role_journal` runs do not: when every copy was
deleted and every tab closed, nothing is left to do. The two `role_session` runs do not: there a session whose
transaction has no known outcome stays lost. In `role_journal_live`, that something is always
*finished* is the liveness property's business.

What the runs show, in one sentence each, is under `about` in `PROJECT.json`. Each property
also has an entry under `mutants`: a definition of the model and a plausibly wrong version
of it with which TLC finds that property violated.

## Fairness

Safety runs assume none. `maintenance` assumes of the server that a handler's next step eventually
happens (`handle`, `probe`): file-system calls settle, and `requestTimeout` ends a body that does not
arrive, which is the failing branch of `receive`. After SIGTERM it assumes that every connection ends (`disconnect` while `closing`),
which `server.setTimeout` and `keepAliveTimeout` see to, whatever the client does. Starting
and stopping proceed. Nothing else is fair: no client need send, no process or tool need start, no tool
need end, no crash need happen. Fairness is weak everywhere: each of these steps stays enabled until
it is taken.

`sqlite` assumes of each adapter that its worker goes on (`work`: its calls return, and a lock of
another connection is waited for at most a second) and that the event loop delivers what has
arrived and lets `close` proceed (`settle`). Nobody need make a request, and failure is always
a permitted outcome.

`role_journal_live` assumes that each phase of a submission ends and each save ends, because each
has a deadline of its own: 15 minutes of preparation, 2 minutes at the wallet and 10 minutes
for confirmation (`submission-wait.ts`, `midnight/submission.ts`), 3 minutes of encryption and
15 seconds per storage transaction. Success is assumed of none of them. `combined_session`
assumes the same of its operations (`settle`), with the same deadlines.

## Proofs

`tlapm <module>` proves, for every value of the constants:

| Theorem | Says | From |
|---|---|---|
| `TypeCorrectness`, `StatusCorrectness`, `PayoutSafety`, `ReceiptCorrectness`, `OrderCorrectness` (`VulnSealContractProofs`) | the five invariants of run `contract` hold of `Spec` for any sets of reports, callers, patches and evidence and any counter width | `ContractConstants`: the program is one of the programs, the vendor's secret one of the secrets, the largest sequence a positive number |
| `SubmissionIntegrity` | `SubmissionsAreImmutable`: no call changes a submission, a closed report or more than one report | the same |
| `ContractImplementsLifecycle`, `LifecycleInvariance`, `AwardSafety` (the same module) | the contract implements `ReportLifecycle`; whatever implements it awards only verified patches; so does the contract | the same; `LifecycleInvariance`: none |
| `LeaseExcludes` (`CipherstoreProofs`) | any number of processes, at most one holds the directory | `LeaseConstants`: `Nobody` is no process |
| `WritersExclude`, `AcknowledgedSafety`, `CipherstoreImplementsStore`, `TypeCorrectness`, `SlotSafety` (the same module) | one handler of all servers between quota check and answer; an acknowledged blob is found; the filesystem cipherstore is an `ImmutableStore`; its type invariant; `activeUploads` counts the handlers of uploads and the queue holds those that wait, so no slot leaks | `LeaseConstants`, `CipherstoreConstants` |
| `BackupSafety`, `RetirementSafety`, `AuditSafety`, `MaintainedSafety` (the same module) | `BackupIsComplete`, `RetirementIsReviewed` and `AuditAccounts` of run `maintenance`; `OneWriter` and `AcknowledgedIsFound` still hold when servers and offline tools share the directory | the same |
| `RefusalSafety`, `SqliteImplementsStore` (`SqliteStorageProofs`) | a refused database never held anything; the SQLite backend is an `ImmutableStore` | `SqliteConstants` |
| `PartialStoreIsNotServed`, `UnmarkedIsWhole` (`RestorationProofs`) | the invariants of run `restoration`, for any manifest and any number of processes at the lease | `LeaseConstants`, `RestorationConstants` |
| `BroadcastSafety`, `SaveSafety`, `BackupSafety`, `ReceiptSafety`, `AttemptSafety`, `LateCheckpointSafety`, `VaultSafety` (`RoleJournalProofs`) | all properties of runs `role_journal` and `role_journal_live` but liveness, and that each receipt in a copy, a file or a deleted row is of a finalized transaction (`ReceiptsAreFinal`), for any tabs, copies, transactions, circuits and edits, and vaults of every version | `JournalConstants`: rows are absent, deleted or have a revision from 1 on; `Nothing` is no copy and no revision; the copies a browser holds at first validate and are about `Reports`; `Null` is no receipt and no operation |
| `UsableSafety`, `RecordSafety`, `UploadSafety`, `StageSafety`, `SessionPayoutSafety` (`RoleSessionProofs`) | `UsableHasNoCallLeft`, `RecordsAreWhole` and `LedgerReportsAreStored` of run `role_session`, `StageHoldsWhenApplied` of run `role_session_late`, and the contract's `PayoutFollowsVerifiedPatch`, for any callers, providers, packages and stores | `SessionConstants`: see below |
| `SessionsFollowContract` (the same module) | the sessions' ledger behaves as `VulnSealContract` says, so its theorems hold of it | the same |
| `CombinedInvariance`, `SnapshotSafety`, `BroadcastSafety` (`CombinedSessionProofs`) | the session, its SDK call and its copies fit together; hence `SnapshotsAreValid` and `BroadcastIsJournaled` of run `combined_session`, for any copies, reports, attempts and SDK calls | `SessionConstants` of `CombinedSession`: see below |
| `FinalizedSafety`, `ReconciliationSafety`, `SelectionSafety` (`ChainObservationProofs`) | the invariants of run `observation` but `ComparedBlocksAreTrue`, for any forks, transactions, subjects and bounds; they follow from `ObservationInvariance` | `ObservationConstants`: forks are sequences of blocks, a transaction is in at most one block of a fork, there is a fork; `NoneIsNoRun`: `None` is no run of a worker and no Boolean |

*The contract's argument.* None of the five invariants is inductive alone: that a payout is
backed needs to know that a report in `RETEST_PASSED` carries a passing retest *of its own
patch*, which is `RecordsFitStatus`; that receipts are unique needs that every receipt in the Set is
the receipt of a paid record. Their conjunction with the type invariant, `IInv`, is inductive.
Eight circuits times five invariants would be forty cases; instead every circuit is first shown
to have one `CallEffect`: it inserts one record, under one identifier, with the current call
number, and the new record is either a submission or derived from the old one by a permitted
change that fits its new status. The invariants are then proved once from
`CallEffect`, one lemma each.

*The refinement's argument.* A circuit inserts one record, so the mapped stage and patch change at
one report only (`MappedInsert`); the awards stay (`SameAwards`) or gain the pair of that report
and its patch (`NewAward`). What the abstract step demands of the stage and the patch before is
what `IInv` says of the record. Each circuit is one lemma; `beginTriage` is a stutter.

*The lifecycle's argument.* `AwardsAreEarned` needs `AnchoredByStage`: a report has an anchored
patch exactly in the stages from anchoring on, until its failure or end. It is proved of
`ReportLifecycle` and carried over to the contract by the refinement (`AwardSafety`).

*The lease's argument.* `OneHolder` is strengthened to `LeaseIsHeld`: whoever is past `mkdir`
has made the lock that is now on disk, and a holder's token is the one in `owner.json`. The
operator's clean-up preserves it only because it concerns a lock whose process is gone. A step of
a server or a restore is a step of the lease or leaves it alone, so the invariant is reused as it is:
`CipherstoreProofs` and `RestorationProofs` each begin with its proof.

*The cipherstore's argument.* A handler runs only in a process that holds the lease (`Alive`), and
between quota check and answer only at the head of that process's queue (`Turn`). With
`OneHolder` there is therefore one such handler in all processes, so what it learned before its
awaits about the quota and about its blob is still true when it links the file
(`Knows`). The quota itself is an uninterpreted function of the set of stored digests here: the
proof needs only that this set has not changed since the check.

*The slots' argument.* `SlotInv` adds for each server that `activeUploads` is the size of the finite set of
its upload handlers, and that its queue holds exactly the handlers that wait for the directory, each
once, with one `Probe` for all that await it (`Slots`). A step changes one handler, so it changes the set by at
most one element. No finiteness of the connections is assumed: a counter that was raised once per
handler counts a finite set.

*The offline tools' argument.* While a tool holds the lease no server does, so every handler is at
rest (`Alive`, from `WritersExclude`), and the files change only by the tool's own steps. Hence what backup
has copied stays a part of what is stored (`Copying`), and what retirement has removed is what the review named
and the audit has not yet recorded (`Retiring`). `Accounted` is keyed on the lock and not on the
process: a tool that crashes in the middle leaves its lock, and the operator's clean-up is what ends the
exception.

*SQLite's argument.* A request that the worker is about to read is the pending one under its
number, unless the adapter has settled that number already (`Asked`), and a yes to a pending put
is about a stored ciphertext (`Answered`). That a file without a schema is empty (`Database`)
holds because rows need a connection, and a connection needs the schema.

*The restore's argument.* Server and restore touch the directory only while they hold its lease
(`InHand`), so no server is open when the marker is written; from then on the marker keeps servers out
until nothing is partial (`Marked`), which needs to know what is still to be copied (`Copied`). Nothing
is damaged because what `copyBlob` read hashed to its digest, and the file holds what was read. After
the marker is gone nobody alters a file: a server only adds what is absent.

*The journal's argument.* The three properties speak of rows, but a save is made long before it is
written, so the invariant `JournalInv` says of each tab what is on its way to a row. An autosave, in the timer
or in the queue, says of the attempts what the open vault says, because the forms change no
attempt (`EditKeeps`) and are disabled during a submission (`Timed`, `Queued`). What a submission saves
adds to the open vault (`RecordedAdds`, `ReceiptAdds`) and is the last of the queue. The open vault adds to
its row at the revision the writer holds (`Bound`); a write that its writer left behind continues the
row as well (`Abandoned`), and a row under review is the one that was read (`Reviewed`), for a revision is never given
twice (`PassedStays`). Hence a write or deletion whose revision still matches takes nothing back
(`CopyStep`), and `JournalInv` with `CopyStep` is inductive, one lemma per action. That no random id
is given twice (`Unused`, `Deleted`) is used here: a deleted row's id would start at revision 1 again.

*The attempts' argument.* Receipts, attempts and vaults need a second invariant over the same actions,
`SubmissionInv`. Each vault that is in memory, waits to be saved or lies in a row is `Sound`: it validates,
so it can be encrypted, and is about known reports. That needs a lemma per operation of `RoleVault`, and
for those that raise the version, that nothing but an older format stood against it. `Attempting` says that the current
attempt has its intent in the open vault and, while its receipt is on the way, that this attempt is
final; and that whatever a session sent is resolved, under way or blocks the session
(`recoveryRequired`). A session that is blocked is idle, expired or at its end, so the wallet is
not called (`LateCheckpointSafety`): the step between, `authorizing`, is reached only from a wait that
is still active.

*The role sessions' argument.* `SessionInv` has four layers. `Busy` says where a session's call is: in the
queue of its provider, once, and past the queue only at its head. So one call at a time
proves, and `Installed` can say what the provider holds meanwhile: the private state of that call, or
that of a join, which no circuit that needs evidence accepts. `Commanded` says that a command is about a
disclosure of its session's own vault, whose ciphertext is everywhere before submission; hence a
transaction at the network is that of a command its session may give, and what the circuit asserts of it when it is
applied includes the stage that the session would ask for then (`StageSafety`). A transaction whose call
is over may lie at the network for ever, so `UsableSafety` rests on the session being `lost` from the
moment its call rejects. Last, every step is
a step of `VulnSealContract` or leaves the ledger alone, so the contract's theorems, cited through
`INSTANCE VulnSealContractProofs`, hold of the ledger here (`SessionsFollowContract`).
`SessionConstants` assumes what makes the constants a role set-up: sessions have a
provider, a role and a secret; prepared packages belong to researchers and validate; a program's identifier is not the
default value of the ledger; and vendors start with no disclosures, because the ledger starts empty.

*The combined session's argument.* A snapshot is saved long after it was taken and a checkpoint
is called long after its operation began, so neither property is inductive. `CombinedInv` has two
halves. `SessionInv` says what the session is during each operation (`Busy`: one named predicate
per kind of `task`) and that it is `Sound`: if there is anything to save, validation accepts it. At
most one SDK call is short of its checkpoint, and it is the call whose identifier the session does not have yet
(`Calling`, `Checkpointing`); no identifier is journaled before its checkpoint (`Known`). `StorageInv` orders
what there is of one session by the transactions it names: what a copy holds, each save that waits
for it, and the session itself (`Grows`, in `WriterOf`). So whichever of them is written last, no
broadcast transaction is forgotten, and the last save of a writer on which a checkpoint waits names
the transaction at that checkpoint. A write that its writer left behind has its row to itself
(`OrphansKept`), because every enabling makes a new copy under a random id.
Each operation is one lemma about snapshots, one about the session (`Advances`: it names what it named) and one
about the copies. `SessionConstants` of `CombinedSession` assumes that `None` is none of the values it is told
apart from, and of the copies found at the start what this program guarantees of those it makes: they validate, one without
a report has nothing of one, and none of their identifiers is given again. The proof found an omission of
the model: `refreshCommitments` (`App.tsx:252-263`) reads a report that may be absent from the ledger, and
then fails.

*The observation's argument.* A panel's answer joins several requests to two services, between which
the chain may have been reorganized. What holds it together is that all that is known of a transaction depends on
the chain that ends in its block and on nothing else (`ExecutedPlace`, `ExecutedOnChain`), so two answers about one block
hash are about one history, whenever they were read. `Reading` says of each stage what
the worker has read: first some executed transaction; once the node has named the same hash at a height
below a head that was finalized, one on the finalized chain (`AgreedIsFinal`: that block and the finalized
head are both on the best chain, so the lower one begins the higher), and from then on for ever
(`FinalStays`, `ReadingStays`). The report check needs one thing more, because the states it replays on
may come from elsewhere: the transcript itself fixes what it read of the report and what it writes, so a
replay that succeeds on *any* state tells the record before and after as they are on the finalized chain (`ReplayTells`).
`Answered` says the same of results on their way, which is why a late one can be dropped or, if it is the current
worker's, shown; that the current worker is the last one made is what `SelectionSafety` needs. Nowhere does the
proof need to know what the contract's state after a chain *is*, only that it is a function of the chain,
so no induction over blocks is involved.

## What the code does otherwise than its docs

`docs/cipherstore-operations.md:139` says "No operation merges, overwrites or deletes an existing
store", and `backup.ts:37` says that existing directories are never merged. The restore makes
its destination with an exclusive `mkdir` (line 95) and takes the lease of that directory
afterwards (line 96), without looking into it again. A server that is pointed at the path in between takes
the lease, finds no marker, stores a blob and stops; the restore then completes over it.
Run `restoration_merge` shows the schedule. Nothing is overwritten and no partial store is served
(`ServedStoreIsWhole` holds), but the restored store holds a blob the manifest does not name.

Points the docs state themselves, and which the models therefore allow: an acknowledgement is not
a promise about power loss (`docs/cipherstore-operations.md:145`); a timed-out or failed upload may
have been stored; a crash leaves `.tmp` files and the lock; a browser write that timed out may
still commit.

## What is only model-checked, and what is not modelled

Left to TLC: liveness (`RequestsAreAnswered`, `StopReleasesLease`, `RequestsSettle`, `SubmissionsEnd`,
`OperationsEnd`), for the prover has neither fairness nor ENABLED, the finding `RestoreNeverMerges`, which a
run refutes, and `ComparedBlocksAreTrue`: that consecutive messages of the history stream are consecutive states
of the report follows by an induction over the chain, on which `StateAfter` recurses. Every other
property of the runs is a theorem. Two properties are proved and in no run: `SubmissionsAreImmutable` and
`ReceiptsAreFinal`. What a fold computes is opaque to the prover, which would need induction over data; so the theorems about the observation speak of *the* state after a chain
(`StateAfter`) and only TLC's run computes it.
Sums over sets (`Bytes`) are recursive in the library, so what they compute for every set is out of
the prover's reach.

Not modelled:

- **Data and platform.** The bytes of ciphertexts, envelopes, vaults and hashes; HTTP parsing and
  the answers that touch no state; metrics counters; encryption; power loss (the models' crash
  loses memory, not flushed files).
- **Cipherstore.** The temporary files of a crash, because no scan, read or copy matches their
  names. Of SQLite, `remove`, which only the retirement calls, the checks of a damaged database,
  and the SQLite branches of backup, restore and retirement, which read, put or delete one blob
  per transaction under the same lease and marker.
- **Role workspace.** In `RoleJournal` the creation of a workspace is left out, the ledger reads after a
  submission too, and each tab has at most one abandoned write at a time. In `RoleSession` a put
  to all stores settles in one step and batches of saved reports are left out; two workspaces of one
  provider do not occur in one page and are there to exercise the queue of `api.ts`; the
  comparison of a saved finalization with a report that is absent from the ledger
  (`joinRoleVault`) and the client's `get`, which compares a digest and shows the result, are left out.
  Attachments and the backups of recipient keys are left out of the handoff.
- **Combined session.** One program is followed, and copies are never deleted.
- **Observation.** One contract; segments and identifiers of transactions are abstract; indexer and
  node are honest except for a history stream that is incomplete, repeated or out of order; the
  limits of bytes are left out and the limit of actions is not reached.
- **Scripts.** The wallet, ceremony and verification scripts for the public test network drive the
  API above in one process and write down what they saw. The rest of what is left out is in
  `PROJECT.json` as `not_modelled`, each part with its reason.

## Plan

Done: contract and lifecycle, lease, both cipherstore backends with their promise, offline tools,
restore, role journal and vaults, combined session, role session over the contract, observation; the
proofs above. What is left, in order of importance:

1. The SQLite branches of backup, restore and retirement, with `remove`, over `SqliteStorage`.
2. Batches of saved reports (`ciphertext-batch.ts`), with stores that answer one by one.
3. The creation of a role workspace and the backups of recipient keys.

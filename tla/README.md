# TLA+ specifications of icloudpd-optimizer

icloudpd-optimizer replaces the RAW originals of an iCloud photo library with
HEIC conversions. For every RAW file on the NAS it makes a HEIC, verifies it,
uploads it, mirrors it back, proves that all of this is true and then deletes the
original in CloudKit. A mistake costs a photograph, so the program *fails closed*:
each step leaves a proof in a per-asset record, a record advances only on the
proofs of the step before, and anything unclear stops the asset.

These modules model the parts of that program whose correctness depends on the
order of events: the store that holds the records, the monitor's locks and its
scans, the conversion and upload of an asset by child processes, the threads that
share slots, the search for originals and their deletion, the retries of what
failed, and the migration of uploads an older version got wrong. Source references
are paths of the repository. `PROJECT.json` has the exact lines of every definition
(`map`), the hazards and the property that covers each (`hazards`), and for every
property a plausible bug of the code that breaks it (`mutants`).

## 1. Inventory

The lifecycle of a record is `Discovered → NasVerified → Converted →
ConversionVerified → UploadVerified → DeleteEligible → DeleteApproved → Deleted`,
with `Failed` and the terminal states `NoAction` and `NeedsReview`.

| component (source) | state | operations | hard behaviour | what makes it correct |
| --- | --- | --- | --- | --- |
| **State store** `state_store.rs` | SQLite tables `writer_lease`, `assets`, `json_import_metadata`; the JSON manifest next to it | open/renew/release a writer lease, one-time JSON import, persist one/many records, exact compare-and-swap, export, schema migration, child snapshots | paused writers, expiry while writing, crash, wall clock set back, stale caches of worker threads | one epoch writes at a time; rows only advance; success means stored; the JSON is a copy of the table |
| **Run guard, heartbeat, manifest lock** `monitor.rs`, `manifest_lock.rs` | flock file, lease token, failure latch | acquire both, renew every ttl/3, latch a failure, release in order | a replaced lock file, a late heartbeat | one monitor at a time, even if the lock file is replaced |
| **Manifest** `manifest.rs` | records, proofs, failures | transitions, failure records, recovery for a retry, quarantine, atomic save | crash between memory and disk | a record advances only on current proofs |
| **Monitor scan** `monitor.rs` | active set, retry budget, summary | discovery, budgets, admission of failed, adjusted-source and resolver retries, terminal review | restarts between an admission and the next failure | bounded attempts, one budget for all kinds of retry |
| **Rolling passes and worker pool** `monitor.rs` | queue, deferred assets, reservations, summary, manifest behind mutexes | passes, pop, the steps of an asset, claims of conversions | many threads, store errors in any of them | conversions stay in the cap; the scan ends |
| **Stage permits** `monitor.rs` | slot counters, waiting counter, condition variable | acquire, release | lost wake-ups, a conversion giving way to CPU-only work | no slot lost or doubled |
| **Delete stage** `monitor.rs`, `workflow.rs`, `upload.rs` | windows, prevalidation tokens, approvals | reconcile, approve, prevalidate, submit, record | crash after CloudKit's answer, lost and late answers, other clients, changing RAW files | deletion only under a durable approval and unedited; recorded only if gone; recorded in the end |
| **Workflow proofs** `workflow.rs` | proof fields of a record | add and validate proofs | a proof that is current for an older step | proofs form a chain over one original and one output |
| **Conversion execution** `conversion_execution.rs`, `conversion*.rs` | two staging slots, output files | clean up, stage a RAW, run tools, seal the output | tool timeouts, encoders that outlive their monitor | the file a proof names is the one that was sealed |
| **HEIC proof** `proof.rs` | none | pixel and metadata comparison | none | pure function |
| **Adjusted source** `adjusted_source.rs` | installed rendition and its seal | download, install, seal | crash in the middle of the install | the installed file is the sealed one |
| **Original resolution** `reconciliation.rs`, `monitor.rs` | batches by capture, resolution proofs | resolve a batch, apply it to the manifest | like RAWs, copies resolved in different batches | all or nothing; one RAW per original |
| **Upload and CloudKit client** `upload.rs` | session; pages of a search | upload, lookup, modify, search for originals | answers lost or ambiguous; probes into an unknown list | a proof names bytes iCloud has; a match is the only one |
| **Local mirror, SMB rename** `local_mirror.rs`, `smb_noreplace.rs` | files | copy, verify, install without replacing | rename whose answer is lost | never overwrites |
| **Legacy upload migration** `legacy_upload_migration*` | nine journal phases of a pair of records, evidence, progress files of the quarantine directories | audit, recover, advance, quarantine, normalise, delete, replay | crash anywhere, two records in step, device numbers that change | the pair advances together and replay is safe |
| Authorization, Keychain | policy data | checks | platform calls | no state of its own |
| **Operator commands** `cli.rs` | none of their own | quarantine failed assets, type old failures, reconcile originals, re-verify uploads | state that changes between a dry run and `--apply` | a whole batch changes, or nothing |
| Service, metrics, strict JSON, Swift app, vendored SMB client | – | – | – | not protocol code |

**Interactions.** The run guard holds the flock and the writer lease; its store
handle is cloned into the scan, the heartbeat thread and each worker. A scan loads
the manifest, admits retries and stores that *before* any work, runs the rolling
pools (workers share manifest, summary, reservations and permits behind mutexes and
persist each record themselves), then the delete stage, then exports the JSON. The
delete stage talks to CloudKit; workers run conversion, upload and mirror steps as
child processes and requests. Every component loses its memory when the process
dies; only the store, the files and CloudKit remain.

## 2. Plan

| order | modules | state |
| --- | --- | --- |
| 1 | `FencedStore` (abstract), `StateStore`, `MCStateStore`, `StateStoreProofs` | done |
| 2 | `SafeDeletion` (abstract), `DeletePipeline`, `MCDeletePipeline`, `DeletePipelineProofs` | done |
| 3 | `StagePermits`, `WorkerPool` (extends it), `MCWorkerPool`, `WorkerPoolProofs` | done |
| 4 | `BoundedRetries` (abstract), `RetryAdmission`, `MCRetryAdmission`, `RetryAdmissionProofs`: failed, adjusted-source and resolver retries under one budget, with crashes between admission and failure | done |
| 5 | `CohortMigration` (abstract), `MigrationJournal`, `MigrationApply`, `QuarantineRoots` (beside it), `MCMigrationApply`, `MigrationApplyProofs` | done |
| 6 | `MonitorGuard`, `AssetScan` (extends it), `MCAssetScan`, `AssetScanProofs` | done |
| 7 | `RollingScan`, `MCRollingScan`, `RollingScanProofs` | done |
| 8 | `OriginalQuery`, `MCOriginalQuery`, `OriginalQueryProofs` | done |
| 9 | the generation of the migration's evidence; the mount recovery of `smb_noreplace.rs` | open |
| 10 | the fields of the proofs of `workflow.rs` one by one; `upload-verified-reverify`, which renews them | open |
| 11 | the mirror stage of an ordinary scan and the two staging slots | open |

All safety properties of the runs are proved, and what is left of a liveness property
without fairness is for the pool, the search, the retries and the migration
(`PoolGoesOn`, `Conclusive`, `FailuresAreForeseen`, `RunCanBeRepeated`, `RootsCanGoOn`).
Worth proving next: the same for `AssetsAreDecided`, `AbandonedLeaseIsTakenOver` and
`RemoteDeletionIsRecorded`, and the sequences in the type invariant of `RollingScan`.

## 3. The state store

`StateStore` has one variable per table (`lease`, `rows`, `imported`, `schema`), the
JSON file (`checkpoint`), the wall clock and, for each open handle, its phase, token,
cached manifest (`cache`) and the rows it last read (`seen`, what a compare-and-swap
expects). A handle is a process or a worker thread with a clone of the store.

| action | code |
| --- | --- |
| `OpenWriter`, `IntegrityPasses`, `Close` | `open_writer`, the integrity check, `Drop` and `release_writer_lease` |
| `RenewWriterLease`, `HeartbeatFails` | the heartbeat thread and its latch |
| `BeginLoadOrImport`, `BeginPersistRecords`, `BeginExactCas`, `BeginExportJson` | the head of each IMMEDIATE transaction: validate the lease, check the rows, prepare the change |
| `PublishJson`, `Commit`, `Rollback` | the rename of the JSON file inside the transaction, the commit, any error |
| `Load`, `Edit` | `load`, and any change of a record in memory |
| `MigrateSchemaOnly`, `Crash`, `SetClock` | migration from version 1, death of a process, `SystemTime::now` |

A transaction is two steps because time passes and processes die in between; SQLite
allows only one open IMMEDIATE transaction, which the guard `Idle` expresses.

`FencedStore` is what callers rely on: an epoch that may write, writes by that epoch
only, and a checkpoint that only ever becomes a copy of the table. `StateStore`
implements it with `epoch <- lease.epoch`.

| run | instance | shows |
| --- | --- | --- |
| `store_leases` | 2 handles, 2 owners, 1 asset, ttl 1, clock 0..2 in both directions, 2 epochs | fencing, no row taken back, what is reported stored is stored, the import happens once, refinement of `FencedStore` |
| `store_takeover` | 2 handles, 2 owners, clock forward, fair | an abandoned lease is taken over |

Two epochs are enough for a writer and the one that fences it; two handles are the
stale and the current one, of one owner (threads) or of two. The clock range contains
a valid, an expired and a revived lease. That a batch of several records is stored
whole or not at all is proved for batches of any size and run with one record.
`FairSpec` assumes that time goes on
and that launchd starts the service again, each time with a fresh owner id; nothing is
assumed of a running writer.

`StateStoreProofs` proves type correctness, the refinement and all of the safety
properties, for any number of handles, owners, assets and epochs and any ttl, from
`ConstantsAssumption`.
`LeaseInv` (live tokens are no newer than the lease, the same epoch means the same
owner, an open transaction's handle holds the row) is inductive with type
correctness; `StoreInv` adds that a prepared change is sound for the rows as they still
are (`PreparedRowsAreSound`), which carries `RowsOnlyAdvance` and `SuccessMeansStored`
from `Begin` to `Commit`. That takeover eventually happens stays with TLC.

## 4. The delete stage

`DeletePipeline` models `delete_original_assets_with_client` over scans: `db` is the
table of `StateStore` (batches are all or nothing), `remote` the originals in CloudKit,
`late` the requests the program gave up but the service may still apply, `rawAge` and
`tokenAge` how long ago a RAW changed or was validated, and the rest is the memory of
the scan.

| action | code |
| --- | --- |
| `StartScan`, `NextWindow` | the active set by lifecycle priority, the chunks of the delete stage |
| `LookupApproved`, `CommitReconciled` | `reconcile_delete_window` |
| `PrepareItem`, `PersistApprovals` | `process_delete_preparation_window` |
| `LiveCheck`, `PreflightFails`, `SendAnswered`, `SendAmbiguous`, `LookupAfterSend`, `CommitConfirmed` | `submit_prepared_delete_group` and the client's modify and lookup |
| `Crash`, `LateRequest`, `OtherClient`, `RawChanges`, `Tick` | the world |

`SafeDeletion` is the promise: an original leaves by the program's hand only under a
durable approval and unedited, and is recorded only when gone. The stage implements it
with the same `db` and `remote`.

| run | instance | shows |
| --- | --- | --- |
| `delete_scans` | 3 assets in 2 zones, 2 per scan and window, 1 failure, 1 foreign edit | refinement, memory never ahead of the store, approvals fit in a scan, the RAW was seen |
| `delete_recording` | 2 assets in 1 zone, 2 failures, 1 foreign edit, fair | a deletion is recorded in the end |

Three assets with two per scan make one wait; two zones make groups of different size;
one failure suffices for each crash point, two for a crash in the recovery from one.
`MaxAge` 1 has a fresh, a limit and a stale age. `FairSpec` assumes the monitor is
restarted and that its calls return; failures end at `MaxFaults`, because a system that
fails for ever records nothing.

`DeletePipelineProofs` proves type correctness, `MemoryMatchesStore`,
`RawSeenRecently`, `ApprovedFitInOneScan` and the refinement for any assets, zones,
limits and bounds, from `ConstantsAssumption`. `DeletionInv` says what each phase knows
(what is prepared or sent is approved in the store, what is confirmed is gone);
`RawInv` relates the age of a token to the age of the RAW; `AdmissionInv` bounds
approved assets together with those of the scan that may still become approved, using
that a selection takes approved assets first. `RemoteDeletionIsRecorded` stays with
TLC.

Limits:
- selection is that of a scan without `--rolling-lifecycle`; `RollingScan` has the
  active set of the rolling mode and what it admits to deletion;
- one approved record that another client edited makes each lookup of its zone window
  fail, so its neighbours are not recorded: the code fails closed, and
  `RemoteDeletionIsRecorded` exempts exactly that case;
- the live checks of the items of one request are one step;
- ages stand for the clock: a wall clock set back after a validation is not modelled.

## 5. Permits and the worker pool

`StagePermits` is `RollingStagePermits`: three counters, the number of CPU-only waiters,
and for each thread its lane and whether it is out, asleep, woken or in. `Release`
notifies all sleepers; a conversion must wait while a CPU-only thread waits.

`WorkerPool` extends it with the passes of a rolling scan: `StartPass` plans queue and
reservations, each worker pops an asset and leads it through `resolve → convert →
verify → upload → mirror`, `JoinPool` decides whether there is another pass.
`ClaimConversion`, `Complete`, `Fail`, `AdoptDurable` (the record in the store won) and
`StoreFails` are the outcomes of a step. The first worker error ends the scan; the
other workers still empty the queue.

| run | instance | shows |
| --- | --- | --- |
| `worker_pool` | 3 workers, 3 assets, 2 CPU slots, 1 conversion slot, 1 mirror slot, cap 1, up to 3 passes, 1 failure, fair | slots, wake-ups, conversion budget, claims, reservations; the scan ends |

With two CPU slots and one conversion slot each lane can be the bottleneck, and three
workers are needed for a holder, a CPU-only waiter and a conversion that gives way.
`FairSpec` assumes weak fairness of each thread: the lock is granted and each step
ends, since the programs and requests have timeouts.

`WorkerPoolProofs` first proves `SlotsAccounted` and `NoLostWakeup` of `StagePermits`
alone, for any number of threads and slots, and that they imply `SomebodyIsAwake`: whoever
sleeps, another thread holds a slot or was woken. It then shows that the pool implements
`PermitsSpec`, so all three carry over, and proves `ConversionBudget`, `ClaimsSucceed` and
`NoStaleReservation` with `PoolInv` (types, slots, passes left, working threads have a
job that matches their step) and `ConversionInv` (assets are led by one worker, those
entitled to a conversion fit in the cap, each reservation belongs to one of them).
`ClaimsSucceed` shows that the error `rolling conversion reservation exceeded
conversion capacity` cannot happen. `NoLostWakeup` is the bounded form of a real gap: a
conversion can sleep beside free slots until the next CPU slot is returned.

`ScanEnds` needs fairness and stays with TLC; what it says beside fairness is
`PoolGoesOn`: in a pool that is not done, the guard of some worker's action holds, and
not that of a spurious wake-up only. `PoolNeverStops` proves it from `SomebodyIsAwake` and
two more invariants: `SlotUse` (a worker holds or awaits slots only for the step it is
at) and `QueueHasWork` (what is queued has a step to take). TLC's own check for deadlocks
would not see such a stop, since a sleeping thread may always wake up spuriously.

A cap of one for three assets makes claims and reservations compete, and the later
passes start with what the first one spent. The active set, the delete batches and
the resolution of originals between two pools are in `RollingScan`, where a pool is
one step; whether a pass follows is left open here (`Continues`). The mutexes
of manifest, summary and reservations are not variables: they are taken in the orders
manifest → summary and reserved → summary only, so they cannot form a cycle, and each
action is one critical section.

## 6. Retries

`RetryAdmission` is the scan around the work: what it admits before any work, what it
selects, when it looks for new files. `db` and `manifest` hold the records, `age` the
time since each asset's last failure, `lost` the converted files that cannot be read,
and `rolling`, `pc`, `active`, `todo` and `conversions` the scan itself. Each scan may
run in another of the `Modes`, as after a restart with another configuration.

| definition | code |
| --- | --- |
| `FailedRetries`, `Considered`, `Exhausted`, `Retried`, `Lineage` | `admit_failed_retryable_assets_with_budget`, `failed_retry_attempt`, `admit_failed_retry` |
| `AdjustedSources`, `Marked`, `ExhaustedMarkers` | the requirement of an adjusted source, its repetition and its terminal review |
| `ResolverRetries`, `Requeued`, `Recovered` | the recovery of failed attempts to match an original |
| `Admissions`, `StartScan`, `Checkpoint`, `CheckpointFails` | `admit_scan_retry_policies` and the checkpoint of its result |
| `Selected`, `Select`, `Refresh`, `NextPass` | `active_lifecycle_asset_ids_for_config` before and after discovery and between passes |
| `StagesDone`, `SkipDiscovery`, `Discover` | the stages of staged mode before discovery, `new_monitor_work_skip_reason`, discovery |
| `Resolve`, `Convert`, `Verify`, `Upload`, `Finish`, `ResolveAdjusted`, `Pass` | the steps of work on an asset, with all their outcomes; an asset no step takes up |
| `EndScan`, `Interrupt`, `Tick`, `OutputLost` | the last checkpoint, death or an error that ends the scan, time, a file that disappears |
| `QuarantineFailed`, `ClassifyFailures` | the operator's `monitor failed-assets-quarantine --apply` and `monitor legacy-failures-classify --apply` |

The two commands of the operator run between scans: `--apply` takes the run guard and
the writer lease, so `pc = "idle"` is their guard. A dry run reads an immutable snapshot
and prints a fingerprint of what it would change; `--apply` loads the records again,
refuses another fingerprint, and changes all of them in one exact compare-and-swap.
The dry run changes nothing and a refused `--apply` does not either, so the action is
the accepted one: the whole set `Tainted` or `Classifiable` goes, or nothing. The first
takes failed records with side effects of an older program (`SideEffects`) to review;
the second gives the untyped failures of an older version their kind, after which a
scan can retry them.

Abstractions: one kind of failure stands for those with one policy; the list of
failures is its length and last kind, because it is append-only and the digests in the
proofs are taken over a prefix of it; ages stand for timestamps; deletion and mirror
are one step. In rolling mode each step stores its record; in staged mode the results
of several steps wait in memory for a checkpoint, which `Store` may or may not take.

`BoundedRetries` is the promise: back to work only by paying one of three retries or
three replacements, which nothing gives back, or while the original is unmatched; a
record under review stays there. `RetryAdmission` implements it with a record `Promise`
of each stored record, where a requirement that is still open counts as unpaid.

| run | instance | shows |
| --- | --- | --- |
| `retry_kinds` | 1 asset, all kinds, both modes, budget 2 with a reserve of 1, 2 faults, 1 lost file, fresh and old records, both operator commands | readable lineage, no conversion of a source that had no preview, refinement, also when several results become durable together or are lost |
| `retry_progress` | 2 assets, rolling, budget 1, 1 crash, fair | admissions fit the budget; each failure is retried or reviewed; discovery goes on |
| `retry_staged_discovery` | 1 asset, staged, fair | violated: discovery ends |

One asset suffices for the attempts of one lineage, which no other asset touches; two
under a budget of one compete for each slot. Two faults are a crash and a crash in the
recovery from it. `MaxFails` bounds only attempts to match an original, which the code
repeats without limit; the other counters are bounded by the policies themselves. Ages
stop at the longest limit. `FairSpec` assumes that the monitor is started again and
time goes on, and nothing of the environment.

`RetryAdmissionProofs` proves every safety property of these runs, for any assets,
modes, limits and bounds. `Inv` strengthens them in two ways. `Sound` relates the parts
of one record: a retry proof fits the number of failures (equal to it while the record
works, one less once it has failed), a version 3 proof counts the attempts since its
start, and a requirement without an adjusted source holds the record in failure or
review. The properties need the first part because a failure is only appended, by code
that never looks at the proof. `Memory` relates the manifest to the store: equal between
scans and in rolling mode, one admission ahead at the first checkpoint, and ahead by
work alone (`Forward`, which is transitive) while results of staged mode wait. So
whatever a checkpoint, whole or cut short, makes durable is one step of
`BoundedRetries` for each asset. `AdmissionsAdmit` shows that the four admissions do at
most one thing to a record (a resolver retry that is queued again and recovered at once
is one), and `AdmissionsSpend` adds up their slots with the cardinality theorems.

`FailuresAreDecided` needs fairness; `FailuresAreForeseen`, the fact it rests on, is proved.
A failed record is always one that some admission takes once there are slots and time,
one that a marking or the resolver considers, or one that the policies leave alone for a
reason the property names (`Undecided`): no order of failures, crashes and changes of
mode makes a record that no rule mentions. It takes one more invariant, `Ordered`: how far
a record has come fits its state and the kind of its failure, because the rules look at
both and the code that records a failure sets only one.

What the last run shows. In staged mode an asset whose source lacks a preview is given
a requirement that only rolling workers resolve (README.md:401), but it counts as
pending work, so each scan skips discovery, and README.md:350, the monitor polls the
download folder, does not hold until rolling mode is switched on or someone edits the
manifest. Without the preview failure, or in rolling mode, the same instance satisfies
the property.

A related case is why `retry_progress` has no lost file: with `MaxLost = 1` and one
asset in rolling mode TLC finds `DiscoveryGoesOn` violated too. A converted asset whose
HEIC is gone is neither failed nor converted again, because verification reports an
error that leaves the record alone (monitor.rs:4611); `max_lifecycle_per_scan` such
assets keep the active set full.

Limits: `auto_delete` is on; batch limits of the resolver are left out (it may reach any
unmatched asset or none); transient errors of verification and upload that leave the
record alone are part of `Interrupt` and of the free choice of `todo`; of the failures
older versions left without a kind only those about an embedded preview are initial
states (`OldPreview`), which are the ones the program can type; nor are proofs that no
version of the program writes.

## 7. Rolling scans

`RollingScan` is a whole rolling scan over several assets: what it takes up, in which
order, and how the answers of iCloud bind RAW files to originals. `db` has the state of
each record, whether it holds an `ExactOriginal` proof (`original`), and which photos the
resolution names with which an operator closed it (`kept`); `remote` what iCloud has for
each RAW (two RAWs with one original are copies of one photo), `blocked` the assets
whose deletion never validates; the rest is the memory of the scan.

| definition | code |
| --- | --- |
| `StartScan`, `Activate`, `ActiveSet`, `Reserve` | the active set of a scan, with slots kept for conversions |
| `Admit`, `DeleteBatch` | the delete batches between passes, admitted under `max_lifecycle_per_scan` |
| `ResolveFirst`, `ResolverIds`, `Batches`, `StartResolving`, `ResolveBatch`, `DeferBatch` | the originals of a window of the active set, one batch per capture time |
| `Ambiguous`, `Resolution`, `Closed` | the disposition of each target of a batch and the record it makes: the original, a replacement or both (`ReplacementPresent`, `Coexistence`), nothing, or review |
| `Names`, `Owned`, `Clash`, `Refused`, `Applied` | `reconciliation.rs`: the photos that stored proofs name; a batch is applied as a whole, or refused as a whole |
| `Runnable`, `Queue`, `Pool` | the queue of the worker pool and what it does to the records |
| `Continue`, `PassDone`, `EndScan`, `ScanFails` | whether another pass follows |
| `Audited`, `Heics`, `Reconcile` | the operator's `original-assets-reconcile --apply`: a whole library in one batch, between two scans, with the HEIC files that lie beside the RAWs; only this command looks for replacements, the monitor passes none (monitor.rs:10048) |

| run | instance | shows |
| --- | --- | --- |
| `rolling_scan` | 3 assets, two of them captured together, one with a HEIC beside its RAW (`WithHeic`), one that an older version's resolver may have failed (`Older`), 2 per scan, two deletions that may be blocked (`Blockable`), 1 conversion, 1 fault, fair | a photo has one record; deletions fit in the scan; each asset is decided |

Three assets over a limit of two make one wait; equal captures put two copies into one
batch, different captures into two. The asset with the HEIC shares its capture with
another, so that the photo an operator closes it with can be the original of the other.
The fault is a crash, a failed batch or a failed
pool. `FairSpec` assumes that a scan goes on and that the monitor scans again; the
operator's command has no fairness.

`OriginalHasOneRaw` is what stands between two copies of one photo and the deletion of
a photo whose RAW was not converted, or that an operator closed a RAW with because it is
to be kept. It speaks of every photo a proof names, as original or as replacement. It
holds only because a refused batch changes nothing and a batch is compared with all
records, not only its own or only those with an original; `RollingScanProofs` proves it
for any number of assets, captures, limits and faults with the invariant `Bound` (it, and
the types it needs). `BoundApplied` is a lemma of its own, used for the scan and for the
command of the operator.

The same module proves, for any assets and limits:

- `DeletesFitInScan`, from `Capped`: what is admitted fits in the limit and was tried
  once, the rest never. The lemma beneath it is `ForemostFits`, at most n of a set are
  foremost in it by rank and id, since the number of those that come sooner differs for
  each of them;
- `ConversionsFitInScan`: all pools of a scan together start at most
  `max_conversions_per_scan` conversions, by the same lemma for the queue;
- `OnlyMatchedAreDeleted`: whatever fails and is tried again, a record on its way to a
  deletion is bound to an original that iCloud has. With `OriginalHasOneRaw`, every
  deleted photo is the match of one converted RAW.

The order and the length of the active set and of the batches are sequences made with
`SelectSeq`, of which the prover knows nothing; nothing proved here depends on them.

Two things the liveness property makes explicit, both fail closed:

- `Poisoned`: every later batch of originals is refused and ends its scan, for one of
  three reasons. A record with an `ExactOriginal` proof that goes to review keeps the
  proof (`terminalize_failed_with_proof`, manifest.rs), but a proof on a record under
  review is not consistent (workflow.rs:2789): `MalformedExistingProof`. A copy whose
  twin was resolved in an earlier batch names the same photo: `DuplicateOriginalRecord`.
  And so does a RAW whose photo an operator's reconcile closed another RAW with, as its
  `ReplacementPresent` or `Coexistence`: that record is `NoAction`, but
  `existing_original_record_names` still has the identities (reconciliation.rs:1007-1068).
  What the property asks in these states is that the damage ends there: an asset that is
  bound already is converted and deleted although each scan ends at its first batch,
  because batches come after the workers when those have something to do
  (`ResolveFirst`). The assets that are not bound are exempt; they wait for the operator.
- `Crowded`: `max_lifecycle_per_scan` assets whose deletion cannot be validated fill the
  active set, since deletions come first, and nothing behind them is taken up.

Limits: all RAWs have one size and ids follow captures, so that ties are broken in one
way; captures are equal or farther apart than the window of a batch; a pool and a
delete batch are one step (`WorkerPool`, `DeletePipeline` have their inside), in which
one asset fails; eligible is part of approved; targets the service never answers for
are excluded by the bound on faults. This version's batches raise no failure of the
resolver, so a record that failed in it comes from an older version and, here, has no
conversion yet; when it is tried again is in `RetryAdmission`. The HEIC files beside the
RAWs and what iCloud has for them may be others in each command; one asset has such a
file in the run, any set of them in the proofs.

## 8. One asset and two monitors

`MonitorGuard` is what keeps two monitors off one manifest: the flock on the lock file
(`OpenLock`, `ValidateLock`, `Flock`), the check at each scan that the path still names
that file (`ScanAllowed`), the lease and its heartbeat (`BeginScan`, `HeartbeatLost`,
`LeaseExpires`). `AssetScan` extends it with one asset under those monitors, from an
adjusted source to an uploaded photo, with the child processes that do the work.

| definition | code |
| --- | --- |
| `Download`, `Install`, `Seal`, `SaveAdjusted` | `CloudKitAdjustedSourceResolver::resolve`: temporary file, rename without replacement, sync, exact compare-and-swap of the record |
| `Clean`, `Convert`, `EncoderOpens`, `EncoderWrites`, `Hash`, `Discard`, `SaveConverted` | stale outputs removed, an encoder as a child, the output sealed, a failed one removed |
| `Verify`, `SaveVerified` | `run_rolling_asset_verify` |
| `Upload`, `UploadOpens`, `UploadStreams`, `UploadPuts`, `CheckUpload`, `SaveUploaded` | the upload child with its snapshot of the store, the streamed bytes, the answer of `putAsset`, the proof |
| `StartScan`, `StopScan`, `MonitorDies`, `KidFails`, `PowerLoss`, `ReplaceLock`, `OperatorStops` | scans, and what ends them |

Children live in process groups of their own and outlive a monitor that dies. An
orphaned encoder may so write to the output path of the next conversion, and an
orphaned upload may put its photo after its monitor was replaced.

| run | instance | shows |
| --- | --- | --- |
| `asset_scan` | 2 monitors, 3 lock files, 2 different results of encoding, 2 children, any 2 of crash, sleep, replaced lock, power loss, error; fair | an upload is proven, an adjusted source survives power loss, no proven HEIC is removed, the asset is decided |

Three lock files are the one at the path, one a monitor still holds and a new one; two
children are an orphan and the child of its successor; two results of encoding make the
orphan's file differ from the sealed one; two faults are needed for a crash that leaves
an orphan and a fault of the scan that meets it. `FairSpec` assumes that threads and
children run (all have timeouts), that an abandoned lease expires, that monitors are
started again by launchd, and that somebody stops one that can never scan again.

The last assumption is needed. A machine that sleeps longer than the lease of five
minutes loses it to the heartbeat's check: the handle is poisoned, every later scan is
refused (monitor.rs:1069), but the process does not exit, so launchd (README.md:349,
688-691) does not start another. `OutputGone` is the other exception: a power loss can
take the name of a converted file, whose directory is not synced, and verification then
reports an error that leaves the record alone.

`AssetScanProofs` proves type correctness, `UploadIsProven`, `AdjustedSourceKept`,
`ProvenHeicKept` and that only one monitor scans at a time unless its lock file was
replaced, for any number of monitors, lock files, children, contents and faults, from
`GuardAssumption` and `AssetAssumption`. `IInv` is the guard's part (locked monitors have
different files, unless evicted) and the asset's: what each child carries (`KidInv`),
what each step of a scan knows (`ScanInv`), which photos and sources must exist
(`PhotoInv`, `SourceInv`) and that a durable hash is the file's (`HeicInv`), and that
memory equals the store while the lease holds (`MemoryInv`). From the last it follows
that the branch of `SaveAdjusted` in which the compare-and-swap finds another record is
a second line of defence: a scan that holds the lease never meets it.

Limits: one asset and one worker per monitor; a failed record is final here, since
`RetryAdmission` has the retries; the pixels and metadata that verification compares are
one outcome; the mirror step is left out.

## 9. The search for originals

`OriginalQuery` is the search of an iCloud library for the originals of a batch
(`resolve_original_assets_batch_outcome`). The service lists photos newest first and
gives pages from any rank, so the client looks for the dates of its targets with probes
at doubling distances (`Forward`, `Back`), narrows down (`Bisect`, `BisectBack`) and reads
on until the photos are too old (`Scan`, `NextPage`, `Stop`). `Disposition` is the
answer: an original is deleted later on its word, and a target without a match is
closed for good.

| run | instance | shows |
| --- | --- | --- |
| `original_query` | libraries of 6 photos (one with a single photo, one empty) with 4 possible dates and two photos of interest, batches of 1 or 2 targets, pages of 2, at most 6 requests, start ranks 0 and 3, 1 fault, fair | the answers are true of the whole library, and a search ends with an answer |

Six photos in pages of two are more than the first page, the first probe and the second
probe read, so that bisection happens in both directions; the dates lie before, in and
after the windows of the targets; the files of interest are equal, of equal size, a RAW
and a HEIC, or both in one photo. A fault is a short page, a download of the wrong size or
a failed request. `FairSpec` is weak fairness of the client: requests have timeouts.

`OriginalQueryProofs` proves `AnswersAreTrue` for any library sorted by date, batch,
page size, tolerance and number of faults, and for any start rank above the window of the
targets (`FromAbove`, a condition of the property), from `QueryAssumption`. The
invariant `NothingSkipped` says where the search stands: while it probes, all ranks up to
`lower` are `Passed` (too new for every target), when it begins to read it has `Covered`
the ranks before its page, and it ends with every photo read, too new or too old
(`AllRead`). Dates fall with the ranks, so that one photo that is too new clears all
before it and one that is too old all behind it. `AnswerHolds` then shows that what
`Disposition` says of the photos it saw is true of the library.

`SearchConcludes` needs fairness; its other half is `Conclusive`, proved with `InOrder`: if
every request is answered in full, the search does not fail (it never lands on a page of
newer photos and finds no page out of order), and it leaves a target open only when its
pages are used up.

What the model made explicit:

- The properties hold if the search begins above the window (`FromAbove`), which the
  default `start_rank` 0 does. With a larger one the first page may already overlap the
  window: it is taken as it is, and a search backwards stops at the first page that
  overlaps, so newer photos of the window are passed over.
- A library that changes between two requests shifts the ranks. The code cannot see
  that, and the model excludes it.
- upload.rs:518-521 calls `both` one asset with both files; the code does not ask for one
  record. Nothing is deleted either way.
- A photo that holds two RAWs wanted by two targets gives both the same record, which
  refuses the batch (`DuplicateOriginalRecord`). The instance has one RAW of interest per
  photo.

## 10. The legacy migration

`MigrationApply` is the command that redoes two uploads of an older version:
`MigrationJournal` has the records and the checks of an update, `QuarantineRoots` the
directories its files go to and the commands that remove those of an older program.

| definition | code |
| --- | --- |
| `Start`, `EvidenceLoads`, `PreflightPasses`, `Preflight` | a run: evidence, placement of the sealed files, directories |
| `DeleteReplacement`, `DeleteUnanswered` | the retired replacements in iCloud |
| `Quarantine`, `Normalize`, `InstallReference` | renames without replacement, normalised copies of references |
| `Convert`, `ConvertFails`, `Upload`, `UploadUnanswered`, `FillMirror`, `MirrorFails` | the new conversion, upload and mirror file |
| `Persist`, `Export` | both records in one compare-and-swap, then the checkpoint |
| `MakeReceipt`, `RotateReceipt`, `RemoveResiduals` | the other commands of the operator |
| `Intend`, `MakeDirectory`, `RecordMade`, `Commit` and their undoing | a root's directory and its progress files |
| `AuditResiduals`, `BeginRecovery`, … | directories left behind are audited and removed |
| `Crash`, `RCrash`, `LateRequest`, `Reboot`, `TakenAway` | the world: death anywhere, also within a progress file; answers after the request was given up; new device numbers |

`CohortMigration` is the promise: the two journals advance together, and each
irreversible effect happens in the one phase that allows it.

| run | instance | shows |
| --- | --- | --- |
| `migration_apply` | 2 records (the number is fixed in the code), 1 reference, 2 roots, 1 directory identity, 2 attempts, directories left in no, one or both roots, 3 faults, 2 changes of device numbers, fair | proofs are backed, no second upload, success means done, progress files explain directories, refinement, and completion |

One identity is the worst case, an inode number that comes back for another directory;
two attempts (64 in the code) are a first and a last; three faults are an interruption,
one of its recovery and one more. `Fairness` assumes that a run goes on (weak) and that
the operator repeats the commands, has a receipt made and has residual directories
removed whenever these can be done again and again (strong, because runs come between).

`CompletesUnlessInterrupted` names every state from which repetition does not help.
`Interrupted` has those of the migration: device numbers that change before
DeleteConfirmed, or after Quarantined without a matching receipt; a receipt that the
phase Quarantined refuses; a quarantine cut off after its first rename at
DeleteConfirmed (evidence.rs:2065 refuses the layout that the receipt for partial moves,
evidence.rs:219, is made for); a reboot there with a checkpoint that was not exported;
leftover files of a conversion at Reset; two replacements in iCloud; a torn mirror file.
`Blocked` has those of the directories: a progress file cut off by a crash (it is created
exclusively, then written, and never written again), attempts used up, and directories
an older program left in some roots only. Each needs an operator, and none loses a file.

`MigrationApplyProofs` proves the refinement, type correctness, `ProofsAreBacked`,
`UploadedOnce` and `SuccessMeansDone` for any references, layouts and bounds. `IInv` says
what each phase stands for on disk and in iCloud, phase by phase; the properties need it
because a run trusts the phase in the journals and looks at the disk only in part.
`Composition` shows that with the directories the migration takes only steps of
`MigrationApply`, so all of this carries over, and `RInv` (which attempts are over,
what a task knows of the roots before it) gives `ProgressExplainsDirectories` for any
roots, identities, residues and attempts.

Completion needs fairness and stays with TLC; two facts it rests on are proved with one
more invariant, `Workplace` (the directories of the cohort exist while they are used, and
what is left of a conversion is not made yet). `RunCanGoOn`: in the middle of a phase
there is a next asset or file, or the phase is done and the records it makes are ones
`validate_record_update` accepts. `RunCanBeRepeated`: a run that stopped in a state
outside `Unresumable` loads its evidence, with a receipt if the devices changed (or the
receipt can be made), passes the preflight and starts its phase, so that `Unresumable`
names every such obstacle outside the quarantine directories. For these `RootsCanGoOn`
says that outside `Blocked` no progress file refuses the next materialization, that
residual directories can be audited or their removal taken up, and that a removal always
finds its next step. Its invariant is `Ledger`: a removal goes through the roots in order
and its files say so (`InOrder`), directories of this migration have its authority, and
no root has more attempts than allowed.

Limits: files are sealed, moved or gone, and digests hold what they name; the generation
of the evidence is `Init`; tampering with sealed files while no run is active is only
the removal of an empty directory.

## 11. What is model-checked, what is proved, what is neither

Proved for all values of the constants: the five refinements (`FencedStore`,
`SafeDeletion`, the permits of `StagePermits`, `BoundedRetries`, `CohortMigration`) and
every invariant and action property that a run checks; besides them what `theorems` lists
without a run, such as `PoolGoesOn`, `Conclusive`, `FailuresAreForeseen`,
`RunCanBeRepeated`, `RootsCanGoOn` and `OnlyMatchedAreDeleted`. Type
correctness is proved for every module with a state, but in `OriginalQuery` it is part of
the invariant (`Typed`), and in `RollingScan` it covers the records, the admissions and
the counters and leaves out the sequences.

Model-checked only: the liveness properties
`AbandonedLeaseIsTakenOver`, `RemoteDeletionIsRecorded`, `ScanEnds`,
`FailuresAreDecided`, `DiscoveryGoesOn`, `AssetsAreDecided`, `AssetIsDecided`,
`SearchConcludes` and `CompletesUnlessInterrupted`, because fairness and `ENABLED` are out
of the prover's reach. No module needs a `RECURSIVE` operator, so none is excluded from
the proofs.

Bounds that exist for TLC alone: `MaxTime`, `MaxEpoch`, `MaxEdits`, `MaxPasses`,
`MaxFailures`, `MaxFails`, `MaxLost`, `MaxFaults`, `MaxMounts`, `MaxPhotos`, the sets
`Faults`, `Identities`, `Kids`, `LockFiles`, `Residues`, `Initial`, `SideEffects`, `Blockable`, `WithHeic`, `Older` and the
`Libraries` and `Requests` of a search. The proofs hold for all of them. `MaxAttempts`,
`MaxPages` and `RootCount` are parameters of the code that the runs set low.

| run | distinct states |
| --- | --- |
| `store_leases`, `store_takeover` | 1,650,144 and 204,762 |
| `delete_scans`, `delete_recording` | 2,549,312 and 256,310 |
| `retry_kinds`, `retry_progress` | 697,543 and 88,644 |
| `rolling_scan` | 758,467 |
| `asset_scan` | 756,098 |
| `original_query` | 1,676,926 |
| `migration_apply` | 324,432 |

Not modelled: the immutable read snapshots of the store; authorization and Keychain checks; the comparison of pixels and metadata
of a HEIC (pure functions); `upload-verified-reverify`, which renews proofs the model
holds only as current or not, and the other reports; the generation of the migration's
evidence; tampering with sealed files; the SMB session and mount recovery; the mirror
stage of an ordinary scan and the two staging slots; metrics; strict JSON; the Swift
application, the service installation and the vendored SMB client. A wall clock that is
set back after a validation is modelled for the lease only. About 37,000 of the lines
under `src/src` are test modules inside the source files.

Run a model with `tlc -config MCStateStore.cfg MCStateStore`, a proof with
`tlapm StateStoreProofs.tla`.

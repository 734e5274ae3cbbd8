# Zenith VoIP: specifications and proofs

TLA+ modules of the parts of Zenith that are hard to test: what happens to a
call's audio between FreeSWITCH and the backup share, how the hub's view of
telephony follows FreeSWITCH, and what requests that administer tenants and
trunks do to each other. Paths below are relative to the repository; the
Python package is `src/`.

1. [The system](#1-the-system)
2. [Modules](#2-modules)
3. [What is checked](#3-what-is-checked)
4. [Fairness](#4-fairness)
5. [What is proved](#5-what-is-proved)
6. [Where the code and its documents disagree](#6-where-the-code-and-its-documents-disagree)
7. [What is left out](#7-what-is-left-out)
8. [Plan](#8-plan)

## 1. The system

A FreeSWITCH server carries the calls. FastAPI instances receive its events over
ESL and each call's audio over a WebSocket, and write the audio to a call
directory `<recordings>/<tenant>/<call>`. Four kinds of arq workers then work on
the same directories, in processes of their own, and share nothing with the API
or with each other but the files, Redis and PostgreSQL.

```
FreeSWITCH --events--> ESL listener --> call rows (PostgreSQL), trunk state (PostgreSQL, Redis)
     |                      | answer, hangup
     +--audio WebSocket--> ingestor --(capacity guard)--> tx.raw, rx.raw --enqueue--> upload job
                                                             |
                        call directory, under leases:        v
     upload job: raw -> wav;  SMB cycle: raw -> wav -> stereo -> share;
     transcription cycle: wav -> rows, Markdown on the share;  cleanup round: deletes

administrators --HTTP handlers, scripts--> tenants, PBXs, condominiums, trunks (PostgreSQL)
FreeSWITCH --directory lookup--> trunks, legacy directory file
```

### Components

| Component | State it keeps | Operations | What is hard | Correct when |
|---|---|---|---|---|
| Recording leases, `audio/recording_lifecycle.py` | `.<stage>-processing` files with owner and expiry | `acquire_lease`, `renew_lease`, `heartbeat_lease`, `release_lease`, `has_valid_lease`, under a flock | stalls beyond the TTL, deaths, a nested lease, late releases | valid leases of a directory have one owner; nobody removes another's; a dead owner's expires |
| Capacity guard, `audio/capacity.py` | reservations, degraded mode | `reserve`, `release` | calls grow, end and are converted while others ask | bounded overcommitment; hysteresis; no refusal for ever |
| Audio ingestor, `audio/ingestor.py` | metadata, recording, handles, lease, heartbeat task per call | `handle_forked_stream`, `_start_recording`, `_write_channel`, `_heartbeat_capture`, `finalize_stream`, `register_stream_metadata` | end of socket, hangup, lost lease and next socket, in any order of awaits | one finalizer; all given back; all audio enqueued |
| Upload job, `workers/audio_uploader.py` | `*.wav`, `*.tmp.wav` | `upload_recording_batch`, `_convert_to_wav` | cancellation, re-run by the queue, busy directory | works alone; inputs stay |
| SMB backup, `workers/smb_sync.py` | transfer log, breaker, share | cycle, `process_call`, `publish`, `cleanup_remote_temporaries` | lost answers, time limits, name collisions, restarts | write-once share, truthful log, every call tried |
| Transcription, `workers/transcript_batch.py` | segments, Markdown, marker | cycle, `process_call`, transcribe, persist, publish | failure between two outputs; a call without a row | marker only with both outputs |
| Cleanup, `workers/audio_cleanup.py`, `workers/recording_consumers.py` | candidates file, consumed markers | round per directory | deletes what others read; temporaries of dead and live workers look alike | audio outlives its use; temporaries go |
| ESL listener, `telephony/esl_client.py` | event and command connection | connect, event loop, handlers, `send_api`, reconcile | events lost between connections, answers that belong to an earlier command | see the next two |
| Trunk state, `telephony/trunk_state.py` | `registration_status`, active calls | registration events, `track_call`, `reconcile` | snapshots against queued events, partial failure, changing identity | FreeSWITCH's state once caught up |
| Call records, `services/calls.py` | one row per call | create, ringing, in progress, finalize | lost or reordered events | rows only go forward, and end |
| Trunk service, `services/trunks.py`, `api/routers/trunks.py` | condominiums, trunks | create, update, directory lookup | checks and writes in different statements, stale session rows, a file beside the tables | a trunk, its condominium and PBX are of one tenant; identities are unique; lookups are right |
| Trunk import, `services/trunk_import.py`, `scripts/import_operational_trunks.py` | trunks | CSV, single JSON, JSON batch | other tenants' identities, a batch that stops half way | imported trunks are off; a batch is whole or nothing |
| Tenant provisioning, `scripts/provision_tenant.py`, `scripts/sync_vars_xml.py` | tenants, PBXs, schemas, `vars.xml` | provision, compensate, render | three commits and a compensation that cascades | all or nothing |
| HTTP rate limit, `api/rate_limit.py`; agent WebSockets, `api/websockets.py` | a sorted set per client; open sockets | per request; per message | check, then add; sockets that nothing opens | see section 7 |
| FreeSWITCH sidecar, `sidecar/watcher.py` | last external address | poll, write, reload | | FreeSWITCH has the present address after a poll |
| AI, extraction, speech, widget, tokens, configuration | none, or data only | | no interleaving of their own | |

### Interactions

* The ESL listener calls `audio_ingestor.register_stream_metadata` on answer and
  `finalize_stream` on hangup, in the same event loop as the WebSocket handlers.
* The ingestor asks the capacity guard, takes the *capture* lease, and enqueues
  `upload_recording_batch` in Redis.
* Upload, backup and transcription take *conversion*, *smb* and *transcription*
  leases; the backup takes the conversion lease inside its own with the same
  owner. Cleanup holds the flock and takes no lease.
* Backup writes the marker `smb` and the transfer log, which transcription reads;
  transcription writes the marker `transcription`; cleanup reads both markers.
* The listener writes a trunk's `registration_status` by its identifier while
  handlers and imports update the same row; the call's row it creates (or, when
  the event was lost, does not) names the backup and admits the transcription.
* Handlers and scripts share the public tables only; a lookup of FreeSWITCH reads
  them and the legacy file, which operators edit.

## 2. Modules

| Module | Models | State and actions in terms of the code |
|---|---|---|
| `LeaseExclusion` | abstract: one active owner, a free directory between two | |
| `RecordingLease` | `recording_lifecycle.py` as its four users call it | `lease[s]` is the file of stage *s* with the time it has left; `Begin`/`End` are acquire and release around an operation, `BeginConversion`/`EndConversion` the nested lease, `Heartbeat` one turn of `heartbeat_lease`, `Tick` the clock, `Crash` the death of a process. A process that stalls is one whose heartbeat is not scheduled |
| `RecordingLeaseProofs` | its theorems | |
| `RecordingPipeline` | one call directory, five processes | `files` the names that exist; `log` the entry of the call in the transfer log, which a cycle writes and later prunes or finds lost (`LogForgets`); `row` whether the database has the call; `pc[w]` the await each worker is at; one action per stretch of code between two points another process can see; leases by owner |
| `RecordingLife` | abstract: what becomes of a recording | captured, on disk, made, reported, and which reports last; the next module's `Captured`, `OnDisk`, `Made`, `Reported`, `Spare` say what that is there |
| `RecordingPipelineProofs` | its theorems | |
| `AudioIngestor` | one call in the ingestor's process | a step is what a task does between two awaits that yield; a recording's number is its `RecordingState`, its lease owner and its heartbeat task |
| `AudioIngestorProofs` | its theorems | |
| `RecordingCapacity` | the guard and the bytes admitted calls write | `Used`, `Remaining`, `Pending`, `Projected` are the four figures `reserve` adds up; a sum over the calls counts their bytes (`Units`) |
| `RecordingCapacityProofs` | its theorems, and how a sum follows one call | |
| `WriteOnceStore` | abstract: each name is written once, each recording is there once | |
| `SmbBackup` | the backup cycle and the share | `final` and `temp` are the share; `want` the names this attempt has settled on; `Resolve` ... `Check` the requests of `publish`; `Outcome` the log entry; `failures`, `open` the breaker |
| `SmbBackupProofs` | its theorems | |
| `EslListener` | ESL listener, trunk state, call rows | `call`, `regs` are FreeSWITCH's; `events` what is on the event connection, `cmd` the state of the command connection; `Mark` ... `Sync` the awaits of `reconcile`; `Handled`, `ResolveEvent`, `ApplyEvent` the handlers; `enabled` the trunk's switch, which `resolve` and `list_enabled_ids` look at |
| `EslListenerProofs` | its theorems | |
| `AdminDatabase` | the public tables and the legacy file; requests over them | `CondominiumFits`, `TrunkFits` are the keys and unique indexes; `Updated` is `Repository.update`; `pc[r]` the next statement of request *r*, `mem[r]` its local variables; `Admitted` what bodies and arguments may hold |
| `TrunkRegistry` | condominiums, trunks, imports, directory lookups | an action per statement of `create_trunk`, `update_trunk`, `upsert_imported`, the imports, the lookups; the parsers are operators; the rows of a CSV keep the order of its lines (`InOrder`) |
| `TenantProvisioning` | the provisioning script, `sync_vars_xml`, `create_pbx` | an action per commit; `Undo` the fourth |
| `AdminPlane` | the last two over the first, and their properties | `Begin` starts any of the jobs that the instance lists |
| `AdminPlaneProofs` | its theorems about every step | |
| `AdminRunProofs` | its theorems about whole runs | |

`MC<module>` instantiates a module for TLC. Operators named as the mutant of
another one (the comment says of which) are plausible bugs; each property has
one that breaks it and is not used anywhere else.

**How they compose.** `RecordingPipeline` assumes that a live operation keeps its
lease; `RecordingLeaseProofs!PromptExclusion` proves that of `RecordingLease`
when heartbeats are on time. `RecordingPipeline` has the capture in few steps and
the publication in one; `AudioIngestor` and `SmbBackup` open these up.
`AudioIngestor` has the hangup handler as one event, which `EslListener`
delivers or loses. `AdminPlane` runs the requests of `TrunkRegistry` and
`TenantProvisioning` on one `AdminDatabase`; of the listener it has the one write
into the table of trunks, as an outside step (`Register`).

Decisions worth knowing when reading a module next to its source:

* *Atomic steps.* Functions under the flock of `recording_lifecycle` are one
  step. In asyncio code a step ends at an await that can yield;
  `capacity_guard` awaits a lock nobody holds across an await, which does not.
* *Unreadable lease files* count as absent, as `_read` has it; in `AudioIngestor` a
  read that fails refuses the heartbeat and is one of its faults.
* *`active_streams`* of the ingestor is written and never read: left out.
* *Both channels* are in `RecordingPipeline` (that is where one may fail alone);
  the other modules have one file per call.
* *The names of a mix* on the share, the plain one and the one with a part of
  the call's identifier for a collision, are a constant of the call when its row exists: the same WAV files
  give the same bytes, hence the same SHA-256. Without a row (`Rowless`) the name
  is made from the directory's mtime, which every attempt changes, and each
  attempt draws one of `Guess`. `WriteOnceStore` then promises of such a call only
  that what is there is not overwritten, not that it is there once (`Once`), and
  `RemoteTemporariesGo` leaves a drawn name out once no call with a row looks
  under it: the code keeps neither.
* *A lost lease* in the backup ends the cycle: the except clause at
  `smb_sync.py:700` calls `record_lease_failure`, which the module does not import,
  and nothing of the cycle names the `NameError`. That is `CycleAborted`: no log
  entry, nothing for the breaker, and whatever the operation had already done stays.
* *The transfer log forgets.* A cycle drops entries of calls that ended more than
  seven days ago and starts from an empty log when the file cannot be read:
  `ForgetCalls` in `SmbBackup`, `LogAges`, `LogPruned` and `LogLost` in
  `RecordingPipeline`. There an `aged` entry is a done one older than the retention:
  a cycle drops it from what it read and from the file when it next saves; until then
  the transcription still takes it for a finished backup.
* *A trunk that is off* has its registrations and channels passed over (`resolve`,
  `list_enabled_ids`), so that, switched on again, it may be shown as registered
  without being so until the next reconciliation. A new password resets the status
  while FreeSWITCH keeps the registration. `clean` says that neither has happened
  since the last reconciliation began, and `CaughtUpIsRight` and
  `RegisteredHasEvidence` claim nothing where it has.
* *The share* may have carried out a request whose answer never came
  (`Landed`), until its connection is closed.
* *History variables*: `since` and `clean` in `EslListener` (registered at some
  time since the connect; nothing failed, was passed over or reset since the last
  reconciliation began) are read by properties only.
* *The command connection* (`cmd`): one read is taken for the answer of a command.
  Of an answer in two pieces the next command reads the second, and so on
  (`OutOfStep`), until the connection is replaced. A command that meets its time
  limit replaces it itself, so that nobody reads a late answer.
* *Administration*: a step is a statement, a commit one step that checks the
  constraints. A session keeps a row as first loaded and updates the columns that
  differ from it. Identifiers are drawn by the request that creates the row,
  as UUIDs are; passwords are good or blank; a batch row is validated in one step
  (nothing is written then). An update of a trunk that a cascade has deleted is
  refused, raises, or, in an import, is counted as done (`Vanished`). `SetTenant`, `EditLegacy` and `Register` are the operators and the
  listener around the requests.
* *`faults`* counts, against `MaxFaults`, everything that goes wrong without the
  modelled code's doing.

## 3. What is checked

| Run | Instance | Properties | Shows |
|---|---|---|---|
| `lease` | 2 operations that each run any stage again and again, TTL 3, heartbeat period 2 | `TypeOK`, `ReleasedOnlyByOwner`, `ExclusionSpec` (refinement), `PromptlyExclusive`, `DisplacedNotices`, `AbandonedLeaseExpires` | leases exclude, and survive stalls, late releases and deaths |
| `pipeline` | both consumers required, retention and low disk, a call with or without a row, 2 faults | `TypeOK`, `OneWorkerInside`, `InputsStay`, `MarkersTruthful`, `LifeSpec` (refinement), `CapturedIsReclaimed`, `TemporariesGo` | no worker is disturbed, no marker lies, no audio goes too early; every fault is repaired by a later cycle |
| `pipeline_partial` | no faults, a call with audio of one channel | `PublishedIsConverted` (violated) | section 6 |
| `ingestor` | 2 sockets, 2 recordings, 2 faults | `TypeOK`, `OneFinalizer`, `NoOrphanHeartbeat`, `LeaseKeptToTheEnd`, `HangupCleans`, `AudioIsEnqueued` | the end of a call, in every order |
| `ingestor_beat` | 1 fault | `FinishedIsPublished` (violated) | section 6 |
| `capacity` | 4 calls of 2 units, at most 3, on 11 units | `TypeOK`, `OvercommitBounded`, `RefusalEnds` | what the guard does guarantee |
| `capacity_full` | 3 calls on 10 units | `NeverFull` (violated) | section 6 |
| `smb` | 3 calls, two with one base name, one without a row that draws the first call's names or others, threshold 2, 1 retry, 1 call that cannot be mixed, 3 faults | `TypeOK`, `DoneIsPublished`, `WriteOnce` (refinement), `HealthyIsBackedUp`, `RemoteTemporariesGo` | publication, retries, breaker and log together |
| `smb_starved` | as many unmixable calls as the threshold | `AlwaysRetried` (violated) | section 6 |
| `listener` | 1 call, 1 change of identity, 1 REGISTER after the start, any changes of the password and switches of the trunk, 2 faults | `TypeOK`, `CaughtUpIsRight`, `RegisteredHasEvidence`, `EndedStaysEnded`, `RowsEnd` | trunk state and rows follow FreeSWITCH |
| `admin` | 2 requests, each any of 21 jobs, over 2 tenants and one that a job restores; 1 change from outside, 1 fault | `TypeOK`, `ScopeConsistent`, `AloneIsAtomic`, `AnswersLinearize`, `ProvisionedOrNot`, `TenantIsolation`, `ImportedIsOff`, `NoNewClash` | what requests at the same time may do to each other, and what they may not |
| `admin_batch` | a batch whose second name is too long, beside one creation | `AllOrNothing` (violated) | section 6 |

**Why the bounds are enough to be interesting.** Two owners are the least that
race, each takes any stage, and a late release meets the successor's lease. TTL 3
and period 2 leave room for one missed beat: a lease can be taken over, renewed in
time or lost. Two faults in one call are a crash during the repair of another
failure. In the pipeline they are spent on any step of any worker. Two sockets
and two recordings give the late end of one recording beside the start of the
next. Four calls overlap in all of recording, awaiting conversion, mixing and
asking, and refusal happens at both thresholds. Two backups with one base name, and
a third that may draw it and a collision name with it, reach every arm of
`resolve_remote_name`, the collision
included; three faults are a lost answer, a crash and a lost log entry over the same
call; the smallest threshold at which a success between two failures matters is 2.
The listener's one call and one trunk are enough since trunks and calls share
nothing but the queue; two faults are a break after a failed step, or two breaks.
Two requests are the least that race. The jobs call every handler and script, and
meet the refusals that depend on others' rows: another tenant's trunk, condominium
and PBX, an identity that is taken in the tables or in the file, a batch that needs a
new condominium, a restored tenant and its undoing under a batch that has written
into it. Each of the two tenants has a trunk, and the
first has two condominiums, so that a trunk can move. The two requests alone make
1.2 million states, which is why one outside change and one fault have to do.

`CHECK_DEADLOCK FALSE` is given where a bounded system comes to its end: the call
is over and reclaimed (pipeline), its tasks ended (ingestor), the listener waits
for an event that will not come (listener), the requests have been answered (admin).

## 4. Fairness

* **Leases**: the clock ticks, and a live process runs its heartbeat task
  eventually, not in time. Deaths and operations have no fairness.
* **Pipeline**: the cron cycles and the queue run what they can do (weak fairness
  of each worker's own progress), dead leases expire and cleanup rounds elapse.
  Faults, retention and disk have none. `CapturedIsReclaimed` and `TemporariesGo`
  hold with faults, because a later cycle starts over; `CapturedIsReclaimed` is
  about calls that retention did not take first, and of a call without a row,
  which cannot be transcribed, it says that it is backed up.
* **Ingestor**: every task that can run does; the call ends; FreeSWITCH closes the
  sockets of a call that is over. `HangupCleans` and `AudioIsEnqueued` start with
  `NoFaults`: the code has no repair inside the process, and the run
  `ingestor_beat` shows one of the failures.
* **Capacity**: calls end, the pipeline works, somebody asks for admission.
  `Reclaim` is strongly fair: on a full filesystem a conversion starts, fails and
  starts again, so the cleanup's turn comes and goes; it finds the directory free
  between two attempts in one of its rounds.
* **Backup**: the cron starts cycle after cycle, and the breaker's time passes.
* **Listener**: the task runs, FreeSWITCH can be reached again, calls end.
  `RowsEnd` is for a stretch without faults: rows are not reconciled.
* **Administration** has none: its properties are about safety.

## 5. What is proved

With TLAPS, for every value of the constants under the modules' named assumptions.
Each invariant was checked by TLC on the module's run before it was proved.

| Assumption | Says | Why the code justifies it |
|---|---|---|
| `LeaseAssumption` | the heartbeat period is positive and shorter than the TTL | 30 s and 120 s |
| `IngestorAssumption`, `PipelineAssumption`, `ListenerAssumption` | bounds are naturals; names of tasks are distinct; required consumers are consumers | |
| `BackupAssumption` | there is a call; every call has a name for its mix and one for a collision; thresholds are positive | `resolve_remote_name` |
| `CapacityAssumption` | sizes are positive, the resume threshold is above the minimum, the calls are finitely many | `reserve` reads a directory |
| `AdminAssumption`, `WorkAssumption` | what a job may hold (`Admitted`): an update names no key and no status, its name fits the column; an import creates disabled trunks | the fields of `TrunkUpdate` and `CondominiumUpdate`, `max_length=128`; the parsers refuse rows without a name; `upsert_imported` passes `enabled=False` |
| `TablesAssumption` | the tables at the start keep their keys, foreign keys and unique indexes and belong together; no UUID of theirs is drawn again; a PBX that is restored goes to the tenant it had | the unique indexes; UUIDs; `--tenant-id` and `--pbx-id` name the rows of one backup |

**`RecordingLeaseProofs`**

* `TypeCorrect`: `Spec => []TypeOK`.
* `Exclusive`: `Spec => []OneActiveOwner`, which the refinement rests on. With `TypeOK` the invariant is
  inductive: `StepShape` says that a step writes leases of one owner only, after
  the scan found no valid lease of another, or takes time or leases away.
* `ImplementsExclusion`: `Spec => ExclusionSpec`, the refinement of
  `LeaseExclusion` under `active <- {owners of valid leases}`: each step takes the
  free directory, frees it, or stutters, from `OneActiveOwner` before and after.
* `OwnerSafe`: `Spec => ReleasedOnlyByOwner`.
* `PromptExclusion`: `Spec => PromptlyExclusive`. The inductive invariant under
  prompt heartbeats is `Protected`: every running operation owns the lease of its
  stage with time left, and no heartbeat has been lost. Two running operations
  would then be two active owners.

**`AudioIngestorProofs`**

* `TypeCorrect`; `Invariance` of `IInv`; `FinalizedOnce`
  (`Spec => []OneFinalizer`); `HeartbeatsStop` (`Spec => []NoOrphanHeartbeat`).
  `OneFinalizer` is not inductive alone: the next finalizer takes `rec`, so `IInv`
  adds that what a task finalizes is no longer `rec` (`TakenOut`) and that the
  hangup's task starts once (`HangupOnce`).
* `LeaseStays`: `Spec => LeaseKeptToTheEnd`, the action property. To `IInv` it adds
  `EnqueuedIsClosed`: what a task is enqueueing has been closed and published, and
  nothing opens it again.
* `EndsClean` (`EndIsClean`) and `AudioFollowed` (`AudioIsFollowed`, an action
  property): the safety halves of `HangupCleans` and `AudioIsEnqueued`, for any number
  of sockets and recordings. Where nothing fails, a call that is over and has no task
  running is `Clean`, and no step lets go of recorded audio that is not in the queue;
  what TLC adds is that the tasks get to their end. `Intact` names who answers for
  what: for the lease the recording in the table or the task that finalizes its
  owner, for the metadata after the hangup the hangup's task, for the reservation
  anybody who still records or finalizes, for an open file the recording or the task
  that awaits its heartbeat. A second recording may start while the first is being
  enqueued, its lease having run out meanwhile; it is `JoinedOwns` that keeps it from
  starting sooner, when the first one's file is still open under the same name.

**`RecordingPipelineProofs`**

* `TypeCorrect`; `Exclusive` (`OneWorkerInside`); `InputsAreKept` (`InputsStay`);
  `MarkersAreTrue` (`MarkersTruthful`); `AudioIsUsed` (`AudioOutlivesItsUse`, an
  action property). One invariant carries them all. `Exclusion` ties the label of
  each worker to the lease it holds, the leases to one owner, and so two workers
  inside to one; with it no step of another's touches a worker's inputs. `Left`
  says what a worker's label means for the outputs it leaves (a remote mix before
  `published`, rows before `persisted`), without which a marker could not be shown
  true at the step that writes it. That cleanup takes no audio that is needed then
  follows from the markers.
* `ImplementsLife`: `Spec => LifeSpec`, the refinement of `RecordingLife`, which says
  in one place what the parts above come to: the audio of a call that is backed up
  and transcribed is all there at that moment, a report comes after its output, and
  what is deleted is used or spare. The markers stay (`Lasting`); the report in the
  transfer log may be forgotten, and then the call is backed up again if its audio is
  still there. The end of the capture (or its death) is
  `Capture`, a step of a worker that delivers is `Make` or `Note` (or repeats one,
  which is no step), the log's forgetting a report is `Forget`, cleanup is `Drop`, the passing of retention `Age`. The mapping
  needs three facts more: before the capture has ended nothing is there to work on
  and nobody works (`Fresh`), no backup cycle works on a call that the log has as
  done, so that no cycle takes its report back (`Undone`), and nothing of the transcript is
  there before the backup (`Based`). `AudioStays` finds the steps that change which
  channels have audio: the end of the capture and cleanup, since a conversion
  replaces one file of a channel by the other.
* `ImplementsExclusion`: `Spec => DoorSpec`, the refinement of `LeaseExclusion` under
  `active <- Inside`, the workers that hold a lease. `RecordingLease` implements the
  same module, so that both agree on what a lease is for, and the directory is free
  between two workers whichever of them died. `EntersFree` says more: who enters
  finds no lease at all, that of a dead worker included.

**`RecordingCapacityProofs`**

* `TypeCorrect`; `NeverOvercommits`: `Spec => []OvercommitBounded`, for any number of
  calls. `Invariance` is of `TypeOK`, `Shape` (a WAV file is never longer than the raw
  one, and as long once converted) and the bound itself. The four figures
  are sums over a finite set; `SumChange` says that a step, which is one call's,
  changes a sum by what it changes of that call's summand. `ShareIs` computes what a call
  adds to the commitment less its overrun, at most `PerCall`, so that only
  admission makes it more, and admission has looked.

**`SmbBackupProofs`**

* `TypeCorrect`; `LogIsTruthful` (`DoneIsPublished`); `ImplementsWriteOnce`:
  `Spec => WriteOnce`, the refinement of `WriteOnceStore`. `IInv` follows one
  publication: the names an attempt has settled on are the call's (`Chosen`), what is
  being sent is nowhere on the share, and is under the collision name only where
  the base name is taken (`Unpublished`), what is renamed was verified
  (`Verified`), and what the share has of a call with a row is under its own names,
  whole (`OwnNames`). `FinalStep` then shows that one step alone changes what readers
  see: the rename, in time or late (`Landed`). A name is written once since
  `Unpublished` holds until that step.

**`EslListenerProofs`**

* `TypeCorrect`; `CaughtUpCorrect` (`CaughtUpIsRight`); `EvidenceCorrect`
  (`RegisteredHasEvidence`); `EndStays` (`EndedStaysEnded`, an action property). What
  the events in the queue will do to the state need not be computed, which would
  need induction over it: of each call and identity only the last event counts.
  `LastTells` says that this event agrees with FreeSWITCH; `StatusInSync` and
  `CallsInSync` that where none is to come, what the listener has, or is about to
  write, does so already; `Known` that whatever is to be written as registered has
  been so during this connection; `Ordered` that no answer follows its hangup. Both
  properties hold of any number of switches and new passwords, with the excuse of
  section 2.
* `RowsCorrect` (`RowsAreRight`): the safety half of `RowsEnd`, for any number of
  calls. While nothing fails, a listener that has caught up has no ringing row of a
  call that was answered and no open row of one that is over; what TLC adds is that
  it catches up. `Faithful` says, call by call (`RowOf`), that the last event to come
  leads to the call's present state, that a create comes first and finds no row, and
  that the row is right where no event is to come. A call whose create fell before
  the connection may have no row, and its hangup gives it none.

**`AdminPlaneProofs`**

* `ScopeKept` (`ScopeConsistent`), `TenantsIsolated` (`TenantIsolation`),
  `ImportsSwitchOff` (`ImportedIsOff`), `LegacyKeptApart` (`NoNewClash`), the last
  three action properties, and `TypeCorrect`, for any requests, any jobs, deaths,
  failing statements and outside changes. That the tables are consistent is not
  inductive, since a request writes on the word of rows that it read some
  statements ago and that a compensation may have deleted since. What does remain
  true is whose an *identifier* is: `CondoIs`, `TrunkIs` and `PbxIs` read it off the
  job of the request that draws it, or off the tables at the start, and
  `ScopeInv` says that every row agrees, that every identifier a request has
  checked is of its tenant and PBX (`Checked`), that a key is drawn once
  (`TrunkKeys`, `CondoKeys`), and at which labels each operation can be with
  what in its memory (`Shape`). The foreign keys then give the row at the commit, and
  the identifier says whose it is. `Steady` and `Onward` carry this over the steps
  of the others. `NoNewClash` adds `ClashInv`: an identity that is about to be written was
  not in the legacy file when it was asked, and the file was not edited since.
  `TypeOK`, which has the primary keys and unique indexes in it, adds `RowsFit`: the
  row in hand is one of the list, its prefix has been looked at before it is
  written, though the commit does not look again, and its user name is one.

**`AdminRunProofs`**: what a whole run comes to. The history `hist` says how far
nobody interfered with it, and the three invariants are what that leaves true at
every label.

* `ProvisionsWhole` (`ProvisionedOrNot`). `Own`: what a run has drawn is in its
  memory, so that its compensation finds it. `Ground`: the rows a run stands on are
  still there, unless a compensation of another run deleted something meanwhile.
  Identifiers tell the rows of one run from another's (`DrawnIds`), which is where
  `ScopeInv` comes in.
* `LookupsLinearize` (`AnswersLinearize`). A lookup reads the trunk, its place, the
  tenant and the file in four statements. `Finish` is what it would answer if it read
  the rest now. Before the first change, what it has read is what the tables hold
  (`Current`); `Overtaken` shows that one change, of any kind, leaves `Finish`
  what it was or makes it the directory's answer after the change. A second
  change could spoil that, and the property does not claim it.
* `BatchesWhole` (`AloneIsAtomic`). `Alone`: every row of the batch was validated and
  stays acceptable (`Importable`) under the batch's own writes, those behind `n` are in
  the table, and the one in hand has met no obstacle. That needs a foreign key
  and an index which the commits rely on (`Joined`): the tenant of a PBX
  exists, and a prefix is one trunk's in its tenant. Rows of a batch have no prefix
  (`NoPrefix`), so that two of them cannot meet in the index.

**Only model-checked.** Liveness under fairness is out of the prover's reach:
`DisplacedNotices`, `AbandonedLeaseExpires`, `CapturedIsReclaimed`, `TemporariesGo`,
`HangupCleans`, `AudioIsEnqueued`, `RefusalEnds`, `HealthyIsBackedUp`,
`RemoteTemporariesGo`, `RowsEnd`. Every other property of a passing run is proved.
That a temporary leads to its absence (`P ~> ~P`) is the same as that it is again and
again absent (`[]<>~P`), which `TemporariesGo` and `RemoteTemporariesGo` say, since TLC
checks the latter without a tableau.
What the parsers compute is a choice of the lines in order (`InOrder`)
and a function on them; no recursion is left in a module with proofs.

## 6. Where the code and its documents disagree

Each has a run whose one property is the document's sentence.

* `pipeline_partial`: a call of which one channel only was published may stay
  unconverted. In the trace the other channel had sent no chunk; one whose writes
  failed is left out of the publication in the same way.
  The job is enqueued while the capture lease is held, meets it and gives up for
  good; the backup takes calls with both channels only.
* `ingestor_beat`: a heartbeat that ended with an exception raises in
  `finalize_stream` before anything was closed or published.
* `capacity_full`: calls the guard admitted can fill the filesystem: WAV files of
  calls that still record, mixes, and calls longer than
  `RECORDING_MAX_CALL_SECONDS` are not provisioned.
* `smb_starved`: calls that fail for reasons of their own open the breaker in every
  cycle before the calls behind them are reached.
* `admin_batch`: a batch may fail with its first rows written: the validation does
  not look at the length of the user name, and each row is a commit of its own.

Met while modelling, with no sentence of a document against it and no run of its own:
the missing import behind *A lost lease* (section 2), which turns one call's lost
lease into the end of the cycle; *A trunk that is off*, likewise; and a last commit
of provisioning that is carried out while its answer is lost (section 7).

## 7. What is left out

* The arq queue: that its in-progress key outlives a lease (310 s against 120 s)
  is assumed by `RetryUpload`; the job id's deduplication is not modelled.
* Not modelled, because no step of theirs meets another's: the *sidecar* (one
  process, one file replaced whole, a failed turn repeated at the next poll); the
  *agent WebSockets* (`main.py` mounts no route that calls
  `agent_assist_ws.connect`, so every broadcast is to nobody); the consumer groups of
  the *event bus* (no consumer in the repository).
* The *rate limit* counts, then adds: requests at the same time may pass it by
  their number. That is known of such a limit and no document promises more.
* Late heartbeats inside `RecordingPipeline`: see *How they compose*.
* Of a *tenant's own tables* only what the listener and the transcription write;
  tokens, roles, ciphering, views and the XML of answers.
* Of *administration*: the unique index on a condominium's `external_id`, which no
  job gives (the clash would be one more refusal of `InsertCondominium` and
  `SaveCondominium`); a commit of
  the provisioning that is carried out while its answer is lost: its flag is then
  false, the compensation leaves the row, and `ProvisionedOrNot` would not hold.
* SMB requests of a cancelled transfer that take effect after their connection was
  closed; bandwidth limiting; directories on the share.
* The API instances' second process: only instance 1 runs the listener.
* In `EslListener`: malformed events, a trunk that is deleted, the 24 h TTL of the active-calls set, the SIP address cache, the distinction of
  completed and failed, durations.
* Audio, ffmpeg, Whisper, Markdown and segment contents: data.
* AI, extraction, speech, widget, configuration and telemetry: no state or
  interleaving of their own worth a module.

## 8. Plan

Done, in this order: leases and their proofs; the pipeline; the ingestor and its
proofs; capacity; backup; listener; the command connection; calls without a row;
administration; the proofs of backup, pipeline, listener, capacity and
administration, the last with whole runs; the life of a recording over the pipeline.

Next, of the model: overlapping attempts of a cancelled transfer in `SmbBackup`.

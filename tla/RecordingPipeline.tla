------------------------- MODULE RecordingPipeline --------------------------
(***************************************************************************)
(* One call directory from capture to reclaim, and the processes that work *)
(* on it: the ingestor that captures (src/audio/ingestor.py), the job that *)
(* converts (src/workers/audio_uploader.py), the SMB backup cycle          *)
(* (src/workers/smb_sync.py), the transcription cycle                      *)
(* (src/workers/transcript_batch.py) and the cleanup round                 *)
(* (src/workers/audio_cleanup.py).  They share nothing but files.          *)
(*                                                                         *)
(* Leases are kept by who holds a valid one.  The lease of a live          *)
(* operation does not expire here: RecordingLeaseProofs!PromptExclusion    *)
(* says what that takes.  The lease of a process that died stays, under an *)
(* owner nobody is any more (Dead), until its TTL has passed.              *)
(*                                                                         *)
(* Every failure, timeout, crash and loss of the call's entry in the       *)
(* transfer log is an action that spends one of MaxFaults.                 *)
(***************************************************************************)
EXTENDS Naturals, FiniteSets

CONSTANTS
    Required,       \* RECORDING_REQUIRED_CONSUMERS of the cleanup process
    MaxFaults       \* bound on failures, timeouts, crashes and lost log entries

Channel == {"tx", "rx"}
Consumer == {"smb", "transcription"}
Worker == {"capture", "uploader", "smb", "transcript"}

ASSUME PipelineAssumption ==
    /\ Required \in SUBSET Consumer
    /\ MaxFaults \in Nat

Stage == {"capture", "conversion", "smb", "transcription"}
Nobody == "nobody"
Dead == "dead"

\* The files of the directory, by stem and suffix.
Raw(c) == <<c, "raw">>
Wav(c) == <<c, "wav">>
RawTmp(c) == <<c, "tmp.raw">>
WavTmp(c) == <<c, "tmp.wav">>
Stereo == <<"stereo", "wav">>
StereoTmp == <<"stereo", "tmp.wav">>

Consumable == {Raw(c) : c \in Channel} \cup {Wav(c) : c \in Channel}
Final == Consumable \cup {Stereo}
Temporary == {RawTmp(c) : c \in Channel} \cup {WavTmp(c) : c \in Channel} \cup {StereoTmp}
File == Final \cup Temporary

VARIABLES
    files,      \* the files in the directory
    expired,    \* those whose mtime is before the retention cutoff
    seen,       \* the temporaries .cleanup-candidates.json knows, unchanged since
    due,        \* those of them first seen a cleanup round ago
    lowDisk,    \* free space is under RECORDING_RESUME_FREE_PERCENT
    lease,      \* the owner of the valid lease of each stage
    pc,         \* where each worker is
    todo,       \* the channels its conversion loop has still to look at
    failed,     \* failed_channels of the capture
    job,        \* the upload job in the queue
    remote,     \* the stereo file is, verified, on the SMB share
    log,        \* the call's status in the transfer log: "aged" is a done that
                \* is older than TRANSFER_LOG_RETENTION_DAYS
    marker,     \* the .consumed-<consumer> files
    row,        \* the call has its row in the database
    silent,     \* the call has no speech: its transcript has no segments (of no
                \* concern without a row, where it is not transcribed)
    db,         \* the call's segments, if any, are in the database
    md,         \* the transcript's Markdown is on the SMB share
    faults      \* the faults so far

fileVars == <<files, expired, seen, due>>
outVars == <<row, silent, remote, log, marker, db, md>>
workVars == <<pc, todo, failed, job>>
vars == <<fileVars, lowDisk, lease, workVars, outVars, faults>>

Labels == {"idle", "recording", "enqueue", "convert", "ffmpeg", "claim", "mono", "stereo",
           "mixing", "publish", "published", "marked", "failed", "skipped", "work",
           "transcribed", "persisted", "release", "logDone", "logPending", "end"}

TypeOK ==
    /\ files \in SUBSET File
    /\ expired \in SUBSET files
    /\ seen \in SUBSET (Temporary \cap files)
    /\ due \in SUBSET seen
    /\ lowDisk \in BOOLEAN
    /\ lease \in [Stage -> Worker \cup {Nobody, Dead}]
    /\ pc \in [Worker -> Labels]
    /\ todo \in [Worker -> SUBSET Channel]
    /\ failed \in SUBSET Channel
    /\ job \in {"none", "queued", "running", "orphaned", "done"}
    /\ row \in BOOLEAN /\ silent \in BOOLEAN /\ remote \in BOOLEAN /\ db \in BOOLEAN /\ md \in BOOLEAN
    /\ log \in {"none", "pending", "done", "aged"}
    /\ marker \in SUBSET Consumer
    /\ faults \in 0 .. MaxFaults

-----------------------------------------------------------------------------
(* Helpers *)

At(w, l) == pc[w] = l
Goto(w, l) == pc' = [pc EXCEPT ![w] = l]

Free == \A s \in Stage : lease[s] = Nobody
Take(w, s) == lease' = [lease EXCEPT ![s] = w]
LeaseAfter(w, o) == [s \in Stage |-> IF lease[s] = w THEN o ELSE lease[s]]
ReleaseAll(w) == lease' = LeaseAfter(w, Nobody)

Fault == /\ faults < MaxFaults
         /\ faults' = faults + 1

\* The directory's files become `now`, and those in `written` are new or changed.
FilesBecome(now, written) ==
    /\ files' = now
    /\ expired' = (expired \cap now) \ written
    /\ seen' = (seen \cap now) \ written
    /\ due' = (due \cap now) \ written

Pair == \A c \in Channel : Wav(c) \in files

\* Mutant of StableInput: the backup waits for the upload job's WAV files.
StableWavInput == Pair

\* _has_stable_mono_input
StableInput == \A c \in Channel : Wav(c) \in files \/ Raw(c) \in files

\* is_ready_call: both WAVs and no temporary at all.
Ready == Pair /\ files \cap Temporary = {}

\* The channel a conversion loop takes next.
NextChannel(w) == IF "tx" \in todo[w] THEN "tx" ELSE "rx"

Init ==
    /\ files = {} /\ expired = {} /\ seen = {} /\ due = {}
    /\ lowDisk = FALSE
    /\ lease = [s \in Stage |-> Nobody]
    /\ pc = [w \in Worker |-> "idle"]
    /\ todo = [w \in Worker |-> {}]
    /\ failed = {}
    /\ job = "none"
    /\ row \in BOOLEAN /\ silent \in IF row THEN BOOLEAN ELSE {FALSE}
    /\ remote = FALSE /\ db = FALSE /\ md = FALSE
    /\ log = "none"
    /\ marker = {}
    /\ faults = 0

-----------------------------------------------------------------------------
(* Capture *)

StartCapture ==
    /\ At("capture", "idle")
    /\ Free
    /\ Take("capture", "capture")
    /\ Goto("capture", "recording")
    /\ UNCHANGED <<fileVars, lowDisk, todo, failed, job, outVars, faults>>

\* _write_channel: the first chunk of a channel creates its temporary.
WriteChunk(c) ==
    /\ At("capture", "recording")
    /\ FilesBecome(files \cup {RawTmp(c)}, {RawTmp(c)})
    /\ UNCHANGED <<lowDisk, lease, workVars, outVars, faults>>

\* A write error excludes the channel from publication for good.
WriteFails(c) ==
    /\ At("capture", "recording")
    /\ c \notin failed
    /\ Fault
    /\ failed' = failed \cup {c}
    /\ UNCHANGED <<fileVars, lowDisk, lease, pc, todo, job, outVars>>

\* finalize_stream up to its first await: the healthy channels are published.
FinalizeCapture ==
    LET whole == {c \in Channel \ failed : RawTmp(c) \in files}
    IN  /\ At("capture", "recording")
        /\ FilesBecome((files \ {RawTmp(c) : c \in whole}) \cup {Raw(c) : c \in whole}, {})
        /\ Goto("capture", IF whole = {} THEN "release" ELSE "enqueue")
        /\ UNCHANGED <<lowDisk, lease, todo, failed, job, outVars, faults>>

\* enqueue_recording_upload: from here the job may run, with the capture lease
\* still in place.
EnqueueUpload ==
    /\ At("capture", "enqueue")
    /\ job' = "queued"
    /\ Goto("capture", "release")
    /\ UNCHANGED <<fileVars, lowDisk, lease, todo, failed, outVars, faults>>

\* The queue is out of reach: the exception passes through the finally clause.
EnqueueFails ==
    /\ At("capture", "enqueue")
    /\ Fault
    /\ Goto("capture", "release")
    /\ UNCHANGED <<fileVars, lowDisk, lease, todo, failed, job, outVars>>

ReleaseCapture ==
    /\ At("capture", "release")
    /\ ReleaseAll("capture")
    /\ Goto("capture", "end")
    /\ UNCHANGED <<fileVars, lowDisk, todo, failed, job, outVars, faults>>

-----------------------------------------------------------------------------
(* Conversion, by the upload job and inside the SMB backup *)

\* _convert_to_wav drops an old temporary and starts ffmpeg on a new one.  The
\* backup passes over a channel that has its WAV, the upload job does not.
ConvertStart(w) ==
    LET c == NextChannel(w)
    IN  /\ At(w, "convert") /\ todo[w] # {}
        /\ Raw(c) \in files
        /\ w = "smb" => Wav(c) \notin files
        /\ FilesBecome(files \cup {WavTmp(c)}, {WavTmp(c)})
        /\ Goto(w, "ffmpeg")
        /\ UNCHANGED <<lowDisk, lease, todo, failed, job, outVars, faults>>

ConvertSkip(w) ==
    LET c == NextChannel(w)
    IN  /\ At(w, "convert") /\ todo[w] # {}
        /\ Raw(c) \notin files \/ (w = "smb" /\ Wav(c) \in files)
        /\ todo' = [todo EXCEPT ![w] = @ \ {c}]
        /\ UNCHANGED <<fileVars, lowDisk, lease, pc, failed, job, outVars, faults>>

ConvertFinish(w) ==
    LET c == NextChannel(w)
    IN  /\ At(w, "ffmpeg")
        /\ FilesBecome((files \ {WavTmp(c)}) \cup {Wav(c)}, {Wav(c)})
        /\ todo' = [todo EXCEPT ![w] = @ \ {c}]
        /\ Goto(w, "convert")
        /\ UNCHANGED <<lowDisk, lease, failed, job, outVars, faults>>

\* ffmpeg fails: the upload job goes on with the other channel, the backup of
\* the call does not.
ConvertFails(w) ==
    LET c == NextChannel(w)
    IN  /\ At(w, "ffmpeg")
        /\ Fault
        /\ FilesBecome(files \ {WavTmp(c)}, {})
        /\ todo' = [todo EXCEPT ![w] = IF w = "uploader" THEN @ \ {c} ELSE {}]
        /\ Goto(w, IF w = "uploader" THEN "convert" ELSE "failed")
        /\ UNCHANGED <<lowDisk, lease, failed, job, outVars>>

-----------------------------------------------------------------------------
(* The upload job *)

\* upload_recording_batch gets the conversion lease, ...
StartUpload ==
    /\ job = "queued" /\ At("uploader", "idle")
    /\ Free
    /\ Take("uploader", "conversion")
    /\ job' = "running"
    /\ todo' = [todo EXCEPT !["uploader"] = Channel]
    /\ Goto("uploader", "convert")
    /\ UNCHANGED <<fileVars, lowDisk, failed, outVars, faults>>

\* ... or finds the directory busy and succeeds with already_processing.
UploadBusy ==
    /\ job = "queued" /\ At("uploader", "idle")
    /\ ~Free
    /\ job' = "done"
    /\ UNCHANGED <<fileVars, lowDisk, lease, pc, todo, failed, outVars, faults>>

FinishUpload ==
    /\ At("uploader", "convert") /\ todo["uploader"] = {}
    /\ ReleaseAll("uploader")
    /\ job' = "done"
    /\ Goto("uploader", "idle")
    /\ UNCHANGED <<fileVars, lowDisk, todo, failed, outVars, faults>>

\* The queue runs a job again when the worker died over it, once its own
\* in-progress key has expired, which takes longer than a lease.
RetryUpload ==
    /\ job = "orphaned"
    /\ \A s \in Stage : lease[s] # Dead
    /\ job' = "queued"
    /\ UNCHANGED <<fileVars, lowDisk, lease, pc, todo, failed, outVars, faults>>

\* The queue cancels a job that runs too long: ffmpeg is killed, its temporary
\* dropped and the lease released; the job is not run again.
UploadCancelled ==
    /\ pc["uploader"] \in {"convert", "ffmpeg"}
    /\ Fault
    /\ FilesBecome(IF At("uploader", "ffmpeg") THEN files \ {WavTmp(NextChannel("uploader"))}
                                               ELSE files, {})
    /\ ReleaseAll("uploader")
    /\ todo' = [todo EXCEPT !["uploader"] = {}]
    /\ job' = "done"
    /\ Goto("uploader", "idle")
    /\ UNCHANGED <<lowDisk, failed, outVars>>

-----------------------------------------------------------------------------
(* The SMB backup cycle *)

\* _run_cycle, which has dropped aged entries from what it read, picks a call
\* that is not done, not leased and has a stable pair; then it awaits the
\* call's metadata.
SmbDiscover ==
    /\ At("smb", "idle")
    /\ log # "done"
    /\ Free /\ StableInput
    /\ Goto("smb", "claim")
    /\ UNCHANGED <<fileVars, lowDisk, lease, todo, failed, job, outVars, faults>>

\* Mutant of SmbClaim: discovery having found the directory free is enough.
SmbClaimUnchecked ==
    /\ At("smb", "claim")
    /\ Take("smb", "smb") /\ Goto("smb", "mono")
    /\ UNCHANGED <<fileVars, lowDisk, todo, failed, job, outVars, faults>>

\* process_call takes the lease, unless another operation won the race.
SmbClaim ==
    /\ At("smb", "claim")
    /\ IF Free THEN Take("smb", "smb") /\ Goto("smb", "mono")
               ELSE UNCHANGED lease /\ Goto("smb", "idle")
    /\ UNCHANGED <<fileVars, lowDisk, todo, failed, job, outVars, faults>>

\* ensure_mono_pair looks again, now that the lease protects the files, and
\* takes the conversion lease as well when a channel has only its raw file.
SmbMono ==
    LET needed == {c \in Channel : Wav(c) \notin files /\ Raw(c) \in files}
    IN  /\ At("smb", "mono")
        /\ IF needed = {}
             THEN /\ Goto("smb", IF Pair THEN "stereo" ELSE "skipped")
                  /\ UNCHANGED <<lease, todo>>
             ELSE /\ Take("smb", "conversion")
                  /\ todo' = [todo EXCEPT !["smb"] = Channel]
                  /\ Goto("smb", "convert")
        /\ UNCHANGED <<fileVars, lowDisk, failed, job, outVars, faults>>

SmbConverted ==
    /\ At("smb", "convert") /\ todo["smb"] = {}
    /\ lease' = [lease EXCEPT !["conversion"] = Nobody]
    /\ Goto("smb", IF Pair THEN "stereo" ELSE "skipped")
    /\ UNCHANGED <<fileVars, lowDisk, todo, failed, job, outVars, faults>>

\* generate_stereo
SmbMixStart ==
    /\ At("smb", "stereo")
    /\ FilesBecome(files \cup {StereoTmp}, {StereoTmp})
    /\ Goto("smb", "mixing")
    /\ UNCHANGED <<lowDisk, lease, todo, failed, job, outVars, faults>>

SmbMixFinish ==
    /\ At("smb", "mixing")
    /\ FilesBecome((files \ {StereoTmp}) \cup {Stereo}, {Stereo})
    /\ Goto("smb", "publish")
    /\ UNCHANGED <<lowDisk, lease, todo, failed, job, outVars, faults>>

\* _publish_with_retry returns: the share holds the file under its final name,
\* with the right checksum.
SmbPublish ==
    /\ At("smb", "publish")
    /\ remote' = TRUE
    /\ Goto("smb", "published")
    /\ UNCHANGED <<fileVars, lowDisk, lease, todo, failed, job, row, silent, log, marker, db, md, faults>>

SmbMark ==
    /\ At("smb", "published")
    /\ marker' = marker \cup {"smb"}
    /\ FilesBecome(files \ {Stereo}, {})
    /\ Goto("smb", "marked")
    /\ UNCHANGED <<lowDisk, lease, todo, failed, job, row, silent, remote, log, db, md, faults>>

\* The call's metadata cannot be read: an error the cycle handles is logged, a
\* database error ends the cycle.
SmbMetadataFails ==
    /\ At("smb", "claim")
    /\ Fault
    /\ \E next \in {"logPending", "idle"} : Goto("smb", next)
    /\ UNCHANGED <<fileVars, lowDisk, lease, todo, failed, job, outVars>>

\* A step fails or the 30 s of the transfer are over, which is logged, or the
\* queue cancels the cycle, which is not.  What ffmpeg was writing is dropped.
\* A publication cut short may have got as far as the rename, and the marker
\* may be there when dropping the mix fails.
SmbGivesUp ==
    /\ pc["smb"] \in {"mono", "convert", "ffmpeg", "stereo", "mixing",
                      "publish", "published", "marked"}
    /\ Fault
    /\ FilesBecome(files \ ((IF At("smb", "ffmpeg") THEN {WavTmp(NextChannel("smb"))} ELSE {})
                            \cup (IF At("smb", "mixing") THEN {StereoTmp} ELSE {})), {})
    /\ remote' \in IF At("smb", "publish") THEN {remote, TRUE} ELSE {remote}
    /\ marker' \in IF At("smb", "published") THEN {marker, marker \cup {"smb"}} ELSE {marker}
    /\ todo' = [todo EXCEPT !["smb"] = {}]
    /\ \E next \in IF At("smb", "marked") THEN {"skipped"} ELSE {"failed", "skipped"} :
          Goto("smb", next)
    /\ UNCHANGED <<lowDisk, lease, failed, job, row, silent, log, db, md>>

\* The finally clause of process_call.
SmbRelease ==
    /\ pc["smb"] \in {"marked", "failed", "skipped"}
    /\ ReleaseAll("smb")
    /\ Goto("smb", CASE At("smb", "marked") -> "logDone"
                     [] At("smb", "failed") -> "logPending"
                     [] At("smb", "skipped") -> "idle")
    /\ UNCHANGED <<fileVars, lowDisk, todo, failed, job, outVars, faults>>

\* save_transfer_log
SmbSaveLog ==
    /\ pc["smb"] \in {"logDone", "logPending"}
    /\ log' = IF At("smb", "logDone") THEN "done" ELSE "pending"
    /\ Goto("smb", "idle")
    /\ UNCHANGED <<fileVars, lowDisk, lease, todo, failed, job, row, silent, remote, marker, db, md, faults>>

\* TRANSFER_LOG_RETENTION_DAYS pass: for the next cycle the call is not done.
LogAges ==
    /\ log = "done"
    /\ Fault
    /\ log' = "aged"
    /\ UNCHANGED <<fileVars, lowDisk, lease, workVars, row, silent, remote, marker, db, md>>

\* prune_transfer_log: the entry leaves the file when the cycle saves what it
\* kept, with the entry of another call.
LogPruned ==
    /\ At("smb", "idle")
    /\ log = "aged"
    /\ log' = "none"
    /\ UNCHANGED <<fileVars, lowDisk, lease, workVars, row, silent, remote, marker, db, md, faults>>

\* load_transfer_log, of the backup or of the transcription, cannot read the
\* file and sets it aside.  (An entry that a cycle under way then writes again
\* was not lost.)
LogLost ==
    /\ log # "none"
    /\ Fault
    /\ log' = "none"
    /\ UNCHANGED <<fileVars, lowDisk, lease, workVars, row, silent, remote, marker, db, md>>

-----------------------------------------------------------------------------
(* The transcription cycle *)

\* load_smb_audio_reference: the transfer log says where the recording is.
Referenced == log \in {"done", "aged"}

\* What _run_cycle asks of a call before it works on it; a call that has no row
\* in the database is passed over.
Transcribable == Ready /\ Referenced /\ row /\ remote

\* normalize_segments: only segments that have a text are kept.
HasSegments == ~silent

\* transcripts_exist
Rows == db /\ HasSegments

\* Mutant of TranscriptRepair: the marker is repaired from the database alone.
TranscriptRepairFromRows ==
    /\ At("transcript", "idle")
    /\ Transcribable /\ Rows
    /\ "transcription" \notin marker
    /\ marker' = marker \cup {"transcription"}
    /\ UNCHANGED <<fileVars, lowDisk, lease, workVars, row, silent, remote, log, db, md, faults>>

\* Both outputs exist and only the marker is missing: it is repaired, under
\* the lock but without a lease.
TranscriptRepair ==
    /\ At("transcript", "idle")
    /\ Transcribable /\ Rows /\ md
    /\ "transcription" \notin marker
    /\ marker' = marker \cup {"transcription"}
    /\ UNCHANGED <<fileVars, lowDisk, lease, workVars, row, silent, remote, log, db, md, faults>>

TranscriptDiscover ==
    /\ At("transcript", "idle")
    /\ Transcribable
    /\ md => "transcription" \notin marker /\ ~Rows
    /\ Goto("transcript", "claim")
    /\ UNCHANGED <<fileVars, lowDisk, lease, todo, failed, job, outVars, faults>>

\* process_call takes the lease; _process_owned_call looks at the files again.
TranscriptClaim ==
    /\ At("transcript", "claim")
    /\ IF Free
         THEN /\ Take("transcript", "transcription")
              /\ Goto("transcript", IF Ready THEN "work" ELSE "release")
         ELSE /\ UNCHANGED lease
              /\ Goto("transcript", "idle")
    /\ UNCHANGED <<fileVars, lowDisk, todo, failed, job, outVars, faults>>

\* transcribe_pair: both channels, chunk by chunk; the segments are kept in
\* memory and are lost with the first chunk that fails.
TranscriptTranscribe ==
    /\ At("transcript", "work")
    /\ Goto("transcript", "transcribed")
    /\ UNCHANGED <<fileVars, lowDisk, lease, todo, failed, job, outVars, faults>>

\* persist_segments replaces the call's segments in one transaction.
TranscriptPersist ==
    /\ At("transcript", "transcribed")
    /\ db' = TRUE
    /\ Goto("transcript", "persisted")
    /\ UNCHANGED <<fileVars, lowDisk, lease, todo, failed, job, row, silent, remote, log, marker, md, faults>>

TranscriptPublish ==
    /\ At("transcript", "persisted")
    /\ md' = TRUE
    /\ Goto("transcript", "published")
    /\ UNCHANGED <<fileVars, lowDisk, lease, todo, failed, job, row, silent, remote, log, marker, db, faults>>

TranscriptMark ==
    /\ At("transcript", "published")
    /\ marker' = marker \cup {"transcription"}
    /\ Goto("transcript", "release")
    /\ UNCHANGED <<fileVars, lowDisk, lease, todo, failed, job, row, silent, remote, log, db, md, faults>>

TranscriptGivesUp ==
    /\ pc["transcript"] \in {"work", "transcribed", "persisted", "published"}
    /\ Fault
    /\ db' \in IF At("transcript", "transcribed") THEN {db, TRUE} ELSE {db}
    /\ md' \in IF At("transcript", "persisted") THEN {md, TRUE} ELSE {md}
    /\ Goto("transcript", "release")
    /\ UNCHANGED <<fileVars, lowDisk, lease, todo, failed, job, row, silent, remote, log, marker>>

TranscriptRelease ==
    /\ At("transcript", "release")
    /\ ReleaseAll("transcript")
    /\ Goto("transcript", "idle")
    /\ UNCHANGED <<fileVars, lowDisk, todo, failed, job, outVars, faults>>

-----------------------------------------------------------------------------
(* Cleanup, which does a whole directory under the flock *)

\* Mutant of FullyConsumed: one consumer is taken for all.
PartlyConsumed == Required \cap marker # {}

FullyConsumed == Required # {} /\ Required \subseteq marker
TranscriptionPending == "transcription" \in Required \ marker
PreserveBacklog == TranscriptionPending /\ ~lowDisk

\* Mutant of Deletable: temporaries are kept.
DeletableFinals ==
    {f \in Final \cap files :
        \/ FullyConsumed /\ f \in Consumable
        \/ f \in expired /\ ~(PreserveBacklog /\ \E c \in Channel : f = Wav(c))}

Deletable ==
    {f \in Final \cap files :
        \/ FullyConsumed /\ f \in Consumable
        \/ f \in expired /\ ~(PreserveBacklog /\ \E c \in Channel : f = Wav(c))}
    \cup due

\* Mutant of Cleanup: a leased directory is cleaned as well.
CleanupLeased ==
    /\ Deletable # {} \/ seen # files \cap Temporary
    /\ files' = files \ Deletable
    /\ expired' = expired \ Deletable
    /\ seen' = (Temporary \cap files) \ due
    /\ due' = {}
    /\ UNCHANGED <<lowDisk, lease, workVars, outVars, faults>>

\* Mutant of Cleanup: what it deletes stays among the candidates.
CleanupKeepsNotes ==
    /\ Free
    /\ Deletable # {} \/ seen # files \cap Temporary
    /\ files' = files \ Deletable
    /\ expired' = expired \ Deletable
    /\ seen' = Temporary \cap files
    /\ due' = {}
    /\ UNCHANGED <<lowDisk, lease, workVars, outVars, faults>>

\* A temporary goes when it was seen unchanged a round ago, and is noted
\* otherwise.
Cleanup ==
    /\ Free
    /\ Deletable # {} \/ seen # files \cap Temporary
    /\ files' = files \ Deletable
    /\ expired' = expired \ Deletable
    /\ seen' = (Temporary \cap files) \ due
    /\ due' = {}
    /\ UNCHANGED <<lowDisk, lease, workVars, outVars, faults>>

\* An error or a crash part of the way through leaves the notes as they were.
CleanupFails ==
    /\ Free
    /\ Fault
    /\ \E gone \in SUBSET Deletable : FilesBecome(files \ gone, {})
    /\ UNCHANGED <<lowDisk, lease, workVars, outVars>>

\* A valid lease protects the directory and voids the notes.
CleanupSkips ==
    /\ ~Free
    /\ seen # {}
    /\ seen' = {} /\ due' = {}
    /\ UNCHANGED <<files, expired, lowDisk, lease, workVars, outVars, faults>>

-----------------------------------------------------------------------------
(* Time, disk and crashes *)

\* RECORDING_CLEANUP_ROUND_SECONDS pass.
RoundElapses ==
    /\ due # seen
    /\ due' = seen
    /\ UNCHANGED <<files, expired, seen, lowDisk, lease, workVars, outVars, faults>>

RetentionElapses ==
    /\ expired # files
    /\ expired' = files
    /\ UNCHANGED <<files, seen, due, lowDisk, lease, workVars, outVars, faults>>

DiskChanges ==
    /\ lowDisk' = ~lowDisk
    /\ UNCHANGED <<fileVars, lease, workVars, outVars, faults>>

\* A process dies over the call: its files, temporaries included, and its
\* leases stay.  The ingestor does not take an interrupted capture up again.
CrashWorker(w) ==
    /\ pc[w] \notin {"idle", "end"}
    /\ Fault
    /\ lease' = LeaseAfter(w, Dead)
    /\ Goto(w, IF w = "capture" THEN "end" ELSE "idle")
    /\ todo' = [todo EXCEPT ![w] = {}]
    /\ job' = IF w = "uploader" THEN "orphaned" ELSE job
    /\ UNCHANGED <<fileVars, lowDisk, failed, outVars>>

DeadLeasesExpire ==
    /\ \E s \in Stage : lease[s] = Dead
    /\ lease' = LeaseAfter(Dead, Nobody)
    /\ UNCHANGED <<fileVars, lowDisk, workVars, outVars, faults>>

-----------------------------------------------------------------------------
CaptureProgress == FinalizeCapture \/ EnqueueUpload \/ ReleaseCapture

Capture ==
    \/ StartCapture
    \/ \E c \in Channel : WriteChunk(c) \/ WriteFails(c)
    \/ CaptureProgress
    \/ EnqueueFails

Converting(w) == ConvertStart(w) \/ ConvertSkip(w) \/ ConvertFinish(w)

UploadProgress == StartUpload \/ UploadBusy \/ Converting("uploader") \/ FinishUpload \/ RetryUpload

Upload == UploadProgress \/ ConvertFails("uploader") \/ UploadCancelled

SmbProgress ==
    \/ SmbDiscover \/ SmbClaim \/ SmbMono \/ Converting("smb") \/ SmbConverted
    \/ SmbMixStart \/ SmbMixFinish \/ SmbPublish \/ SmbMark \/ SmbRelease \/ SmbSaveLog

Smb == SmbProgress \/ ConvertFails("smb") \/ SmbMetadataFails \/ SmbGivesUp

LogForgets == LogAges \/ LogPruned \/ LogLost

TranscriptProgress ==
    \/ TranscriptRepair \/ TranscriptDiscover \/ TranscriptClaim
    \/ TranscriptTranscribe \/ TranscriptPersist \/ TranscriptPublish \/ TranscriptMark \/ TranscriptRelease

Transcript == TranscriptProgress \/ TranscriptGivesUp

Next ==
    \/ Capture \/ Upload \/ Smb \/ LogForgets \/ Transcript
    \/ Cleanup \/ CleanupFails \/ CleanupSkips
    \/ RoundElapses \/ RetentionElapses \/ DiskChanges
    \/ \E w \in Worker : CrashWorker(w)
    \/ DeadLeasesExpire

Spec == Init /\ [][Next]_vars

\* The call ends; the cron cycles run again and again; time passes.
Fairness ==
    /\ WF_vars(CaptureProgress) /\ WF_vars(UploadProgress)
    /\ WF_vars(SmbProgress) /\ WF_vars(TranscriptProgress)
    /\ WF_vars(Cleanup) /\ WF_vars(RoundElapses) /\ WF_vars(DeadLeasesExpire)

FairSpec == Spec /\ Fairness

-----------------------------------------------------------------------------
\* The workers that are inside the directory, with its lease.
Inside == {w \in Worker : \E s \in Stage : lease[s] = w}

Busy == {"recording", "enqueue", "convert", "ffmpeg", "mono", "stereo", "mixing", "publish",
         "published", "marked", "failed", "skipped", "work", "transcribed", "persisted"}

\* Two workers are never at work in the directory at once, and none works
\* there while the lease of a dead one is valid.
OneWorkerInside ==
    \A w \in Worker, s \in Stage :
        pc[w] \in Busy => lease[s] \in {w, Nobody} /\ w \in Inside

\* No worker finds the files it works on gone: what ffmpeg writes, the pair
\* the mix and the transcription read, the mix the backup sends.  Retention,
\* consumption by the other consumer and cleanup all stop at the lease.
InputsStay ==
    /\ \A w \in {"uploader", "smb"} :
          At(w, "ffmpeg") => {WavTmp(NextChannel(w)), Raw(NextChannel(w))} \subseteq files
    /\ pc["smb"] \in {"stereo", "mixing", "publish", "published"} => Pair
    /\ At("smb", "mixing") => StereoTmp \in files
    /\ pc["smb"] \in {"publish", "published"} => Stereo \in files
    /\ pc["transcript"] \in {"work", "transcribed", "persisted", "published"} => Pair

\* The markers say the truth, over every crash and retry: a consumed marker is
\* there only if the output it stands for is, and so is a done in the log,
\* aged or not.
MarkersTruthful ==
    /\ "smb" \in marker \/ Referenced => remote
    /\ "transcription" \in marker => db /\ md

HasAudio(c) == Raw(c) \in files \/ Wav(c) \in files
Outputs == [smb |-> remote, transcription |-> remote /\ db /\ md]

\* The last copy of a channel disappears only when every required consumer has
\* its output in place, or when it is past retention, and then not while a
\* transcription waits for its WAV and there is room on the disk.
AudioOutlivesItsUse ==
    [][\A c \in Channel :
          HasAudio(c) /\ ~HasAudio(c)'
            => \/ Required # {} /\ \A k \in Required : Outputs[k]
               \/ /\ {Raw(c), Wav(c)} \cap files \subseteq expired
                  /\ Wav(c) \in files /\ TranscriptionPending => lowDisk]_vars

Captured == pc["capture"] \notin {"idle", "recording"}
OnDisk == {c \in Channel : HasAudio(c)}
Made == {k \in Consumer : Outputs[k]}

\* A done in the transfer log reports the mix on the share, as the marker does.
Reported == marker \cup {m \in {"log"} : Referenced}

\* The channels that retention may take, although a consumer may not have had them.
Spare == {c \in Channel : /\ HasAudio(c) /\ {Raw(c), Wav(c)} \cap files \subseteq expired
                          /\ Wav(c) \in files /\ TranscriptionPending => lowDisk}

\* The recording's life as those see it who rely on it.
Life == INSTANCE RecordingLife
        WITH Output <- Consumer,
             Source <- [smb |-> {}, transcription |-> {"smb"}],
             Report <- Consumer \cup {"log"},
             Lasting <- Consumer,
             About <- [smb |-> "smb", transcription |-> "transcription", log |-> "smb"],
             over <- Captured,
             audio <- OnDisk,
             spare <- Spare,
             made <- Made,
             noted <- Reported

\* A recording is captured once; an output is made only from the whole of it,
\* the transcript after the backup; nothing is reported that is not there, not
\* even after a crash, a marker stays and only the log may forget; and audio
\* leaves the disk only when all who need it have had it, or past retention
\* (Spare), and does not come back.
LifeSpec == Life!Spec

\* A call captured on both channels is backed up, transcribed if that is
\* required, and then leaves the disk, whatever fails on the way, unless it
\* passes AUDIO_RETENTION_DAYS first.  One that has no row in the database is
\* backed up, and stays if its transcription is required.
CapturedIsReclaimed ==
    (\A c \in Channel : Raw(c) \in files)
        ~> \/ files \cap Consumable = {} /\ \A k \in Required : Outputs[k]
           \/ ~row /\ "transcription" \in Required /\ remote
           \/ expired # {}

\* No temporary stays for ever, not even one a dead worker left: each is again and
\* again not there.
TemporariesGo == \A f \in Temporary : []<>(f \notin files)

\* A channel whose raw file was published is converted ("raw_ready -->
\* converting", "partial --> converting : canal saudavel disponivel"),
\* unless it passes AUDIO_RETENTION_DAYS first.
PublishedIsConverted ==
    \A c \in Channel : Raw(c) \in files ~> Wav(c) \in files \/ expired # {}
=============================================================================

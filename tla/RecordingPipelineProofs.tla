---------------------- MODULE RecordingPipelineProofs -----------------------
(***************************************************************************)
(* What RecordingPipeline keeps for every set of required consumers and    *)
(* every number of failures and crashes: its type, the exclusion of its    *)
(* workers, the presence of what they work on, the truth of what they      *)
(* leave behind, and with that the reclaiming of nothing but used audio.   *)
(* So they implement RecordingLife, what becomes of a recording, and       *)
(* LeaseExclusion, the promise RecordingLease makes of their leases.       *)
(*                                                                         *)
(* Nothing here depends on the lease of a worker but through Exclusion:    *)
(* the inductive invariant is that conjunct, which ties the label of each  *)
(* worker to the lease it holds, and what each label means for the files   *)
(* and the outputs.                                                        *)
(***************************************************************************)
EXTENDS RecordingPipeline, TLAPS

\* The stage whose lease a worker takes when it enters the directory.
Entry == [capture |-> "capture", uploader |-> "conversion", smb |-> "smb",
          transcript |-> "transcription"]

\* The labels at which a worker is in the directory, and those at which it is not.
In == [capture |-> {"recording", "enqueue", "release"},
       uploader |-> {"convert", "ffmpeg"},
       smb |-> {"mono", "convert", "ffmpeg", "stereo", "mixing", "publish", "published",
                "marked", "failed", "skipped"},
       transcript |-> {"work", "transcribed", "persisted", "published", "release"}]

Out == [capture |-> {"idle", "end"},
        uploader |-> {"idle"},
        smb |-> {"idle", "claim", "logDone", "logPending"},
        transcript |-> {"idle", "claim"}]

Places == \A w \in Worker : pc[w] \in In[w] \cup Out[w]

\* A worker in the directory has its lease, one outside has none.
Entitled ==
    \A w \in Worker :
        /\ pc[w] \in In[w] => lease[Entry[w]] = w
        /\ pc[w] \in Out[w] => \A s \in Stage : lease[s] # w

\* All the leases there are belong to one owner.
OneOwner == \A s, t \in Stage : lease[s] # Nobody /\ lease[t] # Nobody => lease[s] = lease[t]

Exclusion == Places /\ Entitled /\ OneOwner

\* What a worker has already left in place when it is at a label.
Left ==
    /\ pc["smb"] \in {"published", "marked", "logDone"} => remote
    /\ pc["transcript"] # "idle" => remote
    /\ pc["transcript"] \in {"persisted", "published"} => db
    /\ At("transcript", "published") => md
    /\ "transcription" \in marker => remote

IInv == TypeOK /\ Exclusion /\ InputsStay /\ Left /\ MarkersTruthful

(***************************************************************************)
(* The files                                                               *)
(***************************************************************************)

\* The names of the files are different, and each is of its kind.
LEMMA Names ==
    /\ \A c \in Channel : /\ Raw(c) \in Final /\ Wav(c) \in Final
                          /\ RawTmp(c) \in Temporary /\ WavTmp(c) \in Temporary
    /\ Stereo \in Final /\ StereoTmp \in Temporary
    /\ Final \cap Temporary = {}
    /\ \A c, d \in Channel : Raw(c) # Wav(d) /\ Raw(c) # Stereo /\ Wav(c) # Stereo
    /\ Stereo \notin Consumable
    /\ File = Final \cup Temporary
  BY DEF Raw, Wav, RawTmp, WavTmp, Stereo, StereoTmp, Final, Temporary, Consumable, File, Channel

\* What a step that changes files leaves of the notes about them.
FilesOK ==
    /\ files \in SUBSET File
    /\ expired \in SUBSET files
    /\ seen \in SUBSET (Temporary \cap files)
    /\ due \in SUBSET seen

LEMMA FilesType ==
    ASSUME TypeOK, NEW now \in SUBSET File, NEW written, FilesBecome(now, written)
    PROVE  FilesOK'
  BY DEF TypeOK, FilesBecome, FilesOK

LEMMA FaultType ==
    ASSUME TypeOK, Fault
    PROVE  faults' \in 0 .. MaxFaults
  BY PipelineAssumption DEF TypeOK, Fault

\* What cleanup deletes are published files and temporaries it has waited for.
LEMMA DeletableType == Deletable \subseteq (Final \cap files) \cup due
  BY DEF Deletable

LEMMA NextChannelType == \A w \in Worker : NextChannel(w) \in Channel
  BY DEF NextChannel, Channel

\* Only the log forgets, and only what it said of the call.
LEMMA LogFades ==
    ASSUME TypeOK, LogForgets
    PROVE  /\ UNCHANGED <<fileVars, lowDisk, lease, workVars>>
           /\ UNCHANGED <<row, silent, remote, marker, db, md>>
           /\ faults' \in 0 .. MaxFaults
           /\ \/ log' = "none"
              \/ log = "done" /\ log' = "aged"
  <1>1. CASE LogAges
    BY <1>1, FaultType DEF LogAges
  <1>2. CASE LogPruned
    BY <1>2 DEF LogPruned, TypeOK
  <1>3. CASE LogLost
    BY <1>3, FaultType DEF LogLost
  <1>4. QED BY <1>1, <1>2, <1>3 DEF LogForgets

LEMMA TypeStep == TypeOK /\ [Next]_vars => TypeOK'
  <1> SUFFICES ASSUME TypeOK, [Next]_vars PROVE TypeOK'
    OBVIOUS
  <1> USE DEF Goto, At, fileVars, workVars, outVars
  <1>1. CASE StartCapture
    BY <1>1 DEF StartCapture, Take, TypeOK, Labels, Worker, Stage
  <1>2. ASSUME NEW c \in Channel, WriteChunk(c) PROVE TypeOK'
    <2>1. FilesOK'
      BY <1>2, FilesType, Names DEF WriteChunk, TypeOK
    <2>2. QED BY <1>2, <2>1 DEF WriteChunk, TypeOK, FilesOK
  <1>3. ASSUME NEW c \in Channel, WriteFails(c) PROVE TypeOK'
    BY <1>3, FaultType DEF WriteFails, TypeOK
  <1>4. CASE FinalizeCapture
    <2>1. FilesOK'
      BY <1>4, FilesType, Names DEF FinalizeCapture, TypeOK
    <2>2. pc' \in [Worker -> Labels]
      BY <1>4 DEF FinalizeCapture, TypeOK, Labels
    <2>3. QED BY <1>4, <2>1, <2>2 DEF FinalizeCapture, TypeOK, FilesOK
  <1>5. CASE EnqueueUpload
    BY <1>5 DEF EnqueueUpload, TypeOK, Labels
  <1>6. CASE EnqueueFails
    <2>1. pc' \in [Worker -> Labels]
      BY <1>6 DEF EnqueueFails, TypeOK, Labels
    <2>2. QED BY <1>6, FaultType, <2>1 DEF EnqueueFails, TypeOK
  <1>7. CASE ReleaseCapture
    <2>1. pc' \in [Worker -> Labels]
      BY <1>7 DEF ReleaseCapture, TypeOK, Labels
    <2>2. lease' \in [Stage -> Worker \cup {Nobody, Dead}]
      BY <1>7 DEF ReleaseCapture, ReleaseAll, LeaseAfter, TypeOK
    <2>3. QED BY <1>7, <2>1, <2>2 DEF ReleaseCapture, TypeOK
  <1>8. ASSUME NEW w \in {"uploader", "smb"}, ConvertStart(w) PROVE TypeOK'
    <2>1. FilesOK'
      BY <1>8, FilesType, Names, NextChannelType DEF ConvertStart, TypeOK, Worker
    <2>2. pc' \in [Worker -> Labels]
      BY <1>8 DEF ConvertStart, TypeOK, Labels
    <2>3. QED BY <1>8, <2>1, <2>2 DEF ConvertStart, TypeOK, FilesOK
  <1>9. ASSUME NEW w \in {"uploader", "smb"}, ConvertSkip(w) PROVE TypeOK'
    BY <1>9 DEF ConvertSkip, TypeOK
  <1>10. ASSUME NEW w \in {"uploader", "smb"}, ConvertFinish(w) PROVE TypeOK'
    <2>1. FilesOK'
      BY <1>10, FilesType, Names, NextChannelType DEF ConvertFinish, TypeOK, Worker
    <2>2. pc' \in [Worker -> Labels]
      BY <1>10 DEF ConvertFinish, TypeOK, Labels
    <2>3. QED BY <1>10, <2>1, <2>2 DEF ConvertFinish, TypeOK, FilesOK
  <1>11. ASSUME NEW w \in {"uploader", "smb"}, ConvertFails(w) PROVE TypeOK'
    <2>1. FilesOK'
      BY <1>11, FilesType DEF ConvertFails, TypeOK
    <2>2. pc' \in [Worker -> Labels]
      BY <1>11 DEF ConvertFails, TypeOK, Labels
    <2>3. todo' \in [Worker -> SUBSET Channel]
      BY <1>11 DEF ConvertFails, TypeOK
    <2>4. QED
      BY <1>11, <2>1, <2>2, <2>3, FaultType DEF ConvertFails, TypeOK, FilesOK
  <1>12. CASE StartUpload
    BY <1>12 DEF StartUpload, Take, TypeOK, Labels, Worker
  <1>13. CASE UploadBusy
    BY <1>13 DEF UploadBusy, TypeOK
  <1>14. CASE FinishUpload
    BY <1>14 DEF FinishUpload, ReleaseAll, LeaseAfter, TypeOK, Labels
  <1>15. CASE RetryUpload
    BY <1>15 DEF RetryUpload, TypeOK
  <1>16. CASE UploadCancelled
    <2>1. FilesOK'
      BY <1>16, FilesType DEF UploadCancelled, TypeOK
    <2>2. QED
      BY <1>16, <2>1, FaultType
      DEF UploadCancelled, ReleaseAll, LeaseAfter, TypeOK, FilesOK, Labels
  <1>17. CASE SmbDiscover
    <2>1. pc' \in [Worker -> Labels]
      BY <1>17 DEF SmbDiscover, TypeOK, Labels
    <2>2. QED BY <1>17, <2>1 DEF SmbDiscover, TypeOK
  <1>18. CASE SmbClaim
    BY <1>18 DEF SmbClaim, Take, TypeOK, Labels, Worker
  <1>19. CASE SmbMono
    BY <1>19 DEF SmbMono, Take, TypeOK, Labels, Worker
  <1>20. CASE SmbConverted
    <2>1. lease' \in [Stage -> Worker \cup {Nobody, Dead}]
      BY <1>20 DEF SmbConverted, TypeOK
    <2>2. pc' \in [Worker -> Labels]
      BY <1>20 DEF SmbConverted, TypeOK, Labels
    <2>3. QED BY <1>20, <2>1, <2>2 DEF SmbConverted, TypeOK
  <1>21. CASE SmbMixStart
    <2>1. FilesOK'
      BY <1>21, FilesType, Names DEF SmbMixStart, TypeOK
    <2>2. pc' \in [Worker -> Labels]
      BY <1>21 DEF SmbMixStart, TypeOK, Labels
    <2>3. QED BY <1>21, <2>1, <2>2 DEF SmbMixStart, TypeOK, FilesOK
  <1>22. CASE SmbMixFinish
    <2>1. FilesOK'
      BY <1>22, FilesType, Names DEF SmbMixFinish, TypeOK
    <2>2. pc' \in [Worker -> Labels]
      BY <1>22 DEF SmbMixFinish, TypeOK, Labels
    <2>3. QED BY <1>22, <2>1, <2>2 DEF SmbMixFinish, TypeOK, FilesOK
  <1>23. CASE SmbPublish
    BY <1>23 DEF SmbPublish, TypeOK, Labels
  <1>24. CASE SmbMark
    <2>1. FilesOK'
      BY <1>24, FilesType DEF SmbMark, TypeOK
    <2>2. pc' \in [Worker -> Labels]
      BY <1>24 DEF SmbMark, TypeOK, Labels
    <2>3. QED BY <1>24, <2>1, <2>2 DEF SmbMark, TypeOK, FilesOK, Consumer
  <1>25. CASE SmbMetadataFails
    <2>1. pc' \in [Worker -> Labels]
      BY <1>25 DEF SmbMetadataFails, TypeOK, Labels
    <2>2. QED BY <1>25, <2>1, FaultType DEF SmbMetadataFails, TypeOK
  <1>26. CASE SmbGivesUp
    <2>1. FilesOK'
      BY <1>26, FilesType DEF SmbGivesUp, TypeOK
    <2>2. pc' \in [Worker -> Labels]
      BY <1>26 DEF SmbGivesUp, TypeOK, Labels
    <2>3. remote' \in BOOLEAN /\ marker' \in SUBSET Consumer
      BY <1>26 DEF SmbGivesUp, TypeOK, Consumer
    <2>4. QED
      BY <1>26, <2>1, <2>2, <2>3, FaultType DEF SmbGivesUp, TypeOK, FilesOK
  <1>27. CASE SmbRelease
    <2>1. pc' \in [Worker -> Labels]
      BY <1>27 DEF SmbRelease, TypeOK, Labels
    <2>2. QED BY <1>27, <2>1 DEF SmbRelease, ReleaseAll, LeaseAfter, TypeOK
  <1>28. CASE SmbSaveLog
    BY <1>28 DEF SmbSaveLog, TypeOK, Labels
  <1>29. CASE TranscriptRepair
    BY <1>29 DEF TranscriptRepair, TypeOK, Consumer
  <1>30. CASE TranscriptDiscover
    <2>1. pc' \in [Worker -> Labels]
      BY <1>30 DEF TranscriptDiscover, TypeOK, Labels
    <2>2. QED BY <1>30, <2>1 DEF TranscriptDiscover, TypeOK
  <1>31. CASE TranscriptClaim
    BY <1>31 DEF TranscriptClaim, Take, TypeOK, Labels, Worker
  <1>32. CASE TranscriptTranscribe
    <2>1. pc' \in [Worker -> Labels]
      BY <1>32 DEF TranscriptTranscribe, TypeOK, Labels
    <2>2. QED BY <1>32, <2>1 DEF TranscriptTranscribe, TypeOK
  <1>33. CASE TranscriptPersist
    BY <1>33 DEF TranscriptPersist, TypeOK, Labels
  <1>34. CASE TranscriptPublish
    BY <1>34 DEF TranscriptPublish, TypeOK, Labels
  <1>35. CASE TranscriptMark
    <2>1. pc' \in [Worker -> Labels]
      BY <1>35 DEF TranscriptMark, TypeOK, Labels
    <2>2. QED BY <1>35, <2>1 DEF TranscriptMark, TypeOK, Consumer
  <1>36. CASE TranscriptGivesUp
    <2>1. pc' \in [Worker -> Labels]
      BY <1>36 DEF TranscriptGivesUp, TypeOK, Labels
    <2>2. db' \in BOOLEAN /\ md' \in BOOLEAN
      BY <1>36 DEF TranscriptGivesUp, TypeOK
    <2>3. faults' \in 0 .. MaxFaults
      BY <1>36, FaultType DEF TranscriptGivesUp
    <2>4. QED BY <1>36, <2>1, <2>2, <2>3 DEF TranscriptGivesUp, TypeOK
  <1>37. CASE TranscriptRelease
    <2>1. pc' \in [Worker -> Labels]
      BY <1>37 DEF TranscriptRelease, TypeOK, Labels
    <2>2. lease' \in [Stage -> Worker \cup {Nobody, Dead}]
      BY <1>37 DEF TranscriptRelease, ReleaseAll, LeaseAfter, TypeOK
    <2>3. QED BY <1>37, <2>1, <2>2 DEF TranscriptRelease, TypeOK
  <1>38. CASE Cleanup
    BY <1>38, DeletableType, Names DEF Cleanup, TypeOK
  <1>39. CASE CleanupFails
    <2>1. FilesOK'
      BY <1>39, FilesType DEF CleanupFails, TypeOK
    <2>2. QED BY <1>39, <2>1, FaultType DEF CleanupFails, TypeOK, FilesOK
  <1>40. CASE CleanupSkips
    BY <1>40 DEF CleanupSkips, TypeOK
  <1>41. CASE RoundElapses
    BY <1>41 DEF RoundElapses, TypeOK
  <1>42. CASE RetentionElapses
    BY <1>42 DEF RetentionElapses, TypeOK
  <1>43. CASE DiskChanges
    BY <1>43 DEF DiskChanges, TypeOK
  <1>44. ASSUME NEW w \in Worker, CrashWorker(w) PROVE TypeOK'
    <2>1. pc' \in [Worker -> Labels]
      BY <1>44 DEF CrashWorker, TypeOK, Labels
    <2>2. QED BY <1>44, <2>1, FaultType DEF CrashWorker, LeaseAfter, TypeOK
  <1>45. CASE DeadLeasesExpire
    BY <1>45 DEF DeadLeasesExpire, LeaseAfter, TypeOK
  <1>46. CASE LogForgets
    BY <1>46, LogFades DEF TypeOK
  <1>47. CASE UNCHANGED vars
    BY <1>47 DEF vars, TypeOK
  <1>48. QED
    BY <1>1, <1>2, <1>3, <1>4, <1>5, <1>6, <1>7, <1>8, <1>9, <1>10, <1>11, <1>12, <1>13, <1>14,
       <1>15, <1>16, <1>17, <1>18, <1>19, <1>20, <1>21, <1>22, <1>23, <1>24, <1>25, <1>26, <1>27,
       <1>28, <1>29, <1>30, <1>31, <1>32, <1>33, <1>34, <1>35, <1>36, <1>37, <1>38, <1>39, <1>40,
       <1>41, <1>42, <1>43, <1>44, <1>45, <1>46, <1>47
    DEF Next, Capture, CaptureProgress, Upload, UploadProgress, Converting, Smb, SmbProgress,
        Transcript, TranscriptProgress

(***************************************************************************)
(* The workers                                                             *)
(***************************************************************************)

LEMMA Owners ==
    /\ Entry \in [Worker -> Stage]
    /\ \A v, w \in Worker : Entry[v] = Entry[w] => v = w
    /\ \A w \in Worker : In[w] \cap Out[w] = {}
    /\ Nobody \notin Worker /\ Dead \notin Worker /\ Nobody # Dead
  BY DEF Entry, In, Out, Worker, Stage, Nobody, Dead

\* Two workers are not in the directory together, and none is there when it
\* is free.
LEMMA Alone ==
    ASSUME TypeOK, Exclusion, NEW w \in Worker, pc[w] \in In[w]
    PROVE  /\ ~Free
           /\ \A s \in Stage : lease[s] \in {w, Nobody}
           /\ \A v \in Worker : v # w => pc[v] \in Out[v]
  BY Owners DEF TypeOK, Exclusion, Places, Entitled, OneOwner, Free

\* A worker that keeps its side of the door, every lease as it was.
LEMMA Stays ==
    ASSUME TypeOK, Exclusion, NEW w \in Worker, NEW l, Goto(w, l), UNCHANGED lease,
           \/ pc[w] \in In[w] /\ l \in In[w]
           \/ pc[w] \in Out[w] /\ l \in Out[w]
    PROVE  Exclusion'
  BY Owners DEF TypeOK, Exclusion, Places, Entitled, OneOwner, Goto

LEMMA Enters ==
    ASSUME TypeOK, Exclusion, NEW w \in Worker, NEW l \in In[w], Goto(w, l),
           Free, Take(w, Entry[w])
    PROVE  Exclusion'
  <1>1. \A s \in Stage : lease'[s] = IF s = Entry[w] THEN w ELSE Nobody
    <2>1. lease' = [lease EXCEPT ![Entry[w]] = w] /\ DOMAIN lease = Stage
      BY DEF Take, TypeOK
    <2>2. QED BY <2>1 DEF Free
  <1>2. pc'[w] = l /\ \A v \in Worker : v # w => pc'[v] = pc[v] /\ pc[v] \in Out[v]
    <2>1. pc'[w] = l /\ \A v \in Worker : v # w => pc'[v] = pc[v]
      BY DEF TypeOK, Goto
    <2>2. \A v \in Worker : pc[v] \notin In[v]
      BY Owners DEF Exclusion, Entitled, Free
    <2>3. QED BY <2>1, <2>2 DEF Exclusion, Places
  <1>3. Places'
    BY <1>2 DEF Places
  <1>4. Entitled' /\ OneOwner'
    BY <1>1, <1>2, Owners DEF Entitled, OneOwner
  <1>5. QED BY <1>3, <1>4 DEF Exclusion

\* Whoever leaves gives back all it has, or leaves it to a dead owner.
LEMMA Leaves ==
    ASSUME TypeOK, Exclusion, NEW w \in Worker, NEW l \in Out[w], Goto(w, l),
           NEW o \in {Nobody, Dead}, lease' = LeaseAfter(w, o)
    PROVE  Exclusion'
  <1>1. \A s \in Stage : lease'[s] = IF lease[s] = w THEN o ELSE lease[s]
    BY DEF LeaseAfter
  <1>2. pc'[w] = l /\ \A v \in Worker : v # w => pc'[v] = pc[v]
    BY DEF TypeOK, Goto
  <1>3. Places'
    BY <1>2 DEF Exclusion, Places
  <1>4. Entitled'
    <2>1. ASSUME NEW v \in Worker, pc'[v] \in In[v] PROVE lease'[Entry[v]] = v
      <3>1. v # w
        BY <1>2, <2>1, Owners
      <3>2. lease[Entry[v]] = v
        BY <1>2, <2>1, <3>1 DEF Exclusion, Entitled
      <3>3. QED BY <1>1, <3>1, <3>2, Owners
    <2>2. ASSUME NEW v \in Worker, pc'[v] \in Out[v], NEW s \in Stage PROVE lease'[s] # v
      BY <1>1, <1>2, <2>2, Owners DEF Exclusion, Entitled
    <2>3. QED BY <2>1, <2>2 DEF Entitled
  <1>5. OneOwner'
    BY <1>1, Owners DEF TypeOK, Exclusion, OneOwner
  <1>6. QED BY <1>3, <1>4, <1>5 DEF Exclusion

LEMMA ExclusionStep == TypeOK /\ Exclusion /\ [Next]_vars => Exclusion'
  <1> SUFFICES ASSUME TypeOK, Exclusion, [Next]_vars PROVE Exclusion'
    OBVIOUS
  <1> USE DEF At, fileVars, workVars, outVars
  <1>1. ASSUME UNCHANGED <<lease, pc>> PROVE Exclusion'
    BY <1>1 DEF Exclusion, Places, Entitled, OneOwner
  <1>2. ASSUME NEW w \in Worker, NEW l, Goto(w, l), UNCHANGED lease,
               \/ pc[w] \in In[w] /\ l \in In[w]
               \/ pc[w] \in Out[w] /\ l \in Out[w]
        PROVE  Exclusion'
    BY <1>2, Stays
  <1>3. CASE Capture
    <2>1. CASE StartCapture
      BY <2>1, Enters DEF StartCapture, Entry, In, Worker
    <2>2. CASE \E c \in Channel : WriteChunk(c) \/ WriteFails(c)
      BY <2>2, <1>1 DEF WriteChunk, WriteFails
    <2>3. CASE FinalizeCapture
      BY <2>3, <1>2 DEF FinalizeCapture, In, Worker
    <2>4. CASE EnqueueUpload \/ EnqueueFails
      BY <2>4, <1>2 DEF EnqueueUpload, EnqueueFails, In, Worker
    <2>5. CASE ReleaseCapture
      BY <2>5, Leaves DEF ReleaseCapture, ReleaseAll, Out, Worker
    <2>6. QED BY <1>3, <2>1, <2>2, <2>3, <2>4, <2>5 DEF Capture, CaptureProgress
  <1>4. ASSUME NEW w \in {"uploader", "smb"}, Converting(w) PROVE Exclusion'
    <2>1. CASE ConvertStart(w)
      BY <2>1, <1>2 DEF ConvertStart, In, Worker
    <2>2. CASE ConvertSkip(w)
      BY <2>2, <1>1 DEF ConvertSkip
    <2>3. CASE ConvertFinish(w)
      BY <2>3, <1>2 DEF ConvertFinish, In, Worker
    <2>4. QED BY <1>4, <2>1, <2>2, <2>3 DEF Converting
  <1>5. ASSUME NEW w \in {"uploader", "smb"}, ConvertFails(w) PROVE Exclusion'
    BY <1>5, <1>2 DEF ConvertFails, In, Worker
  <1>6. CASE StartUpload
    BY <1>6, Enters DEF StartUpload, Entry, In, Worker
  <1>7. CASE UploadBusy \/ RetryUpload
    BY <1>7, <1>1 DEF UploadBusy, RetryUpload
  <1>8. CASE FinishUpload \/ UploadCancelled
    BY <1>8, Leaves DEF FinishUpload, UploadCancelled, ReleaseAll, Out, Worker
  <1>9. CASE SmbDiscover \/ SmbMetadataFails \/ SmbSaveLog
    BY <1>9, <1>2 DEF SmbDiscover, SmbMetadataFails, SmbSaveLog, Out, Worker
  <1>10. CASE SmbClaim
    <2>1. CASE Free
      BY <1>10, <2>1, Enters DEF SmbClaim, Entry, In, Worker
    <2>2. CASE ~Free
      BY <1>10, <2>2, <1>2 DEF SmbClaim, Out, Worker
    <2>3. QED BY <2>1, <2>2
  <1>11. CASE SmbMono
    <2>1. ASSUME Goto("smb", "convert"), Take("smb", "conversion") PROVE Exclusion'
      <3>1. \A s \in Stage : lease'[s] \in {"smb", Nobody} /\ (lease[s] = "smb" => lease'[s] = "smb")
        BY <1>11, <2>1, Alone DEF SmbMono, In, Worker, Take, TypeOK
      <3>2. pc' = [pc EXCEPT !["smb"] = "convert"] /\ pc["smb"] \in In["smb"]
        BY <1>11, <2>1 DEF SmbMono, Goto, In
      <3>3. pc'["smb"] \in In["smb"] /\ \A v \in Worker : v # "smb" => pc'[v] \in Out[v]
        BY <1>11, <3>2, Alone DEF TypeOK, In, Worker
      <3>4. QED
        BY <3>1, <3>2, <3>3, Owners DEF Exclusion, Places, Entitled, OneOwner, Worker
    <2>2. QED BY <1>11, <2>1, <1>2 DEF SmbMono, In, Worker
  <1>12. CASE SmbConverted
    <2>1. Goto("smb", IF Pair THEN "stereo" ELSE "skipped") /\ pc["smb"] \in In["smb"]
      BY <1>12 DEF SmbConverted, In
    <2>2. /\ \A s \in Stage : lease'[s] \in {"smb", Nobody}
          /\ lease'["smb"] = "smb"
      BY <1>12, <2>1, Alone
      DEF SmbConverted, Worker, Stage, TypeOK, Exclusion, Entitled, Entry
    <2>3. pc'["smb"] \in In["smb"] /\ \A v \in Worker : v # "smb" => pc'[v] \in Out[v]
      BY <2>1, Alone DEF TypeOK, In, Worker, Goto
    <2>4. QED
      BY <2>2, <2>3, Owners DEF Exclusion, Places, Entitled, OneOwner, Worker, Entry
  <1>13. CASE SmbMixStart \/ SmbMixFinish \/ SmbPublish \/ SmbMark
    BY <1>13, <1>2 DEF SmbMixStart, SmbMixFinish, SmbPublish, SmbMark, In, Worker
  <1>14. CASE SmbGivesUp
    BY <1>14, <1>2 DEF SmbGivesUp, In, Worker
  <1>15. CASE SmbRelease
    BY <1>15, Leaves DEF SmbRelease, ReleaseAll, Out, Worker
  <1>16. CASE TranscriptRepair
    BY <1>16, <1>1 DEF TranscriptRepair
  <1>17. CASE TranscriptDiscover
    BY <1>17, <1>2 DEF TranscriptDiscover, Out, Worker
  <1>18. CASE TranscriptClaim
    <2>1. CASE Free
      BY <1>18, <2>1, Enters DEF TranscriptClaim, Entry, In, Worker
    <2>2. CASE ~Free
      BY <1>18, <2>2, <1>2 DEF TranscriptClaim, Out, Worker
    <2>3. QED BY <2>1, <2>2
  <1>19. CASE TranscriptTranscribe \/ TranscriptPersist \/ TranscriptPublish \/ TranscriptMark
              \/ TranscriptGivesUp
    BY <1>19, <1>2
    DEF TranscriptTranscribe, TranscriptPersist, TranscriptPublish, TranscriptMark,
        TranscriptGivesUp, In, Worker
  <1>20. CASE TranscriptRelease
    BY <1>20, Leaves DEF TranscriptRelease, ReleaseAll, Out, Worker
  <1>21. CASE Cleanup \/ CleanupFails \/ CleanupSkips \/ RoundElapses \/ RetentionElapses \/ DiskChanges
    BY <1>21, <1>1 DEF Cleanup, CleanupFails, CleanupSkips, RoundElapses, RetentionElapses, DiskChanges
  <1>22. ASSUME NEW w \in Worker, CrashWorker(w) PROVE Exclusion'
    BY <1>22, Leaves DEF CrashWorker, Out, Worker
  <1>23. CASE DeadLeasesExpire
    <2>1. \A s \in Stage : lease'[s] = IF lease[s] = Dead THEN Nobody ELSE lease[s]
      BY <1>23 DEF DeadLeasesExpire, LeaseAfter
    <2>2. QED
      BY <1>23, <2>1, Owners
      DEF DeadLeasesExpire, Exclusion, Places, Entitled, OneOwner
  <1>24. CASE LogForgets \/ UNCHANGED vars
    BY <1>24, <1>1, LogFades DEF vars
  <1>25. QED
    BY <1>3, <1>4, <1>5, <1>6, <1>7, <1>8, <1>9, <1>10, <1>11, <1>12, <1>13, <1>14, <1>15, <1>16,
       <1>17, <1>18, <1>19, <1>20, <1>21, <1>22, <1>23, <1>24
    DEF Next, Upload, UploadProgress, Smb, SmbProgress, Transcript, TranscriptProgress

(***************************************************************************)
(* What the workers work on                                                *)
(***************************************************************************)

\* InputsStay, worker by worker.
InputsOf(w) ==
    /\ w \in {"uploader", "smb"} /\ At(w, "ffmpeg")
         => {WavTmp(NextChannel(w)), Raw(NextChannel(w))} \subseteq files
    /\ w = "smb" =>
         /\ At(w, "mixing") => StereoTmp \in files
         /\ pc[w] \in {"stereo", "mixing", "publish", "published"} => Pair
         /\ pc[w] \in {"publish", "published"} => Stereo \in files
    /\ w = "transcript" /\ pc[w] \in {"work", "transcribed", "persisted", "published"} => Pair

LEMMA ByWorker ==
    /\ InputsStay <=> \A w \in Worker : InputsOf(w)
    /\ InputsStay' <=> \A w \in Worker : InputsOf(w)'
  BY DEF InputsStay, InputsOf, Worker, At

\* Outside the directory a worker needs nothing.
LEMMA NoInputs ==
    /\ \A w \in Worker : pc[w] \in Out[w] => InputsOf(w)
    /\ \A w \in Worker : pc'[w] \in Out[w] => InputsOf(w)'
  BY DEF InputsOf, Out, Worker, At

\* What a worker does in the directory is of no concern to the others.
LEMMA OwnStep ==
    ASSUME TypeOK, Exclusion, NEW w \in Worker, NEW l, Goto(w, l),
           pc[w] \in In[w] \/ Free, InputsOf(w)'
    PROVE  InputsStay'
  <1>1. \A v \in Worker : v # w => pc[v] \in Out[v]
    BY Alone DEF Exclusion, Places
  <1>2. \A v \in Worker : v # w => pc'[v] = pc[v]
    BY DEF TypeOK, Goto
  <1>3. QED BY <1>1, <1>2, NoInputs, ByWorker

\* A worker that is outside after its step, having touched no file.
LEMMA OutStep ==
    ASSUME TypeOK, InputsStay, NEW w \in Worker, NEW l \in Out[w], Goto(w, l), UNCHANGED files,
           \A v \in Worker : v # w => todo'[v] = todo[v]
    PROVE  InputsStay'
  <1>1. pc'[w] \in Out[w] /\ \A v \in Worker : v # w => pc'[v] = pc[v]
    BY DEF TypeOK, Goto
  <1>2. ASSUME NEW v \in Worker, v # w PROVE InputsOf(v)'
    <2>1. InputsOf(v) /\ pc'[v] = pc[v] /\ todo'[v] = todo[v]
      BY <1>1, <1>2, ByWorker
    <2>2. QED BY <2>1 DEF InputsOf, At, NextChannel, Pair
  <1>3. QED BY <1>1, <1>2, NoInputs, ByWorker

\* The directory is free: what happens to its files disturbs nobody.
LEMMA FreeStep ==
    ASSUME TypeOK, Exclusion, Free, UNCHANGED pc
    PROVE  InputsStay'
  BY Alone, NoInputs, ByWorker DEF Exclusion, Places

LEMMA InputsStep == TypeOK /\ Exclusion /\ InputsStay /\ [Next]_vars => InputsStay'
  <1> SUFFICES ASSUME TypeOK, Exclusion, InputsStay, [Next]_vars PROVE InputsStay'
    OBVIOUS
  <1> USE DEF At, fileVars, workVars, outVars
  <1>1. ASSUME UNCHANGED <<files, pc, todo>> PROVE InputsStay'
    BY <1>1 DEF InputsStay, NextChannel, Pair
  <1>2. ASSUME NEW w \in Worker, NEW l, Goto(w, l), pc[w] \in In[w] \/ Free, InputsOf(w)'
        PROVE  InputsStay'
    BY <1>2, OwnStep
  <1>3. ASSUME NEW w \in Worker, NEW l \in Out[w], Goto(w, l), UNCHANGED files,
               \A v \in Worker : v # w => todo'[v] = todo[v]
        PROVE  InputsStay'
    BY <1>3, OutStep
  <1>4. CASE Capture
    <2>1. InputsOf("capture")'
      BY DEF InputsOf
    <2>2. ASSUME NEW c \in Channel, WriteChunk(c) PROVE InputsStay'
      <3>1. pc["capture"] \in In["capture"] /\ Goto("capture", "recording")
        BY <2>2 DEF WriteChunk, In, Goto, TypeOK
      <3>2. QED BY <3>1, <2>1, <1>2 DEF Worker
    <2>3. CASE \E c \in Channel : WriteFails(c)
      BY <2>3, <1>1 DEF WriteFails
    <2>4. CASE StartCapture
      BY <2>4, <2>1, <1>2 DEF StartCapture, Worker
    <2>5. CASE FinalizeCapture
      BY <2>5, <2>1, <1>2 DEF FinalizeCapture, In, Worker
    <2>6. CASE EnqueueUpload \/ EnqueueFails \/ ReleaseCapture
      BY <2>6, <2>1, <1>2 DEF EnqueueUpload, EnqueueFails, ReleaseCapture, In, Worker
    <2>7. QED BY <1>4, <2>2, <2>3, <2>4, <2>5, <2>6 DEF Capture, CaptureProgress
  <1>5. ASSUME NEW w \in {"uploader", "smb"}, Converting(w) \/ ConvertFails(w) PROVE InputsStay'
    <2>1. pc[w] \in In[w] /\ w \in Worker
      BY <1>5 DEF Converting, ConvertStart, ConvertSkip, ConvertFinish, ConvertFails, In, Worker
    <2>2. CASE ConvertStart(w)
      <3>1. Raw(NextChannel(w)) \in files' /\ WavTmp(NextChannel(w)) \in files' /\ todo' = todo
        BY <2>2 DEF ConvertStart, FilesBecome
      <3>2. pc'[w] = "ffmpeg" /\ NextChannel(w)' = NextChannel(w)
        BY <2>1, <2>2, <3>1 DEF ConvertStart, Goto, TypeOK, NextChannel
      <3>3. InputsOf(w)'
        BY <3>1, <3>2, <1>5 DEF InputsOf
      <3>4. QED BY <2>1, <2>2, <3>3, <1>2 DEF ConvertStart
    <2>3. CASE ConvertSkip(w) \/ ConvertFinish(w)
      <3>1. pc'[w] = "convert" /\ Goto(w, "convert")
        BY <2>1, <2>3 DEF ConvertSkip, ConvertFinish, Goto, TypeOK
      <3>2. InputsOf(w)'
        BY <3>1, <1>5 DEF InputsOf
      <3>3. QED BY <2>1, <3>1, <3>2, <1>2
    <2>4. CASE ConvertFails(w)
      <3>1. pc'[w] \in {"convert", "failed"}
        BY <2>1, <2>4 DEF ConvertFails, Goto, TypeOK
      <3>2. InputsOf(w)'
        BY <3>1, <1>5 DEF InputsOf
      <3>3. QED BY <2>1, <2>4, <3>2, <1>2 DEF ConvertFails
    <2>5. QED BY <1>5, <2>2, <2>3, <2>4 DEF Converting
  <1>6. CASE StartUpload
    <2>1. pc'["uploader"] = "convert" /\ Goto("uploader", "convert") /\ Free
      BY <1>6 DEF StartUpload, Goto, TypeOK, Worker
    <2>2. QED BY <2>1, <1>2 DEF InputsOf, Worker
  <1>7. CASE UploadBusy \/ RetryUpload
    BY <1>7, <1>1 DEF UploadBusy, RetryUpload
  <1>8. CASE FinishUpload \/ UploadCancelled
    <2>1. pc["uploader"] \in In["uploader"] /\ pc'["uploader"] = "idle" /\ Goto("uploader", "idle")
      BY <1>8 DEF FinishUpload, UploadCancelled, Goto, TypeOK, Worker, In
    <2>2. QED BY <2>1, <1>2 DEF InputsOf, Worker
  <1>9. CASE SmbDiscover \/ SmbMetadataFails \/ SmbSaveLog
    BY <1>9, <1>3 DEF SmbDiscover, SmbMetadataFails, SmbSaveLog, Out, Worker
  <1>10. CASE SmbClaim
    <2>1. CASE Free
      <3>1. pc'["smb"] = "mono" /\ Goto("smb", "mono")
        BY <1>10, <2>1 DEF SmbClaim, Goto, TypeOK, Worker
      <3>2. QED BY <2>1, <3>1, <1>2 DEF InputsOf, Worker
    <2>2. CASE ~Free
      BY <1>10, <2>2, <1>3 DEF SmbClaim, Out, Worker
    <2>3. QED BY <2>1, <2>2
  <1>11. CASE SmbMono \/ SmbConverted
    <2>1. PICK l \in {"stereo", "skipped", "convert"} :
            /\ Goto("smb", l) /\ UNCHANGED files
            /\ l = "stereo" => Pair
      BY <1>11 DEF SmbMono, SmbConverted
    <2>2. pc'["smb"] = l /\ pc["smb"] \in In["smb"]
      BY <1>11, <2>1 DEF SmbMono, SmbConverted, Goto, TypeOK, Worker, In
    <2>3. InputsOf("smb")'
      BY <2>1, <2>2 DEF InputsOf, Pair
    <2>4. QED BY <2>1, <2>2, <2>3, <1>2 DEF Worker
  <1>12. CASE SmbMixStart \/ SmbMixFinish
    <2>1. PICK l \in {"mixing", "publish"} :
            /\ Goto("smb", l)
            /\ l = "mixing" => StereoTmp \in files'
            /\ l = "publish" => Stereo \in files'
      BY <1>12 DEF SmbMixStart, SmbMixFinish, FilesBecome
    <2>2. Pair'
      <3>1. Pair
        BY <1>12 DEF InputsStay, SmbMixStart, SmbMixFinish
      <3>2. ASSUME NEW c \in Channel PROVE Wav(c) \in files'
        <4>1. Wav(c) \in files /\ Wav(c) # StereoTmp
          BY <3>1, Names DEF Pair
        <4>2. QED BY <1>12, <4>1 DEF SmbMixStart, SmbMixFinish, FilesBecome
      <3>3. QED BY <3>2 DEF Pair
    <2>3. pc'["smb"] = l /\ pc["smb"] \in In["smb"]
      BY <1>12, <2>1 DEF SmbMixStart, SmbMixFinish, Goto, TypeOK, Worker, In
    <2>4. InputsOf("smb")'
      BY <2>1, <2>2, <2>3 DEF InputsOf
    <2>5. QED BY <2>1, <2>3, <2>4, <1>2 DEF Worker
  <1>13. CASE SmbPublish
    <2>1. pc'["smb"] = "published" /\ pc["smb"] \in In["smb"] /\ Goto("smb", "published")
      BY <1>13 DEF SmbPublish, Goto, TypeOK, Worker, In
    <2>2. InputsOf("smb")'
      BY <1>13, <2>1 DEF InputsOf, InputsStay, SmbPublish, Pair
    <2>3. QED BY <2>1, <2>2, <1>2 DEF Worker
  <1>14. CASE SmbMark \/ SmbGivesUp \/ SmbRelease
    <2>1. PICK l \in {"marked", "failed", "skipped", "logDone", "logPending", "idle"} : Goto("smb", l)
      BY <1>14 DEF SmbMark, SmbGivesUp, SmbRelease
    <2>2. pc'["smb"] = l /\ pc["smb"] \in In["smb"]
      BY <1>14, <2>1 DEF SmbMark, SmbGivesUp, SmbRelease, Goto, TypeOK, Worker, In
    <2>3. QED BY <2>1, <2>2, <1>2 DEF InputsOf, Worker
  <1>15. CASE TranscriptRepair
    BY <1>15, <1>1 DEF TranscriptRepair
  <1>16. CASE TranscriptDiscover
    BY <1>16, <1>3 DEF TranscriptDiscover, Out, Worker
  <1>17. CASE TranscriptClaim
    <2>1. CASE Free
      <3>1. PICK l \in {"work", "release"} :
              /\ Goto("transcript", l) /\ UNCHANGED files
              /\ l = "work" => Pair
        BY <1>17, <2>1 DEF TranscriptClaim, Ready
      <3>2. pc'["transcript"] = l
        BY <3>1 DEF Goto, TypeOK, Worker
      <3>3. QED BY <2>1, <3>1, <3>2, <1>2 DEF InputsOf, Worker, Pair
    <2>2. CASE ~Free
      BY <1>17, <2>2, <1>3 DEF TranscriptClaim, Out, Worker
    <2>3. QED BY <2>1, <2>2
  <1>18. CASE TranscriptTranscribe \/ TranscriptPersist \/ TranscriptPublish
    <2>1. PICK l \in {"transcribed", "persisted", "published"} :
            Goto("transcript", l) /\ UNCHANGED files
      BY <1>18 DEF TranscriptTranscribe, TranscriptPersist, TranscriptPublish
    <2>2. Pair /\ pc["transcript"] \in In["transcript"]
      BY <1>18 DEF TranscriptTranscribe, TranscriptPersist, TranscriptPublish, InputsStay, In
    <2>3. QED BY <2>1, <2>2, <1>2 DEF InputsOf, Worker, Pair
  <1>19. CASE TranscriptMark \/ TranscriptGivesUp \/ TranscriptRelease
    <2>1. PICK l \in {"release", "idle"} : Goto("transcript", l)
      BY <1>19 DEF TranscriptMark, TranscriptGivesUp, TranscriptRelease
    <2>2. pc'["transcript"] = l /\ pc["transcript"] \in In["transcript"]
      BY <1>19, <2>1 DEF TranscriptMark, TranscriptGivesUp, TranscriptRelease, Goto, TypeOK, Worker, In
    <2>3. QED BY <2>1, <2>2, <1>2 DEF InputsOf, Worker
  <1>20. CASE Cleanup \/ CleanupFails
    BY <1>20, FreeStep DEF Cleanup, CleanupFails
  <1>21. CASE CleanupSkips \/ RoundElapses \/ RetentionElapses \/ DiskChanges \/ DeadLeasesExpire
    BY <1>21, <1>1 DEF CleanupSkips, RoundElapses, RetentionElapses, DiskChanges, DeadLeasesExpire
  <1>22. ASSUME NEW w \in Worker, CrashWorker(w) PROVE InputsStay'
    <2>1. \A v \in Worker : v # w => todo'[v] = todo[v]
      BY <1>22 DEF CrashWorker, TypeOK
    <2>2. QED BY <1>22, <2>1, <1>3 DEF CrashWorker, Out, Worker
  <1>23. CASE LogForgets \/ UNCHANGED vars
    BY <1>23, <1>1, LogFades DEF vars
  <1>24. QED
    BY <1>4, <1>5, <1>6, <1>7, <1>8, <1>9, <1>10, <1>11, <1>12, <1>13, <1>14, <1>15, <1>16,
       <1>17, <1>18, <1>19, <1>20, <1>21, <1>22, <1>23
    DEF Next, Upload, UploadProgress, Smb, SmbProgress, Transcript, TranscriptProgress

(***************************************************************************)
(* What the workers leave behind                                           *)
(***************************************************************************)

\* An output that is in place stays there, and so does a marker.
LEMMA Outlast ==
    ASSUME TypeOK, [Next]_vars
    PROVE  /\ remote => remote'
           /\ db => db'
           /\ md => md'
           /\ marker \subseteq marker'
  <1> USE DEF fileVars, workVars, outVars
  <1>1. CASE Capture
    <2>1. ASSUME NEW c \in Channel, WriteChunk(c) \/ WriteFails(c) PROVE UNCHANGED outVars
      BY <2>1 DEF WriteChunk, WriteFails
    <2>2. CASE CaptureProgress
      BY <2>2 DEF CaptureProgress, FinalizeCapture, EnqueueUpload, ReleaseCapture
    <2>3. QED BY <1>1, <2>1, <2>2 DEF Capture, StartCapture, EnqueueFails
  <1>2. ASSUME NEW w \in {"uploader", "smb"}, Converting(w) \/ ConvertFails(w)
        PROVE  UNCHANGED outVars
    BY <1>2 DEF Converting, ConvertStart, ConvertSkip, ConvertFinish, ConvertFails
  <1>3. CASE Upload
    BY <1>2, <1>3
    DEF Upload, UploadProgress, StartUpload, UploadBusy, FinishUpload, RetryUpload, UploadCancelled
  <1>4. CASE Smb
    <2>1. CASE SmbGivesUp
      BY <2>1 DEF SmbGivesUp, TypeOK
    <2>2. QED
      BY <1>2, <1>4, <2>1
      DEF Smb, SmbProgress, SmbDiscover, SmbClaim, SmbMono, SmbConverted, SmbMixStart, SmbMixFinish,
          SmbPublish, SmbMark, SmbRelease, SmbSaveLog, SmbMetadataFails
  <1>5. CASE Transcript
    <2>1. CASE TranscriptGivesUp
      BY <2>1 DEF TranscriptGivesUp, TypeOK
    <2>2. QED
      BY <1>5, <2>1
      DEF Transcript, TranscriptProgress, TranscriptRepair, TranscriptDiscover, TranscriptClaim,
          TranscriptTranscribe, TranscriptPersist, TranscriptPublish, TranscriptMark, TranscriptRelease
  <1>6. CASE Cleanup \/ CleanupFails \/ CleanupSkips \/ RoundElapses \/ RetentionElapses \/ DiskChanges
             \/ DeadLeasesExpire
    BY <1>6
    DEF Cleanup, CleanupFails, CleanupSkips, RoundElapses, RetentionElapses, DiskChanges, DeadLeasesExpire
  <1>7. ASSUME NEW w \in Worker, CrashWorker(w) PROVE UNCHANGED outVars
    BY <1>7 DEF CrashWorker
  <1>8. CASE LogForgets \/ UNCHANGED vars
    BY <1>8, LogFades DEF vars
  <1>9. QED BY <1>1, <1>3, <1>4, <1>5, <1>6, <1>7, <1>8 DEF Next

Truth == Left /\ MarkersTruthful

LEMMA TruthStep == TypeOK /\ Truth /\ [Next]_vars => Truth'
  <1> SUFFICES ASSUME TypeOK, Truth, [Next]_vars PROVE Truth'
    OBVIOUS
  <1> USE DEF At, fileVars, workVars, outVars, Left, MarkersTruthful, Referenced
  \* A step of somebody else, or one that takes a worker to a label that says nothing.
  <1>1. ASSUME UNCHANGED <<log, marker>>,
               pc'["smb"] = pc["smb"] \/ pc'["smb"] \notin {"published", "marked", "logDone"},
               \/ pc'["transcript"] = pc["transcript"]
               \/ (pc["transcript"] # "idle" /\ pc'["transcript"] \notin {"persisted", "published"})
               \/ pc'["transcript"] = "idle"
        PROVE  Truth'
    BY <1>1, Outlast DEF Truth
  <1>2. ASSUME NEW w \in {"capture", "uploader"}, NEW l, Goto(w, l) \/ UNCHANGED pc,
               UNCHANGED <<log, marker>>
        PROVE  Truth'
    BY <1>1, <1>2 DEF Goto, TypeOK, Worker
  <1>3. CASE Capture
    BY <1>2, <1>3
    DEF Capture, CaptureProgress, StartCapture, WriteChunk, WriteFails, FinalizeCapture,
        EnqueueUpload, EnqueueFails, ReleaseCapture
  <1>4. ASSUME NEW w \in {"uploader", "smb"}, Converting(w) \/ ConvertFails(w) PROVE Truth'
    <2>1. PICK l \in {"ffmpeg", "convert", "failed"} : Goto(w, l) \/ UNCHANGED pc
      BY <1>4 DEF Converting, ConvertStart, ConvertSkip, ConvertFinish, ConvertFails
    <2>2. UNCHANGED <<log, marker>>
      BY <1>4 DEF Converting, ConvertStart, ConvertSkip, ConvertFinish, ConvertFails
    <2>3. QED BY <1>1, <2>1, <2>2 DEF Goto, TypeOK, Worker
  <1>5. CASE Upload
    BY <1>2, <1>4, <1>5
    DEF Upload, UploadProgress, StartUpload, UploadBusy, FinishUpload, RetryUpload, UploadCancelled
  <1>6. CASE Smb
    <2>1. ASSUME NEW l \in Labels \ {"published", "marked", "logDone"}, Goto("smb", l),
                 UNCHANGED <<log, marker>>
          PROVE  Truth'
      BY <1>1, <2>1 DEF Goto, TypeOK, Worker
    <2>2. CASE SmbDiscover \/ SmbClaim \/ SmbMono \/ SmbConverted \/ SmbMixStart \/ SmbMixFinish
               \/ SmbMetadataFails
      BY <2>1, <2>2
      DEF SmbDiscover, SmbClaim, SmbMono, SmbConverted, SmbMixStart, SmbMixFinish, SmbMetadataFails,
          Labels
    <2>3. CASE SmbPublish \/ SmbMark
      <3>1. remote' /\ UNCHANGED <<log, db, md>> /\ pc'["transcript"] = pc["transcript"]
            /\ marker' \subseteq marker \cup {"smb"}
        BY <2>3, Outlast DEF SmbPublish, SmbMark, Goto, TypeOK, Worker, Truth
      <3>2. QED BY <3>1 DEF Truth
    <2>4. CASE SmbGivesUp
      <3>1. /\ marker' = marker \/ (marker' = marker \cup {"smb"} /\ remote)
            /\ pc'["smb"] \in {"failed", "skipped"} /\ pc'["transcript"] = pc["transcript"]
            /\ UNCHANGED <<log, db, md>>
        BY <2>4 DEF SmbGivesUp, Goto, TypeOK, Worker, Truth
      <3>2. QED BY <3>1, Outlast DEF Truth
    <2>5. CASE SmbRelease
      <3>1. /\ pc'["smb"] = "logDone" => remote
            /\ pc'["smb"] \in {"logDone", "logPending", "idle"}
            /\ pc'["transcript"] = pc["transcript"] /\ UNCHANGED outVars
        BY <2>5 DEF SmbRelease, Goto, TypeOK, Worker, Truth
      <3>2. QED BY <3>1 DEF Truth
    <2>6. CASE SmbSaveLog
      <3>1. /\ log' # "pending" => remote /\ log' = "done"
            /\ pc'["smb"] = "idle" /\ pc'["transcript"] = pc["transcript"]
            /\ UNCHANGED <<marker, remote, db, md>>
        BY <2>6 DEF SmbSaveLog, Goto, TypeOK, Worker, Truth
      <3>2. QED BY <3>1 DEF Truth
    <2>7. QED BY <1>4, <1>6, <2>2, <2>3, <2>4, <2>5, <2>6 DEF Smb, SmbProgress
  <1>7. CASE Transcript
    <2>1. ASSUME NEW l \in Labels, Goto("transcript", l) PROVE pc'["transcript"] = l /\ pc'["smb"] = pc["smb"]
      BY <2>1 DEF Goto, TypeOK, Worker
    <2>2. CASE TranscriptRepair
      <3>1. remote /\ db /\ md /\ UNCHANGED <<pc, log, remote, db, md>>
            /\ marker' = marker \cup {"transcription"}
        BY <2>2 DEF TranscriptRepair, Transcribable, Rows
      <3>2. QED BY <3>1 DEF Truth
    <2>3. CASE TranscriptDiscover
      <3>1. remote /\ UNCHANGED outVars /\ pc'["transcript"] = "claim" /\ pc'["smb"] = pc["smb"]
        BY <2>1, <2>3 DEF TranscriptDiscover, Transcribable, Labels
      <3>2. QED BY <3>1 DEF Truth
    <2>4. CASE TranscriptClaim \/ TranscriptTranscribe \/ TranscriptGivesUp \/ TranscriptRelease
      <3>1. PICK l \in {"work", "release", "idle", "transcribed"} : Goto("transcript", l)
        BY <2>4 DEF TranscriptClaim, TranscriptTranscribe, TranscriptGivesUp, TranscriptRelease
      <3>2. pc["transcript"] # "idle" /\ UNCHANGED <<log, marker>>
        BY <2>4 DEF TranscriptClaim, TranscriptTranscribe, TranscriptGivesUp, TranscriptRelease
      <3>3. QED BY <1>1, <2>1, <3>1, <3>2 DEF Labels
    <2>5. CASE TranscriptPersist \/ TranscriptPublish \/ TranscriptMark
      <3>1. /\ pc["transcript"] # "idle" /\ UNCHANGED <<log, remote>>
            /\ pc'["smb"] = pc["smb"]
            /\ pc'["transcript"] \in {"persisted", "published", "release"}
            /\ pc'["transcript"] \in {"persisted", "published"} => db'
            /\ pc'["transcript"] = "published" => md'
            /\ marker' = marker \/ (marker' = marker \cup {"transcription"} /\ db' /\ md')
        BY <2>1, <2>5, Outlast DEF TranscriptPersist, TranscriptPublish, TranscriptMark, Labels, Truth
      <3>2. QED BY <3>1, Outlast DEF Truth
    <2>6. QED BY <1>7, <2>2, <2>3, <2>4, <2>5 DEF Transcript, TranscriptProgress
  <1>8. CASE Cleanup \/ CleanupFails \/ CleanupSkips \/ RoundElapses \/ RetentionElapses \/ DiskChanges
             \/ DeadLeasesExpire
    BY <1>1, <1>8
    DEF Cleanup, CleanupFails, CleanupSkips, RoundElapses, RetentionElapses, DiskChanges, DeadLeasesExpire
  <1>9. ASSUME NEW w \in Worker, CrashWorker(w) PROVE Truth'
    <2>1. pc'["smb"] # pc["smb"] => pc'["smb"] = "idle"
      BY <1>9 DEF CrashWorker, Goto, TypeOK, Worker
    <2>2. pc'["transcript"] # pc["transcript"] => pc'["transcript"] = "idle"
      BY <1>9 DEF CrashWorker, Goto, TypeOK, Worker
    <2>3. QED BY <1>1, <1>9, <2>1, <2>2 DEF CrashWorker, Worker
  <1>10. CASE LogForgets
    BY <1>10, LogFades DEF Truth
  <1>11. CASE UNCHANGED vars
    BY <1>1, <1>11 DEF vars
  <1>12. QED BY <1>3, <1>5, <1>6, <1>7, <1>8, <1>9, <1>10, <1>11 DEF Next

(***************************************************************************)
(* What cleanup takes away                                                 *)
(***************************************************************************)

\* Only cleanup takes the audio of a channel away, and only what is deletable.
LEMMA OnlyCleanup ==
    ASSUME TypeOK, [Next]_vars, NEW c \in Channel, NEW f \in {Raw(c), Wav(c)} \cap files, f \notin files'
    PROVE  \E gone \in SUBSET Deletable : files' = files \ gone
  <1> USE DEF fileVars, workVars, outVars
  <1>1. f \in Final /\ f # Stereo /\ f \notin Temporary
    BY Names
  <1>2. ASSUME UNCHANGED files PROVE FALSE
    BY <1>2
  <1>3. CASE Capture
    <2>1. ASSUME NEW d \in Channel, WriteChunk(d) \/ WriteFails(d) PROVE FALSE
      BY <2>1, <1>2 DEF WriteChunk, WriteFails, FilesBecome
    <2>2. CASE FinalizeCapture
      BY <2>2, <1>1, Names DEF FinalizeCapture, FilesBecome
    <2>3. QED
      BY <1>2, <1>3, <2>1, <2>2
      DEF Capture, CaptureProgress, StartCapture, EnqueueUpload, EnqueueFails, ReleaseCapture
  <1>4. ASSUME NEW w \in {"uploader", "smb"}, Converting(w) \/ ConvertFails(w) PROVE FALSE
    <2>1. WavTmp(NextChannel(w)) \in Temporary
      BY Names, NextChannelType DEF Worker
    <2>2. QED
      BY <1>1, <1>2, <1>4, <2>1
      DEF Converting, ConvertStart, ConvertSkip, ConvertFinish, ConvertFails, FilesBecome
  <1>5. CASE Upload
    <2>1. CASE UploadCancelled
      BY <2>1, <1>1, Names, NextChannelType DEF UploadCancelled, FilesBecome, Worker
    <2>2. QED
      BY <1>2, <1>4, <1>5, <2>1
      DEF Upload, UploadProgress, StartUpload, UploadBusy, FinishUpload, RetryUpload
  <1>6. CASE Smb
    <2>1. CASE SmbMixStart \/ SmbMixFinish \/ SmbMark
      BY <2>1, <1>1, Names DEF SmbMixStart, SmbMixFinish, SmbMark, FilesBecome
    <2>2. CASE SmbGivesUp
      <3>1. WavTmp(NextChannel("smb")) \in Temporary /\ StereoTmp \in Temporary
        BY Names, NextChannelType DEF Worker
      <3>2. QED BY <2>2, <3>1, <1>1 DEF SmbGivesUp, FilesBecome
    <2>3. QED
      BY <1>2, <1>4, <1>6, <2>1, <2>2
      DEF Smb, SmbProgress, SmbDiscover, SmbClaim, SmbMono, SmbConverted, SmbPublish, SmbRelease,
          SmbSaveLog, SmbMetadataFails
  <1>7. CASE Transcript
    BY <1>2, <1>7
    DEF Transcript, TranscriptProgress, TranscriptRepair, TranscriptDiscover, TranscriptClaim,
        TranscriptTranscribe, TranscriptPersist, TranscriptPublish, TranscriptMark, TranscriptRelease,
        TranscriptGivesUp
  <1>8. CASE Cleanup
    BY <1>8 DEF Cleanup
  <1>9. CASE CleanupFails
    BY <1>9 DEF CleanupFails, FilesBecome
  <1>10. CASE CleanupSkips \/ RoundElapses \/ RetentionElapses \/ DiskChanges \/ DeadLeasesExpire
    BY <1>2, <1>10 DEF CleanupSkips, RoundElapses, RetentionElapses, DiskChanges, DeadLeasesExpire
  <1>11. ASSUME NEW w \in Worker, CrashWorker(w) PROVE FALSE
    BY <1>2, <1>11 DEF CrashWorker
  <1>12. QED
    BY <1>2, <1>3, <1>5, <1>6, <1>7, <1>8, <1>9, <1>10, <1>11, LogFades DEF Next, vars

\* Whoever needs the recording has its output, once the markers say so.
LEMMA ConsumedIsOut ==
    ASSUME IInv, FullyConsumed
    PROVE  Required # {} /\ \A k \in Required : Outputs[k]
  <1>1. ASSUME NEW k \in Required PROVE Outputs[k]
    <2>1. k \in marker /\ (k = "smb" \/ k = "transcription")
      BY PipelineAssumption DEF FullyConsumed, Consumer
    <2>2. CASE k = "smb"
      BY <2>1, <2>2 DEF IInv, Outputs, MarkersTruthful
    <2>3. CASE k = "transcription"
      BY <2>1, <2>3 DEF IInv, Outputs, MarkersTruthful, Left
    <2>4. QED BY <2>1, <2>2, <2>3
  <1>2. QED BY <1>1 DEF FullyConsumed

(***************************************************************************)
(* Theorems                                                                *)
(***************************************************************************)

LEMMA Start == Init => IInv
  <1> SUFFICES ASSUME Init PROVE IInv
    OBVIOUS
  <1>1. TypeOK
    <2>1. silent \in BOOLEAN /\ row \in BOOLEAN
      BY DEF Init
    <2>2. lease \in [Stage -> Worker \cup {Nobody, Dead}] /\ pc \in [Worker -> Labels]
          /\ todo \in [Worker -> SUBSET Channel] /\ faults \in 0 .. MaxFaults
      BY PipelineAssumption DEF Init, Labels
    <2>3. QED BY <2>1, <2>2 DEF Init, TypeOK
  <1>2. Exclusion
    BY Owners DEF Init, Exclusion, Places, Entitled, OneOwner, Out, In, Worker
  <1>3. InputsStay
    BY DEF Init, InputsStay, At, Worker
  <1>4. Left /\ MarkersTruthful
    BY DEF Init, Left, MarkersTruthful, Referenced, At, Worker
  <1>5. QED BY <1>1, <1>2, <1>3, <1>4 DEF IInv

\* The invariant: the types, the leases the workers have at their labels, what
\* they work on, and what stands for what on the disk, in the log and outside.
THEOREM Invariance == Spec => []IInv
  <1>1. IInv /\ [Next]_vars => IInv'
    BY TypeStep, ExclusionStep, InputsStep, TruthStep DEF IInv, Truth
  <1>2. QED BY Start, <1>1, PTL DEF Spec

\* RecordingPipeline keeps its types.
THEOREM TypeCorrect == Spec => []TypeOK
  <1>1. IInv => TypeOK
    BY DEF IInv
  <1>2. QED BY <1>1, Invariance, PTL

\* The lease that one of capture, upload, backup and transcription holds keeps
\* all the others out of the directory, over any number of crashes, retries and
\* cancellations.
THEOREM Exclusive == Spec => []OneWorkerInside
  <1>1. IInv => OneWorkerInside
    <2> SUFFICES ASSUME IInv, NEW w \in Worker, NEW s \in Stage, pc[w] \in Busy
                 PROVE  lease[s] \in {w, Nobody} /\ w \in Inside
      BY DEF OneWorkerInside
    <2>1. pc[w] \in In[w]
      BY DEF IInv, Exclusion, Places, Busy, Out, Worker
    <2>2. lease[Entry[w]] = w /\ Entry[w] \in Stage
      BY <2>1, Owners DEF IInv, Exclusion, Entitled
    <2>3. QED BY <2>1, <2>2, Alone DEF IInv, Inside
  <1>2. QED BY <1>1, Invariance, PTL

\* No worker loses a file it works on, to whatever cleanup decides, retention
\* and the other workers included.
THEOREM InputsAreKept == Spec => []InputsStay
  <1>1. IInv => InputsStay
    BY DEF IInv
  <1>2. QED BY <1>1, Invariance, PTL

\* A consumed marker and a done in the transfer log are true, whatever fails.
THEOREM MarkersAreTrue == Spec => []MarkersTruthful
  <1>1. IInv => MarkersTruthful
    BY DEF IInv
  <1>2. QED BY <1>1, Invariance, PTL

\* The last copy of a channel goes only when every required consumer has its
\* output, or past retention, and then not while a transcription waits for the
\* WAV and the disk has room.
THEOREM AudioIsUsed == Spec => AudioOutlivesItsUse
  <1> DEFINE Used(c) ==
        \/ Required # {} /\ \A k \in Required : Outputs[k]
        \/ /\ {Raw(c), Wav(c)} \cap files \subseteq expired
           /\ Wav(c) \in files /\ TranscriptionPending => lowDisk
  <1>1. IInv /\ [Next]_vars => [\A c \in Channel : HasAudio(c) /\ ~HasAudio(c)' => Used(c)]_vars
    <2> SUFFICES ASSUME IInv, [Next]_vars, NEW c \in Channel, HasAudio(c), ~HasAudio(c)', ~FullyConsumed
                 PROVE  Used(c)
      BY ConsumedIsOut
    <2>1. PICK gone \in SUBSET Deletable : files' = files \ gone
      BY OnlyCleanup DEF IInv, HasAudio
    <2>2. ASSUME NEW f \in {Raw(c), Wav(c)} \cap files
          PROVE  f \in expired /\ ~(PreserveBacklog /\ \E d \in Channel : f = Wav(d))
      <3>1. f \in Deletable
        BY <2>1, <2>2 DEF HasAudio
      <3>2. f \notin due
        BY Names DEF IInv, TypeOK
      <3>3. QED BY <3>1, <3>2 DEF Deletable
    <2>3. Wav(c) \in files /\ TranscriptionPending => lowDisk
      BY <2>2 DEF PreserveBacklog
    <2>4. QED BY <2>2, <2>3
  <1>2. QED BY <1>1, Invariance, PTL DEF Spec, AudioOutlivesItsUse

(***************************************************************************)
(* The life of the recording                                               *)
(***************************************************************************)

\* Before the capture has ended there is nothing to work on, and nobody works.
Fresh ==
    ~Captured => /\ files \cap Consumable = {} /\ job = "none"
                 /\ \A w \in Worker \ {"capture"} : pc[w] = "idle"

\* A backup cycle works on no call that the log has as done.
Undone == pc["smb"] # "idle" => log # "done"

\* Nothing of the transcript is there before the backup.
Based == db \/ md => remote

LInv == IInv /\ Fresh /\ Undone /\ Based

\* The capture alone has to do with a call that is not captured yet.
LEMMA CaptureFirst ==
    ASSUME TypeOK, Fresh, ~Captured
    PROVE  /\ ~Upload /\ ~Smb /\ ~Transcript
           /\ \A w \in Worker \ {"capture"} : ~CrashWorker(w)
  <1> USE DEF At
  <1>1. /\ files \cap Consumable = {} /\ job = "none"
        /\ pc["uploader"] = "idle" /\ pc["smb"] = "idle" /\ pc["transcript"] = "idle"
    BY DEF Fresh, Worker
  <1>2. ~StableInput /\ ~Ready
    <2>1. Raw("tx") \in Consumable /\ Wav("tx") \in Consumable /\ "tx" \in Channel
      BY DEF Consumable, Channel
    <2>2. QED BY <1>1, <2>1 DEF StableInput, Ready, Pair
  <1>3. \A w \in {"uploader", "smb"} : ~Converting(w) /\ ~ConvertFails(w)
    BY <1>1 DEF Converting, ConvertStart, ConvertSkip, ConvertFinish, ConvertFails
  <1>4. ~Upload
    BY <1>1, <1>3 DEF Upload, UploadProgress, StartUpload, UploadBusy, FinishUpload, RetryUpload, UploadCancelled
  <1>5. ~Smb
    BY <1>1, <1>2, <1>3
    DEF Smb, SmbProgress, SmbDiscover, SmbClaim, SmbMono, SmbConverted, SmbMixStart, SmbMixFinish,
        SmbPublish, SmbMark, SmbRelease, SmbSaveLog, SmbMetadataFails, SmbGivesUp
  <1>6. ~Transcript
    BY <1>1, <1>2
    DEF Transcript, TranscriptProgress, TranscriptRepair, TranscriptDiscover, TranscriptClaim,
        TranscriptTranscribe, TranscriptPersist, TranscriptPublish, TranscriptMark, TranscriptRelease,
        TranscriptGivesUp, Transcribable
  <1>7. \A w \in Worker \ {"capture"} : ~CrashWorker(w)
    BY <1>1 DEF CrashWorker, Worker
  <1>8. QED BY <1>4, <1>5, <1>6, <1>7

\* The capture's label is its own.
LEMMA CaptureStays ==
    ASSUME TypeOK, [Next]_vars, ~Capture, ~CrashWorker("capture")
    PROVE  (Captured' <=> Captured)
  <1> USE DEF At, fileVars, workVars, outVars
  <1>1. ASSUME NEW w \in Worker \ {"capture"}, NEW l, Goto(w, l) PROVE (Captured' <=> Captured)
    BY <1>1 DEF Captured, Goto, TypeOK, Worker
  <1>2. ASSUME UNCHANGED pc PROVE (Captured' <=> Captured)
    BY <1>2 DEF Captured
  <1>3. ASSUME NEW w \in {"uploader", "smb"}, Converting(w) \/ ConvertFails(w) PROVE (Captured' <=> Captured)
    BY <1>1, <1>2, <1>3 DEF Converting, ConvertStart, ConvertSkip, ConvertFinish, ConvertFails, Worker
  <1>4. CASE Upload
    BY <1>1, <1>2, <1>3, <1>4
    DEF Upload, UploadProgress, StartUpload, UploadBusy, FinishUpload, RetryUpload, UploadCancelled, Worker
  <1>5. CASE Smb
    BY <1>1, <1>3, <1>5
    DEF Smb, SmbProgress, SmbDiscover, SmbClaim, SmbMono, SmbConverted, SmbMixStart, SmbMixFinish,
        SmbPublish, SmbMark, SmbRelease, SmbSaveLog, SmbMetadataFails, SmbGivesUp, Worker
  <1>6. CASE Transcript
    BY <1>1, <1>2, <1>6
    DEF Transcript, TranscriptProgress, TranscriptRepair, TranscriptDiscover, TranscriptClaim,
        TranscriptTranscribe, TranscriptPersist, TranscriptPublish, TranscriptMark, TranscriptRelease,
        TranscriptGivesUp, Worker
  <1>7. CASE Cleanup \/ CleanupFails \/ CleanupSkips \/ RoundElapses \/ RetentionElapses \/ DiskChanges
             \/ DeadLeasesExpire
    BY <1>2, <1>7
    DEF Cleanup, CleanupFails, CleanupSkips, RoundElapses, RetentionElapses, DiskChanges, DeadLeasesExpire
  <1>8. ASSUME NEW w \in Worker \ {"capture"}, CrashWorker(w) PROVE (Captured' <=> Captured)
    BY <1>1, <1>8 DEF CrashWorker
  <1>9. CASE LogForgets \/ UNCHANGED vars
    BY <1>2, <1>9, LogFades DEF vars
  <1>10. QED BY <1>4, <1>5, <1>6, <1>7, <1>8, <1>9 DEF Next

\* What the capture's own steps do to its label.
LEMMA CaptureMoves ==
    ASSUME TypeOK, Capture \/ CrashWorker("capture")
    PROVE  /\ FinalizeCapture \/ CrashWorker("capture") => Captured'
           /\ ~FinalizeCapture /\ ~CrashWorker("capture") => (Captured' <=> Captured)
           /\ \A w \in Worker \ {"capture"} : pc'[w] = pc[w]
  <1>1. PICK l : UNCHANGED pc \/ Goto("capture", l)
    BY DEF Capture, CaptureProgress, StartCapture, WriteChunk, WriteFails, FinalizeCapture,
       EnqueueUpload, EnqueueFails, ReleaseCapture, CrashWorker, workVars
  <1>2. \A w \in Worker \ {"capture"} : pc'[w] = pc[w]
    BY <1>1 DEF Goto, TypeOK
  <1>3. CASE FinalizeCapture \/ CrashWorker("capture")
    BY <1>3 DEF FinalizeCapture, CrashWorker, Goto, TypeOK, Worker, Captured
  <1>4. CASE ~FinalizeCapture /\ ~CrashWorker("capture")
    BY <1>4
    DEF Capture, CaptureProgress, StartCapture, WriteChunk, WriteFails, EnqueueUpload, EnqueueFails,
        ReleaseCapture, Goto, At, TypeOK, Worker, Captured, workVars
  <1>5. QED BY <1>2, <1>3, <1>4

LEMMA FreshStep == TypeOK /\ Fresh /\ [Next]_vars => Fresh'
  <1> SUFFICES ASSUME TypeOK, Fresh, [Next]_vars, ~Captured' PROVE Fresh'
    BY DEF Fresh
  <1> USE DEF fileVars, workVars, outVars
  <1>1. ~Captured /\ ~FinalizeCapture /\ ~CrashWorker("capture")
    <2>1. CASE Capture \/ CrashWorker("capture")
      BY <2>1, CaptureMoves
    <2>2. CASE ~Capture /\ ~CrashWorker("capture")
      BY <2>2, CaptureStays DEF Capture, CaptureProgress
    <2>3. QED BY <2>1, <2>2
  <1>2. ASSUME files' \cap Consumable \subseteq files, UNCHANGED job,
               \A w \in Worker \ {"capture"} : pc'[w] = pc[w]
        PROVE  Fresh'
    BY <1>1, <1>2 DEF Fresh
  <1>3. CASE Capture
    <2>1. \A w \in Worker \ {"capture"} : pc'[w] = pc[w]
      BY <1>3, CaptureMoves
    <2>2. ASSUME NEW c \in Channel, WriteChunk(c) PROVE Fresh'
      <3>1. files' = files \cup {RawTmp(c)} /\ UNCHANGED job
        BY <2>2 DEF WriteChunk, FilesBecome
      <3>2. RawTmp(c) \notin Consumable
        BY Names DEF Final
      <3>3. QED BY <1>2, <2>1, <3>1, <3>2
    <2>3. CASE EnqueueUpload \/ EnqueueFails \/ ReleaseCapture
      BY <1>1, <2>3 DEF EnqueueUpload, EnqueueFails, ReleaseCapture, At, Captured
    <2>4. CASE StartCapture \/ \E c \in Channel : WriteFails(c)
      BY <1>2, <2>1, <2>4 DEF StartCapture, WriteFails
    <2>5. QED BY <1>1, <1>3, <2>2, <2>3, <2>4 DEF Capture, CaptureProgress
  <1>4. CASE Cleanup \/ CleanupFails \/ CleanupSkips \/ RoundElapses \/ RetentionElapses \/ DiskChanges
             \/ DeadLeasesExpire
    <2>1. files' \subseteq files /\ UNCHANGED <<pc, job>>
      BY <1>4
      DEF Cleanup, CleanupFails, CleanupSkips, RoundElapses, RetentionElapses, DiskChanges,
          DeadLeasesExpire, FilesBecome
    <2>2. QED BY <1>2, <2>1
  <1>5. CASE LogForgets \/ UNCHANGED vars
    BY <1>2, <1>5, LogFades DEF vars
  <1>6. QED BY <1>1, <1>3, <1>4, <1>5, CaptureFirst DEF Next

\* The log and the outputs, where a step may change them.
LEMMA UndoneStep == TypeOK /\ Undone /\ [Next]_vars => Undone'
  <1> SUFFICES ASSUME TypeOK, Undone, [Next]_vars PROVE Undone'
    OBVIOUS
  <1> USE DEF At, fileVars, workVars, outVars
  <1>1. ASSUME UNCHANGED log, pc'["smb"] \in {"idle", pc["smb"]} \/ pc["smb"] # "idle" PROVE Undone'
    BY <1>1 DEF Undone
  <1>2. ASSUME NEW w \in Worker \ {"smb"}, NEW l, Goto(w, l) \/ UNCHANGED pc, UNCHANGED log PROVE Undone'
    BY <1>1, <1>2 DEF Goto, TypeOK, Worker
  <1>3. CASE Capture
    BY <1>2, <1>3
    DEF Capture, CaptureProgress, StartCapture, WriteChunk, WriteFails, FinalizeCapture,
        EnqueueUpload, EnqueueFails, ReleaseCapture, Worker
  <1>4. ASSUME NEW w \in {"uploader", "smb"}, Converting(w) \/ ConvertFails(w) PROVE Undone'
    <2>1. UNCHANGED log /\ pc[w] # "idle" /\ \E l : Goto(w, l) \/ UNCHANGED pc
      BY <1>4 DEF Converting, ConvertStart, ConvertSkip, ConvertFinish, ConvertFails
    <2>2. QED BY <1>1, <1>2, <2>1 DEF Worker
  <1>5. CASE Upload
    BY <1>2, <1>4, <1>5
    DEF Upload, UploadProgress, StartUpload, UploadBusy, FinishUpload, RetryUpload, UploadCancelled, Worker
  <1>6. CASE Smb
    <2>1. CASE SmbDiscover
      BY <2>1 DEF SmbDiscover, Undone
    <2>2. CASE SmbSaveLog
      BY <2>2 DEF SmbSaveLog, Goto, TypeOK, Worker, Undone
    <2>3. QED
      BY <1>1, <1>4, <1>6, <2>1, <2>2
      DEF Smb, SmbProgress, SmbClaim, SmbMono, SmbConverted, SmbMixStart, SmbMixFinish, SmbPublish,
          SmbMark, SmbRelease, SmbMetadataFails, SmbGivesUp
  <1>7. CASE Transcript
    BY <1>2, <1>7
    DEF Transcript, TranscriptProgress, TranscriptRepair, TranscriptDiscover, TranscriptClaim,
        TranscriptTranscribe, TranscriptPersist, TranscriptPublish, TranscriptMark, TranscriptRelease,
        TranscriptGivesUp, Worker
  <1>8. CASE Cleanup \/ CleanupFails \/ CleanupSkips \/ RoundElapses \/ RetentionElapses \/ DiskChanges
             \/ DeadLeasesExpire
    BY <1>1, <1>8
    DEF Cleanup, CleanupFails, CleanupSkips, RoundElapses, RetentionElapses, DiskChanges, DeadLeasesExpire
  <1>9. ASSUME NEW w \in Worker, CrashWorker(w) PROVE Undone'
    <2>1. pc'["smb"] \in {"idle", pc["smb"]} /\ UNCHANGED log
      BY <1>9 DEF CrashWorker, Goto, TypeOK, Worker
    <2>2. QED BY <1>1, <2>1
  <1>10. CASE LogForgets
    BY <1>10, LogFades DEF Undone
  <1>11. CASE UNCHANGED vars
    BY <1>1, <1>11 DEF vars
  <1>12. QED BY <1>3, <1>5, <1>6, <1>7, <1>8, <1>9, <1>10, <1>11 DEF Next

\* The steps that make an output, report one, or forget a report.
Delivers ==
    \/ LogForgets
    \/ SmbPublish \/ SmbMark \/ SmbGivesUp \/ SmbSaveLog
    \/ TranscriptRepair \/ TranscriptPersist \/ TranscriptPublish \/ TranscriptMark \/ TranscriptGivesUp

LEMMA OutputsStay ==
    ASSUME [Next]_vars, ~Delivers
    PROVE  UNCHANGED <<remote, db, md, log, marker>>
  <1> USE DEF fileVars, workVars, outVars
  <1>1. CASE Capture
    BY <1>1
    DEF Capture, CaptureProgress, StartCapture, WriteChunk, WriteFails, FinalizeCapture,
        EnqueueUpload, EnqueueFails, ReleaseCapture
  <1>2. ASSUME NEW w \in {"uploader", "smb"}, Converting(w) \/ ConvertFails(w)
        PROVE  UNCHANGED outVars
    BY <1>2 DEF Converting, ConvertStart, ConvertSkip, ConvertFinish, ConvertFails
  <1>3. CASE Upload
    BY <1>2, <1>3
    DEF Upload, UploadProgress, StartUpload, UploadBusy, FinishUpload, RetryUpload, UploadCancelled
  <1>4. CASE Smb
    BY <1>2, <1>4
    DEF Delivers, Smb, SmbProgress, SmbDiscover, SmbClaim, SmbMono, SmbConverted, SmbMixStart,
        SmbMixFinish, SmbRelease, SmbMetadataFails
  <1>5. CASE Transcript
    BY <1>5
    DEF Delivers, Transcript, TranscriptProgress, TranscriptDiscover, TranscriptClaim,
        TranscriptTranscribe, TranscriptRelease
  <1>6. CASE Cleanup \/ CleanupFails \/ CleanupSkips \/ RoundElapses \/ RetentionElapses \/ DiskChanges
             \/ DeadLeasesExpire
    BY <1>6
    DEF Cleanup, CleanupFails, CleanupSkips, RoundElapses, RetentionElapses, DiskChanges, DeadLeasesExpire
  <1>7. ASSUME NEW w \in Worker, CrashWorker(w) PROVE UNCHANGED outVars
    BY <1>7 DEF CrashWorker
  <1>8. CASE UNCHANGED vars
    BY <1>8 DEF vars
  <1>9. QED BY <1>1, <1>3, <1>4, <1>5, <1>6, <1>7, <1>8 DEF Next, Delivers

LEMMA BasedStep == TypeOK /\ Truth /\ Based /\ [Next]_vars => Based'
  <1> SUFFICES ASSUME TypeOK, Truth, Based, [Next]_vars PROVE Based'
    OBVIOUS
  <1>1. remote => remote'
    BY Outlast
  <1>2. CASE UNCHANGED <<db, md>>
    BY <1>1, <1>2 DEF Based
  <1>3. CASE TranscriptPersist \/ TranscriptPublish \/ TranscriptGivesUp
    <2>1. pc["transcript"] # "idle"
      BY <1>3 DEF TranscriptPersist, TranscriptPublish, TranscriptGivesUp, At
    <2>2. QED BY <1>1, <2>1 DEF Truth, Left, Based
  <1>4. QED
    BY <1>2, <1>3, OutputsStay, LogFades
    DEF Delivers, SmbPublish, SmbMark, SmbGivesUp, SmbSaveLog, TranscriptRepair, TranscriptMark

\* Only the end of the capture and cleanup change which channels have audio.
LEMMA AudioStays ==
    ASSUME IInv, [Next]_vars, ~FinalizeCapture, ~Cleanup, ~CleanupFails
    PROVE  OnDisk' = OnDisk
  <1> SUFFICES ASSUME NEW c \in Channel PROVE HasAudio(c)' <=> HasAudio(c)
    BY DEF OnDisk
  <1> USE DEF fileVars, workVars, outVars
  <1>1. /\ {Raw(c), Wav(c)} \cap Temporary = {} /\ Stereo \notin {Raw(c), Wav(c)}
        /\ \A d \in Channel : Wav(d) \in {Raw(c), Wav(c)} => d = c
    <2>1. \A d \in Channel : Wav(d) = Wav(c) => d = c
      BY DEF Wav
    <2>2. QED BY <2>1, Names
  <1>2. ASSUME \A f : f \notin Temporary /\ f # Stereo => (f \in files' <=> f \in files)
        PROVE  HasAudio(c)' <=> HasAudio(c)
    BY <1>1, <1>2 DEF HasAudio
  <1>3. ASSUME UNCHANGED files PROVE HasAudio(c)' <=> HasAudio(c)
    BY <1>3 DEF HasAudio
  <1>4. CASE Capture
    <2>1. ASSUME NEW d \in Channel, WriteChunk(d) PROVE HasAudio(c)' <=> HasAudio(c)
      <3>1. files' = files \cup {RawTmp(d)} /\ RawTmp(d) \in Temporary
        BY <2>1, Names DEF WriteChunk, FilesBecome
      <3>2. QED BY <1>2, <3>1
    <2>2. QED
      BY <1>3, <1>4, <2>1
      DEF Capture, CaptureProgress, StartCapture, WriteFails, EnqueueUpload, EnqueueFails, ReleaseCapture
  <1>5. ASSUME NEW w \in {"uploader", "smb"}, Converting(w) \/ ConvertFails(w)
        PROVE  HasAudio(c)' <=> HasAudio(c)
    <2>1. PICK d \in Channel : d = NextChannel(w) /\ WavTmp(d) \in Temporary
      BY Names, NextChannelType DEF Worker
    <2>2. CASE ConvertStart(w)
      <3>1. files' = files \cup {WavTmp(d)}
        BY <2>1, <2>2 DEF ConvertStart, FilesBecome
      <3>2. QED BY <1>2, <2>1, <3>1
    <2>3. CASE ConvertSkip(w)
      BY <1>3, <2>3 DEF ConvertSkip
    <2>4. CASE ConvertFinish(w)
      <3>1. files' = (files \ {WavTmp(d)}) \cup {Wav(d)} /\ Raw(d) \in files
        BY <2>1, <2>4 DEF ConvertFinish, FilesBecome, IInv, InputsStay
      <3>2. QED BY <1>1, <2>1, <3>1 DEF HasAudio
    <2>5. CASE ConvertFails(w)
      <3>1. files' = files \ {WavTmp(d)}
        BY <2>1, <2>5 DEF ConvertFails, FilesBecome
      <3>2. QED BY <1>2, <2>1, <3>1
    <2>6. Converting(w) => ConvertStart(w) \/ ConvertSkip(w) \/ ConvertFinish(w)
      BY DEF Converting
    <2>7. QED BY <1>5, <2>2, <2>3, <2>4, <2>5, <2>6
  <1>6. CASE Upload
    <2>1. CASE UploadCancelled
      <3>1. \A f : f # WavTmp(NextChannel("uploader")) => (f \in files' <=> f \in files)
        BY <2>1 DEF UploadCancelled, FilesBecome
      <3>2. WavTmp(NextChannel("uploader")) \in Temporary
        BY Names, NextChannelType DEF Worker
      <3>3. QED BY <1>2, <3>1, <3>2
    <2>2. QED
      BY <1>3, <1>5, <1>6, <2>1
      DEF Upload, UploadProgress, StartUpload, UploadBusy, FinishUpload, RetryUpload
  <1>7. CASE Smb
    <2>1. CASE SmbMixStart \/ SmbMixFinish \/ SmbMark
      <3>1. \/ files' = files \cup {StereoTmp}
            \/ files' = (files \ {StereoTmp}) \cup {Stereo}
            \/ files' = files \ {Stereo}
        BY <2>1 DEF SmbMixStart, SmbMixFinish, SmbMark, FilesBecome
      <3>2. StereoTmp \in Temporary
        BY Names
      <3>3. QED BY <1>2, <3>1, <3>2
    <2>2. CASE SmbGivesUp
      <3>1. \A f : f \notin {WavTmp(NextChannel("smb")), StereoTmp} => (f \in files' <=> f \in files)
        BY <2>2 DEF SmbGivesUp, FilesBecome
      <3>2. {WavTmp(NextChannel("smb")), StereoTmp} \subseteq Temporary
        BY Names, NextChannelType DEF Worker
      <3>3. QED BY <1>2, <3>1, <3>2
    <2>3. QED
      BY <1>3, <1>5, <1>7, <2>1, <2>2
      DEF Smb, SmbProgress, SmbDiscover, SmbClaim, SmbMono, SmbConverted, SmbPublish, SmbRelease,
          SmbSaveLog, SmbMetadataFails
  <1>8. CASE Transcript
    BY <1>3, <1>8
    DEF Transcript, TranscriptProgress, TranscriptRepair, TranscriptDiscover, TranscriptClaim,
        TranscriptTranscribe, TranscriptPersist, TranscriptPublish, TranscriptMark, TranscriptRelease,
        TranscriptGivesUp
  <1>9. CASE CleanupSkips \/ RoundElapses \/ RetentionElapses \/ DiskChanges \/ DeadLeasesExpire
    BY <1>3, <1>9 DEF CleanupSkips, RoundElapses, RetentionElapses, DiskChanges, DeadLeasesExpire
  <1>10. ASSUME NEW w \in Worker, CrashWorker(w) PROVE HasAudio(c)' <=> HasAudio(c)
    BY <1>3, <1>10 DEF CrashWorker
  <1>11. CASE LogForgets \/ UNCHANGED vars
    BY <1>3, <1>11, LogFades DEF vars, IInv
  <1>12. QED BY <1>4, <1>6, <1>7, <1>8, <1>9, <1>10, <1>11 DEF Next


\* Cleanup takes the audio of a channel that every consumer has had, or of one
\* that is past retention.
LEMMA CleanupDrops ==
    ASSUME LInv, [Next]_vars, Cleanup \/ CleanupFails
    PROVE  Life!Drop(OnDisk \ OnDisk') /\ OnDisk' \subseteq OnDisk
  <1> DEFINE gone == OnDisk \ OnDisk'
  <1>1. files' \subseteq files /\ UNCHANGED <<pc, outVars>>
    BY DEF Cleanup, CleanupFails, FilesBecome, workVars
  <1>2. OnDisk' \subseteq OnDisk
    BY <1>1 DEF OnDisk, HasAudio
  <1>3. Captured' = Captured /\ Made' = Made /\ Reported' = Reported
    BY <1>1 DEF Captured, Made, Outputs, Reported, Referenced, outVars
  <1>4. CASE FullyConsumed
    <2>1. Required # {} /\ \A k \in Required : Outputs[k] /\ k \in Consumer
      BY <1>4, ConsumedIsOut, PipelineAssumption DEF LInv
    <2>2. QED BY <1>2, <1>3, <2>1 DEF Life!Drop, Made
  <1>5. CASE ~FullyConsumed
    <2>1. ASSUME NEW c \in Channel, HasAudio(c), ~HasAudio(c)' PROVE c \in Spare
      <3>1. PICK lost \in SUBSET Deletable : files' = files \ lost
        BY <2>1, OnlyCleanup DEF LInv, IInv, HasAudio
      <3>2. ASSUME NEW f \in {Raw(c), Wav(c)} \cap files
            PROVE  f \in expired /\ ~(PreserveBacklog /\ \E d \in Channel : f = Wav(d))
        <4>1. f \in Deletable
          BY <2>1, <3>1, <3>2 DEF HasAudio
        <4>2. f \notin due
          BY Names DEF LInv, IInv, TypeOK
        <4>3. QED BY <1>5, <4>1, <4>2 DEF Deletable
      <3>3. Wav(c) \in files /\ TranscriptionPending => lowDisk
        BY <3>2 DEF PreserveBacklog
      <3>4. QED BY <2>1, <3>2, <3>3 DEF Spare
    <2>2. gone \subseteq Spare
      BY <2>1 DEF OnDisk
    <2>3. QED BY <1>2, <1>3, <2>2 DEF Life!Drop
  <1>6. QED BY <1>2, <1>4, <1>5

\* An output is made from the whole recording, the transcript after the backup.
LEMMA OutputMade ==
    ASSUME LInv, [Next]_vars, UNCHANGED <<OnDisk, Captured, Reported>>,
           \/ At("smb", "publish") /\ remote' /\ UNCHANGED <<db, md>>
           \/ pc["transcript"] \in {"transcribed", "persisted"} /\ UNCHANGED remote
    PROVE  \/ \E o \in Consumer : Life!Make(o)
           \/ Life!Age
  <1>1. OnDisk = Channel
    <2>1. Pair
      BY DEF LInv, IInv, InputsStay, At
    <2>2. QED BY <2>1 DEF Pair, OnDisk, HasAudio
  <1>2. CASE At("smb", "publish") /\ remote' /\ UNCHANGED <<db, md>>
    <2>1. CASE remote
      <3>1. Made' = Made
        BY <1>2, <2>1 DEF Made, Outputs, LInv, IInv, TypeOK
      <3>2. QED BY <3>1 DEF Life!Age
    <2>2. CASE ~remote
      <3>1. ~db /\ ~md /\ ~db' /\ ~md'
        BY <1>2, <2>2 DEF LInv, Based
      <3>2. Made = {}
        <4>1. ~Outputs["smb"] /\ ~Outputs["transcription"]
          BY <2>2 DEF Outputs
        <4>2. QED BY <4>1 DEF Made, Consumer
      <3>3. Made' = {"smb"}
        <4>1. Outputs'["smb"] /\ ~Outputs'["transcription"]
          BY <1>2, <3>1 DEF Outputs
        <4>2. QED BY <4>1 DEF Made, Consumer
      <3>4. QED BY <1>1, <3>2, <3>3 DEF Life!Make, Consumer
    <2>3. QED BY <2>1, <2>2
  <1>3. CASE pc["transcript"] \in {"transcribed", "persisted"} /\ UNCHANGED remote
    <2>1. remote /\ remote'
      BY <1>3 DEF LInv, IInv, Left
    <2>2. "smb" \in Made /\ "smb" \in Made'
      BY <2>1 DEF Made, Outputs, Consumer
    <2>3. "transcription" \in Made => "transcription" \in Made'
      BY <2>1, Outlast DEF LInv, IInv, Made, Outputs
    <2>4. Made' = Made \/ Made' = Made \cup {"transcription"}
      BY <2>2, <2>3 DEF Made, Consumer
    <2>5. QED BY <1>1, <2>2, <2>4 DEF Life!Make, Life!Age, Consumer
  <1>4. QED BY <1>2, <1>3

\* Nothing is reported that is not in place.
LEMMA OutputNoted ==
    ASSUME LInv, UNCHANGED <<OnDisk, Captured, Made>>,
           NEW m \in Consumer \cup {"log"}, Reported' = Reported \cup {m},
           \/ m \in {"smb", "log"} /\ remote
           \/ m = "transcription" /\ remote /\ db /\ md
    PROVE  Life!Note(m)
  <1>1. \/ m \in {"smb", "log"} /\ "smb" \in Made
        \/ m = "transcription" /\ "transcription" \in Made
    BY DEF Made, Outputs, Consumer
  <1>2. QED BY <1>1 DEF Life!Note

\* A step that delivers makes one output or reports one, or comes to nothing.
LEMMA DeliveryStep ==
    ASSUME LInv, [Next]_vars, Delivers, UNCHANGED <<OnDisk, Captured>>
    PROVE  \/ \E o \in Consumer : Life!Make(o)
           \/ \E m \in Consumer \cup {"log"} : Life!Note(m)
           \/ Life!Forget("log")
           \/ Life!Age
  <1> USE DEF At
  <1>1. ASSUME UNCHANGED <<remote, db, md>> PROVE UNCHANGED Made
    BY <1>1 DEF Made, Outputs
  <1>2. ASSUME UNCHANGED <<log, marker>> PROVE UNCHANGED Reported
    BY <1>2 DEF Reported, Referenced
  <1>3. ASSUME UNCHANGED <<remote, db, md, log, marker>> PROVE Life!Age
    BY <1>1, <1>2, <1>3 DEF Life!Age
  <1>4. ASSUME NEW k \in Consumer, UNCHANGED <<remote, db, md, log>>, marker' = marker \cup {k},
               remote, k = "transcription" => db /\ md
        PROVE  \E m \in Consumer \cup {"log"} : Life!Note(m)
    <2>1. Reported' = Reported \cup {k}
      BY <1>4 DEF Reported, Referenced
    <2>2. QED BY <1>1, <1>4, <2>1, OutputNoted DEF Consumer
  <1>5. ASSUME UNCHANGED <<remote, db, md, marker>>, log' \in {"none", "pending"}
        PROVE  Life!Forget("log")
    <2>1. Reported' = Reported \ {"log"}
      BY <1>5 DEF Reported, Referenced, LInv, IInv, TypeOK, Consumer
    <2>2. QED BY <1>1, <1>5, <2>1 DEF Life!Forget
  <1>6. CASE SmbPublish
    BY <1>2, <1>6, OutputMade DEF SmbPublish
  <1>7. CASE SmbMark
    <2>1. remote
      BY <1>7 DEF SmbMark, LInv, IInv, Left
    <2>2. QED BY <1>4, <1>7, <2>1 DEF SmbMark, Consumer
  <1>8. CASE SmbGivesUp
    <2>1. CASE pc["smb"] = "publish"
      <3>1. UNCHANGED <<log, marker, db, md>> /\ (remote' = remote \/ remote')
        BY <1>8, <2>1 DEF SmbGivesUp
      <3>2. QED BY <1>2, <1>3, <2>1, <3>1, OutputMade
    <2>2. CASE pc["smb"] = "published"
      <3>1. /\ UNCHANGED <<remote, log, db, md>> /\ remote
            /\ marker' = marker \/ marker' = marker \cup {"smb"}
        BY <1>8, <2>2 DEF SmbGivesUp, LInv, IInv, Left
      <3>2. QED BY <1>3, <1>4, <3>1 DEF Consumer
    <2>3. CASE pc["smb"] \notin {"publish", "published"}
      BY <1>3, <1>8, <2>3 DEF SmbGivesUp
    <2>4. QED BY <2>1, <2>2, <2>3
  <1>9. CASE SmbSaveLog
    <2>1. UNCHANGED <<remote, db, md, marker>>
      BY <1>9 DEF SmbSaveLog
    <2>2. CASE pc["smb"] = "logDone"
      <3>1. remote /\ log' = "done"
        BY <1>9, <2>2 DEF SmbSaveLog, LInv, IInv, Left
      <3>2. Reported' = Reported \cup {"log"}
        BY <2>1, <3>1 DEF Reported, Referenced
      <3>3. QED BY <1>1, <2>1, <3>1, <3>2, OutputNoted
    <2>3. CASE pc["smb"] # "logDone"
      <3>1. log' = "pending"
        BY <1>9, <2>3 DEF SmbSaveLog
      <3>2. QED BY <1>5, <2>1, <3>1
    <2>4. QED BY <2>2, <2>3
  <1>10. CASE TranscriptRepair
    BY <1>4, <1>10 DEF TranscriptRepair, Transcribable, Rows, Consumer
  <1>11. CASE TranscriptPersist \/ TranscriptPublish
    <2>1. pc["transcript"] \in {"transcribed", "persisted"} /\ UNCHANGED <<remote, log, marker>>
      BY <1>11 DEF TranscriptPersist, TranscriptPublish
    <2>2. QED BY <1>2, <2>1, OutputMade
  <1>12. CASE TranscriptMark
    <2>1. remote /\ db /\ md
      BY <1>12 DEF TranscriptMark, LInv, IInv, Left
    <2>2. QED BY <1>4, <1>12, <2>1 DEF TranscriptMark, Consumer
  <1>13. CASE TranscriptGivesUp
    <2>1. CASE pc["transcript"] \in {"transcribed", "persisted"}
      BY <1>2, <1>13, <2>1, OutputMade DEF TranscriptGivesUp
    <2>2. CASE pc["transcript"] \notin {"transcribed", "persisted"}
      BY <1>3, <1>13, <2>2 DEF TranscriptGivesUp
    <2>3. QED BY <2>1, <2>2
  <1>14. CASE LogForgets
    <2>1. UNCHANGED <<remote, db, md, marker>> /\ (log' = "none" \/ (log = "done" /\ log' = "aged"))
      BY <1>14, LogFades DEF LInv, IInv
    <2>2. CASE log' = "none"
      BY <1>5, <2>1, <2>2
    <2>3. CASE log = "done" /\ log' = "aged"
      <3>1. Reported' = Reported
        BY <2>1, <2>3 DEF Reported, Referenced
      <3>2. QED BY <1>1, <2>1, <3>1 DEF Life!Age
    <2>4. QED BY <2>1, <2>2, <2>3
  <1>15. QED BY <1>6, <1>7, <1>8, <1>9, <1>10, <1>11, <1>12, <1>13, <1>14 DEF Delivers

LEMMA LifeStep == LInv /\ [Next]_vars => [Life!Next]_(Life!vars)
  <1> SUFFICES ASSUME LInv, [Next]_vars PROVE Life!Next
    OBVIOUS
  <1>1. Spare' \subseteq OnDisk'
    BY DEF Spare, OnDisk
  <1>2. CASE FinalizeCapture
    <2>1. ~Captured /\ Captured'
      BY <1>2, CaptureMoves DEF FinalizeCapture, At, Captured, LInv, IInv, Capture, CaptureProgress
    <2>2. Made' = Made /\ Reported' = Reported
      BY <1>2 DEF FinalizeCapture, outVars, Made, Outputs, Reported, Referenced
    <2>3. Life!Capture(OnDisk')
      BY <2>1, <2>2 DEF Life!Capture
    <2>4. OnDisk' \in SUBSET Channel
      BY DEF OnDisk
    <2>5. QED BY <1>1, <2>3, <2>4 DEF Life!Next
  <1>3. CASE Cleanup \/ CleanupFails
    <2>1. OnDisk \ OnDisk' \in SUBSET Channel
      BY DEF OnDisk
    <2>2. QED BY <1>1, <1>3, <2>1, CleanupDrops DEF Life!Next
  <1>4. CASE ~FinalizeCapture /\ ~Cleanup /\ ~CleanupFails
    <2>1. OnDisk' = OnDisk
      BY <1>4, AudioStays DEF LInv
    <2>2. CASE Delivers
      <3>1. UNCHANGED pc \/ \E w \in {"smb", "transcript"} : \E l : Goto(w, l)
        BY <2>2 DEF Delivers, SmbPublish, SmbMark, SmbGivesUp, SmbSaveLog, TranscriptRepair,
            TranscriptPersist, TranscriptPublish, TranscriptMark, TranscriptGivesUp, workVars,
            LogForgets, LogAges, LogPruned, LogLost
      <3>2. pc'["capture"] = pc["capture"]
        BY <3>1 DEF LInv, IInv, TypeOK, Goto, Worker
      <3>3. Captured' = Captured
        BY <3>2 DEF Captured
      <3>4. "log" \in (Consumer \cup {"log"}) \ Consumer
        BY DEF Consumer
      <3>5. QED BY <1>1, <2>1, <2>2, <3>3, <3>4, DeliveryStep DEF Life!Next
    <2>3. CASE ~Delivers
      <3>1. Made' = Made /\ Reported' = Reported
        BY <2>3, OutputsStay DEF Made, Outputs, Reported, Referenced
      <3>2. CASE Captured' = Captured
        <4>1. Life!Age
          BY <2>1, <3>1, <3>2 DEF Life!Age
        <4>2. QED BY <1>1, <4>1 DEF Life!Next
      <3>3. CASE Captured' # Captured
        <4>1. ~Captured /\ Captured'
          <5>1. CASE Capture \/ CrashWorker("capture")
            BY <1>4, <3>3, <5>1, CaptureMoves DEF LInv, IInv, Captured
          <5>2. CASE ~Capture /\ ~CrashWorker("capture")
            BY <3>3, <5>2, CaptureStays DEF LInv, IInv, Captured
          <5>3. QED BY <5>1, <5>2
        <4>2. OnDisk = {}
          BY <4>1 DEF LInv, Fresh, Captured, OnDisk, HasAudio, Consumable
        <4>3. Life!Capture({})
          BY <2>1, <3>1, <4>1, <4>2 DEF Life!Capture
        <4>4. QED BY <1>1, <4>3 DEF Life!Next
      <3>4. QED BY <3>2, <3>3
    <2>4. QED BY <2>2, <2>3
  <1>5. QED BY <1>2, <1>3, <1>4
LEMMA LifeStart == Init => LInv /\ Life!Init
  <1> SUFFICES ASSUME Init PROVE LInv /\ Life!Init
    OBVIOUS
  <1>1. Fresh /\ Undone /\ Based
    BY DEF Init, Fresh, Undone, Based, Captured
  <1>2. Captured = FALSE
    BY DEF Init, Captured, Worker
  <1>3. OnDisk = {} /\ Spare = {}
    BY DEF Init, OnDisk, Spare, HasAudio
  <1>4. Reported = {}
    BY DEF Init, Reported, Referenced
  <1>5. Made = {}
    <2>1. ~Outputs["smb"] /\ ~Outputs["transcription"]
      BY DEF Init, Outputs
    <2>2. QED BY <2>1 DEF Made, Consumer
  <1>6. QED BY Start, <1>1, <1>2, <1>3, <1>4, <1>5 DEF LInv, Life!Init

\* The workers implement the life of a recording: each step of theirs is one of
\* RecordingLife on what of their files, marks and outputs it is about, or is
\* not seen there.
THEOREM ImplementsLife == Spec => LifeSpec
  <1>1. LInv /\ [Next]_vars => LInv'
    BY TypeStep, ExclusionStep, InputsStep, TruthStep, FreshStep, UndoneStep, BasedStep
    DEF LInv, IInv, Truth
  <1>2. QED BY LifeStart, LifeStep, <1>1, PTL DEF Spec, LifeSpec, Life!Spec

(***************************************************************************)
(* The leases, as RecordingLease promises them                             *)
(***************************************************************************)

\* The workers stand for the owners of LeaseExclusion, which RecordingLease
\* implements too.  A worker that dies in the directory leaves it.
Door == INSTANCE LeaseExclusion WITH Owner <- Worker, active <- Inside

DoorSpec == Door!Spec

\* Whoever enters the directory finds it without a lease, that of a dead worker
\* included.
LEMMA EntersFree ==
    ASSUME TypeOK, Exclusion, [Next]_vars, ~Free
    PROVE  Inside' \subseteq Inside
  <1> USE DEF fileVars, workVars, outVars
  <1>1. ASSUME UNCHANGED lease PROVE Inside' \subseteq Inside
    BY <1>1 DEF Inside
  <1>2. ASSUME NEW w, NEW o \in {Nobody, Dead}, lease' = LeaseAfter(w, o)
        PROVE  Inside' \subseteq Inside
    <2>1. \A s \in Stage : lease'[s] \in {lease[s], Nobody, Dead}
      BY <1>2 DEF LeaseAfter
    <2>2. QED BY <2>1, Owners DEF Inside
  <1>3. CASE Capture
    BY <1>1, <1>2, <1>3
    DEF Capture, CaptureProgress, StartCapture, WriteChunk, WriteFails, FinalizeCapture,
        EnqueueUpload, EnqueueFails, ReleaseCapture, ReleaseAll
  <1>4. ASSUME NEW w \in {"uploader", "smb"}, Converting(w) \/ ConvertFails(w)
        PROVE  Inside' \subseteq Inside
    BY <1>1, <1>4 DEF Converting, ConvertStart, ConvertSkip, ConvertFinish, ConvertFails
  <1>5. CASE Upload
    BY <1>1, <1>2, <1>4, <1>5
    DEF Upload, UploadProgress, StartUpload, UploadBusy, FinishUpload, RetryUpload, UploadCancelled,
        ReleaseAll
  <1>6. CASE SmbMono \/ SmbConverted
    <2>1. "smb" \in Inside
      BY <1>6, Owners
      DEF SmbMono, SmbConverted, At, Exclusion, Entitled, In, Worker, Inside
    <2>2. \A s \in Stage : lease'[s] \in {lease[s], "smb", Nobody}
      BY <1>6 DEF SmbMono, SmbConverted, Take, TypeOK
    <2>3. QED BY <2>1, <2>2, Owners DEF Inside
  <1>7. CASE Smb
    BY <1>1, <1>2, <1>4, <1>6, <1>7
    DEF Smb, SmbProgress, SmbDiscover, SmbClaim, SmbMixStart, SmbMixFinish, SmbPublish, SmbMark,
        SmbRelease, SmbSaveLog, SmbMetadataFails, SmbGivesUp, ReleaseAll
  <1>8. CASE Transcript
    BY <1>1, <1>2, <1>8
    DEF Transcript, TranscriptProgress, TranscriptRepair, TranscriptDiscover, TranscriptClaim,
        TranscriptTranscribe, TranscriptPersist, TranscriptPublish, TranscriptMark, TranscriptRelease,
        TranscriptGivesUp, ReleaseAll
  <1>9. CASE Cleanup \/ CleanupFails \/ CleanupSkips \/ RoundElapses \/ RetentionElapses \/ DiskChanges
    BY <1>1, <1>9 DEF Cleanup, CleanupFails, CleanupSkips, RoundElapses, RetentionElapses, DiskChanges
  <1>10. CASE DeadLeasesExpire
    BY <1>2, <1>10 DEF DeadLeasesExpire
  <1>11. ASSUME NEW w \in Worker, CrashWorker(w) PROVE Inside' \subseteq Inside
    BY <1>2, <1>11 DEF CrashWorker
  <1>12. CASE LogForgets \/ UNCHANGED vars
    BY <1>1, <1>12, LogFades DEF vars
  <1>13. QED BY <1>3, <1>5, <1>7, <1>8, <1>9, <1>10, <1>11, <1>12 DEF Next

\* The workers of a call directory, the leases they take and leave and what
\* they do there together, implement the promise of RecordingLease: one of them
\* at a time, and a free directory between two.
THEOREM ImplementsExclusion == Spec => DoorSpec
  <1>1. Init => Door!Init
    BY Owners DEF Init, Door!Init, Inside
  <1>2. IInv /\ [Next]_vars => [Door!Next]_Inside
    <2> SUFFICES ASSUME IInv, [Next]_vars, Inside' # Inside PROVE Door!Next
      OBVIOUS
    <2>1. TypeOK /\ Exclusion /\ TypeOK' /\ Exclusion'
      BY TypeStep, ExclusionStep DEF IInv
    <2>2. Inside = {} \/ \E w \in Worker : Inside = {w}
      BY <2>1, Owners DEF Exclusion, OneOwner, Inside
    <2>3. Inside' = {} \/ \E w \in Worker : Inside' = {w}
      BY <2>1, Owners DEF Exclusion, OneOwner, Inside
    <2>4. Inside = {} \/ Inside' \subseteq Inside
      BY <2>1, EntersFree, Owners DEF Free, Inside
    <2>5. QED BY <2>2, <2>3, <2>4 DEF Door!Next, Door!Take, Door!Drop
  <1>3. QED BY <1>1, <1>2, Invariance, PTL DEF Spec, DoorSpec, Door!Spec

=============================================================================

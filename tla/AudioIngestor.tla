--------------------------- MODULE AudioIngestor ----------------------------
(***************************************************************************)
(* The ingestor's memory for one call (src/audio/ingestor.py) and the      *)
(* asyncio tasks that race over it: the handler of each WebSocket of the   *)
(* call, the ESL handler of CHANNEL_HANGUP and the heartbeat task of each  *)
(* recording.  A step is what a task does between two awaits that yield;   *)
(* _start_recording and capacity_guard.release never yield, because        *)
(* nothing holds the guard's lock across an await.                         *)
(*                                                                         *)
(* The recordings of the call, one RecordingState each, are numbered; the  *)
(* number stands for the object, for its lease owner and for its heartbeat *)
(* task.  The two channels are one here; RecordingPipeline has both.       *)
(*                                                                         *)
(* What may go wrong without the code's doing spends one of MaxFaults.     *)
(***************************************************************************)
EXTENDS Naturals, FiniteSets

CONSTANTS
    Socket,         \* the WebSockets that are opened for the call
    Hangup,         \* the task that handles CHANNEL_HANGUP
    MaxRecordings,  \* bound on the recordings started
    MaxFaults       \* bound on failures and stalls

Recording == 1 .. MaxRecordings
Task == Socket \cup {Hangup} \cup Recording
None == 0

ASSUME IngestorAssumption ==
    /\ MaxRecordings \in Nat \ {0}
    /\ MaxFaults \in Nat
    /\ Hangup \notin Socket
    /\ (Socket \cup {Hangup}) \cap Nat = {}

VARIABLES
    call,       \* the call, as the ESL events tell it: "new", "up", "down"
    meta,       \* the call is in stream_metadata
    rec,        \* the recording in self.recordings, or None
    started,    \* the number of recordings started
    reserved,   \* the call is in the capacity guard's reservations
    owner,      \* the recording the capture lease file names
    fresh,      \* that lease has not expired
    other,      \* another worker has a valid lease on the call directory
    ws,         \* the recordings that have a websocket
    open,       \* the recordings that have an open file handle
    temp,       \* the .tmp.raw file is in the call directory
    queued,     \* the recordings whose upload was enqueued
    at,         \* where each task is
    of,         \* the recording each task finalizes
    faults      \* the faults so far

memory == <<meta, rec, started, reserved, ws, of>>
disk == <<owner, fresh, other>>
audio == <<open, temp, queued>>
vars == <<call, memory, disk, audio, at, faults>>

Labels == {"idle", "accepting", "streaming", "beating", "closing", "join", "enqueue",
           "ended", "raised"}

TypeOK ==
    /\ call \in {"new", "up", "down"}
    /\ meta \in BOOLEAN /\ reserved \in BOOLEAN
    /\ started \in 0 .. MaxRecordings
    /\ rec \in 0 .. started
    /\ owner \in 0 .. started
    /\ fresh \in BOOLEAN /\ other \in BOOLEAN
    /\ fresh => owner # None /\ ~other
    /\ ws \in SUBSET (1 .. started)
    /\ open \in SUBSET (1 .. started)
    /\ queued \in SUBSET (0 .. started)
    /\ temp \in BOOLEAN
    /\ at \in [Task -> Labels]
    /\ of \in [Task -> 0 .. started]
    /\ faults \in 0 .. MaxFaults

Fault == /\ faults < MaxFaults
         /\ faults' = faults + 1

Init ==
    /\ call = "new"
    /\ meta = FALSE /\ rec = None /\ started = 0 /\ reserved = FALSE
    /\ owner = None /\ fresh = FALSE /\ other = FALSE
    /\ ws = {} /\ open = {} /\ temp = FALSE /\ queued = {}
    /\ at = [t \in Task |-> "idle"]
    /\ of = [t \in Task |-> None]
    /\ faults = 0

-----------------------------------------------------------------------------
(* finalize_stream *)

\* Mutant of Cleared: the lease file is removed whoever owns it.
ClearedUnchecked(g) ==
    /\ owner' = None
    /\ fresh' = (fresh /\ owner # g)
    /\ reserved' = FALSE
    /\ meta' = FALSE

\* Mutant of Cleared: the reservation is not given back.
ClearedReserved(g) ==
    /\ owner' = IF owner = g THEN None ELSE owner
    /\ fresh' = (fresh /\ owner # g)
    /\ meta' = FALSE
    /\ UNCHANGED reserved

\* The finally clause: the lease goes if it is still this recording's; the
\* reservation and the metadata go by call id, whoever they belong to.
Cleared(g) ==
    /\ owner' = IF owner = g THEN None ELSE owner
    /\ fresh' = (fresh /\ owner # g)
    /\ reserved' = FALSE
    /\ meta' = FALSE

\* Mutant of Publish: the lease is released before the upload is enqueued.
PublishReleased(t, g) ==
    /\ open' = open \ {g}
    /\ Cleared(g)
    /\ IF g \in open /\ temp
         THEN temp' = FALSE /\ at' = [at EXCEPT ![t] = "enqueue"]
         ELSE UNCHANGED temp /\ at' = [at EXCEPT ![t] = "ended"]

\* Mutant of Publish: the files are published and nothing is enqueued.
PublishUnqueued(t, g) ==
    /\ open' = open \ {g}
    /\ temp' = (temp /\ g \notin open)
    /\ Cleared(g)
    /\ at' = [at EXCEPT ![t] = "ended"]

\* The handles are closed; a temporary that is still there becomes the final
\* file and its upload is enqueued, which is awaited.
Publish(t, g) ==
    /\ open' = open \ {g}
    /\ IF g \in open /\ temp
         THEN /\ temp' = FALSE
              /\ at' = [at EXCEPT ![t] = "enqueue"]
              /\ UNCHANGED <<owner, fresh, reserved, meta>>
         ELSE /\ Cleared(g)
              /\ at' = [at EXCEPT ![t] = "ended"]
              /\ UNCHANGED temp

\* No recording: only the metadata goes.
FinalizeNothing(t) ==
    /\ rec = None
    /\ meta' = FALSE
    /\ at' = [at EXCEPT ![t] = "ended"]
    /\ UNCHANGED <<rec, started, reserved, ws, of, owner, fresh, audio>>

\* Mutant of FinalizeRecording: the recording is read and not popped.
FinalizeUnclaimed(t) ==
    LET g == rec
    IN  /\ g # None
        /\ of' = [of EXCEPT ![t] = g]
        /\ IF t = g
             THEN Publish(t, g)
             ELSE /\ at' = IF at[g] = "raised"
                             THEN [at EXCEPT ![t] = "ended"]
                             ELSE [at EXCEPT ![t] = "join", ![g] = "ended"]
                  /\ UNCHANGED <<meta, reserved, owner, fresh, open, temp>>
        /\ UNCHANGED <<rec, started, ws, queued>>

\* Mutant of FinalizeRecording: the heartbeat is not cancelled.
FinalizeBeating(t) ==
    LET g == rec
    IN  /\ g # None
        /\ rec' = None
        /\ of' = [of EXCEPT ![t] = g]
        /\ Publish(t, g)
        /\ UNCHANGED <<started, ws, queued>>

\* The task takes the recording out of the table.  It cancels the heartbeat
\* and waits for it, unless it is the heartbeat itself.  Waiting for one that
\* had raised raises again, outside the try.
FinalizeRecording(t) ==
    LET g == rec
    IN  /\ g # None
        /\ rec' = None
        /\ of' = [of EXCEPT ![t] = g]
        /\ IF t = g
             THEN Publish(t, g)
             ELSE /\ at' = IF at[g] = "raised"
                             THEN [at EXCEPT ![t] = "ended"]
                             ELSE [at EXCEPT ![t] = "join", ![g] = "ended"]
                  /\ UNCHANGED <<meta, reserved, owner, fresh, open, temp>>
        /\ UNCHANGED <<started, ws, queued>>

Finalize(t) == FinalizeNothing(t) \/ FinalizeRecording(t)

\* The cancelled heartbeat has ended.
Join(t) ==
    /\ at[t] = "join"
    /\ Publish(t, of[t])
    /\ UNCHANGED <<call, rec, started, ws, of, other, queued, faults>>

Enqueue(t) ==
    /\ at[t] = "enqueue"
    /\ \/ queued' = queued \cup {of[t]} /\ UNCHANGED faults
       \/ Fault /\ UNCHANGED queued
    /\ Cleared(of[t])
    /\ at' = [at EXCEPT ![t] = "ended"]
    /\ UNCHANGED <<call, rec, started, ws, of, other, open, temp>>

-----------------------------------------------------------------------------
(* The ESL handlers *)

\* CHANNEL_ANSWER registers the metadata and asks for the audio stream.
Answer ==
    /\ call = "new"
    /\ call' = "up"
    /\ meta' = TRUE
    /\ UNCHANGED <<rec, started, reserved, ws, of, disk, audio, at, faults>>

HangupEvent ==
    /\ call = "up"
    /\ call' = "down"
    /\ Finalize(Hangup)
    /\ UNCHANGED <<other, faults>>

\* The event never arrives, or finalize_call_record raises before the call to
\* finalize_stream is reached.
HangupLost ==
    /\ call = "up"
    /\ Fault
    /\ call' = "down"
    /\ at' = [at EXCEPT ![Hangup] = "ended"]
    /\ UNCHANGED <<memory, disk, audio>>

-----------------------------------------------------------------------------
(* The WebSocket handler *)

\* _start_recording when the call has a recording: the socket joins it.
ConnectJoins(s) ==
    /\ meta /\ rec # None
    /\ at' = [at EXCEPT ![s] = "accepting"]
    /\ UNCHANGED <<memory, disk, faults>>

\* A recording starts: reservation, lease, heartbeat.
ConnectStarts(s) ==
    /\ meta /\ rec = None
    /\ started < MaxRecordings
    /\ ~fresh /\ ~other
    /\ started' = started + 1
    /\ rec' = started'
    /\ reserved' = TRUE
    /\ owner' = started' /\ fresh' = TRUE
    /\ at' = [at EXCEPT ![s] = "accepting", ![started'] = "beating"]
    /\ UNCHANGED <<meta, ws, of, other, faults>>

\* The call directory is leased: the reservation is given back, by call id.
ConnectBusy(s) ==
    /\ meta /\ rec = None
    /\ (fresh \/ other)
    /\ reserved' = FALSE
    /\ meta' = FALSE
    /\ at' = [at EXCEPT ![s] = "ended"]
    /\ UNCHANGED <<rec, started, ws, of, disk, faults>>

\* The guard refuses the call, which it never does to a call it has.
ConnectRefused(s) ==
    /\ meta /\ rec = None /\ ~reserved
    /\ Fault
    /\ meta' = FALSE
    /\ at' = [at EXCEPT ![s] = "ended"]
    /\ UNCHANGED <<rec, started, reserved, ws, of, disk>>

\* The call directory cannot be made: the exception leaves the handler.
ConnectFails(s) ==
    /\ meta /\ rec = None
    /\ Fault
    /\ reserved' = TRUE
    /\ at' = [at EXCEPT ![s] = "ended"]
    /\ UNCHANGED <<meta, rec, started, ws, of, disk>>

ConnectUnknown(s) ==
    /\ ~meta
    /\ at' = [at EXCEPT ![s] = "ended"]
    /\ UNCHANGED <<memory, disk, faults>>

Connect(s) ==
    /\ at[s] = "idle"
    /\ \/ ConnectJoins(s) \/ ConnectStarts(s) \/ ConnectBusy(s)
       \/ ConnectRefused(s) \/ ConnectFails(s) \/ ConnectUnknown(s)
    /\ UNCHANGED <<call, audio>>

\* websocket.accept() returns; the recording may have been finalized since, and
\* the look-up then raises outside the try.
Accept(s) ==
    /\ at[s] = "accepting"
    /\ IF rec = None
         THEN /\ at' = [at EXCEPT ![s] = "ended"]
              /\ UNCHANGED ws
         ELSE /\ at' = [at EXCEPT ![s] = "streaming"]
              /\ ws' = ws \cup {rec}
    /\ UNCHANGED <<call, meta, rec, started, reserved, of, disk, audio, faults>>

AcceptFails(s) ==
    /\ at[s] = "accepting"
    /\ Fault
    /\ at' = [at EXCEPT ![s] = "ended"]
    /\ UNCHANGED <<call, memory, disk, audio>>

\* _write_channel: a chunk that comes when the call has no recording is dropped.
Frame(s) ==
    /\ at[s] = "streaming"
    /\ rec # None
    /\ open' = open \cup {rec}
    /\ temp' = (temp \/ rec \notin open)
    /\ UNCHANGED <<call, memory, disk, queued, at, faults>>

\* The client disconnects, or the event bus raises while a frame is handled.
Disconnect(s) ==
    /\ at[s] = "streaming"
    /\ Finalize(s)
    /\ UNCHANGED <<call, other, faults>>

-----------------------------------------------------------------------------
(* The heartbeat of a recording, once a period has passed *)

Beat(g) ==
    /\ at[g] = "beating"
    /\ owner = g /\ ~other
    /\ fresh' = TRUE
    /\ UNCHANGED <<call, memory, owner, other, audio, at, faults>>

\* renew_lease returns False: the lease file cannot be read this time, or names
\* somebody else.  The socket is closed, if there is one.
BeatRefused(g) ==
    /\ at[g] = "beating"
    /\ IF owner = g THEN Fault ELSE UNCHANGED faults
    /\ IF g \in ws
         THEN /\ at' = [at EXCEPT ![g] = "closing"]
              /\ UNCHANGED <<memory, owner, fresh, audio>>
         ELSE Finalize(g)
    /\ UNCHANGED <<call, other>>

\* renew_lease raises LeaseBusyError, or the lease file cannot be written.
BeatRaises(g) ==
    /\ at[g] = "beating"
    /\ owner = g
    /\ (other /\ UNCHANGED faults) \/ Fault
    /\ at' = [at EXCEPT ![g] = "raised"]
    /\ UNCHANGED <<call, memory, disk, audio>>

\* The close returns, or raises because the socket has gone.
Closed(g) ==
    /\ at[g] = "closing"
    /\ \/ Finalize(g) /\ UNCHANGED faults
       \/ /\ Fault
          /\ at' = [at EXCEPT ![g] = "raised"]
          /\ UNCHANGED <<memory, owner, fresh, audio>>
    /\ UNCHANGED <<call, other>>

-----------------------------------------------------------------------------
(* Time, and the other workers of the directory *)

Unattended == owner # rec /\ \A t \in Task : at[t] = "join" => of[t] # owner

\* The lease runs out.  While the heartbeat beats, and in the instant in which
\* it is cancelled, it takes a stall of the process longer than the TTL; once
\* it has been cancelled or has raised, it takes no more than time.
LeaseExpires ==
    /\ fresh
    /\ IF Unattended \/ at[owner] = "raised" THEN UNCHANGED faults ELSE Fault
    /\ fresh' = FALSE
    /\ UNCHANGED <<call, memory, owner, other, audio, at>>

OtherWorker ==
    /\ started > 0
    /\ ~fresh
    /\ other' = ~other
    /\ UNCHANGED <<call, memory, owner, fresh, audio, at, faults>>

SocketStep(s) == Connect(s) \/ Accept(s) \/ AcceptFails(s) \/ Frame(s) \/ Disconnect(s)
Heartbeat(g) == Beat(g) \/ BeatRefused(g) \/ BeatRaises(g) \/ Closed(g)
FinalizeStep(t) == Join(t) \/ Enqueue(t)

Next ==
    \/ Answer \/ HangupEvent \/ HangupLost
    \/ \E s \in Socket : SocketStep(s)
    \/ \E g \in Recording : Heartbeat(g)
    \/ \E t \in Task : FinalizeStep(t)
    \/ LeaseExpires \/ OtherWorker

Spec == Init /\ [][Next]_vars

\* The event loop runs every task that can run, the call ends, and FreeSWITCH
\* closes the sockets of a call that is over.
Fairness ==
    /\ WF_vars(HangupEvent)
    /\ \A s \in Socket : WF_vars(Accept(s)) /\ WF_vars(call = "down" /\ Disconnect(s))
    /\ \A g \in Recording : WF_vars(Closed(g))
    /\ \A t \in Task : WF_vars(FinalizeStep(t))

FairSpec == Spec /\ Fairness
-----------------------------------------------------------------------------
\* A recording is finalized by one task only, in whatever order the end of the
\* socket, the hangup and a lost lease arrive.
OneFinalizer ==
    \A t, u \in Task :
        {at[t], at[u]} \subseteq {"join", "enqueue"} /\ of[t] = of[u] => t = u

\* No heartbeat outlives its recording: one that did would keep the call
\* directory leased, away from conversion, backup and cleanup, for ever.
NoOrphanHeartbeat ==
    \A g \in Recording : at[g] \in {"beating", "closing"} => rec = g

\* The capture lease of a recording goes away only at the end of its own
\* finalization, after its audio was published and enqueued, even when that end
\* comes late and another recording of the call has the lease by then.
LeaseKeptToTheEnd ==
    [][fresh /\ owner' = None
          => \E t \in Task : at[t] # "ended" /\ at'[t] = "ended" /\ of'[t] = owner /\ owner \notin open']_vars

\* Nothing of the call is left in the ingestor's memory, nor its lease.
Clean == /\ rec = None /\ ~meta /\ ~reserved
         /\ owner = None /\ open = {}

NoFaults == [](faults = 0)

\* If nothing fails then, once the call is over, everything it took is given
\* back, whichever of the sockets and the hangup comes first.
HangupCleans == NoFaults => ((call = "down") ~> []Clean)

\* If nothing fails, the audio of a recording that captured some is handed to
\* the upload queue.
AudioIsEnqueued == NoFaults => \A g \in Recording : (g \in open) ~> (g \in queued)

\* All tasks of the call have ended.
Finished == /\ call = "down"
            /\ \A t \in Task : at[t] \in {"idle", "ended", "raised"}

\* "Finalizar uma unica vez ...: fechar handles, publicar .raw com os.replace,
\* enfileirar paths, liberar lease/reserva": no finished call leaves its handles
\* open and its audio under the temporary name.
FinishedIsPublished == Finished => open = {}
=============================================================================

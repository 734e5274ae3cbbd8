------------------------ MODULE AudioIngestorProofs -------------------------
(***************************************************************************)
(* Proofs about AudioIngestor: whatever the number of sockets, recordings  *)
(* and faults, every recording is finalized by one task, no heartbeat      *)
(* outlives its recording and no lease goes before its audio is enqueued.  *)
(* Where nothing fails, no audio is lost on the way and nothing is left at *)
(* the end.                                                                *)
(***************************************************************************)
EXTENDS AudioIngestor, TLAPS

\* The tasks are of three kinds.
LEMMA Tasks ==
    /\ Socket \subseteq Task /\ Hangup \in Task /\ Recording \subseteq Task
    /\ Recording \subseteq Nat /\ None \notin Recording
    /\ \A s \in Socket, g \in Recording : s # g
    /\ Hangup \notin Recording
  BY IngestorAssumption DEF Task, Recording, None

(***************************************************************************)
(* Types                                                                   *)
(***************************************************************************)

\* The end of a finalization keeps the types of what it changes.
LEMMA PublishType ==
    ASSUME TypeOK, NEW t \in Task, NEW g, Publish(t, g)
    PROVE  /\ meta' \in BOOLEAN /\ reserved' \in BOOLEAN /\ temp' \in BOOLEAN
           /\ owner' \in 0 .. started /\ fresh' \in BOOLEAN
           /\ fresh' => fresh /\ owner' = owner
           /\ open' \in SUBSET (1 .. started)
           /\ at' \in [Task -> Labels]
  <1>1. CASE g \in open /\ temp
    BY <1>1 DEF Publish, TypeOK, Labels
  <1>2. CASE ~(g \in open /\ temp)
    <2>1. Cleared(g) /\ at' = [at EXCEPT ![t] = "ended"]
          /\ UNCHANGED temp /\ open' = open \ {g}
      BY <1>2 DEF Publish
    <2>2. owner' \in 0 .. started /\ fresh' \in BOOLEAN /\ (fresh' => fresh /\ owner' = owner)
      BY <2>1 DEF Cleared, TypeOK, None
    <2>3. QED BY <2>1, <2>2 DEF Cleared, TypeOK, Labels
  <1>3. QED BY <1>1, <1>2

LEMMA FinalizeType ==
    ASSUME TypeOK, NEW t \in Task, Finalize(t)
    PROVE  /\ meta' \in BOOLEAN /\ reserved' \in BOOLEAN /\ temp' \in BOOLEAN
           /\ started' = started /\ ws' = ws /\ queued' = queued
           /\ rec' \in 0 .. started
           /\ owner' \in 0 .. started /\ fresh' \in BOOLEAN
           /\ fresh' => fresh /\ owner' = owner
           /\ open' \in SUBSET (1 .. started)
           /\ at' \in [Task -> Labels] /\ of' \in [Task -> 0 .. started]
  <1>1. CASE FinalizeNothing(t)
    BY <1>1 DEF FinalizeNothing, TypeOK, Labels, None, audio
  <1>2. CASE FinalizeRecording(t)
    <2>1. /\ started' = started /\ ws' = ws /\ queued' = queued
          /\ rec' = None /\ of' = [of EXCEPT ![t] = rec]
      BY <1>2 DEF FinalizeRecording
    <2>2. rec' \in 0 .. started /\ of' \in [Task -> 0 .. started]
      BY <2>1 DEF TypeOK, None
    <2>3. CASE t = rec
      BY <1>2, <2>1, <2>2, <2>3, PublishType DEF FinalizeRecording
    <2>4. CASE t # rec
      <3>1. at' \in [Task -> Labels]
        BY <1>2, <2>4 DEF FinalizeRecording, TypeOK, Labels
      <3>2. QED BY <1>2, <2>1, <2>2, <2>4, <3>1 DEF FinalizeRecording, TypeOK
    <2>5. QED BY <2>3, <2>4
  <1>3. QED BY <1>1, <1>2 DEF Finalize

LEMMA TypeStep == TypeOK /\ [Next]_vars => TypeOK'
  <1> SUFFICES ASSUME TypeOK, [Next]_vars PROVE TypeOK'
    OBVIOUS
  <1> USE Tasks, IngestorAssumption
  <1>1. CASE Answer
    BY <1>1 DEF Answer, TypeOK, disk, audio
  <1>2. CASE HangupEvent
    BY <1>2, FinalizeType DEF HangupEvent, TypeOK
  <1>3. CASE HangupLost
    BY <1>3 DEF HangupLost, Fault, TypeOK, Labels, memory, disk, audio
  <1>4. ASSUME NEW s \in Socket, Connect(s) PROVE TypeOK'
    <2>1. at' \in [Task -> Labels]
      BY <1>4 DEF Connect, ConnectJoins, ConnectStarts, ConnectBusy, ConnectRefused,
                  ConnectFails, ConnectUnknown, TypeOK, Labels
    <2>2. CASE ConnectStarts(s)
      BY <1>4, <2>1, <2>2 DEF Connect, ConnectStarts, TypeOK, audio, None
    <2>3. CASE ~ConnectStarts(s)
      <3>1. /\ UNCHANGED <<call, rec, started, ws, of, disk, audio>>
            /\ meta' \in {meta, FALSE} /\ reserved' \in {reserved, FALSE, TRUE}
        BY <1>4, <2>3 DEF Connect, ConnectJoins, ConnectBusy, ConnectRefused, ConnectFails,
                          ConnectUnknown, memory
      <3>2. faults' \in 0 .. MaxFaults
        BY <1>4, <2>3 DEF Connect, ConnectJoins, ConnectBusy, ConnectRefused, ConnectFails,
                          ConnectUnknown, Fault, TypeOK
      <3>3. QED BY <2>1, <3>1, <3>2 DEF TypeOK, disk, audio
    <2>4. QED BY <2>2, <2>3
  <1>5. ASSUME NEW s \in Socket, Accept(s) PROVE TypeOK'
    <2>1. at' \in [Task -> Labels] /\ ws' \in SUBSET (1 .. started)
      <3>1. CASE rec = None
        BY <1>5, <3>1 DEF Accept, TypeOK, Labels
      <3>2. CASE rec # None
        <4>1. at' = [at EXCEPT ![s] = "streaming"] /\ ws' = ws \cup {rec}
          BY <1>5, <3>2 DEF Accept
        <4>2. rec \in 1 .. started
          BY <3>2 DEF TypeOK, None
        <4>3. QED BY <4>1, <4>2 DEF TypeOK, Labels
      <3>3. QED BY <3>1, <3>2
    <2>2. QED BY <1>5, <2>1 DEF Accept, TypeOK, disk, audio
  <1>6. ASSUME NEW s \in Socket, AcceptFails(s) PROVE TypeOK'
    BY <1>6 DEF AcceptFails, Fault, TypeOK, Labels, memory, disk, audio
  <1>7. ASSUME NEW s \in Socket, Frame(s) PROVE TypeOK'
    BY <1>7 DEF Frame, TypeOK, None, memory, disk
  <1>8. ASSUME NEW s \in Socket, Disconnect(s) PROVE TypeOK'
    BY <1>8, FinalizeType DEF Disconnect, TypeOK
  <1>9. ASSUME NEW g \in Recording, Beat(g) PROVE TypeOK'
    BY <1>9 DEF Beat, TypeOK, None, memory, audio
  <1>10. ASSUME NEW g \in Recording, BeatRefused(g) PROVE TypeOK'
    <2>1. faults' \in 0 .. MaxFaults
      BY <1>10 DEF BeatRefused, Fault, TypeOK
    <2>2. CASE g \in ws
      BY <1>10, <2>1, <2>2 DEF BeatRefused, TypeOK, Labels, memory, audio
    <2>3. CASE g \notin ws
      BY <1>10, <2>1, <2>3, FinalizeType DEF BeatRefused, TypeOK
    <2>4. QED BY <2>2, <2>3
  <1>11. ASSUME NEW g \in Recording, BeatRaises(g) PROVE TypeOK'
    BY <1>11 DEF BeatRaises, Fault, TypeOK, Labels, memory, disk, audio
  <1>12. ASSUME NEW g \in Recording, Closed(g) PROVE TypeOK'
    <2>1. CASE Finalize(g) /\ UNCHANGED faults
      BY <1>12, <2>1, FinalizeType DEF Closed, TypeOK
    <2>2. CASE Fault /\ at' = [at EXCEPT ![g] = "raised"] /\ UNCHANGED <<memory, owner, fresh, audio>>
      BY <1>12, <2>2 DEF Closed, Fault, TypeOK, Labels, memory, audio
    <2>3. QED BY <1>12, <2>1, <2>2 DEF Closed
  <1>13. ASSUME NEW t \in Task, Join(t) PROVE TypeOK'
    BY <1>13, PublishType DEF Join, TypeOK
  <1>14. ASSUME NEW t \in Task, Enqueue(t) PROVE TypeOK'
    <2>1. of[t] \in 0 .. started
      BY DEF TypeOK
    <2>2. faults' \in 0 .. MaxFaults
      BY <1>14 DEF Enqueue, Fault, TypeOK
    <2>3. at' \in [Task -> Labels]
      BY <1>14 DEF Enqueue, TypeOK, Labels
    <2>4. queued' \in SUBSET (0 .. started)
      BY <1>14, <2>1 DEF Enqueue, TypeOK
    <2>5. /\ UNCHANGED <<call, rec, started, ws, of, other, open, temp>>
          /\ meta' = FALSE /\ reserved' = FALSE
      BY <1>14 DEF Enqueue, Cleared
    <2>6. owner' \in 0 .. started /\ fresh' \in BOOLEAN /\ (fresh' => fresh /\ owner' = owner)
      BY <1>14 DEF Enqueue, Cleared, TypeOK, None
    <2>7. QED BY <2>2, <2>3, <2>4, <2>5, <2>6 DEF TypeOK
  <1>15. CASE LeaseExpires
    <2>1. UNCHANGED <<call, memory, owner, other, audio, at>> /\ fresh' = FALSE
      BY <1>15 DEF LeaseExpires
    <2>2. faults' \in 0 .. MaxFaults
      BY <1>15 DEF LeaseExpires, Fault, TypeOK
    <2>3. QED BY <2>1, <2>2 DEF TypeOK, memory, audio
  <1>16. CASE OtherWorker
    BY <1>16 DEF OtherWorker, TypeOK, memory, audio
  <1>17. CASE UNCHANGED vars
    BY <1>17 DEF vars, memory, disk, audio, TypeOK
  <1>18. QED
    BY <1>1, <1>2, <1>3, <1>4, <1>5, <1>6, <1>7, <1>8, <1>9, <1>10, <1>11, <1>12, <1>13,
       <1>14, <1>15, <1>16, <1>17 DEF Next, SocketStep, Heartbeat, FinalizeStep

LEMMA TypeInit == Init => TypeOK
  <1> SUFFICES ASSUME Init PROVE TypeOK
    OBVIOUS
  <1>1. at \in [Task -> Labels] /\ of \in [Task -> 0 .. 0]
    BY DEF Init, Labels, None
  <1>2. started \in 0 .. MaxRecordings /\ faults \in 0 .. MaxFaults
    BY IngestorAssumption DEF Init
  <1>3. rec = 0 /\ owner = 0 /\ started = 0 /\ ws = {} /\ open = {} /\ queued = {}
    BY DEF Init, None
  <1>4. /\ meta \in BOOLEAN /\ reserved \in BOOLEAN /\ fresh \in BOOLEAN
        /\ other \in BOOLEAN /\ temp \in BOOLEAN
        /\ ~fresh /\ call \in {"new", "up", "down"}
    BY DEF Init
  <1>5. QED BY <1>1, <1>2, <1>3, <1>4 DEF TypeOK

\* The variables keep their types: in particular a capture lease that has not
\* expired names a recording, and no other worker has the directory then.
THEOREM TypeCorrect == Spec => []TypeOK
  BY TypeInit, TypeStep, PTL DEF Spec

(***************************************************************************)
(* Who works on a recording                                                *)
(***************************************************************************)

Finalizing == {"join", "enqueue"}

\* A recording that a task finalizes is out of the table, and so is not the
\* recording that the next task to finalize would take.
TakenOut == \A t \in Task : at[t] \in Finalizing => of[t] \in 1 .. started /\ of[t] # rec

\* The hangup is handled once.
HangupOnce == call # "down" => at[Hangup] = "idle"

IInv == TypeOK /\ NoOrphanHeartbeat /\ TakenOut /\ OneFinalizer /\ HangupOnce

\* What a step that finalizes nothing new may do to the tasks.
Calm == /\ rec' = rec \/ (rec' = started + 1 /\ rec = None)
        /\ started' \in {started, rec'}
        /\ rec' # rec => started' = rec'
        /\ of' = of
        /\ \A t \in Task : at'[t] \in Finalizing => at[t] \in Finalizing
        /\ \A g \in Recording :
              at'[g] \in {"beating", "closing"} => at[g] \in {"beating", "closing"} \/ rec' = g
        /\ call' = "down" \/ (call # "down" /\ at'[Hangup] = at[Hangup])

LEMMA CalmStep ==
    ASSUME IInv, TypeOK', Calm
    PROVE  IInv'
  <1> USE DEF IInv
  <1>1. NoOrphanHeartbeat'
    BY Tasks DEF NoOrphanHeartbeat, Calm, None
  <1>2. TakenOut'
    BY IngestorAssumption DEF TakenOut, Calm, TypeOK, None
  <1>3. OneFinalizer'
    BY DEF OneFinalizer, Calm, Finalizing
  <1>4. HangupOnce'
    BY DEF HangupOnce, Calm
  <1>5. QED BY <1>1, <1>2, <1>3, <1>4

\* A finalization takes the recording out and stops its heartbeat in one step.
LEMMA FinalizeInv ==
    ASSUME IInv, TypeOK', NEW t \in Task, Finalize(t),
           at[t] \notin Finalizing,
           call' = "down" \/ (call' = call /\ t # Hangup)
    PROVE  IInv'
  <1>1. CASE FinalizeNothing(t)
    <2>1. Calm
      BY <1>1, Tasks DEF FinalizeNothing, IInv, TypeOK, Calm, Finalizing
    <2>2. QED BY <2>1, CalmStep
  <1>2. CASE FinalizeRecording(t)
    <2> DEFINE g == rec
    <2>1. /\ g # None /\ rec' = None /\ of' = [of EXCEPT ![t] = g] /\ started' = started
      BY <1>2 DEF FinalizeRecording
    <2>2. g \in Recording /\ g \in Task
      BY <2>1, Tasks, IngestorAssumption DEF IInv, TypeOK, None, Recording
    <2>3. \/ \E l \in {"enqueue", "ended"} : t = g /\ at' = [at EXCEPT ![t] = l]
          \/ t # g /\ at[g] = "raised" /\ at' = [at EXCEPT ![t] = "ended"]
          \/ t # g /\ at' = [at EXCEPT ![t] = "join", ![g] = "ended"]
      BY <1>2 DEF FinalizeRecording, Publish
    <2>4. at \in [Task -> Labels] /\ of \in [Task -> 0 .. started]
      BY DEF IInv, TypeOK
    <2>5. \A u \in Task \ {t} : at'[u] = at[u] \/ at'[u] = "ended"
      BY <2>2, <2>3, <2>4
    <2>6. at'[g] \notin {"beating", "closing"} /\ at'[t] \in {"enqueue", "ended", "join"}
      BY <2>2, <2>3, <2>4
    <2>7. \A u \in Task \ {t} : of'[u] = of[u]
      BY <2>1, <2>4
    <2>8. of'[t] = g
      BY <2>1, <2>4
    <2>9. \A u \in Task \ {t} : at'[u] \in Finalizing => at[u] \in Finalizing /\ of'[u] # g
      BY <2>5, <2>7 DEF IInv, TakenOut, Finalizing
    <2>10. NoOrphanHeartbeat'
      BY <2>5, <2>6, Tasks DEF IInv, NoOrphanHeartbeat
    <2>11. TakenOut'
      <3>1. g \in 1 .. started
        BY <2>1 DEF IInv, TypeOK, None
      <3>2. QED
        BY <2>1, <2>7, <2>8, <2>9, <3>1 DEF IInv, TakenOut, None
    <2>12. OneFinalizer'
      BY <2>7, <2>8, <2>9 DEF IInv, OneFinalizer, Finalizing
    <2>13. HangupOnce'
      BY <2>2, <2>3, <2>4, Tasks DEF IInv, HangupOnce
    <2>14. QED BY <2>10, <2>11, <2>12, <2>13 DEF IInv
  <1>3. QED BY <1>1, <1>2 DEF Finalize

LEMMA InvStep == IInv /\ [Next]_vars => IInv'
  <1> SUFFICES ASSUME IInv, [Next]_vars PROVE IInv'
    OBVIOUS
  <1>1. TypeOK' /\ TypeOK
    BY TypeStep DEF IInv
  <1>2. at \in [Task -> Labels]
    BY <1>1 DEF TypeOK
  <1> USE Tasks
  <1>3. CASE Answer \/ OtherWorker \/ LeaseExpires \/ UNCHANGED vars
    <2>1. Calm
      BY <1>3 DEF Answer, OtherWorker, LeaseExpires, vars, memory, Calm
    <2>2. QED BY <1>1, <2>1, CalmStep
  <1>4. CASE HangupEvent
    <2>1. at[Hangup] \notin Finalizing
      BY <1>4 DEF HangupEvent, IInv, HangupOnce, Finalizing
    <2>2. QED BY <1>1, <1>4, <2>1, FinalizeInv DEF HangupEvent
  <1>5. CASE HangupLost
    <2>1. Calm
      BY <1>2, <1>5 DEF HangupLost, memory, Calm, Finalizing
    <2>2. QED BY <1>1, <2>1, CalmStep
  <1>6. ASSUME NEW s \in Socket, Connect(s) PROVE IInv'
    <2>1. CASE ConnectStarts(s)
      <3>1. /\ rec = None /\ rec' = started + 1 /\ started' = started + 1 /\ of' = of
            /\ call' = call /\ at' = [at EXCEPT ![s] = "accepting", ![started + 1] = "beating"]
        BY <1>6, <2>1 DEF Connect, ConnectStarts
      <3>2. started + 1 \in Recording /\ s # Hangup /\ started + 1 # Hangup
        BY <1>6, <2>1, Tasks, IngestorAssumption DEF ConnectStarts, Recording, IInv, TypeOK
      <3>3. \A t \in Task : \/ at'[t] = at[t]
                            \/ t = s /\ at'[t] = "accepting"
                            \/ t = started + 1 /\ at'[t] = "beating"
        BY <1>2, <3>1
      <3>4. Calm
        BY <3>1, <3>2, <3>3 DEF Calm, Finalizing
      <3>5. QED BY <1>1, <3>4, CalmStep
    <2>2. CASE ~ConnectStarts(s)
      <3>1. /\ rec' = rec /\ started' = started /\ of' = of /\ call' = call
            /\ \E l \in {"accepting", "ended"} : at' = [at EXCEPT ![s] = l]
        BY <1>6, <2>2 DEF Connect, ConnectJoins, ConnectBusy, ConnectRefused, ConnectFails,
                          ConnectUnknown, memory
      <3>2. Calm
        BY <1>2, <3>1, IngestorAssumption DEF Calm, Finalizing
      <3>3. QED BY <1>1, <3>2, CalmStep
    <2>3. QED BY <2>1, <2>2
  <1>7. ASSUME NEW s \in Socket, Accept(s) \/ AcceptFails(s) \/ Frame(s) PROVE IInv'
    <2>1. /\ rec' = rec /\ started' = started /\ of' = of /\ call' = call
          /\ at' = at \/ \E l \in {"streaming", "ended"} : at' = [at EXCEPT ![s] = l]
      BY <1>7 DEF Accept, AcceptFails, Frame, memory
    <2>2. Calm
      BY <1>2, <2>1, IngestorAssumption DEF Calm, Finalizing
    <2>3. QED BY <1>1, <2>2, CalmStep
  <1>8. ASSUME NEW s \in Socket, Disconnect(s) PROVE IInv'
    <2>1. at[s] \notin Finalizing /\ s # Hangup /\ call' = call /\ Finalize(s)
      BY <1>8, IngestorAssumption DEF Disconnect, Finalizing
    <2>2. QED BY <1>1, <2>1, FinalizeInv
  <1>9. ASSUME NEW g \in Recording, Heartbeat(g), ~Finalize(g) PROVE IInv'
    <2>1. /\ rec' = rec /\ started' = started /\ of' = of /\ call' = call
          /\ at[g] \in {"beating", "closing"}
          /\ at' = at \/ \E l \in {"closing", "raised"} : at' = [at EXCEPT ![g] = l]
      BY <1>9 DEF Heartbeat, Beat, BeatRefused, BeatRaises, Closed, memory
    <2>2. Calm
      BY <1>2, <2>1 DEF Calm, Finalizing
    <2>3. QED BY <1>1, <2>2, CalmStep
  <1>10. ASSUME NEW g \in Recording, Heartbeat(g), Finalize(g) PROVE IInv'
    <2>1. at[g] \notin Finalizing /\ g # Hangup /\ call' = call
      BY <1>10 DEF Heartbeat, Beat, BeatRefused, BeatRaises, Closed, Finalizing
    <2>2. QED BY <1>1, <1>10, <2>1, FinalizeInv
  <1>11. ASSUME NEW t \in Task, FinalizeStep(t) PROVE IInv'
    <2>1. /\ rec' = rec /\ started' = started /\ of' = of /\ call' = call
          /\ at[t] \in Finalizing
          /\ \E l \in {"enqueue", "ended"} : at' = [at EXCEPT ![t] = l]
      BY <1>11 DEF FinalizeStep, Join, Enqueue, Publish, Finalizing
    <2>2. t = Hangup => call = "down"
      BY <2>1 DEF IInv, HangupOnce, Finalizing
    <2>3. Calm
      BY <1>2, <2>1, <2>2 DEF Calm, Finalizing
    <2>4. QED BY <1>1, <2>3, CalmStep
  <1>12. QED
    BY <1>3, <1>4, <1>5, <1>6, <1>7, <1>8, <1>9, <1>10, <1>11
    DEF Next, SocketStep, FinalizeStep

\* The strengthening that is inductive.
THEOREM Invariance == Spec => []IInv
  <1>1. Init => IInv
    <2>1. Init => TypeOK
      BY TypeInit
    <2>2. Init => NoOrphanHeartbeat /\ TakenOut /\ OneFinalizer /\ HangupOnce
      BY Tasks DEF Init, NoOrphanHeartbeat, TakenOut, OneFinalizer, HangupOnce, Finalizing
    <2>3. QED BY <2>1, <2>2 DEF IInv
  <1>2. QED
    BY <1>1, InvStep, PTL DEF Spec

\* Every recording is finalized by one task, however the end of the sockets,
\* the hangup and the loss of the lease are interleaved.
THEOREM FinalizedOnce == Spec => []OneFinalizer
  BY Invariance, PTL DEF IInv

\* The heartbeat that renews a capture lease is the one of the recording in
\* progress: finalization leaves none behind.
THEOREM HeartbeatsStop == Spec => []NoOrphanHeartbeat
  BY Invariance, PTL DEF IInv

(***************************************************************************)
(* The lease of a recording                                                *)
(***************************************************************************)

\* What is being enqueued has been closed and published.
EnqueuedIsClosed == \A t \in Task : at[t] = "enqueue" => of[t] \notin open

\* A step enqueues nothing new and opens nothing but the recording in the table,
\* or it is the publication of one task.
LEMMA ClosedStep ==
    ASSUME IInv, EnqueuedIsClosed, [Next]_vars
    PROVE  EnqueuedIsClosed'
  <1> USE Tasks, IngestorAssumption
  <1>1. at \in [Task -> Labels] /\ of \in [Task -> 0 .. started]
    BY DEF IInv, TypeOK
  <1>2. ASSUME NEW t \in Task, NEW g, Publish(t, g), of'[t] = g,
               \A u \in Task \ {t} : of'[u] = of[u]
        PROVE  EnqueuedIsClosed'
    <2>1. open' = open \ {g} /\ \A u \in Task \ {t} : at'[u] = at[u]
      BY <1>1, <1>2 DEF Publish
    <2>2. QED BY <1>2, <2>1 DEF EnqueuedIsClosed
  <1>3. ASSUME NEW t \in Task, Finalize(t) PROVE EnqueuedIsClosed'
    <2>1. CASE FinalizeNothing(t)
      BY <1>1, <2>1 DEF FinalizeNothing, EnqueuedIsClosed, audio
    <2>2. CASE FinalizeRecording(t) /\ t = rec
      BY <1>1, <1>2, <2>2 DEF FinalizeRecording
    <2>3. CASE FinalizeRecording(t) /\ t # rec
      <3>1. /\ open' = open /\ of' = [of EXCEPT ![t] = rec]
            /\ \/ at' = [at EXCEPT ![t] = "ended"]
               \/ at' = [at EXCEPT ![t] = "join", ![rec] = "ended"]
        BY <2>3 DEF FinalizeRecording
      <3>2. \A u \in Task : at'[u] = "enqueue" => u # t /\ at[u] = "enqueue" /\ of'[u] = of[u]
        BY <1>1, <3>1
      <3>3. QED BY <3>1, <3>2 DEF EnqueuedIsClosed
    <2>4. QED BY <1>3, <2>1, <2>2, <2>3 DEF Finalize
  <1>4. ASSUME NEW t \in Task, Join(t) PROVE EnqueuedIsClosed'
    BY <1>2, <1>4 DEF Join
  <1>5. ASSUME NEW s \in Socket, Frame(s) PROVE EnqueuedIsClosed'
    BY <1>5 DEF Frame, memory, EnqueuedIsClosed, IInv, TakenOut, Finalizing
  <1>6. CASE \/ Answer \/ HangupLost \/ LeaseExpires \/ OtherWorker \/ UNCHANGED vars
             \/ \E s \in Socket : Connect(s) \/ Accept(s) \/ AcceptFails(s)
             \/ \E t \in Task : Enqueue(t)
    <2>1. open' = open /\ of' = of
      BY <1>6 DEF Answer, HangupLost, LeaseExpires, OtherWorker, vars, Connect, ConnectJoins,
                  ConnectStarts, ConnectBusy, ConnectRefused, ConnectFails, ConnectUnknown,
                  Accept, AcceptFails, Enqueue, memory, audio
    <2>2. \A u \in Task : at'[u] = "enqueue" => at[u] = "enqueue"
      <3>1. CASE \E s \in Socket : Connect(s)
        BY <1>1, <3>1 DEF Connect, ConnectJoins, ConnectStarts, ConnectBusy, ConnectRefused,
                          ConnectFails, ConnectUnknown
      <3>2. CASE \E s \in Socket : Accept(s) \/ AcceptFails(s)
        BY <1>1, <3>2 DEF Accept, AcceptFails
      <3>3. CASE Answer \/ HangupLost \/ LeaseExpires \/ OtherWorker \/ UNCHANGED vars
        BY <1>1, <3>3 DEF Answer, HangupLost, LeaseExpires, OtherWorker, vars
      <3>4. CASE \E t \in Task : Enqueue(t)
        BY <1>1, <3>4 DEF Enqueue
      <3>5. QED BY <1>6, <3>1, <3>2, <3>3, <3>4
    <2>3. QED BY <2>1, <2>2 DEF EnqueuedIsClosed
  <1>7. ASSUME NEW g \in Recording, Heartbeat(g), ~Finalize(g) PROVE EnqueuedIsClosed'
    BY <1>1, <1>7 DEF Heartbeat, Beat, BeatRefused, BeatRaises, Closed, memory, audio,
                      EnqueuedIsClosed
  <1>8. QED
    BY <1>3, <1>4, <1>5, <1>6, <1>7
    DEF Next, HangupEvent, SocketStep, Disconnect, FinalizeStep

\* Only the end of a finalization takes a valid lease away.
LEMMA OnlyItsOwn ==
    ASSUME IInv, EnqueuedIsClosed, [Next]_vars, fresh, owner' = None
    PROVE  \E t \in Task : at[t] # "ended" /\ at'[t] = "ended" /\ of'[t] = owner /\ owner \notin open'
  <1> USE Tasks, IngestorAssumption
  <1>1. owner # None /\ at \in [Task -> Labels] /\ of \in [Task -> 0 .. started]
    BY DEF IInv, TypeOK
  <1>2. ASSUME NEW t \in Task, NEW g, Publish(t, g)
        PROVE  at'[t] = "ended" /\ g = owner /\ owner \notin open'
    BY <1>1, <1>2 DEF Publish, Cleared
  <1>3. CASE \E t \in Task : Finalize(t) /\ at[t] # "ended"
    <2> PICK t \in Task : Finalize(t) /\ at[t] # "ended"
      BY <1>3
    <2>1. rec # None /\ t = rec /\ Publish(t, rec) /\ of' = [of EXCEPT ![t] = rec]
      BY <1>1 DEF Finalize, FinalizeNothing, FinalizeRecording
    <2>2. QED BY <1>1, <1>2, <2>1
  <1>4. CASE \E t \in Task : Join(t)
    BY <1>2, <1>4 DEF Join
  <1>5. CASE \E t \in Task : Enqueue(t)
    BY <1>1, <1>5 DEF Enqueue, Cleared, EnqueuedIsClosed
  <1>6. CASE \E s \in Socket : Connect(s)
    BY <1>1, <1>6 DEF Connect, ConnectJoins, ConnectStarts, ConnectBusy, ConnectRefused,
                      ConnectFails, ConnectUnknown, disk, None, IInv, TypeOK
  <1>7. QED
    BY <1>1, <1>3, <1>4, <1>5, <1>6
    DEF Next, Answer, HangupEvent, HangupLost, SocketStep, Accept, AcceptFails, Frame, Disconnect,
        Heartbeat, Beat, BeatRefused, BeatRaises, Closed, FinalizeStep, LeaseExpires, OtherWorker,
        vars, disk, memory, IInv, HangupOnce

\* The capture lease stays until the audio it protects was published and
\* enqueued: over any number of sockets, recordings of one call and faults, no
\* finalization takes the lease of the recording that came after its own.
THEOREM LeaseStays == Spec => LeaseKeptToTheEnd
  <1>1. Init => EnqueuedIsClosed
    BY DEF Init, EnqueuedIsClosed
  <1>2. IInv /\ EnqueuedIsClosed /\ [Next]_vars => EnqueuedIsClosed'
    BY ClosedStep
  <1>3. IInv /\ EnqueuedIsClosed /\ [Next]_vars
          => [fresh /\ owner' = None
                => \E t \in Task : at[t] # "ended" /\ at'[t] = "ended" /\ of'[t] = owner /\ owner \notin open']_vars
    BY OnlyItsOwn
  <1>4. QED BY <1>1, <1>2, <1>3, Invariance, PTL DEF Spec, LeaseKeptToTheEnd

(***************************************************************************)
(* The end of a call in which nothing fails                                *)
(***************************************************************************)

\* When the call is over and its tasks have ended, nothing of it is left.
\* This is what HangupCleans comes to if all that is running gets to its end.
EndIsClean == Finished /\ faults = 0 => Clean

\* The recordings with audio that is not in the queue yet.
Pending == open \cup {of[t] : t \in {u \in Task : at[u] = "enqueue"}}

\* No step loses audio: what was recorded stays in hand until it is enqueued.
AudioIsFollowed ==
    [][faults' = 0 => Pending \subseteq Pending' \cup queued']_vars

\* The recording in the table has its heartbeat and its lease.
Attended == rec # None => at[rec] = "beating" /\ owner = rec /\ fresh

\* A heartbeat beats until it is cancelled.
OnlyBeat == \A g \in Recording : at[g] \in {"idle", "beating", "ended"}

\* Who has to give back the lease, the metadata of a call that is over, and
\* the reservation.
LeaseHeld == owner # None => owner = rec \/ \E t \in Task : at[t] \in Finalizing /\ of[t] = owner
MetaHeld == meta /\ call = "down" => at[Hangup] \in Finalizing
RoomHeld == reserved => rec # None \/ \E t \in Task : at[t] \in Finalizing

\* A recording keeps its lease until its heartbeat has ended.
JoinedOwns == \A t \in Task : at[t] = "join" => of[t] = owner /\ fresh

\* An open file is that of the recording in the table or of the one whose
\* heartbeat is awaited, and it is in the directory.
HandlesHeld == \A g \in open : temp /\ (g = rec \/ \E t \in Task : at[t] = "join" /\ of[t] = g)

Intact ==
    /\ Attended /\ OnlyBeat /\ LeaseHeld /\ MetaHeld /\ RoomHeld
    /\ JoinedOwns /\ HandlesHeld

\* A step that neither starts nor ends a recording, nor a finalization.
Keeps ==
    /\ rec' = rec /\ owner' = owner /\ of' = of /\ open' = open /\ temp' = temp
    /\ meta' => meta \/ call' # "down"
    /\ call' = call \/ call' # "down"
    /\ reserved' => reserved
    /\ fresh => fresh'
    /\ \A t \in Task : (at[t] \in Finalizing \/ at'[t] = "join") => at'[t] = at[t]
    /\ \A g \in Recording : at'[g] = at[g]

LEMMA KeepsIntact ==
    ASSUME IInv, Intact, Keeps
    PROVE  Intact'
  <1> USE Tasks DEF Keeps
  <1>1. Attended'
    <2>1. rec # None => rec \in Recording
      BY IngestorAssumption DEF IInv, TypeOK, Recording, None
    <2>2. QED BY <2>1 DEF Intact, Attended
  <1>2. OnlyBeat' /\ JoinedOwns'
    BY DEF Intact, OnlyBeat, JoinedOwns
  <1>3. LeaseHeld'
    BY DEF Intact, LeaseHeld, Finalizing
  <1>4. MetaHeld'
    BY DEF Intact, MetaHeld
  <1>5. RoomHeld'
    BY DEF Intact, RoomHeld
  <1>6. HandlesHeld'
    BY DEF Intact, HandlesHeld, Finalizing
  <1>7. QED BY <1>1, <1>2, <1>3, <1>4, <1>5, <1>6 DEF Intact

\* While a heartbeat is awaited there is no recording in the table, and no other
\* file is open.
LEMMA AloneAtJoin ==
    ASSUME IInv, Intact, NEW t \in Task, at[t] = "join"
    PROVE  /\ rec = None /\ open \subseteq {of[t]}
           /\ \A u \in Task : at[u] = "join" => u = t
  <1>1. rec = None
    BY DEF IInv, TakenOut, Finalizing, Intact, Attended, JoinedOwns
  <1>2. \A u \in Task : at[u] = "join" => u = t
    BY DEF IInv, OneFinalizer, Intact, JoinedOwns
  <1>3. open \subseteq {of[t]}
    BY <1>1, <1>2 DEF Intact, HandlesHeld, IInv, TypeOK, None
  <1>4. QED BY <1>1, <1>2, <1>3

\* The task that handles the end of a socket, or the hangup, takes the recording
\* out and waits for its heartbeat.
LEMMA TakesOut ==
    ASSUME IInv, Intact, NEW t \in Task \ Recording, Finalize(t), at[t] \notin Finalizing,
           (t = Hangup /\ call' = "down") \/ (t # Hangup /\ call' = call)
    PROVE  Intact'
  <1> USE Tasks
  <1>1. at \in [Task -> Labels] /\ of \in [Task -> 0 .. started]
    BY DEF IInv, TypeOK
  <1>2. CASE FinalizeNothing(t)
    <2>1. /\ meta' = FALSE /\ at' = [at EXCEPT ![t] = "ended"]
          /\ UNCHANGED <<rec, reserved, of, owner, fresh, open, temp>>
      BY <1>2 DEF FinalizeNothing, audio
    <2>2. \A u \in Task : u # t => at'[u] = at[u]
      BY <1>1, <2>1
    <2>3. at'[t] = "ended"
      BY <1>1, <2>1
    <2>4. rec = None
      BY <1>2 DEF FinalizeNothing
    <2>5. Attended' /\ MetaHeld'
      BY <2>1, <2>4 DEF Attended, MetaHeld
    <2>6. OnlyBeat' /\ JoinedOwns'
      BY <2>1, <2>2, <2>3 DEF Intact, OnlyBeat, JoinedOwns
    <2>7. LeaseHeld' /\ RoomHeld' /\ HandlesHeld'
      BY <2>1, <2>2 DEF Intact, LeaseHeld, RoomHeld, HandlesHeld, Finalizing
    <2>8. QED BY <2>5, <2>6, <2>7 DEF Intact
  <1>3. CASE FinalizeRecording(t)
    <2> DEFINE g == rec
    <2>1. g # None /\ g \in Recording /\ g # t
      BY <1>3, IngestorAssumption DEF FinalizeRecording, IInv, TypeOK, Recording, None
    <2>2. at[g] = "beating" /\ owner = g /\ fresh
      BY <2>1 DEF Intact, Attended
    <2>3. /\ rec' = None /\ of' = [of EXCEPT ![t] = g]
          /\ at' = [at EXCEPT ![t] = "join", ![g] = "ended"]
          /\ UNCHANGED <<meta, reserved, owner, fresh, open, temp>>
      BY <1>3, <2>1, <2>2 DEF FinalizeRecording
    <2>4. at'[t] = "join" /\ of'[t] = g
      BY <1>1, <2>1, <2>3
    <2>5. \A u \in Task : u # t => at'[u] \in {at[u], "ended"} /\ of'[u] = of[u]
      BY <1>1, <2>3
    <2>6. \A u \in Task : at[u] # "join"
      BY <2>1, AloneAtJoin
    <2>7. Attended' /\ RoomHeld'
      BY <2>3, <2>4 DEF Attended, RoomHeld, Finalizing
    <2>8. OnlyBeat'
      BY <2>5 DEF Intact, OnlyBeat
    <2>9. LeaseHeld' /\ JoinedOwns'
      BY <2>2, <2>3, <2>4, <2>5, <2>6 DEF LeaseHeld, JoinedOwns, Finalizing
    <2>10. MetaHeld'
      <3>1. CASE t = Hangup
        BY <2>4, <3>1 DEF MetaHeld, Finalizing
      <3>2. CASE t # Hangup
        <4>1. at'[Hangup] = at[Hangup]
          BY <1>1, <2>1, <2>3, <3>2
        <4>2. QED BY <2>3, <3>2, <4>1 DEF Intact, MetaHeld
      <3>3. QED BY <3>1, <3>2
    <2>11. HandlesHeld'
      BY <2>3, <2>4, <2>6 DEF Intact, HandlesHeld
    <2>12. QED BY <2>7, <2>8, <2>9, <2>10, <2>11 DEF Intact
  <1>4. QED BY <1>2, <1>3 DEF Finalize

\* What the end of a finalization gives back is its own, or nobody's any more.
LEMMA GivesBack ==
    ASSUME IInv, Intact, NEW t \in Task, at[t] \in Finalizing, Cleared(of[t]),
           at' = [at EXCEPT ![t] = "ended"], rec' = rec, of' = of,
           open' \subseteq open \ {of[t]}, temp' = temp
    PROVE  Intact'
  <1> USE Tasks
  <1>1. /\ \A u \in Task : u # t => at'[u] = at[u]
        /\ at'[t] = "ended"
    BY DEF IInv, TypeOK
  <1>2. \A u \in Task : u # t /\ at[u] \in Finalizing => of[u] # of[t]
    BY DEF IInv, OneFinalizer, Finalizing
  <1>3. of[t] # rec
    BY DEF IInv, TakenOut
  <1>4. owner # of[t] => owner' = owner /\ fresh' = fresh
    BY DEF Cleared, IInv, TypeOK
  <1>5. owner' # None => owner' = owner /\ owner # of[t]
    BY DEF Cleared
  <1>6. ~meta' /\ ~reserved'
    BY DEF Cleared
  <1>7. Attended'
    <2>1. rec # None => rec \in Recording /\ rec # t
      BY IngestorAssumption DEF IInv, TypeOK, Recording, None, Intact, Attended, Finalizing
    <2>2. QED BY <1>1, <1>3, <1>4, <2>1 DEF Intact, Attended
  <1>8. OnlyBeat' /\ MetaHeld' /\ RoomHeld'
    BY <1>1, <1>6 DEF Intact, OnlyBeat, MetaHeld, RoomHeld
  <1>9. LeaseHeld'
    BY <1>1, <1>5 DEF Intact, LeaseHeld
  <1>10. JoinedOwns'
    BY <1>1, <1>2, <1>4 DEF Intact, JoinedOwns, Finalizing
  <1>11. HandlesHeld'
    BY <1>1 DEF Intact, HandlesHeld
  <1>12. QED BY <1>7, <1>8, <1>9, <1>10, <1>11 DEF Intact

LEMMA JoinIntact ==
    ASSUME IInv, Intact, NEW t \in Task, Join(t)
    PROVE  Intact'
  <1> USE Tasks
  <1> DEFINE g == of[t]
  <1>1. at[t] = "join" /\ Publish(t, g) /\ rec' = rec /\ of' = of /\ call' = call
    BY DEF Join
  <1>2. rec = None /\ open \subseteq {g} /\ \A u \in Task : at[u] = "join" => u = t
    BY <1>1, AloneAtJoin
  <1>3. CASE g \in open /\ temp
    <2>1. /\ open' = {} /\ at' = [at EXCEPT ![t] = "enqueue"]
          /\ UNCHANGED <<owner, fresh, reserved, meta>>
      BY <1>1, <1>2, <1>3 DEF Publish
    <2>2. /\ \A u \in Task : u # t => at'[u] = at[u]
          /\ at'[t] = "enqueue"
      BY <2>1 DEF IInv, TypeOK
    <2>3. Attended' /\ HandlesHeld'
      BY <1>1, <1>2, <2>1 DEF Attended, HandlesHeld
    <2>4. OnlyBeat' /\ JoinedOwns'
      BY <1>1, <1>2, <2>2 DEF Intact, OnlyBeat, JoinedOwns
    <2>5. LeaseHeld'
      BY <1>1, <2>1, <2>2 DEF Intact, LeaseHeld, Finalizing
    <2>6. MetaHeld' /\ RoomHeld'
      BY <1>1, <2>1, <2>2 DEF Intact, MetaHeld, RoomHeld, Finalizing
    <2>7. QED BY <2>3, <2>4, <2>5, <2>6 DEF Intact
  <1>4. CASE ~(g \in open /\ temp)
    <2>1. /\ open' = open \ {g} /\ Cleared(g) /\ temp' = temp
          /\ at' = [at EXCEPT ![t] = "ended"]
      BY <1>1, <1>4 DEF Publish
    <2>2. QED BY <1>1, <2>1, GivesBack DEF Finalizing
  <1>5. QED BY <1>3, <1>4

LEMMA EnqueueIntact ==
    ASSUME IInv, EnqueuedIsClosed, Intact, NEW t \in Task, Enqueue(t)
    PROVE  Intact'
  <1>1. /\ at[t] = "enqueue" /\ Cleared(of[t]) /\ at' = [at EXCEPT ![t] = "ended"]
        /\ UNCHANGED <<rec, of, open, temp>>
    BY DEF Enqueue
  <1>2. of[t] \notin open
    BY <1>1 DEF EnqueuedIsClosed
  <1>3. QED BY <1>1, <1>2, GivesBack DEF Finalizing

LEMMA StartIntact ==
    ASSUME IInv, Intact, NEW s \in Socket, Connect(s), ConnectStarts(s)
    PROVE  Intact'
  <1> USE Tasks, IngestorAssumption
  <1> DEFINE g == started + 1
  <1>1. /\ rec = None /\ ~fresh /\ rec' = g /\ owner' = g /\ fresh'
        /\ at' = [at EXCEPT ![s] = "accepting", ![g] = "beating"]
        /\ UNCHANGED <<call, meta, of, open, temp>>
    BY DEF Connect, ConnectStarts, audio
  <1>2. g \in Recording /\ g # None /\ g # Hangup /\ s # Hangup
    BY DEF ConnectStarts, IInv, TypeOK, Recording, None
  <1>3. at'[g] = "beating" /\ at'[Hangup] = at[Hangup]
    BY <1>1, <1>2 DEF IInv, TypeOK
  <1>4. \A u \in Task : at'[u] \in {at[u], "beating"} \cup (IF u = s THEN {"accepting"} ELSE {})
    BY <1>1 DEF IInv, TypeOK
  <1>5. \A u \in Task : at[u] # "join"
    BY <1>1 DEF Intact, JoinedOwns
  <1>6. open = {}
    BY <1>1, <1>5 DEF Intact, HandlesHeld, IInv, TypeOK, None
  <1>7. Attended' /\ LeaseHeld' /\ RoomHeld' /\ HandlesHeld'
    BY <1>1, <1>2, <1>3, <1>6 DEF Attended, LeaseHeld, RoomHeld, HandlesHeld
  <1>8. OnlyBeat' /\ JoinedOwns'
    BY <1>4, <1>5 DEF Intact, OnlyBeat, JoinedOwns
  <1>9. MetaHeld'
    BY <1>1, <1>3 DEF Intact, MetaHeld
  <1>10. QED BY <1>7, <1>8, <1>9 DEF Intact

LEMMA FaultsStay == TypeOK /\ [Next]_vars => faults' \in {faults, faults + 1}
  <1> SUFFICES ASSUME TypeOK, [Next]_vars PROVE faults' \in {faults, faults + 1}
    OBVIOUS
  <1>1. ASSUME NEW s \in Socket, SocketStep(s) PROVE faults' \in {faults, faults + 1}
    BY <1>1 DEF SocketStep, Connect, ConnectJoins, ConnectStarts, ConnectBusy, ConnectRefused,
                ConnectFails, ConnectUnknown, Accept, AcceptFails, Frame, Disconnect, Fault
  <1>2. ASSUME NEW g \in Recording, Heartbeat(g) PROVE faults' \in {faults, faults + 1}
    BY <1>2 DEF Heartbeat, Beat, BeatRefused, BeatRaises, Closed, Fault
  <1>3. QED
    BY <1>1, <1>2 DEF Next, Answer, HangupEvent, HangupLost, FinalizeStep, Join, Enqueue,
                      LeaseExpires, OtherWorker, Fault, vars

\* No heartbeat ends a recording, and none raises, unless something fails.
LEMMA BeatsOn ==
    ASSUME IInv, Intact, NEW g \in Recording, Heartbeat(g), faults' = faults
    PROVE  Keeps
  <1> USE Tasks
  <1>1. faults \in Nat
    BY DEF IInv, TypeOK
  <1>2. at[g] = "beating"
    BY DEF Heartbeat, Beat, BeatRefused, BeatRaises, Closed, Intact, OnlyBeat
  <1>3. g = rec /\ owner = g /\ fresh /\ ~other
    BY <1>2, IngestorAssumption
    DEF IInv, NoOrphanHeartbeat, TypeOK, Intact, Attended, Recording, None
  <1>4. ~Fault
    BY <1>1 DEF Fault
  <1>5. ~BeatRefused(g)
    BY <1>3, <1>4 DEF BeatRefused
  <1>6. ~BeatRaises(g)
    BY <1>3, <1>4 DEF BeatRaises
  <1>7. ~Closed(g)
    BY <1>2 DEF Closed
  <1>8. Beat(g)
    BY <1>5, <1>6, <1>7 DEF Heartbeat
  <1>9. QED BY <1>3, <1>8 DEF Beat, memory, audio, Keeps

LEMMA IntactStep ==
    ASSUME IInv, EnqueuedIsClosed, Intact, [Next]_vars, faults' = faults
    PROVE  Intact'
  <1> USE Tasks, IngestorAssumption
  <1>1. at \in [Task -> Labels] /\ faults \in Nat
    BY DEF IInv, TypeOK
  <1>2. ~Fault
    BY <1>1 DEF Fault
  <1>3. CASE Answer
    BY <1>3, KeepsIntact DEF Answer, disk, audio, Keeps
  <1>4. CASE HangupEvent
    <2>1. at[Hangup] \notin Finalizing
      BY <1>4 DEF HangupEvent, IInv, HangupOnce, Finalizing
    <2>2. QED BY <1>4, <2>1, TakesOut DEF HangupEvent
  <1>5. ASSUME NEW s \in Socket, Connect(s) PROVE Intact'
    <2>1. CASE ConnectStarts(s)
      BY <1>5, <2>1, StartIntact
    <2>2. CASE ConnectJoins(s) \/ ConnectBusy(s) \/ ConnectUnknown(s)
      <3>1. PICK l \in {"accepting", "ended"} : at[s] = "idle" /\ at' = [at EXCEPT ![s] = l]
        BY <1>5, <2>2 DEF Connect, ConnectJoins, ConnectBusy, ConnectUnknown
      <3>2. /\ \A t \in Task : (at[t] \in Finalizing \/ at'[t] = "join") => at'[t] = at[t]
            /\ \A g \in Recording : at'[g] = at[g]
        BY <1>1, <3>1 DEF Finalizing
      <3>3. Keeps
        BY <1>5, <2>2, <3>2
        DEF Connect, ConnectJoins, ConnectBusy, ConnectUnknown, memory, disk, audio, Keeps
      <3>4. QED BY <3>3, KeepsIntact
    <2>3. QED BY <1>2, <1>5, <2>1, <2>2 DEF Connect, ConnectRefused, ConnectFails
  <1>6. ASSUME NEW s \in Socket, Accept(s) \/ Frame(s) PROVE Intact'
    <2>1. CASE Accept(s)
      <3>1. PICK l \in {"streaming", "ended"} : at[s] = "accepting" /\ at' = [at EXCEPT ![s] = l]
        BY <2>1 DEF Accept
      <3>2. /\ \A t \in Task : (at[t] \in Finalizing \/ at'[t] = "join") => at'[t] = at[t]
            /\ \A g \in Recording : at'[g] = at[g]
        BY <1>1, <3>1 DEF Finalizing
      <3>3. Keeps
        BY <2>1, <3>2 DEF Accept, disk, audio, Keeps
      <3>4. QED BY <3>3, KeepsIntact
    <2>2. CASE Frame(s)
      <3>1. /\ rec # None /\ open' = open \cup {rec} /\ (temp' <=> temp \/ rec \notin open)
            /\ UNCHANGED <<call, memory, disk, at>>
        BY <2>2 DEF Frame
      <3>2. HandlesHeld'
        BY <3>1 DEF Intact, HandlesHeld, memory
      <3>3. QED
        BY <3>1, <3>2
        DEF Intact, Attended, OnlyBeat, LeaseHeld, MetaHeld, RoomHeld, JoinedOwns, memory, disk
    <2>3. QED BY <1>6, <2>1, <2>2
  <1>7. ASSUME NEW s \in Socket, Disconnect(s) PROVE Intact'
    <2>1. at[s] \notin Finalizing /\ s # Hangup /\ s \notin Recording
      BY <1>7 DEF Disconnect, Finalizing
    <2>2. QED BY <1>7, <2>1, TakesOut DEF Disconnect
  <1>8. ASSUME NEW g \in Recording, Heartbeat(g) PROVE Intact'
    BY <1>8, BeatsOn, KeepsIntact
  <1>9. ASSUME NEW t \in Task, FinalizeStep(t) PROVE Intact'
    BY <1>9, JoinIntact, EnqueueIntact DEF FinalizeStep
  <1>10. CASE LeaseExpires
    <2>1. /\ fresh /\ (Unattended \/ at[owner] = "raised")
          /\ UNCHANGED <<call, memory, owner, at, audio>>
      BY <1>2, <1>10 DEF LeaseExpires
    <2>2. owner \in Recording
      BY <2>1 DEF IInv, TypeOK, Recording, None
    <2>3. owner # rec /\ \A t \in Task : at[t] = "join" => of[t] # owner
      BY <2>1, <2>2 DEF Unattended, Intact, OnlyBeat
    <2>4. rec = None /\ \A t \in Task : at[t] # "join"
      BY <2>3 DEF Intact, Attended, JoinedOwns
    <2>5. Attended' /\ JoinedOwns'
      BY <2>1, <2>4 DEF Attended, JoinedOwns, memory
    <2>6. QED
      BY <2>1, <2>5
      DEF Intact, OnlyBeat, LeaseHeld, MetaHeld, RoomHeld, HandlesHeld, memory, audio
  <1>11. CASE OtherWorker \/ UNCHANGED vars
    BY <1>11, KeepsIntact DEF OtherWorker, vars, memory, disk, audio, Keeps
  <1>12. QED
    BY <1>2, <1>3, <1>4, <1>5, <1>6, <1>7, <1>8, <1>9, <1>10, <1>11
    DEF Next, SocketStep, HangupLost, AcceptFails

\* At the end there is nobody left to hold anything.
LEMMA IntactIsClean == IInv /\ Intact /\ Finished => Clean
  <1> SUFFICES ASSUME IInv, Intact, Finished PROVE Clean
    OBVIOUS
  <1>1. \A t \in Task : at[t] \notin {"join", "enqueue", "beating"}
    BY DEF Finished
  <1>2. rec = None
    BY <1>1, Tasks, IngestorAssumption DEF IInv, TypeOK, Intact, Attended, Recording, None
  <1>3. owner = None /\ ~reserved /\ ~meta
    BY <1>1, <1>2, Tasks DEF Intact, LeaseHeld, RoomHeld, MetaHeld, Finished, Finalizing
  <1>4. open = {}
    BY <1>1, <1>2 DEF Intact, HandlesHeld, IInv, TypeOK, None
  <1>5. QED BY <1>2, <1>3, <1>4 DEF Clean

LEMMA IntactStart == Init => Intact
  BY Tasks DEF Init, Intact, Attended, OnlyBeat, LeaseHeld, MetaHeld, RoomHeld, JoinedOwns, HandlesHeld

\* One task publishes its own recording only, and then has it to enqueue.
LEMMA PublishFollows ==
    ASSUME IInv, Intact, NEW t \in Task, Join(t)
    PROVE  Pending \subseteq Pending'
  <1>1. at[t] = "join" /\ Publish(t, of[t]) /\ of' = of
    BY DEF Join
  <1>2. open \subseteq {of[t]} /\ (open # {} => temp)
    BY <1>1, AloneAtJoin DEF Intact, HandlesHeld
  <1>3. CASE open = {}
    <2>1. \A u \in Task : at[u] = "enqueue" => at'[u] = "enqueue"
      BY <1>1 DEF Publish, IInv, TypeOK
    <2>2. QED BY <1>1, <1>3, <2>1 DEF Pending
  <1>4. CASE open # {}
    <2>1. of[t] \in open /\ open = {of[t]} /\ at' = [at EXCEPT ![t] = "enqueue"]
      BY <1>1, <1>2, <1>4 DEF Publish
    <2>2. at'[t] = "enqueue" /\ \A u \in Task : at[u] = "enqueue" => at'[u] = "enqueue"
      BY <2>1 DEF IInv, TypeOK
    <2>3. QED BY <1>1, <2>1, <2>2 DEF Pending
  <1>5. QED BY <1>3, <1>4

LEMMA Followed ==
    ASSUME IInv, Intact, [Next]_vars, faults' = faults
    PROVE  Pending \subseteq Pending' \cup queued'
  <1> USE Tasks, IngestorAssumption
  <1>1. at \in [Task -> Labels] /\ of \in [Task -> 0 .. started] /\ faults \in Nat
    BY DEF IInv, TypeOK
  <1>2. ~Fault
    BY <1>1 DEF Fault
  <1>3. ASSUME open \subseteq open',
               \A u \in Task : at[u] = "enqueue" => at'[u] = "enqueue" /\ of'[u] = of[u]
        PROVE  Pending \subseteq Pending'
    BY <1>3 DEF Pending
  <1>4. ASSUME NEW t \in Task \ Recording, Finalize(t), at[t] # "enqueue"
        PROVE  Pending \subseteq Pending'
    <2>1. CASE FinalizeNothing(t)
      BY <1>1, <1>3, <1>4, <2>1 DEF FinalizeNothing, audio
    <2>2. CASE FinalizeRecording(t)
      <3>1. rec # None /\ rec # t /\ at[rec] = "beating"
        BY <2>2 DEF FinalizeRecording, IInv, TypeOK, None, Recording, Intact, Attended
      <3>2. /\ of' = [of EXCEPT ![t] = rec] /\ open' = open
            /\ at' = [at EXCEPT ![t] = "join", ![rec] = "ended"]
        BY <2>2, <3>1 DEF FinalizeRecording
      <3>3. \A u \in Task : at[u] = "enqueue" => at'[u] = "enqueue" /\ of'[u] = of[u]
        BY <1>1, <1>4, <3>1, <3>2
      <3>4. QED BY <1>3, <3>2, <3>3
    <2>3. QED BY <1>4, <2>1, <2>2 DEF Finalize
  <1>5. CASE HangupEvent
    BY <1>4, <1>5 DEF HangupEvent, IInv, HangupOnce
  <1>6. ASSUME NEW s \in Socket, Connect(s) PROVE Pending \subseteq Pending'
    <2>1. at[s] = "idle" /\ open' = open /\ of' = of
      BY <1>6 DEF Connect, ConnectJoins, ConnectStarts, ConnectBusy, ConnectRefused,
                  ConnectFails, ConnectUnknown, memory, audio
    <2>2. CASE ConnectStarts(s)
      <3>1. rec = None /\ at' = [at EXCEPT ![s] = "accepting", ![started + 1] = "beating"]
        BY <2>2 DEF ConnectStarts
      <3>2. at[started + 1] # "enqueue"
        BY <2>2 DEF ConnectStarts, IInv, TypeOK, Recording, Intact, OnlyBeat
      <3>3. \A u \in Task : at[u] = "enqueue" => at'[u] = "enqueue"
        BY <1>1, <2>1, <3>1, <3>2
      <3>4. QED BY <1>3, <2>1, <3>3
    <2>3. CASE ~ConnectStarts(s)
      <3>1. \E l \in {"accepting", "ended"} : at' = [at EXCEPT ![s] = l]
        BY <1>6, <2>3 DEF Connect, ConnectJoins, ConnectBusy, ConnectRefused, ConnectFails,
                          ConnectUnknown
      <3>2. \A u \in Task : at[u] = "enqueue" => at'[u] = "enqueue"
        BY <1>1, <2>1, <3>1
      <3>3. QED BY <1>3, <2>1, <3>2
    <2>4. QED BY <2>2, <2>3
  <1>7. ASSUME NEW s \in Socket, Accept(s) \/ Frame(s) PROVE Pending \subseteq Pending'
    <2>1. /\ open \subseteq open' /\ of' = of
          /\ \/ at' = at
             \/ at[s] = "accepting" /\ \E l : at' = [at EXCEPT ![s] = l]
      BY <1>7 DEF Accept, Frame, memory, audio
    <2>2. \A u \in Task : at[u] = "enqueue" => at'[u] = "enqueue"
      BY <1>1, <2>1
    <2>3. QED BY <1>3, <2>1, <2>2
  <1>8. ASSUME NEW s \in Socket, Disconnect(s) PROVE Pending \subseteq Pending'
    BY <1>4, <1>8 DEF Disconnect
  <1>9. ASSUME NEW g \in Recording, Heartbeat(g) PROVE Pending \subseteq Pending'
    <2>1. Keeps
      BY <1>9, BeatsOn
    <2>2. QED BY <1>3, <2>1 DEF Keeps, Finalizing
  <1>10. ASSUME NEW t \in Task, Enqueue(t) PROVE Pending \subseteq Pending' \cup queued'
    <2>1. /\ at' = [at EXCEPT ![t] = "ended"] /\ queued' = queued \cup {of[t]}
          /\ UNCHANGED <<of, open>>
      BY <1>2, <1>10 DEF Enqueue
    <2>2. \A u \in Task : u # t => at'[u] = at[u]
      BY <1>1, <2>1
    <2>3. QED BY <2>1, <2>2 DEF Pending
  <1>11. CASE Answer \/ LeaseExpires \/ OtherWorker \/ UNCHANGED vars
    <2>1. UNCHANGED <<at, of, open>>
      BY <1>11 DEF Answer, LeaseExpires, OtherWorker, vars, memory, audio
    <2>2. QED BY <1>3, <2>1
  <1>12. QED
    BY <1>2, <1>5, <1>6, <1>7, <1>8, <1>9, <1>10, <1>11, PublishFollows
    DEF Next, SocketStep, FinalizeStep, HangupLost, AcceptFails

\* What holds while nothing has failed.
Sound == EnqueuedIsClosed /\ (faults = 0 => Intact)

LEMMA SoundStep == IInv /\ Sound /\ [Next]_vars => Sound'
  <1> SUFFICES ASSUME IInv, Sound, [Next]_vars PROVE Sound'
    OBVIOUS
  <1>1. EnqueuedIsClosed'
    BY ClosedStep DEF Sound
  <1>2. ASSUME faults' = 0 PROVE Intact'
    <2>1. faults = 0
      BY <1>2, FaultsStay DEF IInv, TypeOK
    <2>2. QED BY <1>2, <2>1, IntactStep DEF Sound
  <1>3. QED BY <1>1, <1>2 DEF Sound

LEMMA SoundStart == Init => Sound
  BY IntactStart DEF Init, EnqueuedIsClosed, Sound

\* If nothing fails, a call that is over and has no task running has given back
\* its recording, metadata, reservation, lease and files: whichever of the
\* sockets and the hangup came first, and whoever connected meanwhile.
THEOREM EndsClean == Spec => []EndIsClean
  <1>1. IInv /\ Sound => EndIsClean
    BY IntactIsClean DEF EndIsClean, Sound
  <1>2. QED BY <1>1, SoundStart, SoundStep, Invariance, PTL DEF Spec

\* If nothing fails, audio that was recorded stays in hand, under its temporary
\* name or about to be enqueued, until it is in the upload queue: no finalization
\* closes the file of a recording without enqueueing it.
THEOREM AudioFollowed == Spec => AudioIsFollowed
  <1>1. IInv /\ Sound /\ [Next]_vars => [faults' = 0 => Pending \subseteq Pending' \cup queued']_vars
    <2> SUFFICES ASSUME IInv, Sound, [Next]_vars, faults' = 0
                 PROVE  Pending \subseteq Pending' \cup queued'
      OBVIOUS
    <2>1. faults = 0
      BY FaultsStay DEF IInv, TypeOK
    <2>2. QED BY <2>1, Followed DEF Sound
  <1>2. QED BY <1>1, SoundStart, SoundStep, Invariance, PTL DEF Spec, AudioIsFollowed

=============================================================================

----------------------------- MODULE EslListener -----------------------------
(***************************************************************************)
(* The event listener of src/telephony/esl_client.py and what it writes:   *)
(* the registration status and the active calls of a trunk                 *)
(* (src/telephony/trunk_state.py) and the rows of the trunk's calls        *)
(* (src/services/calls.py).                                                *)
(*                                                                         *)
(* FreeSWITCH registers the trunk and has calls whether the listener is    *)
(* connected or not; it tells what happens over the connection of the      *)
(* moment, in order, and nothing of what happened before.  One task reads  *)
(* the events, one handler after the other, and reconciles after each      *)
(* connect.  The API changes the trunk's identity and password meanwhile,  *)
(* and switches the trunk off and on: registrations of a trunk that is off *)
(* are passed over, and its status stays as it was.                        *)
(*                                                                         *)
(* One trunk stands for all: they share no state.  Only the listener       *)
(* writes active calls and rows, so an event's writes to them are one      *)
(* step, of which any part may fail.                                       *)
(*                                                                         *)
(* Commands go over a connection of their own, and each takes one read to  *)
(* be its answer: after an answer that came in more pieces than one, the   *)
(* next command reads what was left, and so on (cmd is "behind"), until    *)
(* one raises and the connection is given up.                              *)
(***************************************************************************)
EXTENDS Naturals, Sequences, SequencesExt

CONSTANTS
    Calls,      \* the trunk's calls
    Changes,    \* bound on changes of the trunk's identity
    Registers,  \* bound on REGISTERs
    MaxFaults   \* bound on lost connections, failed steps and restarts

ASSUME ListenerAssumption == Changes \in Nat /\ Registers \in Nat /\ MaxFaults \in Nat

VARIABLES
    call,       \* FreeSWITCH: each call's state
    regs,       \* FreeSWITCH: the identities that are registered
    since,      \* those registered at some time since the last connect
    registers,  \* REGISTERs so far
    enabled,    \* the trunk is switched on
    link,       \* the event connection: "none", "live", or "cut"
    events,     \* the events on it that the listener has still to handle
    pc,         \* where the listener is
    cmd,        \* the command connection: "none", "step", "behind", or "eof"
    listed,     \* list_registrations
    channels,   \* list_trunk_channels
    pending,    \* the registration that is being applied
    ident,      \* the trunk's sip_profile and auth_username
    status,     \* its registration_status
    active,     \* its zenith:trunk:active_calls
    row,        \* status of each call's row
    clean,      \* since the last reconciliation began nothing has failed, nothing
                \* of the trunk was passed over because it was off, no new password
                \* reset its status, and the reconciliation read the answers of its
                \* own commands
    faults      \* the faults so far

world == <<call, regs, since, registers, enabled>>
stream == <<link, events>>
answers == <<listed, channels, pending>>
vars == <<world, stream, pc, cmd, answers, ident, status, active, row, clean, faults>>

Identity == 0 .. Changes
Nothing == [kind |-> "nothing", ident |-> 0]
Statuses == {"unknown", "registered", "unregistered"}
CallEvent == [kind : {"create", "answer", "hangup"}, call : Calls]

\* normalize_registration_event
Normalized == [register |-> "registered", unregister |-> "unregistered", expire |-> "unregistered"]
RegistrationEvent == [kind : {Normalized[e] : e \in DOMAIN Normalized}, ident : Identity]
Reconciling == {"mark", "list", "resolve", "confirm", "channels", "sync"}

TypeOK ==
    /\ call \in [Calls -> {"none", "ringing", "up", "over"}]
    /\ regs \subseteq Identity /\ since \subseteq Identity
    /\ registers \in 0 .. Registers /\ enabled \in BOOLEAN
    /\ link \in {"none", "live", "cut"}
    /\ events \in Seq(CallEvent \cup RegistrationEvent)
    /\ pc \in {"down", "lost", "read", "apply"} \cup Reconciling
    /\ cmd \in {"none", "step", "behind", "eof"}
    /\ link = "none" <=> pc \in {"down", "lost"}
    /\ link = "none" => events = <<>>
    /\ listed \subseteq Identity /\ channels \subseteq Calls
    /\ pending \in RegistrationEvent \cup {Nothing}
    /\ pending # Nothing <=> pc \in {"confirm", "apply"}
    /\ listed # {} => pc = "resolve"
    /\ channels # {} => pc = "sync"
    /\ ident \in Identity
    /\ status \in Statuses
    /\ active \subseteq Calls
    /\ row \in [Calls -> {"none", "ringing", "in_progress", "ended"}]
    /\ clean \in BOOLEAN
    /\ faults \in 0 .. MaxFaults

\* The service starts; the trunk's state is what an earlier run left.
Init ==
    /\ call = [c \in Calls |-> "none"]
    /\ regs \in SUBSET {0} /\ since = {} /\ registers = 0
    /\ enabled \in BOOLEAN
    /\ link = "none" /\ events = <<>>
    /\ pc = "down" /\ cmd = "none"
    /\ listed = {} /\ channels = {} /\ pending = Nothing
    /\ ident = 0
    /\ status \in Statuses
    /\ active \in SUBSET Calls
    /\ row = [c \in Calls |-> "none"]
    /\ clean = FALSE
    /\ faults = 0

Fault ==
    /\ faults < MaxFaults
    /\ faults' = faults + 1

Live == {c \in Calls : call[c] \in {"ringing", "up"}}

-----------------------------------------------------------------------------
(* FreeSWITCH and the API *)

Emit(event) ==
    events' = IF link = "live" THEN Append(events, event) ELSE events

CallBecomes(c, from, to, kind) ==
    /\ call[c] \in from
    /\ call' = [call EXCEPT ![c] = to]
    /\ Emit([kind |-> kind, call |-> c])
    /\ UNCHANGED <<regs, since, registers, enabled, link, pc, cmd, answers, ident, status,
                   active, row, clean, faults>>

Ring(c) == CallBecomes(c, {"none"}, "ringing", "create")
Answer(c) == CallBecomes(c, {"ringing"}, "up", "answer")
Hangup(c) == CallBecomes(c, {"ringing", "up"}, "over", "hangup")

\* The directory knows the identity the trunk has now, and refuses it while the
\* trunk is off.
Register ==
    /\ enabled
    /\ registers < Registers
    /\ registers' = registers + 1
    /\ regs' = regs \cup {ident} /\ since' = since \cup {ident}
    /\ Emit([kind |-> Normalized.register, ident |-> ident])
    /\ UNCHANGED <<call, enabled, link, pc, cmd, answers, ident, status, active, row, clean, faults>>

\* unregister and expire
Unregister ==
    \E i \in regs, e \in {"unregister", "expire"} :
        /\ regs' = regs \ {i}
        /\ Emit([kind |-> Normalized[e], ident |-> i])
        /\ UNCHANGED <<call, since, registers, enabled, link, pc, cmd, answers, ident, status,
                       active, row, clean, faults>>

\* TrunkService.update with another sip_profile or auth_username.
ChangeIdentity ==
    /\ ident < Changes
    /\ ident' = ident + 1
    /\ status' = "unknown"
    /\ UNCHANGED <<world, stream, pc, cmd, answers, active, row, clean, faults>>

\* TrunkService.update with a password: FreeSWITCH keeps the registration.
ChangePassword ==
    /\ status' = "unknown" /\ clean' = FALSE
    /\ UNCHANGED <<world, stream, pc, cmd, answers, ident, active, row, faults>>

\* TrunkService.update with another value of enabled: a registration stays where
\* it is, in FreeSWITCH as in the status.
SwitchTrunk ==
    /\ enabled' = ~enabled
    /\ UNCHANGED <<call, regs, since, registers, stream, pc, cmd, answers, ident, status,
                   active, row, clean, faults>>

\* The connection breaks: some of what was on its way still arrives.  A silence
\* of 300 s is taken for a break, too.
CutLink ==
    /\ link = "live"
    /\ Fault
    /\ link' = "cut"
    /\ \E n \in 0 .. Len(events) : events' = SubSeq(events, 1, n)
    /\ UNCHANGED <<world, pc, cmd, answers, ident, status, active, row, clean>>

\* FreeSWITCH closes the connection of the commands.
CutCommands ==
    /\ cmd \in {"step", "behind"}
    /\ Fault
    /\ cmd' = "eof"
    /\ UNCHANGED <<world, stream, pc, answers, ident, status, active, row, clean>>

Forget == listed' = {} /\ channels' = {} /\ pending' = Nothing

\* The service restarts: nothing tells that the trunk's status is old.
Restart ==
    /\ Fault
    /\ link' = "none" /\ events' = <<>>
    /\ pc' = "down" /\ cmd' = "none"
    /\ Forget
    /\ clean' = FALSE
    /\ UNCHANGED <<world, ident, status, active, row>>

-----------------------------------------------------------------------------
(* _event_loop and connect *)

Unknown == IF status = "registered" THEN "unknown" ELSE status

\* A step of the listener works, or fails and leaves a trace in the log only.
Works == UNCHANGED <<clean, faults>>
Fails == Fault /\ clean' = FALSE

\* What it has read is the trunk's, which is off.
PassedOver == ~enabled /\ clean' = FALSE /\ UNCHANGED faults

Connect ==
    /\ pc = "down"
    /\ link' = "live"
    /\ since' = regs
    /\ pc' = "mark"
    /\ UNCHANGED <<call, regs, registers, enabled, events, cmd, answers, ident, status, active, row,
                   clean, faults>>

\* The attempt fails, and the status is marked as after a break.
ConnectFails ==
    /\ pc = "down"
    /\ status' = Unknown
    /\ UNCHANGED <<world, stream, pc, cmd, answers, ident, active, row, clean, faults>>

\* Mutant of LoseLink: the break is noticed first, and what had arrived stays in
\* the buffer for the next connection.
LoseLinkBuffered ==
    /\ pc = "read" /\ link = "cut"
    /\ link' = "none"
    /\ pc' = "lost"
    /\ UNCHANGED <<world, events, cmd, answers, ident, status, active, row, clean, faults>>

\* The end of the stream comes after what had arrived.
LoseLink ==
    /\ pc = "read" /\ link = "cut" /\ events = <<>>
    /\ link' = "none"
    /\ pc' = "lost"
    /\ UNCHANGED <<world, events, cmd, answers, ident, status, active, row, clean, faults>>

\* Mutant of MarkLost: the status stays as it was.
MarkLostNothing ==
    /\ pc = "lost"
    /\ pc' = "down"
    /\ UNCHANGED <<world, stream, cmd, answers, ident, status, active, row, clean, faults>>

\* _mark_trunks_unknown
MarkLost ==
    /\ pc = "lost"
    /\ \/ status' = Unknown /\ Works
       \/ UNCHANGED status /\ Fails
    /\ pc' = "down"
    /\ UNCHANGED <<world, stream, cmd, answers, ident, active, row>>

-----------------------------------------------------------------------------
(* reconcile *)

Mark ==
    /\ pc = "mark"
    /\ \/ status' = Unknown /\ clean' = TRUE /\ pc' = "list" /\ UNCHANGED faults
       \/ UNCHANGED status /\ Fails /\ pc' = "read"
    /\ UNCHANGED <<world, stream, cmd, answers, ident, active, row>>

(* _send_command.  The connection is made when there is none. *)

\* One read brings the answer of the command, the whole of it.
InStep == cmd \in {"none", "step"} /\ cmd' = "step" /\ Works

\* It brings something else: a part of the answer, which is longer than 8192
\* bytes or comes in pieces; what an earlier command left; or nothing, at the
\* end of the stream.
OutOfStep ==
    /\ \/ cmd \in {"none", "step"} /\ Fault /\ cmd' = "behind"
       \/ cmd = "behind" /\ cmd' \in {"behind", "step"} /\ UNCHANGED faults
       \/ cmd = "eof" /\ UNCHANGED <<cmd, faults>>
    /\ clean' = FALSE

\* It raises: no answer in time, or the connection is found broken.  The next
\* command makes another.
Raises ==
    /\ IF cmd = "eof" THEN UNCHANGED faults ELSE Fault
    /\ cmd' = "none"
    /\ clean' = FALSE

\* Of an answer that is cut the first lines are read; those of another answer
\* pass for registrations of any identity.
ListRegistrations ==
    /\ pc = "list"
    /\ \/ InStep /\ listed' = regs /\ pc' = "resolve"
       \/ OutOfStep /\ pc' = "resolve"
          /\ listed' \in CASE cmd = "eof" -> {{}}
                            [] cmd = "behind" -> SUBSET Identity
                            [] OTHER -> SUBSET regs
       \/ Raises /\ listed' = {} /\ pc' = "read"
    /\ UNCHANGED <<world, stream, channels, pending, ident, status, active, row>>

\* resolve: the line of the identity the trunk has now, if the trunk is on.
ResolveLine ==
    /\ pc = "resolve"
    /\ \/ /\ ident \in listed /\ enabled
          /\ pending' = [kind |-> "registered", ident |-> ident]
          /\ pc' = "confirm"
          /\ Works
       \/ /\ IF ident \in listed THEN PassedOver \/ Fails ELSE Works
          /\ pc' = "channels"
          /\ UNCHANGED pending
    /\ listed' = {}
    /\ UNCHANGED <<world, stream, channels, cmd, ident, status, active, row>>

\* The identity that was resolved may have changed since: then the status is
\* that of the old one.
Overtaken == pending.ident # ident

Confirm ==
    /\ pc = "confirm"
    /\ \/ status' = "registered" /\ clean' = (clean /\ ~Overtaken) /\ UNCHANGED faults
       \/ UNCHANGED status /\ Fails
    /\ Forget
    /\ pc' = "channels"
    /\ UNCHANGED <<world, stream, cmd, ident, active, row>>

\* An answer that is not JSON counts as no channels at all; that of an earlier
\* command tells of earlier channels.
ListChannels ==
    /\ pc = "channels"
    /\ \/ InStep /\ channels' = Live /\ pc' = "sync"
       \/ OutOfStep /\ pc' = "sync"
          /\ channels' \in IF cmd = "behind" THEN SUBSET Calls ELSE {{}}
       \/ Raises /\ channels' = {} /\ pc' = "read"
    /\ UNCHANGED <<world, stream, listed, pending, ident, status, active, row>>

\* Mutant of Sync: only what is over is removed.
SyncRemoves ==
    /\ pc = "sync" /\ enabled
    /\ active' = active \cap channels
    /\ Forget
    /\ pc' = "read"
    /\ UNCHANGED <<world, stream, cmd, ident, status, row, clean, faults>>

\* list_enabled_ids: a trunk that is off is left as it is.  For one that is on,
\* orphans go first; the loop may stop anywhere.
Sync ==
    /\ pc = "sync"
    /\ \/ enabled /\ active' = channels /\ Works
       \/ /\ enabled /\ Fails
          /\ \/ \E gone \in SUBSET (active \ channels) : active' = active \ gone
             \/ \E new \in SUBSET (channels \ active) : active' = (active \cap channels) \cup new
       \/ /\ ~enabled /\ UNCHANGED active
          /\ IF active = channels THEN Works ELSE PassedOver \/ Fails
    /\ Forget
    /\ pc' = "read"
    /\ UNCHANGED <<world, stream, cmd, ident, status, row>>

-----------------------------------------------------------------------------
(* The handlers *)

\* track_call
Tracked(e) == IF e.kind = "hangup" THEN active \ {e.call} ELSE active \cup {e.call}

\* Mutant of Recorded: only a call that was answered is finalized.
RecordedAnswered(e) ==
    LET was == row[e.call]
    IN  CASE e.kind = "create" -> IF was = "none" THEN "ringing" ELSE was
          [] e.kind = "answer" -> "in_progress"
          [] e.kind = "hangup" -> IF was = "in_progress" THEN "ended" ELSE was

\* create_ringing_call_record, which an existing row refuses;
\* mark_call_in_progress, else create_call_record; finalize_call_record.
Recorded(e) ==
    LET was == row[e.call]
    IN  CASE e.kind = "create" -> IF was = "none" THEN "ringing" ELSE was
          [] e.kind = "answer" -> "in_progress"
          [] e.kind = "hangup" -> IF was = "none" THEN "none" ELSE "ended"

\* The writes to active calls and rows: any of them may fail.
Tracks(e) ==
    \/ /\ Works
       /\ active' = Tracked(e)
       /\ row' = [row EXCEPT ![e.call] = Recorded(e)]
    \/ /\ Fails
       /\ active' \in {active, Tracked(e)}
       /\ row' \in {row, [row EXCEPT ![e.call] = Recorded(e)]}

HandleCreate(e) == e.kind = "create" /\ Tracks(e) /\ UNCHANGED cmd

\* The last thing is _start_audio_capture: a command, whose answer is only
\* looked at for the log, and which may raise.
HandleAnswer(e) ==
    /\ e.kind = "answer"
    /\ Tracks(e)
    /\ \/ cmd \in {"none", "step"} /\ cmd' \in {"step"} \cup (IF faults' > faults THEN {"none", "behind"} ELSE {})
       \/ cmd = "behind" /\ cmd' \in {"behind", "step", "none"}
       \/ cmd = "eof" /\ cmd' \in {"eof", "none"}

HandleHangup(e) == e.kind = "hangup" /\ Tracks(e) /\ UNCHANGED cmd

Handle(e) == e \in CallEvent /\ (HandleCreate(e) \/ HandleAnswer(e) \/ HandleHangup(e))

\* Mutant of Handled: a task per event.
HandledAny ==
    /\ pc = "read"
    /\ \E n \in DOMAIN events : Handle(events[n]) /\ events' = RemoveAt(events, n)
    /\ UNCHANGED <<world, link, pc, answers, ident, status>>

\* _process_event, one event after the other
Handled ==
    /\ pc = "read" /\ events # <<>>
    /\ Handle(Head(events))
    /\ events' = Tail(events)
    /\ UNCHANGED <<world, link, pc, answers, ident, status>>

\* _handle_trunk_registration: an identity that no trunk has, or one that is
\* off, is ignored.
ResolveEvent ==
    /\ pc = "read" /\ events # <<>>
    /\ LET e == Head(events)
       IN  /\ e \in RegistrationEvent
           /\ \/ e.ident = ident /\ enabled /\ Works /\ pc' = "apply" /\ pending' = e
              \/ /\ IF e.ident = ident THEN PassedOver \/ Fails ELSE Works
                 /\ UNCHANGED <<pc, pending>>
    /\ events' = Tail(events)
    /\ UNCHANGED <<world, link, listed, channels, cmd, ident, status, active, row>>

ApplyEvent ==
    /\ pc = "apply"
    /\ \/ status' = pending.kind /\ clean' = (clean /\ ~Overtaken) /\ UNCHANGED faults
       \/ UNCHANGED status /\ Fails
    /\ Forget
    /\ pc' = "read"
    /\ UNCHANGED <<world, stream, cmd, ident, active, row>>

-----------------------------------------------------------------------------
Listener ==
    \/ Connect \/ LoseLink \/ MarkLost
    \/ Mark \/ ListRegistrations \/ ResolveLine \/ Confirm \/ ListChannels \/ Sync
    \/ Handled \/ ResolveEvent \/ ApplyEvent

FreeSwitch ==
    \/ \E c \in Calls : Ring(c) \/ Answer(c) \/ Hangup(c)
    \/ Register \/ Unregister

Next ==
    \/ Listener \/ FreeSwitch \/ ChangeIdentity \/ ChangePassword \/ SwitchTrunk
    \/ ConnectFails \/ CutLink \/ CutCommands \/ Restart

Spec == Init /\ [][Next]_vars

\* The listener runs, FreeSWITCH can be reached again, and calls end.
Fairness ==
    /\ WF_vars(Listener)
    /\ \A c \in Calls : WF_vars(Hangup(c))

FairSpec == Spec /\ Fairness

-----------------------------------------------------------------------------
CaughtUp == pc = "read" /\ link = "live" /\ events = <<>>

\* RF-11: once the listener has reconciled and caught up with the events, its
\* state is FreeSWITCH's, whatever was lost before and in whatever order
\* answers, events, changes of identity and switches of the trunk came.  What
\* the trunk did while it was off, and the listener passed over, and a status
\* that a new password reset, are excused until the next reconciliation (clean).
CaughtUpIsRight ==
    CaughtUp /\ clean =>
        /\ status = "registered" <=> ident \in regs
        /\ active = Live

\* "não mantém registered sem evidência operacional atual": a trunk is shown as
\* registered only if its present identity was so during this connection, with
\* the same excuse.
RegisteredHasEvidence ==
    clean /\ status = "registered" => pc # "down" /\ ident \in since

\* A call that has ended is never in progress again: no late or lost event,
\* reconnect or restart takes its row back.
EndedStaysEnded ==
    [][\A c \in Calls : row[c] = "ended" => row'[c] = "ended"]_vars

\* While the connection holds and nothing fails, the row of every call that is
\* opened is closed.
RowsEnd ==
    [](faults = 0) =>
        \A c \in Calls : row[c] \in {"ringing", "in_progress"} ~> row[c] = "ended"
=============================================================================

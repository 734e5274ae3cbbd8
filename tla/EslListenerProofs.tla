-------------------------- MODULE EslListenerProofs --------------------------
(***************************************************************************)
(* Proofs about EslListener: for any number of calls, identities,          *)
(* REGISTERs, lost connections, failed steps and restarts, the listener's  *)
(* state has evidence, is FreeSWITCH's once it has caught up, and never    *)
(* takes the end of a call back; and while nothing fails the row of a call *)
(* follows the call.                                                       *)
(*                                                                         *)
(* What the events still to come do to the state is not computed: of each  *)
(* call, and of each identity, only the last event counts, and the         *)
(* invariant says that it agrees with FreeSWITCH (LastTells); where there  *)
(* is none, what the listener has, or is about to write, does already      *)
(* (StatusInSync, CallsInSync).                                            *)
(***************************************************************************)
EXTENDS EslListener, SequenceTheorems, TLAPS

Event == CallEvent \cup RegistrationEvent

\* The events still to come about a call, and about an identity.
OfCall(c) == {n \in DOMAIN events : events[n] \in CallEvent /\ events[n].call = c}
OfIdent(i) == {n \in DOMAIN events : events[n] \in RegistrationEvent /\ events[n].ident = i}

\* The events and what the listener has in hand are about identities the trunk
\* has had; whatever may make it registered was so during this connection.
EventsKnown ==
    \A n \in DOMAIN events : events[n] \in RegistrationEvent =>
        /\ events[n].ident \in 0 .. ident
        /\ events[n].kind = "registered" => events[n].ident \in since

RestKnown ==
    /\ regs \cup since \subseteq 0 .. ident
    /\ pending.ident \in 0 .. ident
    /\ link # "none" => regs \subseteq since
    /\ clean => listed \subseteq since
    /\ pc = "confirm" => pending.kind = "registered"
    /\ clean /\ pending.kind = "registered" => pending.ident \in since
    /\ clean /\ pc \in {"mark", "list", "resolve"} => status # "registered"
    /\ RegisteredHasEvidence

Known == EventsKnown /\ RestKnown

\* No answer comes after the hangup of its call, whether that is still to come
\* or has been handled; and what was hung up is over.
Ordered ==
    /\ \A c \in Calls : \A m, n \in OfCall(c) :
          events[m].kind = "hangup" /\ events[n].kind = "answer" => n < m
    /\ \A c \in Calls : \A n \in OfCall(c) : events[n].kind = "hangup" => call[c] = "over"
    /\ \A c \in Calls : row[c] = "ended" =>
          call[c] = "over" /\ \A n \in OfCall(c) : events[n].kind # "answer"

\* The last event about a call or an identity tells its present state.
LastTells ==
    link = "live" =>
        /\ \A c \in Calls : \A n \in OfCall(c) :
              (\A m \in OfCall(c) : m <= n) => (events[n].kind # "hangup" <=> c \in Live)
        /\ \A i \in Identity : \A n \in OfIdent(i) :
              (\A m \in OfIdent(i) : m <= n) => (events[n].kind = "registered" <=> i \in regs)

\* Where no event is to come about its identity, the trunk's status, or what
\* will be made of it, is right.
StatusInSync ==
    clean /\ link = "live" /\ OfIdent(ident) = {} =>
        /\ pc \in {"read", "channels", "sync"} => (status = "registered" <=> ident \in regs)
        /\ pc = "resolve" => (ident \in listed <=> ident \in regs)
        /\ pc \in {"confirm", "apply"} /\ pending.ident = ident =>
              (pending.kind = "registered" <=> ident \in regs)

\* And so for a call.
CallsInSync ==
    clean /\ link = "live" =>
        \A c \in Calls : OfCall(c) = {} =>
            /\ pc \in {"read", "apply"} => (c \in active <=> c \in Live)
            /\ pc = "sync" => (c \in channels <=> c \in Live)

\* What the row of a call is to say of its state, and the state after an event.
Told == [none |-> "none", ringing |-> "ringing", up |-> "in_progress", over |-> "ended"]
Becomes == [create |-> "ringing", answer |-> "up", hangup |-> "over"]

\* Until something fails, a listener that has caught up has a row of a call only
\* with the call's present state: no ringing row of a call that was answered, and
\* no open row of one that is over.
RowsAreRight ==
    faults = 0 /\ CaughtUp => \A c \in Calls : row[c] \in {"none", Told[call[c]]}

\* The part of the invariant that is about one call: the last event still to come
\* leads to its present state, a create comes first and finds no row, and where no
\* event is to come the row is right.
RowOf(c) ==
    /\ link = "none" \/ call[c] = "none" => row[c] = "none" /\ OfCall(c) = {}
    /\ OfCall(c) = {} => row[c] \in {"none", Told[call[c]]}
    /\ \A n \in OfCall(c) : (\A m \in OfCall(c) : m <= n) => call[c] = Becomes[events[n].kind]
    /\ \A n \in OfCall(c) : events[n].kind = "create" =>
          row[c] = "none" /\ \A m \in OfCall(c) : n <= m

Faithful == faults = 0 => link # "cut" /\ \A c \in Calls : RowOf(c)

IInv == TypeOK /\ Known /\ Ordered /\ LastTells /\ StatusInSync /\ CallsInSync

(***************************************************************************)
(* The events                                                              *)
(***************************************************************************)

LEMMA Kinds ==
    /\ \A e \in CallEvent : /\ e.kind \in {"create", "answer", "hangup"} /\ e.call \in Calls
                            /\ e \notin RegistrationEvent
    /\ \A e \in RegistrationEvent : /\ e.kind \in {"registered", "unregistered"}
                                    /\ e.ident \in Identity /\ e \notin CallEvent
    /\ \A c \in Calls, k \in {"create", "answer", "hangup"} : [kind |-> k, call |-> c] \in CallEvent
    /\ \A i \in Identity, k \in {"registered", "unregistered"} :
          [kind |-> k, ident |-> i] \in RegistrationEvent
    /\ Normalized.register = "registered" /\ Normalized.unregister = "unregistered"
    /\ Normalized.expire = "unregistered"
    /\ Nothing \notin RegistrationEvent
  <1>1. {Normalized[e] : e \in DOMAIN Normalized} = {"registered", "unregistered"}
    BY DEF Normalized
  <1>2. QED BY <1>1 DEF CallEvent, RegistrationEvent, Normalized, Nothing

\* An event is added behind the others, if anybody listens.
LEMMA Appended ==
    ASSUME TypeOK, NEW e \in Event, events' = Append(events, e)
    PROVE  /\ events' \in Seq(Event)
           /\ DOMAIN events' = DOMAIN events \cup {Len(events) + 1}
           /\ \A n \in DOMAIN events : events'[n] = events[n] /\ n <= Len(events) /\ n \in Nat
           /\ events'[Len(events) + 1] = e
           /\ Len(events) \in Nat
  BY AppendProperties DEF TypeOK, Event

LEMMA Taken ==
    ASSUME TypeOK, events # <<>>, events' = Tail(events)
    PROVE  /\ events' \in Seq(Event)
           /\ Head(events) = events[1] /\ Head(events) \in Event
           /\ Len(events) \in Nat /\ 1 \in DOMAIN events /\ DOMAIN events = 1 .. Len(events)
           /\ DOMAIN events' = 1 .. (Len(events) - 1)
           /\ \A n \in DOMAIN events' : events'[n] = events[n + 1] /\ n + 1 \in DOMAIN events
  BY HeadTailProperties DEF TypeOK, Event

LEMMA Shortened ==
    ASSUME TypeOK, NEW k \in 0 .. Len(events), events' = SubSeq(events, 1, k)
    PROVE  /\ events' \in Seq(Event)
           /\ DOMAIN events' \subseteq DOMAIN events
           /\ \A n \in DOMAIN events' : events'[n] = events[n]
  <1>1. events \in Seq(Event) /\ Len(events) \in Nat
    BY DEF TypeOK, Event
  <1>2. events' \in Seq(Event) /\ Len(events') = k
    BY <1>1, SubSeqProperties
  <1>3. QED BY <1>1, <1>2, SubSeqProperties

(***************************************************************************)
(* Types                                                                   *)
(***************************************************************************)

LEMMA FaultType ==
    ASSUME TypeOK, Fault \/ UNCHANGED faults
    PROVE  faults' \in 0 .. MaxFaults
  BY ListenerAssumption DEF TypeOK, Fault

\* What a step notes about failures is of the right types.
LEMMA NoteType ==
    ASSUME TypeOK, Works \/ Fails \/ PassedOver
    PROVE  faults' \in 0 .. MaxFaults /\ clean' \in BOOLEAN
  BY FaultType DEF TypeOK, Works, Fails, PassedOver

LEMMA EmitType ==
    ASSUME TypeOK, NEW e \in Event, Emit(e)
    PROVE  events' \in Seq(Event) /\ (link = "none" => events' = <<>>)
  BY Appended DEF TypeOK, Emit, Event

LEMMA UnknownType == TypeOK => Unknown \in Statuses
  BY DEF TypeOK, Unknown, Statuses

LEMMA IdentityType == TypeOK => ident \in Identity /\ 0 \in Identity
  BY ListenerAssumption DEF TypeOK, Identity

LEMMA HandleType ==
    ASSUME TypeOK, NEW e, Handle(e)
    PROVE  /\ active' \subseteq Calls
           /\ row' \in [Calls -> {"none", "ringing", "in_progress", "ended"}]
           /\ cmd' \in {"none", "step", "behind", "eof"}
           /\ faults' \in 0 .. MaxFaults /\ clean' \in BOOLEAN
  <1>1. e \in CallEvent /\ e.call \in Calls /\ e.kind \in {"create", "answer", "hangup"}
    BY Kinds DEF Handle
  <1>2. Tracks(e)
    BY DEF Handle, HandleCreate, HandleAnswer, HandleHangup
  <1>3. cmd' \in {"none", "step", "behind", "eof"}
    BY DEF Handle, HandleCreate, HandleAnswer, HandleHangup, TypeOK
  <1>4. Recorded(e) \in {"none", "ringing", "in_progress", "ended"} /\ Tracked(e) \subseteq Calls
    BY <1>1 DEF Recorded, Tracked, TypeOK
  <1>5. Works \/ Fails
    BY <1>2 DEF Tracks
  <1>6. QED BY <1>1, <1>2, <1>3, <1>4, <1>5, NoteType DEF Tracks, TypeOK

LEMMA TypeStep == TypeOK /\ [Next]_vars => TypeOK'
  <1> SUFFICES ASSUME TypeOK, [Next]_vars PROVE TypeOK'
    OBVIOUS
  <1> USE DEF world, stream, answers, Reconciling
  <1>1. ASSUME NEW c \in Calls, NEW from, NEW to \in {"ringing", "up", "over"},
               NEW kind \in {"create", "answer", "hangup"}, CallBecomes(c, from, to, kind)
        PROVE  TypeOK'
    <2>1. events' \in Seq(Event) /\ (link = "none" => events' = <<>>)
      BY <1>1, EmitType, Kinds DEF CallBecomes, Event
    <2>2. call' \in [Calls -> {"none", "ringing", "up", "over"}]
      BY <1>1 DEF CallBecomes, TypeOK
    <2>3. QED BY <1>1, <2>1, <2>2 DEF CallBecomes, TypeOK, Event
  <1>2. CASE Register
    <2>1. events' \in Seq(Event) /\ (link = "none" => events' = <<>>)
      BY <1>2, EmitType, Kinds, IdentityType DEF Register, Event
    <2>2. registers' \in 0 .. Registers
      BY <1>2, ListenerAssumption DEF Register, TypeOK
    <2>3. regs' \subseteq Identity /\ since' \subseteq Identity
      BY <1>2, IdentityType DEF Register, TypeOK
    <2>4. QED BY <1>2, <2>1, <2>2, <2>3 DEF Register, TypeOK, Event
  <1>3. CASE Unregister
    <2>1. PICK i \in regs, k \in {"unregister", "expire"} :
            regs' = regs \ {i} /\ Emit([kind |-> Normalized[k], ident |-> i])
      BY <1>3 DEF Unregister
    <2>2. Normalized[k] = "unregistered" /\ i \in Identity
      BY <2>1 DEF Normalized, TypeOK
    <2>3. events' \in Seq(Event) /\ (link = "none" => events' = <<>>)
      BY <2>1, <2>2, EmitType, Kinds DEF Event
    <2>4. regs' \subseteq Identity
      BY <2>1 DEF TypeOK
    <2>5. QED BY <1>3, <2>3, <2>4 DEF Unregister, TypeOK, Event
  <1>4. CASE ChangeIdentity
    <2>1. ident' \in Identity
      BY <1>4, ListenerAssumption DEF ChangeIdentity, TypeOK, Identity
    <2>2. QED BY <1>4, <2>1 DEF ChangeIdentity, TypeOK, Statuses
  <1>5. CASE CutLink
    <2>1. events' \in Seq(Event)
      BY <1>5, Shortened DEF CutLink
    <2>2. QED BY <1>5, <2>1, FaultType DEF CutLink, TypeOK, Event
  <1>6. CASE CutCommands
    BY <1>6, FaultType DEF CutCommands, TypeOK
  <1>7. CASE Restart
    <2>1. faults' \in 0 .. MaxFaults /\ events' \in Seq(CallEvent \cup RegistrationEvent)
      BY <1>7, FaultType DEF Restart
    <2>2. QED BY <1>7, <2>1 DEF Restart, Forget, TypeOK
  <1>8. CASE Connect
    BY <1>8 DEF Connect, TypeOK
  <1>9. CASE ConnectFails
    BY <1>9, UnknownType DEF ConnectFails, TypeOK
  <1>10. CASE LoseLink
    BY <1>10 DEF LoseLink, TypeOK
  <1>11. CASE MarkLost
    <2>1. status' \in Statuses /\ (Works \/ Fails)
      BY <1>11, UnknownType DEF MarkLost, TypeOK
    <2>2. QED BY <1>11, <2>1, NoteType DEF MarkLost, TypeOK
  <1>12. CASE Mark
    <2>1. faults' \in 0 .. MaxFaults /\ clean' \in BOOLEAN /\ pc' \in {"list", "read"} /\ status' \in Statuses
      BY <1>12, UnknownType, NoteType, FaultType DEF Mark, TypeOK
    <2>2. QED BY <1>12, <2>1 DEF Mark, TypeOK
  <1>13. ASSUME InStep \/ OutOfStep \/ Raises
         PROVE  /\ faults' \in 0 .. MaxFaults /\ clean' \in BOOLEAN
                /\ cmd' \in {"none", "step", "behind", "eof"}
    BY <1>13, FaultType DEF InStep, OutOfStep, Raises, Works, TypeOK
  <1>14. CASE ListRegistrations
    <2>1. pc' \in {"resolve", "read"} /\ listed' \subseteq Identity /\ (listed' # {} => pc' = "resolve")
      BY <1>14 DEF ListRegistrations, TypeOK
    <2>2. InStep \/ OutOfStep \/ Raises
      BY <1>14 DEF ListRegistrations
    <2>3. QED BY <1>13, <1>14, <2>1, <2>2 DEF ListRegistrations, TypeOK
  <1>15. CASE ResolveLine
    <2>1. Works \/ Fails \/ PassedOver
      BY <1>15 DEF ResolveLine
    <2>2. /\ pending' \in RegistrationEvent \cup {Nothing}
          /\ pending' # Nothing <=> pc' = "confirm"
          /\ pc' \in {"confirm", "channels"}
      <3>1. [kind |-> "registered", ident |-> ident] \in RegistrationEvent
        BY IdentityType, Kinds
      <3>2. [kind |-> "registered", ident |-> ident] # Nothing /\ pending = Nothing
        BY <1>15, <3>1, Kinds DEF ResolveLine, TypeOK
      <3>3. QED BY <1>15, <3>1, <3>2 DEF ResolveLine
    <2>3. QED BY <1>15, <2>1, <2>2, NoteType DEF ResolveLine, TypeOK
  <1>16. CASE Confirm
    <2>1. clean' \in BOOLEAN /\ faults' \in 0 .. MaxFaults /\ status' \in Statuses
      BY <1>16, FaultType DEF Confirm, Fails, TypeOK, Statuses
    <2>2. QED BY <1>16, <2>1 DEF Confirm, Forget, TypeOK
  <1>17. CASE ListChannels
    <2>1. pc' \in {"sync", "read"} /\ channels' \subseteq Calls /\ (channels' # {} => pc' = "sync")
      BY <1>17 DEF ListChannels, Live, TypeOK
    <2>2. InStep \/ OutOfStep \/ Raises
      BY <1>17 DEF ListChannels
    <2>3. QED BY <1>13, <1>17, <2>1, <2>2 DEF ListChannels, TypeOK
  <1>18. CASE Sync
    <2>1. active' \subseteq Calls
      BY <1>18 DEF Sync, TypeOK
    <2>2. Works \/ Fails \/ PassedOver
      BY <1>18 DEF Sync
    <2>3. QED BY <1>18, <2>1, <2>2, NoteType DEF Sync, Forget, TypeOK
  <1>19. CASE Handled
    <2>1. events' \in Seq(Event) /\ pc = "read"
      BY <1>19, Taken DEF Handled
    <2>2. QED BY <1>19, <2>1, HandleType DEF Handled, TypeOK, Event
  <1>20. CASE ResolveEvent
    <2>1. events' \in Seq(Event) /\ pc = "read"
      BY <1>20, Taken DEF ResolveEvent
    <2>2. Works \/ Fails \/ PassedOver
      BY <1>20 DEF ResolveEvent
    <2>3. /\ pending' \in RegistrationEvent \cup {Nothing}
          /\ pending' # Nothing <=> pc' = "apply"
          /\ pc' \in {"apply", "read"}
      BY <1>20, Kinds DEF ResolveEvent, TypeOK
    <2>4. QED BY <1>20, <2>1, <2>2, <2>3, NoteType DEF ResolveEvent, TypeOK, Event
  <1>21. CASE ApplyEvent
    <2>1. pending.kind \in Statuses
      BY <1>21, Kinds DEF ApplyEvent, TypeOK, Statuses
    <2>2. clean' \in BOOLEAN /\ faults' \in 0 .. MaxFaults /\ status' \in Statuses
      BY <1>21, <2>1, FaultType DEF ApplyEvent, Fails, TypeOK
    <2>3. QED BY <1>21, <2>2 DEF ApplyEvent, Forget, TypeOK
  <1>22. CASE SwitchTrunk \/ ChangePassword \/ UNCHANGED vars
    <2>1. CASE SwitchTrunk
      BY <2>1 DEF SwitchTrunk, TypeOK
    <2>2. CASE ChangePassword
      BY <2>2 DEF ChangePassword, TypeOK, Statuses
    <2>3. CASE UNCHANGED vars
      BY <2>3 DEF vars, TypeOK
    <2>4. QED BY <1>22, <2>1, <2>2, <2>3
  <1>23. QED
    BY <1>1, <1>2, <1>3, <1>4, <1>5, <1>6, <1>7, <1>8, <1>9, <1>10, <1>11, <1>12, <1>14, <1>15,
       <1>16, <1>17, <1>18, <1>19, <1>20, <1>21, <1>22
    DEF Next, Listener, FreeSwitch, Ring, Answer, Hangup

(***************************************************************************)
(* What is still to come of a call and of an identity                      *)
(***************************************************************************)

LEMMA OfType ==
    ASSUME TypeOK
    PROVE  /\ Len(events) \in Nat /\ DOMAIN events = 1 .. Len(events)
           /\ \A n \in DOMAIN events : events[n] \in Event
           /\ \A c : OfCall(c) \subseteq DOMAIN events
           /\ \A i : OfIdent(i) \subseteq DOMAIN events
  BY DEF TypeOK, Event, OfCall, OfIdent

\* One event more, of a call or of an identity.
LEMMA OneMore ==
    ASSUME TypeOK, NEW e \in Event, events' = Append(events, e)
    PROVE  /\ \A c : OfCall(c)' = IF e \in CallEvent /\ e.call = c
                                   THEN OfCall(c) \cup {Len(events) + 1} ELSE OfCall(c)
           /\ \A i : OfIdent(i)' = IF e \in RegistrationEvent /\ e.ident = i
                                    THEN OfIdent(i) \cup {Len(events) + 1} ELSE OfIdent(i)
  BY Appended DEF OfCall, OfIdent

\* One less: the others move up.
LEMMA OneLess ==
    ASSUME TypeOK, events # <<>>, events' = Tail(events)
    PROVE  /\ \A c : OfCall(c)' = {n \in 1 .. (Len(events) - 1) : n + 1 \in OfCall(c)}
           /\ \A i : OfIdent(i)' = {n \in 1 .. (Len(events) - 1) : n + 1 \in OfIdent(i)}
  BY Taken DEF OfCall, OfIdent

LEMMA Fewer ==
    ASSUME TypeOK, NEW k \in 0 .. Len(events), events' = SubSeq(events, 1, k)
    PROVE  /\ \A c : OfCall(c)' \subseteq OfCall(c)
           /\ \A i : OfIdent(i)' \subseteq OfIdent(i)
  BY Shortened DEF OfCall, OfIdent

\* Unless FreeSWITCH adds one, every event that is left was there.
LEMMA Kept ==
    ASSUME TypeOK, Listener \/ ChangeIdentity \/ ConnectFails \/ CutLink \/ CutCommands \/ Restart
                   \/ SwitchTrunk \/ ChangePassword \/ UNCHANGED vars
    PROVE  \A n \in DOMAIN events' : \E m \in DOMAIN events : events'[n] = events[m]
  <1> USE DEF stream
  <1>1. CASE UNCHANGED events
    BY <1>1
  <1>2. CASE CutLink
    <2>1. PICK k \in 0 .. Len(events) : events' = SubSeq(events, 1, k)
      BY <1>2 DEF CutLink
    <2>2. QED BY <2>1, Shortened
  <1>3. CASE Handled \/ ResolveEvent
    <2>1. events # <<>> /\ events' = Tail(events)
      BY <1>3 DEF Handled, ResolveEvent
    <2>2. QED BY <2>1, Taken
  <1>4. CASE Restart
    BY <1>4 DEF Restart
  <1>5. QED
    BY <1>1, <1>2, <1>3, <1>4
    DEF Listener, Connect, LoseLink, MarkLost, Mark, ListRegistrations, ResolveLine, Confirm,
        ListChannels, Sync, ApplyEvent, ChangeIdentity, SwitchTrunk, ChangePassword,
        ConnectFails, CutCommands, vars

(***************************************************************************)
(* Evidence                                                                *)
(***************************************************************************)

LEMMA KnownStep == TypeOK /\ Known /\ [Next]_vars => Known'
  <1> SUFFICES ASSUME TypeOK, Known, [Next]_vars PROVE Known'
    OBVIOUS
  <1> USE DEF world, stream, answers, Known
  <1>1. ident \in Nat /\ Identity \subseteq Nat /\ (\A x \in 0 .. ident : x \in 0 .. (ident + 1))
    BY ListenerAssumption DEF TypeOK, Identity
  <1>2. ASSUME NEW i \in Identity, NEW k \in {"registered", "unregistered"},
               Emit([kind |-> k, ident |-> i]), ident' = ident, i \in 0 .. ident,
               since \subseteq since', k = "registered" => i \in since'
        PROVE  EventsKnown'
    <2>1. [kind |-> k, ident |-> i] \in Event
      BY Kinds DEF Event
    <2>2. QED BY <1>2, <2>1, Appended DEF EventsKnown, Emit
  <1>3. ASSUME NEW c \in Calls, NEW from, NEW to, NEW kind \in {"create", "answer", "hangup"},
               CallBecomes(c, from, to, kind)
        PROVE  Known'
    <2>1. [kind |-> kind, call |-> c] \in CallEvent
      BY Kinds
    <2>2. EventsKnown'
      BY <1>3, <2>1, Kinds, Appended DEF EventsKnown, Emit, CallBecomes, Event
    <2>3. RestKnown'
      BY <1>3 DEF CallBecomes, RestKnown, RegisteredHasEvidence
    <2>4. QED BY <2>2, <2>3
  <1>4. CASE Register
    <2>1. EventsKnown'
      <3>1. /\ Emit([kind |-> "registered", ident |-> ident]) /\ ident' = ident
            /\ since \subseteq since' /\ ident \in since' /\ ident \in 0 .. ident
        BY <1>1, <1>4, Kinds DEF Register
      <3>2. QED BY <1>2, <3>1, IdentityType
    <2>2. RestKnown'
      BY <1>1, <1>4 DEF Register, RestKnown, RegisteredHasEvidence
    <2>3. QED BY <2>1, <2>2
  <1>5. CASE Unregister
    <2>1. PICK i \in regs, k \in {"unregister", "expire"} :
            regs' = regs \ {i} /\ Emit([kind |-> Normalized[k], ident |-> i])
      BY <1>5 DEF Unregister
    <2>2. Normalized[k] = "unregistered" /\ i \in Identity /\ i \in 0 .. ident
      BY <2>1 DEF Normalized, TypeOK, RestKnown
    <2>3. EventsKnown'
      BY <1>2, <1>5, <2>1, <2>2 DEF Unregister
    <2>4. RestKnown'
      BY <1>5, <2>1 DEF Unregister, RestKnown, RegisteredHasEvidence
    <2>5. QED BY <2>3, <2>4
  <1>6. CASE ChangeIdentity
    <2>1. EventsKnown'
      BY <1>1, <1>6 DEF ChangeIdentity, EventsKnown
    <2>2. RestKnown'
      BY <1>1, <1>6 DEF ChangeIdentity, RestKnown, RegisteredHasEvidence
    <2>3. QED BY <2>1, <2>2
  <1>7. CASE Connect
    <2>1. events = <<>> /\ events' = events
      BY <1>7 DEF Connect, TypeOK
    <2>2. EventsKnown'
      BY <2>1 DEF EventsKnown
    <2>3. RestKnown'
      <3>1. pending = Nothing /\ listed = {} /\ ~(clean /\ status = "registered")
        BY <1>7 DEF Connect, TypeOK, RestKnown, RegisteredHasEvidence
      <3>2. pending.kind # "registered"
        BY <3>1 DEF Nothing
      <3>3. QED BY <1>7, <3>1, <3>2 DEF Connect, RestKnown, RegisteredHasEvidence
    <2>4. QED BY <2>2, <2>3
  <1>8. ASSUME UNCHANGED <<since, ident>>,
               \/ Listener \/ ConnectFails \/ CutLink \/ CutCommands \/ Restart
               \/ SwitchTrunk \/ ChangePassword \/ UNCHANGED vars
        PROVE  EventsKnown'
    BY <1>8, Kept DEF EventsKnown
  <1>9. Unknown # "registered" /\ Nothing.kind # "registered" /\ Nothing.ident = 0 /\ 0 \in 0 .. ident
    BY <1>1 DEF Unknown, Nothing
  <1>10. CASE ConnectFails \/ CutLink \/ CutCommands \/ Restart \/ SwitchTrunk \/ ChangePassword \/ UNCHANGED vars
    <2>1. UNCHANGED <<regs, since, ident>>
      BY <1>10 DEF ConnectFails, CutLink, CutCommands, Restart, SwitchTrunk, ChangePassword, vars
    <2>2. RestKnown'
      <3>1. CASE ConnectFails
        BY <1>9, <3>1 DEF ConnectFails, RestKnown, RegisteredHasEvidence
      <3>2. CASE CutLink \/ CutCommands
        BY <3>2 DEF CutLink, CutCommands, RestKnown, RegisteredHasEvidence
      <3>3. CASE Restart
        BY <1>9, <3>3 DEF Restart, Forget, RestKnown, RegisteredHasEvidence
      <3>4. CASE SwitchTrunk \/ ChangePassword \/ UNCHANGED vars
        BY <3>4 DEF SwitchTrunk, ChangePassword, vars, RestKnown, RegisteredHasEvidence
      <3>5. QED BY <1>10, <3>1, <3>2, <3>3, <3>4
    <2>3. QED BY <1>8, <1>10, <2>1, <2>2
  <1>11. CASE LoseLink \/ MarkLost
    <2>1. RestKnown'
      <3>1. CASE LoseLink
        BY <3>1 DEF LoseLink, RestKnown, RegisteredHasEvidence
      <3>2. CASE MarkLost
        BY <1>9, <3>2 DEF MarkLost, Works, Fails, RestKnown, RegisteredHasEvidence, TypeOK
      <3>3. QED BY <1>11, <3>1, <3>2
    <2>2. QED BY <1>8, <1>11, <2>1 DEF LoseLink, MarkLost, Listener
  <1>12. CASE Mark
    BY <1>8, <1>9, <1>12 DEF Mark, Listener, Fails, RestKnown, RegisteredHasEvidence, TypeOK
  <1>13. CASE ListRegistrations
    <2>1. RestKnown'
      <3>1. CASE InStep /\ listed' = regs /\ pc' = "resolve"
        BY <1>13, <3>1 DEF ListRegistrations, InStep, Works, RestKnown, RegisteredHasEvidence, TypeOK
      <3>2. CASE clean' = FALSE
        BY <1>13, <3>2 DEF ListRegistrations, RestKnown, RegisteredHasEvidence
      <3>3. QED BY <1>13, <3>1, <3>2 DEF ListRegistrations, OutOfStep, Raises
    <2>2. QED BY <1>8, <1>13, <2>1 DEF ListRegistrations, Listener
  <1>14. CASE ResolveLine
    <2>1. RestKnown'
      <3>1. CASE ident \in listed /\ pending' = [kind |-> "registered", ident |-> ident] /\ Works
        BY <1>1, <1>14, <3>1 DEF ResolveLine, Works, RestKnown, RegisteredHasEvidence
      <3>2. CASE pc' = "channels" /\ UNCHANGED pending /\ (Works \/ Fails \/ PassedOver)
        BY <1>14, <3>2 DEF ResolveLine, Works, Fails, PassedOver, RestKnown, RegisteredHasEvidence
      <3>3. QED BY <1>14, <3>1, <3>2 DEF ResolveLine
    <2>2. QED BY <1>8, <1>14, <2>1 DEF ResolveLine, Listener
  <1>15. CASE Confirm \/ ApplyEvent
    <2>1. pc' \in {"channels", "read"} /\ listed' = {} /\ pending' = Nothing
          /\ UNCHANGED <<world, stream, ident>>
      BY <1>15 DEF Confirm, ApplyEvent, Forget
    <2>2. clean' /\ status' = "registered" => ident \in since
      <3>1. CASE clean' = (clean /\ ~Overtaken) /\ status' \in {pending.kind, "registered"}
        <4>1. clean' /\ status' = "registered" => pending.kind = "registered"
          BY <1>15, <3>1 DEF Confirm, ApplyEvent, Fails, RestKnown
        <4>2. QED BY <3>1, <4>1 DEF RestKnown, Overtaken
      <3>2. CASE Fails
        BY <3>2 DEF Fails
      <3>3. QED BY <1>15, <3>1, <3>2 DEF Confirm, ApplyEvent
    <2>3. RestKnown'
      BY <1>9, <2>1, <2>2 DEF RestKnown, RegisteredHasEvidence
    <2>4. QED BY <1>8, <1>15, <2>1, <2>3 DEF Listener
  <1>16. CASE ListChannels \/ Sync
    <2>1. UNCHANGED <<regs, since, ident, status, link>> /\ (clean' => clean)
          /\ (UNCHANGED listed \/ listed' = {}) /\ (UNCHANGED pending \/ pending' = Nothing)
          /\ pc' \in {"sync", "read"}
      BY <1>16 DEF ListChannels, Sync, InStep, OutOfStep, Raises, Works, Fails, PassedOver, Forget
    <2>2. RestKnown'
      BY <1>9, <1>16, <2>1 DEF RestKnown, RegisteredHasEvidence, ListChannels, Sync
    <2>3. QED BY <1>8, <1>16, <2>1, <2>2 DEF Listener
  <1>17. CASE Handled
    <2>1. clean' => clean
      BY <1>17
      DEF Handled, Handle, HandleCreate, HandleAnswer, HandleHangup, Tracks, Works, Fails
    <2>2. RestKnown'
      BY <1>17, <2>1 DEF Handled, RestKnown, RegisteredHasEvidence
    <2>3. QED BY <1>8, <1>17, <2>2 DEF Handled, Listener
  <1>18. CASE ResolveEvent
    <2>1. EventsKnown'
      BY <1>8, <1>18 DEF ResolveEvent, Listener
    <2>2. \/ UNCHANGED pending
          \/ /\ pending' = Head(events) /\ Head(events) \in RegistrationEvent
             /\ Head(events) = events[1] /\ 1 \in DOMAIN events
      BY <1>18, Taken DEF ResolveEvent
    <2>3. pending'.ident \in 0 .. ident /\ (clean' /\ pending'.kind = "registered" => pending'.ident \in since)
          /\ (clean' => clean) /\ pc' \in {"read", "apply"}
      BY <1>18, <2>2 DEF ResolveEvent, EventsKnown, RestKnown, Works, Fails, PassedOver
    <2>4. RestKnown'
      BY <1>18, <2>3 DEF ResolveEvent, RestKnown, RegisteredHasEvidence
    <2>5. QED BY <2>1, <2>4
  <1>19. QED
    BY <1>3, <1>4, <1>5, <1>6, <1>7, <1>10, <1>11, <1>12, <1>13, <1>14, <1>15, <1>16, <1>17, <1>18
    DEF Next, Listener, FreeSwitch, Ring, Answer, Hangup

(***************************************************************************)
(* The end of a call                                                       *)
(***************************************************************************)

\* The part of Ordered that is about one call.
OrderedOf(c) ==
    /\ \A m, n \in OfCall(c) : events[m].kind = "hangup" /\ events[n].kind = "answer" => n < m
    /\ \A n \in OfCall(c) : events[n].kind = "hangup" => call[c] = "over"
    /\ row[c] = "ended" => call[c] = "over" /\ \A n \in OfCall(c) : events[n].kind # "answer"

LEMMA OrderedByCall ==
    /\ Ordered <=> \A c \in Calls : OrderedOf(c)
    /\ Ordered' <=> \A c \in Calls : OrderedOf(c)'
  BY DEF Ordered, OrderedOf

\* What a handler may make of the row of the call.
LEMMA RecordedRow ==
    ASSUME TypeOK, NEW e, Handle(e)
    PROVE  /\ e \in CallEvent
           /\ \A c \in Calls : \/ row'[c] = row[c]
                               \/ /\ c = e.call /\ e.kind \in {"create", "answer"}
                                  /\ row[c] = "ended" => e.kind = "answer"
                                  /\ row'[c] # "ended"
                               \/ c = e.call /\ e.kind = "hangup" /\ row'[c] = "ended"
  <1>1. e \in CallEvent /\ e.call \in Calls /\ e.kind \in {"create", "answer", "hangup"}
    BY Kinds DEF Handle
  <1>2. row' \in {row, [row EXCEPT ![e.call] = Recorded(e)]}
    BY DEF Handle, HandleCreate, HandleAnswer, HandleHangup, Tracks
  <1>3. /\ e.kind = "create" => Recorded(e) = IF row[e.call] = "none" THEN "ringing" ELSE row[e.call]
        /\ e.kind = "answer" => Recorded(e) = "in_progress"
        /\ e.kind = "hangup" => Recorded(e) = IF row[e.call] = "none" THEN "none" ELSE "ended"
    BY <1>1 DEF Recorded
  <1>4. QED BY <1>1, <1>2, <1>3 DEF TypeOK

LEMMA OrderedStep == TypeOK /\ Ordered /\ [Next]_vars => Ordered'
  <1> SUFFICES ASSUME TypeOK, Ordered, [Next]_vars, NEW c \in Calls PROVE OrderedOf(c)'
    BY OrderedByCall
  <1> USE DEF world, stream, answers
  <1>1. OrderedOf(c)
    BY OrderedByCall
  <1>2. ASSUME UNCHANGED <<events, call, row>> PROVE OrderedOf(c)'
    BY <1>1, <1>2 DEF OrderedOf, OfCall
  <1>3. ASSUME NEW e \in Event, Emit(e), UNCHANGED row,
               \/ UNCHANGED call /\ e \notin CallEvent
               \/ \E d \in Calls, to \in {"ringing", "up", "over"} :
                     /\ e \in CallEvent /\ e.call = d /\ call[d] # "over"
                     /\ call' = [call EXCEPT ![d] = to]
                     /\ e.kind = "hangup" <=> to = "over"
        PROVE  OrderedOf(c)'
    <2>1. \/ UNCHANGED call /\ (e \notin CallEvent \/ e.call # c)
          \/ /\ e \in CallEvent /\ e.call = c /\ call[c] # "over"
             /\ e.kind = "hangup" <=> call'[c] = "over"
          \/ call'[c] = call[c] /\ (e \notin CallEvent \/ e.call # c)
      BY <1>3 DEF TypeOK
    <2>2. CASE events' = Append(events, e)
      <3>1. \A n \in OfCall(c) : /\ events'[n] = events[n] /\ n \in Nat /\ n < Len(events) + 1
                                 /\ events[n] \in CallEvent
        BY <2>2, Appended, OfType DEF OfCall
      <3>2. CASE e \in CallEvent /\ e.call = c
        <4>1. OfCall(c)' = OfCall(c) \cup {Len(events) + 1} /\ events'[Len(events) + 1] = e
          BY <2>2, <3>2, OneMore, Appended
        <4>2. call[c] # "over" /\ (e.kind = "hangup" <=> call'[c] = "over")
          BY <2>1, <3>2
        <4>3. \A n \in OfCall(c) : events[n].kind # "hangup"
          BY <1>1, <4>2 DEF OrderedOf
        <4>4. row'[c] # "ended"
          BY <1>1, <1>3, <4>2 DEF OrderedOf
        <4>5. QED BY <3>1, <4>1, <4>2, <4>3, <4>4 DEF OrderedOf
      <3>3. CASE ~(e \in CallEvent /\ e.call = c)
        <4>1. OfCall(c)' = OfCall(c)
          BY <2>2, <3>3, OneMore
        <4>2. call'[c] = call[c] /\ row' = row
          BY <1>3, <2>1, <3>3
        <4>3. QED BY <1>1, <3>1, <4>1, <4>2 DEF OrderedOf
      <3>4. QED BY <3>2, <3>3
    <2>3. CASE events' = events
      <3>1. OfCall(c)' = OfCall(c)
        BY <2>3 DEF OfCall
      <3>2. CASE call'[c] = call[c]
        BY <1>1, <1>3, <2>3, <3>1, <3>2 DEF OrderedOf
      <3>3. CASE call[c] # "over"
        BY <1>1, <1>3, <2>3, <3>1, <3>3 DEF OrderedOf
      <3>4. QED BY <2>1, <3>2, <3>3
    <2>4. QED BY <1>3, <2>2, <2>3 DEF Emit
  <1>4. ASSUME NEW d \in Calls, Ring(d) \/ Answer(d) \/ Hangup(d) PROVE OrderedOf(c)'
    <2>1. PICK kind \in {"create", "answer", "hangup"}, to \in {"ringing", "up", "over"},
               from \in {{"none"}, {"ringing"}, {"ringing", "up"}} :
            /\ CallBecomes(d, from, to, kind)
            /\ kind = "hangup" <=> to = "over"
      BY <1>4 DEF Ring, Answer, Hangup
    <2>2. [kind |-> kind, call |-> d] \in CallEvent /\ [kind |-> kind, call |-> d] \in Event
      BY Kinds DEF Event
    <2>3. QED BY <1>3, <2>1, <2>2 DEF CallBecomes
  <1>5. CASE Register \/ Unregister
    <2>1. PICK e \in RegistrationEvent : Emit(e)
      BY <1>5, Kinds, IdentityType DEF Register, Unregister, Normalized, TypeOK
    <2>2. QED BY <1>3, <1>5, <2>1, Kinds DEF Register, Unregister, Event
  <1>6. CASE CutLink \/ Restart
    <2>1. UNCHANGED <<call, row>>
      BY <1>6 DEF CutLink, Restart
    <2>2. OfCall(c)' \subseteq OfCall(c) /\ \A n \in OfCall(c)' : events'[n] = events[n]
      <3>1. CASE CutLink
        BY <3>1, Fewer, Shortened DEF CutLink, OfCall
      <3>2. CASE Restart
        BY <3>2 DEF Restart, OfCall
      <3>3. QED BY <1>6, <3>1, <3>2
    <2>3. QED BY <1>1, <2>1, <2>2 DEF OrderedOf
  <1>7. CASE Handled \/ ResolveEvent
    <2>1. events # <<>> /\ events' = Tail(events) /\ UNCHANGED call
      BY <1>7 DEF Handled, ResolveEvent
    <2>2. \A n \in OfCall(c)' : n \in Nat /\ n + 1 \in OfCall(c) /\ events'[n] = events[n + 1]
      BY <2>1, OneLess, Taken, OfType
    <2>3. /\ \A m, n \in OfCall(c)' : events'[m].kind = "hangup" /\ events'[n].kind = "answer" => n < m
          /\ \A n \in OfCall(c)' : events'[n].kind = "hangup" => call'[c] = "over"
      <3>1. ASSUME NEW m \in OfCall(c)', NEW n \in OfCall(c)',
                   events'[m].kind = "hangup", events'[n].kind = "answer"
            PROVE  n < m
        <4>1. n + 1 < m + 1
          BY <1>1, <2>2, <3>1 DEF OrderedOf
        <4>2. QED BY <2>2, <4>1
      <3>2. QED BY <1>1, <2>1, <2>2, <3>1 DEF OrderedOf
    <2>4. ASSUME row'[c] = "ended"
          PROVE  call'[c] = "over" /\ \A n \in OfCall(c)' : events'[n].kind # "answer"
      <3>1. CASE row[c] = "ended"
        BY <1>1, <2>1, <2>2, <3>1 DEF OrderedOf
      <3>2. CASE row[c] # "ended"
        <4>1. Handle(events[1]) /\ 1 \in DOMAIN events
          BY <1>7, <2>1, <2>4, <3>2, Taken DEF Handled, ResolveEvent
        <4>2. events[1] \in CallEvent /\ events[1].call = c /\ events[1].kind = "hangup"
          BY <2>4, <3>2, <4>1, RecordedRow
        <4>3. 1 \in OfCall(c)
          BY <4>1, <4>2 DEF OfCall
        <4>4. ASSUME NEW n \in OfCall(c)', events'[n].kind = "answer" PROVE FALSE
          <5>1. n + 1 < 1 /\ n \in Nat
            BY <1>1, <2>2, <4>2, <4>3, <4>4 DEF OrderedOf
          <5>2. QED BY <5>1
        <4>5. QED BY <1>1, <2>1, <4>2, <4>3, <4>4 DEF OrderedOf
      <3>3. QED BY <3>1, <3>2
    <2>5. QED BY <2>3, <2>4 DEF OrderedOf
  <1>8. QED
    BY <1>2, <1>4, <1>5, <1>6, <1>7
    DEF Next, Listener, FreeSwitch, Connect, LoseLink, MarkLost, Mark, ListRegistrations, ResolveLine,
        Confirm, ListChannels, Sync, ApplyEvent, ChangeIdentity, SwitchTrunk, ChangePassword,
        ConnectFails, CutCommands, vars

(***************************************************************************)
(* The last event                                                          *)
(***************************************************************************)

CallTells(c) ==
    \A n \in OfCall(c) : (\A m \in OfCall(c) : m <= n) => (events[n].kind # "hangup" <=> c \in Live)
IdentTells(i) ==
    \A n \in OfIdent(i) : (\A m \in OfIdent(i) : m <= n) => (events[n].kind = "registered" <=> i \in regs)

LEMMA TellsParts ==
    /\ LastTells <=> (link = "live" => /\ \A c \in Calls : CallTells(c)
                                       /\ \A i \in Identity : IdentTells(i))
    /\ LastTells' <=> (link' = "live" => /\ \A c \in Calls : CallTells(c)'
                                         /\ \A i \in Identity : IdentTells(i)')
  BY DEF LastTells, CallTells, IdentTells

\* A new event tells what has just become so, and changes nothing else.
LEMMA TellsMore ==
    ASSUME TypeOK, link = "live", LastTells, NEW e \in Event, Emit(e),
           \A c \in Calls : IF e \in CallEvent /\ e.call = c
                              THEN e.kind # "hangup" <=> c \in Live'
                              ELSE c \in Live' <=> c \in Live,
           \A i \in Identity : IF e \in RegistrationEvent /\ e.ident = i
                                 THEN e.kind = "registered" <=> i \in regs'
                                 ELSE i \in regs' <=> i \in regs
    PROVE  LastTells'
  <1>1. events' = Append(events, e)
    BY DEF Emit
  <1>2. /\ events'[Len(events) + 1] = e
        /\ \A n \in DOMAIN events : events'[n] = events[n] /\ n <= Len(events) /\ n \in Nat
        /\ Len(events) \in Nat
    BY <1>1, Appended
  <1>3. ASSUME NEW c \in Calls PROVE CallTells(c)'
    <2>1. CASE e \in CallEvent /\ e.call = c
      <3>1. OfCall(c)' = OfCall(c) \cup {Len(events) + 1}
        BY <1>1, <2>1, OneMore
      <3>2. \A n \in OfCall(c) : ~(Len(events) + 1 <= n)
        BY <1>2, OfType
      <3>3. e.kind # "hangup" <=> c \in Live'
        BY <2>1
      <3>4. QED BY <1>2, <3>1, <3>2, <3>3 DEF CallTells
    <2>2. CASE ~(e \in CallEvent /\ e.call = c)
      <3>1. OfCall(c)' = OfCall(c)
        BY <1>1, <2>2, OneMore
      <3>2. c \in Live' <=> c \in Live
        BY <2>2
      <3>3. CallTells(c) /\ OfCall(c) \subseteq DOMAIN events
        BY TellsParts, OfType
      <3>4. QED BY <1>2, <3>1, <3>2, <3>3 DEF CallTells
    <2>3. QED BY <2>1, <2>2
  <1>4. ASSUME NEW i \in Identity PROVE IdentTells(i)'
    <2>1. CASE e \in RegistrationEvent /\ e.ident = i
      <3>1. OfIdent(i)' = OfIdent(i) \cup {Len(events) + 1}
        BY <1>1, <2>1, OneMore
      <3>2. \A n \in OfIdent(i) : ~(Len(events) + 1 <= n)
        BY <1>2, OfType
      <3>3. e.kind = "registered" <=> i \in regs'
        BY <2>1
      <3>4. QED BY <1>2, <3>1, <3>2, <3>3 DEF IdentTells
    <2>2. CASE ~(e \in RegistrationEvent /\ e.ident = i)
      <3>1. OfIdent(i)' = OfIdent(i)
        BY <1>1, <2>2, OneMore
      <3>2. i \in regs' <=> i \in regs
        BY <2>2
      <3>3. IdentTells(i) /\ OfIdent(i) \subseteq DOMAIN events
        BY TellsParts, OfType
      <3>4. QED BY <1>2, <3>1, <3>2, <3>3 DEF IdentTells
    <2>3. QED BY <2>1, <2>2
  <1>5. QED BY <1>3, <1>4, TellsParts

\* Taking the first event leaves the last one the last.
LEMMA TellsLess ==
    ASSUME TypeOK, link = "live", LastTells, events # <<>>, events' = Tail(events),
           UNCHANGED <<call, regs>>
    PROVE  LastTells'
  <1>1. Len(events) \in Nat /\ DOMAIN events = 1 .. Len(events)
    BY OfType
  <1>2. \A n \in 1 .. (Len(events) - 1) : events'[n] = events[n + 1]
    BY Taken
  <1>3. ASSUME NEW S \in SUBSET (1 .. Len(events)), NEW n \in {m \in 1 .. (Len(events) - 1) : m + 1 \in S},
               \A m \in {k \in 1 .. (Len(events) - 1) : k + 1 \in S} : m <= n
        PROVE  \A m \in S : m <= n + 1
    <2> SUFFICES ASSUME NEW m \in S, ~(m <= n + 1) PROVE FALSE
      OBVIOUS
    <2>1. m - 1 \in 1 .. (Len(events) - 1) /\ (m - 1) + 1 \in S
      BY <1>1
    <2>2. m - 1 <= n
      BY <1>3, <2>1
    <2>3. QED BY <1>1, <2>2
  <1>4. ASSUME NEW c \in Calls, NEW n \in OfCall(c)', \A m \in OfCall(c)' : m <= n
        PROVE  events'[n].kind # "hangup" <=> c \in Live'
    <2>1. OfCall(c)' = {k \in 1 .. (Len(events) - 1) : k + 1 \in OfCall(c)}
      BY OneLess
    <2>2. OfCall(c) \in SUBSET (1 .. Len(events))
      BY OfType, <1>1
    <2>3. \A m \in OfCall(c) : m <= n + 1
      BY <1>3, <1>4, <2>1, <2>2
    <2>4. n + 1 \in OfCall(c) /\ events'[n] = events[n + 1]
      BY <1>2, <1>4, <2>1
    <2>5. c \in Live' <=> c \in Live
      BY DEF Live
    <2>6. CallTells(c)
      BY TellsParts
    <2>7. QED BY <2>3, <2>4, <2>5, <2>6 DEF CallTells
  <1>5. ASSUME NEW i \in Identity, NEW n \in OfIdent(i)', \A m \in OfIdent(i)' : m <= n
        PROVE  events'[n].kind = "registered" <=> i \in regs'
    <2>1. OfIdent(i)' = {k \in 1 .. (Len(events) - 1) : k + 1 \in OfIdent(i)}
      BY OneLess
    <2>2. OfIdent(i) \in SUBSET (1 .. Len(events))
      BY OfType, <1>1
    <2>3. \A m \in OfIdent(i) : m <= n + 1
      BY <1>3, <1>5, <2>1, <2>2
    <2>4. n + 1 \in OfIdent(i) /\ events'[n] = events[n + 1]
      BY <1>2, <1>5, <2>1
    <2>5. IdentTells(i)
      BY TellsParts
    <2>6. QED BY <2>3, <2>4, <2>5 DEF IdentTells
  <1>6. (\A c \in Calls : CallTells(c)') /\ \A i \in Identity : IdentTells(i)'
    BY <1>4, <1>5 DEF CallTells, IdentTells
  <1>7. QED BY <1>6, TellsParts

LEMMA TellsStep == TypeOK /\ LastTells /\ [Next]_vars => LastTells'
  <1> SUFFICES ASSUME TypeOK, LastTells, [Next]_vars, link' = "live" PROVE LastTells'
    BY DEF LastTells
  <1> USE DEF world, stream, answers
  <1>1. ASSUME UNCHANGED <<events, call, regs, link>> PROVE LastTells'
    BY <1>1 DEF LastTells, OfCall, OfIdent, Live
  <1>2. ASSUME NEW d \in Calls, Ring(d) \/ Answer(d) \/ Hangup(d) PROVE LastTells'
    <2>1. PICK kind \in {"create", "answer", "hangup"}, to \in {"ringing", "up", "over"},
               from \in {{"none"}, {"ringing"}, {"ringing", "up"}} :
            /\ CallBecomes(d, from, to, kind)
            /\ kind = "hangup" <=> to = "over"
      BY <1>2 DEF Ring, Answer, Hangup
    <2> DEFINE e == [kind |-> kind, call |-> d]
    <2>2. e \in CallEvent /\ e \in Event /\ e \notin RegistrationEvent /\ e.kind = kind /\ e.call = d
      BY Kinds DEF Event
    <2>3. Emit(e) /\ link = "live" /\ regs' = regs /\ call' = [call EXCEPT ![d] = to]
      BY <2>1 DEF CallBecomes
    <2>4. \A c \in Calls : c \in Live' <=> IF c = d THEN to # "over" ELSE c \in Live
      BY <2>3 DEF Live, TypeOK
    <2> HIDE DEF e
    <2>5. QED BY <2>1, <2>2, <2>3, <2>4, TellsMore
  <1>3. CASE Register \/ Unregister
    <2>1. PICK i \in Identity, k \in {"registered", "unregistered"} :
            /\ Emit([kind |-> k, ident |-> i])
            /\ regs' = IF k = "registered" THEN regs \cup {i} ELSE regs \ {i}
      BY <1>3, IdentityType, Kinds DEF Register, Unregister, TypeOK, Normalized
    <2> DEFINE e == [kind |-> k, ident |-> i]
    <2>2. e \in RegistrationEvent /\ e \in Event /\ e \notin CallEvent /\ e.kind = k /\ e.ident = i
      BY Kinds DEF Event
    <2>3. Emit(e) /\ link = "live" /\ call' = call
      BY <1>3, <2>1 DEF Register, Unregister
    <2>4. \A c \in Calls : c \in Live' <=> c \in Live
      BY <2>3 DEF Live
    <2>5. \A j \in Identity : j \in regs' <=> IF j = i THEN k = "registered" ELSE j \in regs
      BY <2>1
    <2> HIDE DEF e
    <2>6. QED BY <2>2, <2>3, <2>4, <2>5, TellsMore
  <1>4. CASE Handled \/ ResolveEvent
    <2>1. events # <<>> /\ events' = Tail(events) /\ UNCHANGED <<call, regs, link>>
      BY <1>4 DEF Handled, ResolveEvent
    <2>2. QED BY <2>1, TellsLess
  <1>5. CASE Connect
    <2>1. events' = <<>>
      BY <1>5 DEF Connect, TypeOK
    <2>2. (\A c : OfCall(c)' = {}) /\ \A i : OfIdent(i)' = {}
      BY <2>1 DEF OfCall, OfIdent
    <2>3. QED BY <2>2 DEF LastTells
  <1>6. CASE CutLink \/ Restart \/ LoseLink
    BY <1>6 DEF CutLink, Restart, LoseLink
  <1>7. QED
    BY <1>1, <1>2, <1>3, <1>4, <1>5, <1>6
    DEF Next, Listener, FreeSwitch, MarkLost, Mark, ListRegistrations, ResolveLine, Confirm,
        ListChannels, Sync, ApplyEvent, ChangeIdentity, SwitchTrunk, ChangePassword,
        ConnectFails, CutCommands, vars

(***************************************************************************)
(* What has no event to come is right already                              *)
(***************************************************************************)

\* The premises of the next two lemmas, once the step has kept the rest.
Settled == TypeOK /\ Known /\ LastTells

\* What an event that is added leaves without events had none.
LEMMA NoneBefore ==
    ASSUME TypeOK, link = "live", NEW e \in Event, Emit(e)
    PROVE  /\ \A i : OfIdent(i)' = {} => OfIdent(i) = {} /\ ~(e \in RegistrationEvent /\ e.ident = i)
           /\ \A c : OfCall(c)' = {} => OfCall(c) = {} /\ ~(e \in CallEvent /\ e.call = c)
  BY OneMore DEF Emit

\* What has no event once the first is taken had at most that one.
LEMMA NoneAfter ==
    ASSUME TypeOK, events # <<>>, events' = Tail(events)
    PROVE  /\ Head(events) = events[1] /\ Head(events) \in Event
           /\ \A i : OfIdent(i)' = {} =>
                 OfIdent(i) = IF Head(events) \in RegistrationEvent /\ Head(events).ident = i THEN {1} ELSE {}
           /\ \A c : OfCall(c)' = {} =>
                 OfCall(c) = IF Head(events) \in CallEvent /\ Head(events).call = c THEN {1} ELSE {}
  <1>1. Len(events) \in Nat /\ DOMAIN events = 1 .. Len(events) /\ 1 \in DOMAIN events
        /\ Head(events) = events[1] /\ Head(events) \in Event
    BY Taken
  <1>2. ASSUME NEW S \in SUBSET (1 .. Len(events)), {n \in 1 .. (Len(events) - 1) : n + 1 \in S} = {}
        PROVE  S \subseteq {1}
    <2> SUFFICES ASSUME NEW n \in S, n # 1 PROVE FALSE
      OBVIOUS
    <2>1. n - 1 \in 1 .. (Len(events) - 1) /\ (n - 1) + 1 \in S
      BY <1>1
    <2>2. QED BY <1>2, <2>1
  <1>3. ASSUME NEW i, OfIdent(i)' = {} PROVE OfIdent(i) \subseteq {1}
    BY <1>1, <1>2, <1>3, OneLess, OfType
  <1>4. ASSUME NEW c, OfCall(c)' = {} PROVE OfCall(c) \subseteq {1}
    BY <1>1, <1>2, <1>4, OneLess, OfType
  <1>5. \A i : 1 \in OfIdent(i) <=> Head(events) \in RegistrationEvent /\ Head(events).ident = i
    BY <1>1 DEF OfIdent
  <1>6. \A c : 1 \in OfCall(c) <=> Head(events) \in CallEvent /\ Head(events).call = c
    BY <1>1 DEF OfCall
  <1>7. QED BY <1>1, <1>3, <1>4, <1>5, <1>6

LEMMA StatusStep == Settled /\ StatusInSync /\ [Next]_vars => StatusInSync'
  <1> DEFINE Right == /\ pc \in {"read", "channels", "sync"} => (status = "registered" <=> ident \in regs)
                      /\ pc = "resolve" => (ident \in listed <=> ident \in regs)
                      /\ pc \in {"confirm", "apply"} /\ pending.ident = ident =>
                            (pending.kind = "registered" <=> ident \in regs)
  <1> SUFFICES ASSUME Settled, StatusInSync, [Next]_vars, clean', link' = "live", OfIdent(ident)' = {}
               PROVE  Right'
    BY DEF StatusInSync
  <1> USE DEF world, stream, answers
  <1>1. TypeOK /\ Known /\ LastTells /\ (clean /\ link = "live" /\ OfIdent(ident) = {} => Right)
    BY DEF Settled, StatusInSync
  <1>2. ASSUME UNCHANGED <<events, ident, regs, link, pc, status, listed, pending>>, clean' => clean PROVE Right'
    BY <1>1, <1>2 DEF OfIdent
  <1>3. ASSUME NEW d \in Calls, Ring(d) \/ Answer(d) \/ Hangup(d) PROVE Right'
    <2>1. PICK kind \in {"create", "answer", "hangup"} :
            /\ Emit([kind |-> kind, call |-> d])
            /\ UNCHANGED <<regs, link, pc, listed, pending, ident, status, clean>>
      BY <1>3 DEF Ring, Answer, Hangup, CallBecomes
    <2>2. [kind |-> kind, call |-> d] \in Event
      BY Kinds DEF Event
    <2>3. OfIdent(ident) = {}
      BY <1>1, <2>1, <2>2, NoneBefore
    <2>4. QED BY <1>1, <2>1, <2>3
  <1>4. CASE Register \/ Unregister
    <2>1. PICK i \in Identity, k \in {"registered", "unregistered"} :
            /\ Emit([kind |-> k, ident |-> i])
            /\ regs' = IF k = "registered" THEN regs \cup {i} ELSE regs \ {i}
            /\ UNCHANGED <<link, pc, listed, pending, ident, status, clean>>
      BY <1>1, <1>4, IdentityType, Kinds DEF Register, Unregister, TypeOK, Normalized
    <2>2. [kind |-> k, ident |-> i] \in Event /\ [kind |-> k, ident |-> i] \in RegistrationEvent
      BY Kinds DEF Event
    <2>3. OfIdent(ident) = {} /\ i # ident
      BY <1>1, <2>1, <2>2, NoneBefore
    <2>4. QED BY <1>1, <2>1, <2>3
  <1>5. CASE ChangeIdentity
    <2>1. ident' = ident + 1 /\ ident \in Nat /\ status' = "unknown" /\ UNCHANGED <<regs, pc, listed, pending, clean>>
      <3>1. ident \in Nat
        BY <1>1, ListenerAssumption DEF TypeOK, Identity
      <3>2. QED BY <1>5, <3>1 DEF ChangeIdentity
    <2>2. ident' \notin regs /\ ident' \notin listed /\ pending.ident # ident'
      BY <1>1, <2>1 DEF Known, RestKnown
    <2>3. QED BY <2>1, <2>2
  <1>6. CASE Connect \/ Mark
    BY <1>6 DEF Connect, Mark, Fails
  <1>7. CASE ConnectFails \/ LoseLink \/ MarkLost \/ CutLink \/ Restart
    BY <1>1, <1>7 DEF ConnectFails, LoseLink, MarkLost, CutLink, Restart, TypeOK
  <1>8. CASE ListRegistrations
    <2>1. InStep /\ listed' = regs /\ pc' = "resolve"
      BY <1>8 DEF ListRegistrations, OutOfStep, Raises
    <2>2. QED BY <1>8, <2>1 DEF ListRegistrations
  <1>9. CASE ResolveLine
    <2>1. Works /\ UNCHANGED <<events, ident, regs, link, status>> /\ pc = "resolve"
      BY <1>9 DEF ResolveLine, Fails, PassedOver
    <2>2. OfIdent(ident) = {} /\ clean /\ (ident \in listed <=> ident \in regs)
      BY <1>1, <2>1 DEF OfIdent, Works
    <2>3. status # "registered"
      BY <1>1, <2>1, <2>2 DEF Known, RestKnown
    <2>4. CASE ident \in listed /\ pc' = "confirm" /\ pending' = [kind |-> "registered", ident |-> ident]
      BY <2>1, <2>2, <2>4
    <2>5. CASE ident \notin listed /\ pc' = "channels"
      BY <2>1, <2>2, <2>3, <2>5
    <2>6. QED BY <1>9, <2>4, <2>5 DEF ResolveLine, Fails, PassedOver
  <1>10. CASE Confirm \/ ApplyEvent
    <2>1. clean' = (clean /\ ~Overtaken) /\ status' \in {pending.kind, "registered"}
          /\ (pc = "confirm" => status' = "registered") /\ (pc = "apply" => status' = pending.kind)
          /\ pc \in {"confirm", "apply"}
      BY <1>10 DEF Confirm, ApplyEvent, Fails
    <2>2. UNCHANGED <<events, ident, regs, link>> /\ pc' \in {"channels", "read"}
      BY <1>10 DEF Confirm, ApplyEvent
    <2>3. OfIdent(ident) = {} /\ clean /\ pending.ident = ident
      BY <2>1, <2>2 DEF OfIdent, Overtaken
    <2>4. status' = "registered" <=> pending.kind = "registered"
      BY <1>1, <2>1 DEF Known, RestKnown
    <2>5. QED BY <1>1, <2>1, <2>2, <2>3, <2>4
  <1>11. CASE ListChannels \/ Sync
    <2>1. UNCHANGED <<events, ident, regs, link, status>> /\ clean
          /\ pc \in {"channels", "sync"} /\ pc' \in {"sync", "read"}
      BY <1>11 DEF ListChannels, Sync, InStep, OutOfStep, Raises, Works, Fails, PassedOver
    <2>2. OfIdent(ident) = {}
      BY <2>1 DEF OfIdent
    <2>3. QED BY <1>1, <2>1, <2>2
  <1>12. CASE Handled
    <2>1. UNCHANGED <<regs, link, pc, listed, pending, ident, status>> /\ clean
      BY <1>12 DEF Handled, Handle, HandleCreate, HandleAnswer, HandleHangup, Tracks, Works, Fails
    <2>2. events # <<>> /\ events' = Tail(events) /\ Head(events) \notin RegistrationEvent
      BY <1>12, Kinds DEF Handled, Handle
    <2>3. OfIdent(ident) = {}
      BY <1>1, <2>1, <2>2, NoneAfter
    <2>4. QED BY <1>1, <2>1, <2>3
  <1>13. CASE ResolveEvent
    <2>1. /\ events # <<>> /\ events' = Tail(events) /\ pc = "read"
          /\ Head(events) \in RegistrationEvent
          /\ UNCHANGED <<regs, link, listed, ident, status, clean>>
          /\ \/ Head(events).ident = ident /\ pc' = "apply" /\ pending' = Head(events)
             \/ Head(events).ident # ident /\ UNCHANGED <<pc, pending>>
      BY <1>13 DEF ResolveEvent, Works, Fails, PassedOver
    <2>2. CASE Head(events).ident = ident /\ pc' = "apply" /\ pending' = Head(events)
      <3>1. OfIdent(ident) = {1} /\ Head(events) = events[1]
        BY <1>1, <2>1, <2>2, NoneAfter
      <3>2. link = "live" /\ ident \in Identity
        BY <1>1, <2>1 DEF TypeOK
      <3>3. events[1].kind = "registered" <=> ident \in regs
        BY <1>1, <3>1, <3>2, TellsParts DEF IdentTells
      <3>4. QED BY <2>1, <2>2, <3>1, <3>3
    <2>3. CASE Head(events).ident # ident /\ UNCHANGED <<pc, pending>>
      <3>1. OfIdent(ident) = {}
        BY <1>1, <2>1, <2>3, NoneAfter
      <3>2. QED BY <1>1, <2>1, <2>3, <3>1
    <2>4. QED BY <2>1, <2>2, <2>3
  <1>14. CASE CutCommands \/ SwitchTrunk \/ ChangePassword \/ UNCHANGED vars
    BY <1>2, <1>14 DEF CutCommands, SwitchTrunk, ChangePassword, vars
  <1>15. QED
    BY <1>3, <1>4, <1>5, <1>6, <1>7, <1>8, <1>9, <1>10, <1>11, <1>12, <1>13, <1>14
    DEF Next, Listener, FreeSwitch

LEMMA CallsStep == Settled /\ CallsInSync /\ [Next]_vars => CallsInSync'
  <1> DEFINE Right(c) == /\ pc \in {"read", "apply"} => (c \in active <=> c \in Live)
                         /\ pc = "sync" => (c \in channels <=> c \in Live)
  <1> SUFFICES ASSUME Settled, CallsInSync, [Next]_vars, clean', link' = "live",
                      NEW c \in Calls, OfCall(c)' = {}
               PROVE  Right(c)'
    BY DEF CallsInSync
  <1> USE DEF world, stream, answers
  <1>1. TypeOK /\ LastTells /\ (clean /\ link = "live" /\ OfCall(c) = {} => Right(c))
    BY DEF Settled, CallsInSync
  <1>2. ASSUME UNCHANGED <<events, call, link, pc, active, channels>>, clean' => clean PROVE Right(c)'
    BY <1>1, <1>2 DEF OfCall, Live
  <1>3. ASSUME NEW d \in Calls, Ring(d) \/ Answer(d) \/ Hangup(d) PROVE Right(c)'
    <2>1. PICK kind \in {"create", "answer", "hangup"}, to \in {"ringing", "up", "over"} :
            /\ Emit([kind |-> kind, call |-> d])
            /\ call' = [call EXCEPT ![d] = to]
            /\ UNCHANGED <<link, pc, active, channels, clean>>
      BY <1>3 DEF Ring, Answer, Hangup, CallBecomes
    <2> DEFINE e == [kind |-> kind, call |-> d]
    <2>2. e \in Event /\ e \in CallEvent /\ e.call = d
      BY Kinds DEF Event
    <2> HIDE DEF e
    <2>3. OfCall(c) = {} /\ c # d
      BY <1>1, <2>1, <2>2, NoneBefore DEF e
    <2>4. c \in Live' <=> c \in Live
      BY <2>1, <2>3 DEF Live
    <2>5. QED BY <1>1, <2>1, <2>3, <2>4
  <1>4. CASE Register \/ Unregister
    <2>1. PICK e \in RegistrationEvent :
            Emit(e) /\ UNCHANGED <<call, link, pc, active, channels, clean>>
      BY <1>1, <1>4, Kinds, IdentityType DEF Register, Unregister, Normalized, TypeOK
    <2>2. OfCall(c) = {}
      BY <1>1, <2>1, NoneBefore DEF Event
    <2>3. QED BY <1>1, <2>1, <2>2 DEF Live
  <1>5. CASE ChangeIdentity \/ SwitchTrunk \/ ChangePassword \/ CutCommands \/ UNCHANGED vars
    BY <1>2, <1>5 DEF ChangeIdentity, SwitchTrunk, ChangePassword, CutCommands, vars
  <1>6. CASE Connect \/ Mark \/ ListRegistrations \/ ResolveLine \/ Confirm
    BY <1>6 DEF Connect, Mark, ListRegistrations, ResolveLine, Confirm, Fails, Raises
  <1>7. CASE ConnectFails \/ LoseLink \/ MarkLost \/ CutLink \/ Restart
    BY <1>1, <1>7 DEF ConnectFails, LoseLink, MarkLost, CutLink, Restart, TypeOK
  <1>8. CASE ListChannels
    <2>1. InStep /\ channels' = Live /\ pc' = "sync"
      BY <1>8 DEF ListChannels, OutOfStep, Raises
    <2>2. QED BY <1>8, <2>1 DEF ListChannels, Live
  <1>9. CASE Sync
    <2>1. active' = channels /\ pc = "sync" /\ pc' = "read" /\ clean /\ UNCHANGED <<events, call, link>>
      BY <1>9 DEF Sync, Works, Fails, PassedOver
    <2>2. OfCall(c) = {} /\ (c \in Live' <=> c \in Live)
      BY <2>1 DEF OfCall, Live
    <2>3. QED BY <1>1, <2>1, <2>2
  <1>10. CASE Handled
    <2>1. /\ events # <<>> /\ events' = Tail(events) /\ pc = "read"
          /\ Head(events) \in CallEvent /\ Head(events).call \in Calls
          /\ UNCHANGED <<call, link, pc, channels>>
      BY <1>10, Kinds DEF Handled, Handle
    <2>2. active' = Tracked(Head(events)) /\ clean
      BY <1>10 DEF Handled, Handle, HandleCreate, HandleAnswer, HandleHangup, Tracks, Works, Fails
    <2>3. c \in Live' <=> c \in Live
      BY <2>1 DEF Live
    <2>4. CASE Head(events).call = c
      <3>1. OfCall(c) = {1} /\ Head(events) = events[1] /\ link = "live"
        BY <1>1, <2>1, <2>4, NoneAfter
      <3>2. Head(events).kind # "hangup" <=> c \in Live
        BY <1>1, <3>1, TellsParts DEF CallTells
      <3>3. c \in active' <=> Head(events).kind # "hangup"
        BY <2>2, <2>4 DEF Tracked
      <3>4. QED BY <2>1, <2>3, <3>2, <3>3
    <2>5. CASE Head(events).call # c
      <3>1. OfCall(c) = {}
        BY <1>1, <2>1, <2>5, NoneAfter
      <3>2. c \in active' <=> c \in active
        BY <2>2, <2>5 DEF Tracked
      <3>3. QED BY <1>1, <2>1, <2>2, <2>3, <3>1, <3>2
    <2>6. QED BY <2>4, <2>5
  <1>11. CASE ResolveEvent
    <2>1. /\ events # <<>> /\ events' = Tail(events) /\ pc = "read" /\ pc' \in {"read", "apply"}
          /\ Head(events) \in RegistrationEvent /\ Head(events) \notin CallEvent
          /\ UNCHANGED <<call, link, active>> /\ clean
      BY <1>11, Kinds DEF ResolveEvent, Works, Fails, PassedOver
    <2>2. OfCall(c) = {}
      BY <1>1, <2>1, NoneAfter
    <2>3. QED BY <1>1, <2>1, <2>2 DEF Live
  <1>12. CASE ApplyEvent
    <2>1. pc = "apply" /\ pc' = "read" /\ clean /\ UNCHANGED <<events, call, link, active>>
      BY <1>12 DEF ApplyEvent, Fails
    <2>2. QED BY <1>1, <2>1 DEF OfCall, Live
  <1>13. QED
    BY <1>3, <1>4, <1>5, <1>6, <1>7, <1>8, <1>9, <1>10, <1>11, <1>12
    DEF Next, Listener, FreeSwitch

(***************************************************************************)
(* The rows                                                                *)
(***************************************************************************)

\* A handler that works records its event in the row of its call.
LEMMA RecordedExactly ==
    ASSUME TypeOK, NEW e, Handle(e), Works
    PROVE  /\ e \in CallEvent /\ e.call \in Calls /\ e.kind \in {"create", "answer", "hangup"}
           /\ \A c \in Calls : c # e.call => row'[c] = row[c]
           /\ e.kind = "create" => row'[e.call] = IF row[e.call] = "none" THEN "ringing" ELSE row[e.call]
           /\ e.kind = "answer" => row'[e.call] = "in_progress"
           /\ e.kind = "hangup" => row'[e.call] = IF row[e.call] = "none" THEN "none" ELSE "ended"
  <1>1. e \in CallEvent /\ e.call \in Calls /\ e.kind \in {"create", "answer", "hangup"}
    BY Kinds DEF Handle
  <1>2. row' = [row EXCEPT ![e.call] = Recorded(e)]
    <2>1. Tracks(e)
      BY DEF Handle, HandleCreate, HandleAnswer, HandleHangup
    <2>2. ~Fails
      BY DEF Works, Fails, Fault, TypeOK
    <2>3. QED BY <2>1, <2>2 DEF Tracks
  <1>3. /\ e.kind = "create" => Recorded(e) = IF row[e.call] = "none" THEN "ringing" ELSE row[e.call]
        /\ e.kind = "answer" => Recorded(e) = "in_progress"
        /\ e.kind = "hangup" => Recorded(e) = IF row[e.call] = "none" THEN "none" ELSE "ended"
    BY <1>1 DEF Recorded
  <1>4. QED BY <1>1, <1>2, <1>3 DEF TypeOK

\* A fault is not undone.
LEMMA NoFault ==
    ASSUME TypeOK, faults' = 0
    PROVE  ~Fault /\ ~Fails
  BY DEF Fault, Fails, TypeOK

\* FreeSWITCH takes a call on, and tells of it if anybody listens.
LEMMA RowOfNews ==
    ASSUME TypeOK, NEW c \in Calls, RowOf(c), link # "cut", NEW from, NEW to, NEW kind,
           CallBecomes(c, from, to, kind),
           \/ from = {"none"} /\ to = "ringing" /\ kind = "create"
           \/ from = {"ringing"} /\ to = "up" /\ kind = "answer"
           \/ from = {"ringing", "up"} /\ to = "over" /\ kind = "hangup"
    PROVE  RowOf(c)'
  <1> DEFINE e == [kind |-> kind, call |-> c]
  <1>1. /\ e \in CallEvent /\ e \in Event /\ e.call = c /\ e.kind = kind
        /\ kind \in {"create", "answer", "hangup"}
    BY Kinds DEF Event
  <1>2. /\ call'[c] = to /\ to = Becomes[kind] /\ to # "none" /\ call[c] \in from
        /\ kind = "create" => call[c] = "none"
        /\ UNCHANGED <<link, row>> /\ Emit(e)
    BY DEF CallBecomes, TypeOK, Becomes
  <1>3. CASE link = "live"
    <2>1. events' = Append(events, e)
      BY <1>2, <1>3 DEF Emit
    <2>2. /\ OfCall(c)' = OfCall(c) \cup {Len(events) + 1}
          /\ events'[Len(events) + 1] = e
          /\ \A n \in OfCall(c) : events'[n] = events[n] /\ n <= Len(events) /\ n \in Nat
          /\ Len(events) \in Nat
      BY <1>1, <2>1, OneMore, Appended, OfType
    <2>3. ASSUME NEW n \in OfCall(c)', \A m \in OfCall(c)' : m <= n
          PROVE  call'[c] = Becomes[events'[n].kind]
      <3>1. n = Len(events) + 1
        BY <2>2, <2>3
      <3>2. QED BY <1>1, <1>2, <2>2, <3>1
    <2>4. ASSUME NEW n \in OfCall(c)', events'[n].kind = "create"
          PROVE  row'[c] = "none" /\ \A m \in OfCall(c)' : n <= m
      <3>1. CASE n \in OfCall(c)
        BY <1>2, <2>2, <2>4, <3>1 DEF RowOf
      <3>2. CASE n = Len(events) + 1
        <4>1. row[c] = "none" /\ OfCall(c) = {}
          BY <1>1, <1>2, <2>2, <2>4, <3>2 DEF RowOf
        <4>2. QED BY <1>2, <2>2, <3>2, <4>1
      <3>3. QED BY <2>2, <3>1, <3>2
    <2>5. OfCall(c)' # {}
      BY <2>2
    <2>6. QED BY <1>2, <1>3, <2>3, <2>4, <2>5 DEF RowOf
  <1>4. CASE link = "none"
    <2>1. row'[c] = "none" /\ OfCall(c)' = {}
      BY <1>2, <1>4 DEF RowOf, Emit, OfCall
    <2>2. QED BY <2>1 DEF RowOf
  <1>5. QED BY <1>3, <1>4 DEF TypeOK

\* News of another call, or of a registration.
LEMMA RowOfOthers ==
    ASSUME TypeOK, NEW c \in Calls, RowOf(c), NEW e \in Event, Emit(e),
           e \in CallEvent => e.call # c,
           call'[c] = call[c], UNCHANGED <<link, row>>
    PROVE  RowOf(c)'
  <1>1. OfCall(c)' = OfCall(c) /\ \A n \in OfCall(c) : events'[n] = events[n]
    <2>1. CASE events' = events
      BY <2>1 DEF OfCall
    <2>2. CASE events' = Append(events, e)
      BY <2>2, OneMore, Appended, OfType
    <2>3. QED BY <2>1, <2>2 DEF Emit
  <1>2. QED BY <1>1 DEF RowOf

\* The next event is handled.
LEMMA RowOfTaken ==
    ASSUME TypeOK, NEW c \in Calls, RowOf(c), (Handled /\ Works) \/ ResolveEvent
    PROVE  RowOf(c)'
  <1>1. events # <<>> /\ events' = Tail(events) /\ UNCHANGED <<call, link>> /\ link # "none"
    BY DEF Handled, ResolveEvent, TypeOK, world
  <1>2. \A n \in OfCall(c)' : n \in Nat /\ n + 1 \in OfCall(c) /\ events'[n] = events[n + 1]
    BY <1>1, OneLess, Taken, OfType
  <1>3. \A n \in OfCall(c) : n \in Nat /\ n <= Len(events) /\ (n # 1 => n - 1 \in OfCall(c)')
    BY <1>1, OneLess, Taken, OfType
  <1>4. ASSUME NEW n \in OfCall(c)', \A m \in OfCall(c)' : m <= n
        PROVE  call'[c] = Becomes[events'[n].kind]
    <2>1. \A m \in OfCall(c) : m <= n + 1
      BY <1>2, <1>3, <1>4
    <2>2. QED BY <1>1, <1>2, <2>1 DEF RowOf
  <1>5. Head(events) = events[1] /\ 1 \in DOMAIN events /\ Head(events) \in Event
    BY <1>1, Taken
  <1>6. CASE Head(events) \in CallEvent /\ Head(events).call = c
    <2>1. 1 \in OfCall(c)
      BY <1>5, <1>6 DEF OfCall
    <2>2. Handled /\ Works
      BY <1>6, Kinds DEF ResolveEvent
    <2>3. Handle(events[1]) /\ Works
      BY <1>5, <2>2 DEF Handled
    <2>4. ASSUME NEW n \in OfCall(c)', events'[n].kind = "create" PROVE FALSE
      <3>1. n + 1 <= 1 /\ n \in Nat /\ n \in DOMAIN events'
        BY <1>2, <2>1, <2>4 DEF RowOf, OfCall
      <3>2. DOMAIN events' = 1 .. (Len(events) - 1)
        BY <1>1, Taken
      <3>3. QED BY <3>1, <3>2
    <2>5. ASSUME OfCall(c)' = {} PROVE row'[c] \in {"none", Told[call'[c]]}
      <3>1. OfCall(c) = {1}
        BY <1>1, <1>6, <2>5, NoneAfter
      <3>2. call[c] = Becomes[events[1].kind]
        BY <3>1 DEF RowOf
      <3>3. events[1].kind = "create" => row[c] = "none"
        BY <2>1 DEF RowOf
      <3>4. QED BY <1>1, <1>5, <1>6, <2>3, <3>2, <3>3, RecordedExactly DEF Told, Becomes
    <2>6. call[c] # "none"
      BY <2>1 DEF RowOf
    <2>7. QED BY <1>1, <1>4, <2>4, <2>5, <2>6 DEF RowOf
  <1>7. CASE ~(Head(events) \in CallEvent /\ Head(events).call = c)
    <2>1. row'[c] = row[c]
      <3>1. CASE Handled /\ Works
        BY <1>7, <3>1, RecordedExactly DEF Handled
      <3>2. CASE ResolveEvent
        BY <3>2 DEF ResolveEvent
      <3>3. QED BY <3>1, <3>2
    <2>2. OfCall(c)' = {} => OfCall(c) = {}
      BY <1>1, <1>7, NoneAfter
    <2>3. 1 \notin OfCall(c)
      BY <1>5, <1>7 DEF OfCall
    <2>4. ASSUME NEW n \in OfCall(c)', events'[n].kind = "create"
          PROVE  row'[c] = "none" /\ \A m \in OfCall(c)' : n <= m
      <3>1. row[c] = "none" /\ \A m \in OfCall(c) : n + 1 <= m
        BY <1>2, <2>4 DEF RowOf
      <3>2. QED BY <1>2, <2>1, <3>1
    <2>5. OfCall(c) = {} => OfCall(c)' = {}
      BY <1>2
    <2>6. QED BY <1>1, <1>4, <2>1, <2>2, <2>4, <2>5 DEF RowOf
  <1>8. QED BY <1>6, <1>7

LEMMA FaithfulStep == TypeOK /\ Faithful /\ [Next]_vars => Faithful'
  <1> SUFFICES ASSUME TypeOK, Faithful, [Next]_vars, faults' = 0
               PROVE  link' # "cut" /\ \A c \in Calls : RowOf(c)'
    BY DEF Faithful
  <1> USE DEF world, stream, answers
  <1>1. ~Fault /\ ~Fails
    BY NoFault
  <1>2. faults = 0
    <2>1. \/ UNCHANGED faults
          \/ Fault
      <3>1. ASSUME NEW c \in Calls, Ring(c) \/ Answer(c) \/ Hangup(c) PROVE UNCHANGED faults
        BY <3>1 DEF Ring, Answer, Hangup, CallBecomes
      <3>2. ASSUME NEW e, Handle(e) PROVE UNCHANGED faults
        BY <1>1, <3>2 DEF Handle, HandleCreate, HandleAnswer, HandleHangup, Tracks, Works
      <3>3. CASE ListRegistrations \/ ListChannels
        BY <3>3 DEF ListRegistrations, ListChannels, InStep, OutOfStep, Raises, Works
      <3>4. QED
        BY <1>1, <3>1, <3>2, <3>3
        DEF Next, Listener, FreeSwitch, Register, Unregister, ChangeIdentity, SwitchTrunk, ChangePassword, ConnectFails,
            CutLink, CutCommands, Restart, Connect, LoseLink, MarkLost, Mark, ResolveLine, Confirm, Sync,
            Handled, ResolveEvent, ApplyEvent, Works, PassedOver, vars
    <2>2. QED BY <1>1, <2>1
  <1>3. link # "cut" /\ \A c \in Calls : RowOf(c)
    BY <1>2 DEF Faithful
  <1>4. ASSUME NEW d \in Calls, Ring(d) \/ Answer(d) \/ Hangup(d)
        PROVE  link' # "cut" /\ \A c \in Calls : RowOf(c)'
    <2>1. PICK from, to, kind :
            /\ CallBecomes(d, from, to, kind)
            /\ \/ from = {"none"} /\ to = "ringing" /\ kind = "create"
               \/ from = {"ringing"} /\ to = "up" /\ kind = "answer"
               \/ from = {"ringing", "up"} /\ to = "over" /\ kind = "hangup"
      BY <1>4 DEF Ring, Answer, Hangup
    <2>2. RowOf(d)'
      BY <1>3, <2>1, RowOfNews
    <2>3. ASSUME NEW c \in Calls, c # d PROVE RowOf(c)'
      <3>1. [kind |-> kind, call |-> d] \in Event
        BY <2>1, Kinds DEF Event
      <3>2. /\ Emit([kind |-> kind, call |-> d]) /\ UNCHANGED <<link, row>> /\ call'[c] = call[c]
        BY <2>1, <2>3 DEF CallBecomes, TypeOK
      <3>3. QED BY <1>3, <2>3, <3>1, <3>2, RowOfOthers
    <2>4. link' = link
      BY <2>1 DEF CallBecomes
    <2>5. QED BY <1>3, <2>2, <2>3, <2>4
  <1>5. CASE Register \/ Unregister
    <2>1. PICK e \in RegistrationEvent : Emit(e)
      BY <1>5, Kinds, IdentityType DEF Register, Unregister, Normalized, TypeOK
    <2>2. e \in Event /\ e \notin CallEvent
      BY Kinds DEF Event
    <2>3. UNCHANGED <<call, link, row>>
      BY <1>5 DEF Register, Unregister
    <2>4. QED BY <1>3, <2>1, <2>2, <2>3, RowOfOthers
  <1>6. CASE Handled \/ ResolveEvent
    <2>1. Handled => Works
      <3>1. ASSUME NEW e, Handle(e) PROVE Works
        BY <1>1, <3>1 DEF Handle, HandleCreate, HandleAnswer, HandleHangup, Tracks
      <3>2. QED BY <3>1 DEF Handled
    <2>2. UNCHANGED link
      BY <1>6 DEF Handled, ResolveEvent
    <2>3. QED BY <1>3, <1>6, <2>1, <2>2, RowOfTaken
  <1>7. CASE Connect
    <2>1. \A c \in Calls : row[c] = "none" /\ OfCall(c) = {} /\ OfCall(c)' = {}
      BY <1>3, <1>7 DEF RowOf, Connect, OfCall, TypeOK
    <2>2. UNCHANGED <<call, row, events>> /\ link' = "live"
      BY <1>7 DEF Connect
    <2>3. QED BY <2>1, <2>2 DEF RowOf
  <1>8. ASSUME UNCHANGED <<events, call, row, link>>
        PROVE  link' # "cut" /\ \A c \in Calls : RowOf(c)'
    BY <1>3, <1>8 DEF RowOf, OfCall
  <1>9. ~LoseLink /\ ~CutLink /\ ~Restart
    BY <1>1, <1>3 DEF LoseLink, CutLink, Restart
  <1>10. QED
    BY <1>4, <1>5, <1>6, <1>7, <1>8, <1>9
    DEF Next, Listener, FreeSwitch, MarkLost, Mark, ListRegistrations, ResolveLine, Confirm,
        ListChannels, Sync, ApplyEvent, ChangeIdentity, SwitchTrunk, ChangePassword,
        ConnectFails, CutCommands, vars

(***************************************************************************)
(* Theorems                                                                *)
(***************************************************************************)

LEMMA Start == Init => IInv
  <1> SUFFICES ASSUME Init PROVE IInv
    OBVIOUS
  <1>1. TypeOK
    <2>1. events \in Seq(CallEvent \cup RegistrationEvent)
      BY DEF Init
    <2>2. ident \in Identity /\ regs \subseteq Identity /\ registers \in 0 .. Registers /\ faults \in 0 .. MaxFaults
      BY ListenerAssumption DEF Init, Identity
    <2>3. QED BY <2>1, <2>2 DEF Init, TypeOK, Statuses, Reconciling
  <1>2. (\A c : OfCall(c) = {}) /\ (\A i : OfIdent(i) = {}) /\ DOMAIN events = {}
    BY DEF Init, OfCall, OfIdent
  <1>3. Known
    BY <1>2 DEF Init, Known, EventsKnown, RestKnown, RegisteredHasEvidence, Nothing
  <1>4. Ordered
    BY <1>2 DEF Init, Ordered
  <1>5. LastTells /\ StatusInSync /\ CallsInSync
    BY DEF Init, LastTells, StatusInSync, CallsInSync
  <1>6. QED BY <1>1, <1>3, <1>4, <1>5 DEF IInv

\* The invariant: what the events to come tell, what is known of identities,
\* and what no event is to come about.
THEOREM Invariance == Spec => []IInv
  <1>1. IInv /\ [Next]_vars => IInv'
    BY TypeStep, KnownStep, OrderedStep, TellsStep, StatusStep, CallsStep DEF IInv, Settled
  <1>2. QED BY Start, <1>1, PTL DEF Spec

\* EslListener keeps its types.
THEOREM TypeCorrect == Spec => []TypeOK
  <1>1. IInv => TypeOK
    BY DEF IInv
  <1>2. QED BY <1>1, Invariance, PTL

\* RF-11: whatever was lost, late or cut, and however the trunk was changed and
\* switched, a listener that has reconciled, without a failure, without passing over
\* anything of the trunk and without a new password of it since, and has no event left, has FreeSWITCH's
\* registration and calls.
THEOREM CaughtUpCorrect == Spec => []CaughtUpIsRight
  <1>1. IInv => CaughtUpIsRight
    <2> SUFFICES ASSUME IInv, CaughtUp, clean
                 PROVE  (status = "registered" <=> ident \in regs) /\ active = Live
      BY DEF CaughtUpIsRight
    <2>1. TypeOK /\ StatusInSync /\ CallsInSync /\ pc = "read" /\ link = "live" /\ events = <<>>
      BY DEF IInv, CaughtUp
    <2>2. (\A c : OfCall(c) = {}) /\ \A i : OfIdent(i) = {}
      BY <2>1 DEF OfCall, OfIdent
    <2>3. status = "registered" <=> ident \in regs
      BY <2>1, <2>2 DEF StatusInSync
    <2>4. \A c \in Calls : c \in active <=> c \in Live
      BY <2>1, <2>2 DEF CallsInSync
    <2>5. active \subseteq Calls /\ Live \subseteq Calls
      BY <2>1 DEF TypeOK, Live
    <2>6. QED BY <2>3, <2>4, <2>5
  <1>2. QED BY <1>1, Invariance, PTL

\* A trunk is shown as registered only on the evidence of this connection, over
\* any number of breaks, changes of its identity and switches, unless something of
\* it was passed over, while it was off, since the last reconciliation.
THEOREM EvidenceCorrect == Spec => []RegisteredHasEvidence
  <1>1. IInv => RegisteredHasEvidence
    BY DEF IInv, Known, RestKnown
  <1>2. QED BY <1>1, Invariance, PTL

\* No step takes the end of a call back.
THEOREM EndStays == Spec => EndedStaysEnded
  <1>1. IInv /\ [Next]_vars => [\A c \in Calls : row[c] = "ended" => row'[c] = "ended"]_vars
    <2> SUFFICES ASSUME IInv, [Next]_vars, NEW c \in Calls, row[c] = "ended", row'[c] # "ended" PROVE FALSE
      OBVIOUS
    <2> USE DEF world, stream, answers
    <2>1. TypeOK /\ OrderedOf(c)
      BY OrderedByCall DEF IInv
    <2>2. CASE Handled
      <3>1. events # <<>> /\ Handle(Head(events)) /\ events' = Tail(events)
        BY <2>2 DEF Handled
      <3>2. Head(events) = events[1] /\ 1 \in DOMAIN events
        BY <2>1, <3>1, Taken
      <3>3. events[1] \in CallEvent /\ events[1].call = c /\ events[1].kind = "answer"
        BY <2>1, <3>1, <3>2, RecordedRow
      <3>4. 1 \in OfCall(c)
        BY <3>2, <3>3 DEF OfCall
      <3>5. QED BY <2>1, <3>3, <3>4 DEF OrderedOf
    <2>3. CASE ~Handled
      <3>1. ASSUME NEW d \in Calls, Ring(d) \/ Answer(d) \/ Hangup(d) PROVE row' = row
        BY <3>1 DEF Ring, Answer, Hangup, CallBecomes
      <3>2. row' = row
        BY <2>3, <3>1
        DEF Next, Listener, FreeSwitch, Register, Unregister, Connect, LoseLink, MarkLost, Mark,
            ListRegistrations, ResolveLine, Confirm, ListChannels, Sync, ResolveEvent, ApplyEvent,
            ChangeIdentity, SwitchTrunk, ChangePassword, ConnectFails, CutLink, CutCommands, Restart, vars
      <3>3. QED BY <3>2
    <2>4. QED BY <2>2, <2>3
  <1>2. QED BY <1>1, Invariance, PTL DEF Spec, EndedStaysEnded

\* The safety half of RowsEnd: while nothing fails, a listener that has caught up
\* has the row of every call in the call's present state, if the call has a row.
THEOREM RowsCorrect == Spec => []RowsAreRight
  <1>1. Init => Faithful
    <2>1. ASSUME Init PROVE link = "none" /\ \A c \in Calls : row[c] = "none" /\ OfCall(c) = {}
      BY <2>1 DEF Init, OfCall
    <2>2. QED BY <2>1 DEF Faithful, RowOf
  <1>2. TypeOK /\ Faithful => RowsAreRight
    <2>1. ASSUME CaughtUp, NEW c \in Calls PROVE OfCall(c) = {}
      BY <2>1 DEF CaughtUp, OfCall
    <2>2. QED BY <2>1 DEF Faithful, RowOf, RowsAreRight
  <1>3. QED BY <1>1, <1>2, TypeCorrect, FaithfulStep, PTL DEF Spec

=============================================================================

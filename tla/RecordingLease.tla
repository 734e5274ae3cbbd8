--------------------------- MODULE RecordingLease ---------------------------
(***************************************************************************)
(* The lease files of one call directory (src/audio/recording_lifecycle.py)*)
(* as the workers of the recording pipeline use them.                      *)
(*                                                                         *)
(* Every stage has a file .<stage>-processing that names its owner and the *)
(* instant it expires.  Each operation of a worker draws a fresh owner     *)
(* identifier, takes the lease of its stage, renews it from a heartbeat    *)
(* task and releases it; the SMB operation takes the conversion lease as   *)
(* well, with the owner it already has.  Every function of the module runs *)
(* under the flock of the call directory, so each is one atomic step.      *)
(*                                                                         *)
(* A lease is kept with the time it has left, not with its expiry: the     *)
(* code only ever compares expires_at with now.  An absent (or unreadable) *)
(* file is the record with no owner and no time left; an expired file      *)
(* keeps its owner.                                                        *)
(***************************************************************************)
EXTENDS Integers, FiniteSets

CONSTANTS
    Owner,              \* identifiers of operations (uuid4 in the code)
    NoOwner,            \* the owner of an absent lease file
    LeaseTTL,           \* RECORDING_LEASE_TTL_SECONDS, in ticks
    HeartbeatPeriod     \* RECORDING_LEASE_HEARTBEAT_SECONDS, in ticks

ASSUME LeaseAssumption ==
    /\ NoOwner \notin Owner
    /\ LeaseTTL \in Nat
    /\ HeartbeatPeriod \in Nat \ {0}
    /\ HeartbeatPeriod < LeaseTTL

VARIABLES
    lease,      \* the lease files, by stage
    op,         \* the stage of the operation each owner is running
    nested,     \* the SMB operations that are inside ensure_mono_pair
    lost        \* the operations whose heartbeat task has ended

vars == <<lease, op, nested, lost>>

Stage == {"capture", "conversion", "smb", "transcription"}
NoStage == "none"

Lease == [owner : Owner \cup {NoOwner}, left : 0 .. LeaseTTL]
NoLease == [owner |-> NoOwner, left |-> 0]
FreshLease(o) == [owner |-> o, left |-> LeaseTTL]

TypeOK ==
    /\ lease \in [Stage -> Lease]
    /\ \A s \in Stage : lease[s].left > 0 => lease[s].owner \in Owner
    /\ op \in [Owner -> Stage \cup {NoStage}]
    /\ nested \in SUBSET {o \in Owner : op[o] = "smb"}
    /\ lost \in SUBSET {o \in Owner : op[o] # NoStage}

-----------------------------------------------------------------------------
\* Mutant of Valid: a lease file protects whatever its expiry.
ValidForEver(s) == lease[s].owner # NoOwner

Valid(s) == lease[s].left > 0

\* Mutant of HasValidLease: the scan forgets a stage.
HasValidLeaseButCapture == \E s \in Stage \ {"capture"} : Valid(s)

\* has_valid_lease
HasValidLease == \E s \in Stage : Valid(s)

\* The scan of _acquire_lease_unlocked when it is given the owner o.
BusyFor(o) == \E s \in Stage : Valid(s) /\ lease[s].owner # o

Owns(o, s) == lease[s].owner = o

\* Mutant of Released: the owner is not compared.
ReleasedUnchecked(o, s) == [lease EXCEPT ![s] = NoLease]

\* release_lease: the file goes only if the caller still owns it.
Released(o, s) ==
    IF Owns(o, s) THEN [lease EXCEPT ![s] = NoLease] ELSE lease

Running == {o \in Owner : op[o] # NoStage}

-----------------------------------------------------------------------------
Init ==
    /\ lease = [s \in Stage |-> NoLease]
    /\ op = [o \in Owner |-> NoStage]
    /\ nested = {}
    /\ lost = {}

\* Mutant of Begin: only the lease of its own stage refuses an operation.
BeginOwnStage(o, s) ==
    /\ op[o] = NoStage
    /\ ~Valid(s)
    /\ lease' = [lease EXCEPT ![s] = FreshLease(o)]
    /\ op' = [op EXCEPT ![o] = s]
    /\ UNCHANGED <<nested, lost>>

\* An operation starts: acquire_lease without an owner, which any valid lease
\* refuses.  The refused call raises LeaseBusyError and changes nothing.
Begin(o, s) ==
    /\ op[o] = NoStage
    /\ ~HasValidLease
    /\ lease' = [lease EXCEPT ![s] = FreshLease(o)]
    /\ op' = [op EXCEPT ![o] = s]
    /\ UNCHANGED <<nested, lost>>

\* ensure_mono_pair takes the conversion lease with the owner of the SMB lease.
BeginConversion(o) ==
    /\ op[o] = "smb"
    /\ o \notin nested
    /\ ~BusyFor(o)
    /\ lease' = [lease EXCEPT !["conversion"] = FreshLease(o)]
    /\ nested' = nested \cup {o}
    /\ UNCHANGED <<op, lost>>

EndConversion(o) ==
    /\ o \in nested
    /\ lease' = Released(o, "conversion")
    /\ nested' = nested \ {o}
    /\ UNCHANGED <<op, lost>>

\* The heartbeat of an operation renews the lease of its own stage; an expired
\* lease is revived when nobody else is active.
Renew(o) ==
    /\ o \in Running \ lost
    /\ Owns(o, op[o])
    /\ ~BusyFor(o)
    /\ lease' = [lease EXCEPT ![op[o]] = FreshLease(o)]
    /\ UNCHANGED <<op, nested, lost>>

\* Mutant of RenewRefused: the heartbeat ignores a renewal that returns False.
RenewRefusedWhenBusy(o) ==
    /\ o \in Running \ lost
    /\ BusyFor(o)
    /\ lost' = lost \cup {o}
    /\ UNCHANGED <<lease, op, nested>>

\* renew_lease returns False (the file has gone or has another owner) or raises
\* LeaseBusyError (another owner is active): either way the heartbeat task ends.
RenewRefused(o) ==
    /\ o \in Running \ lost
    /\ ~Owns(o, op[o]) \/ BusyFor(o)
    /\ lost' = lost \cup {o}
    /\ UNCHANGED <<lease, op, nested>>

Heartbeat(o) == Renew(o) \/ RenewRefused(o)

\* Mutant of End: the heartbeat task is not ended with its operation.
EndWithoutHeartbeat(o) ==
    /\ o \in Running \ nested
    /\ lease' = Released(o, op[o])
    /\ op' = [op EXCEPT ![o] = NoStage]
    /\ UNCHANGED <<nested, lost>>

\* The operation ends, for whatever reason, and releases its lease.
End(o) ==
    /\ o \in Running \ nested
    /\ lease' = Released(o, op[o])
    /\ op' = [op EXCEPT ![o] = NoStage]
    /\ lost' = lost \ {o}
    /\ UNCHANGED nested

\* The worker process dies: its lease files stay.
Crash(o) ==
    /\ o \in Running
    /\ op' = [op EXCEPT ![o] = NoStage]
    /\ nested' = nested \ {o}
    /\ lost' = lost \ {o}
    /\ UNCHANGED lease

Aged(l) == IF l.left > 0 THEN [l EXCEPT !.left = @ - 1] ELSE l

Tick ==
    /\ HasValidLease
    /\ lease' = [s \in Stage |-> Aged(lease[s])]
    /\ UNCHANGED <<op, nested, lost>>

OwnerStep(o) ==
    \/ \E s \in Stage : Begin(o, s)
    \/ BeginConversion(o)
    \/ EndConversion(o)
    \/ Renew(o)
    \/ RenewRefused(o)
    \/ End(o)
    \/ Crash(o)

Next == Tick \/ \E o \in Owner : OwnerStep(o)

Spec == Init /\ [][Next]_vars

\* Time passes, and the event loop of a live worker runs its heartbeat task.
Fairness == WF_vars(Tick) /\ \A o \in Owner : WF_vars(Heartbeat(o))

FairSpec == Spec /\ Fairness

\* The heartbeat of every live operation runs on time: the lease of none is
\* older than the heartbeat period.
Prompt == \A o \in Running \ lost :
              lease[op[o]].left >= LeaseTTL - HeartbeatPeriod

-----------------------------------------------------------------------------
\* The valid leases of the directory, whatever their stages, have one owner.
\* This is the rule the scan over LEASE_STAGES in _acquire_lease_unlocked is
\* there for.
OneActiveOwner ==
    \A s, t \in Stage :
        Valid(s) /\ Valid(t) => lease[s].owner = lease[t].owner

\* release_lease is safe for the others: a lease with time left disappears
\* only in a step of the operation that owns it, never because an operation
\* that outlived its own lease finishes late.
ReleasedOnlyByOwner ==
    [][\A s \in Stage :
          lease[s].left > 1 /\ lease'[s].left = 0
              => LET o == lease[s].owner IN op'[o] # op[o] \/ (o \in nested /\ o \notin nested')]_vars

\* The files implement the abstract promise: one active owner at a time, and a
\* free directory between two owners.
Active == {o \in Owner : \E s \in Stage : Valid(s) /\ lease[s].owner = o}

Exclusion == INSTANCE LeaseExclusion WITH active <- Active

ExclusionSpec == Exclusion!Spec

OneOperation == \A o, p \in Running : o = p

\* If the heartbeats are on time, exclusion holds for the operations and not
\* only for the files: two workers are never inside the same recording.
PromptlyExclusive == []Prompt => []OneOperation

\* An operation that was displaced while its process stalled finds out, at its
\* next heartbeat, unless it ends first.
DisplacedNotices ==
    \A o \in Owner : (o \in Running /\ ~Owns(o, op[o])) ~> (o \in lost \/ o \notin Running)

\* The lease of a worker that died does not protect the directory for ever.
AbandonedLeaseExpires ==
    \A o \in Owner : (o \in Active /\ o \notin Running) ~> (o \notin Active)
=============================================================================

------------------------------ MODULE SmbBackup ------------------------------
(***************************************************************************)
(* The backup cycle of src/workers/smb_sync.py: how the stereo mix of each *)
(* call is published on the SMB share under a name that other calls may    *)
(* want too, through a temporary that is verified and renamed, with        *)
(* retries, a time limit, a circuit breaker and a log.                     *)
(*                                                                         *)
(* One worker runs the cycle, one call at a time.  Leases, conversion and  *)
(* mixing are RecordingPipeline's; here a call's mix can be made, or can   *)
(* never be (broken).  A mix is named by its call: the same WAV files give *)
(* the same mix.  A call whose row never reached the database (Rowless) is *)
(* named after the directory's mtime, which each attempt changes.          *)
(*                                                                         *)
(* A request that fails or is cut short may have had its effect on the     *)
(* share; it has none after its connection was closed.                     *)
(***************************************************************************)
EXTENDS Naturals, FiniteSets, FiniteSetsExt

CONSTANTS
    Calls,          \* the call directories, 1 .. Calls in the cycle's order
    Name,           \* the final names on the share
    Base,           \* the base name of each call
    Collision,      \* its name with the collision suffix
    Rowless,        \* the calls that have no row in the database
    Guess,          \* the pairs of names that such a call may be given
    Threshold,      \* failure_threshold of the circuit breaker
    Retries,        \* retries of a publication (RETRY_DELAYS_SECONDS)
    MaxBroken,      \* bound on the calls whose mix can never be made
    MaxFaults       \* bound on failures, timeouts, crashes and lost log entries

Call == 1 .. Calls
Nothing == 0
Part == Calls + 1

ASSUME BackupAssumption ==
    /\ Calls \in Nat \ {0}
    /\ Base \in [Call -> Name] /\ Collision \in [Call -> Name]
    /\ Rowless \subseteq Call /\ Guess \subseteq Name \X Name
    /\ Rowless # {} => Guess # {}
    /\ Threshold \in Nat \ {0} /\ Retries \in Nat
    /\ MaxBroken \in Nat /\ MaxFaults \in Nat

VARIABLES
    final,      \* what the share has under each name
    temp,       \* what it has under the name with the suffix .tmp
    log,        \* status of each call in the transfer log
    noted,      \* remote_tmp_candidates of each call in the log
    due,        \* those first seen a cleanup round ago
    seen,       \* the candidates that the outcome of the current call will log
    failures,   \* the breaker's count of consecutive failures
    open,       \* the breaker: "no", "yes", or "cooled" after reset_seconds
    todo,       \* the calls the cycle has still to look at
    pc,         \* where the cycle is
    want,       \* the base name and the collision name of the current call
    name,       \* the remote name that was resolved
    attempt,    \* retries so far
    broken,     \* the calls whose mix cannot be made
    faults      \* the faults so far

share == <<final, temp>>
logVars == <<log, noted, due>>
breaker == <<failures, open>>
work == <<todo, pc, want, name, attempt, seen>>
vars == <<share, logVars, breaker, work, broken, faults>>

Content == Call \cup {Nothing, Part}
Publishing == {"resolve", "store", "storing", "verify", "rename", "check"}
Working == {"mix", "tidy"} \cup Publishing
Labels == Working \cup {"idle", "loop", "error", "collision", "done"}

TypeOK ==
    /\ final \in [Name -> Content] /\ temp \in [Name -> Content]
    /\ log \in [Call -> {"none", "pending", "failed", "done"}]
    /\ noted \in [Call -> SUBSET Name]
    /\ due \in [Call -> SUBSET Name]
    /\ \A c \in Call : due[c] \subseteq noted[c]
    /\ failures \in 0 .. Threshold
    /\ open \in {"no", "yes", "cooled"}
    /\ open # "no" => failures = Threshold
    /\ todo \in SUBSET Call
    /\ pc \in Labels
    /\ want \in Name \X Name /\ name \in Name /\ seen \in SUBSET Name
    /\ attempt \in 0 .. Retries
    /\ broken \in SUBSET Call
    /\ faults \in 0 .. MaxFaults
    /\ pc \notin {"idle", "loop"} => todo # {}

Fault == /\ faults < MaxFaults
         /\ faults' = faults + 1

Init ==
    /\ final = [n \in Name |-> Nothing] /\ temp = [n \in Name |-> Nothing]
    /\ log = [c \in Call |-> "none"]
    /\ noted = [c \in Call |-> {}] /\ due = [c \in Call |-> {}]
    /\ failures = 0 /\ open = "no"
    /\ todo = {} /\ pc = "idle" /\ attempt = 0
    /\ want = <<Base[1], Collision[1]>> /\ name = Base[1] /\ seen = {}
    /\ broken \in {b \in SUBSET Call : Cardinality(b) <= MaxBroken}
    /\ faults = 0

-----------------------------------------------------------------------------
(* The cycle.  The call it is at is the first of todo. *)

Current == Min(todo)

\* resolve_call_metadata, build_remote_directory and build_remote_name: start,
\* numbers and identifier name the call; without a row the directory's mtime is
\* the start, and it is another one at each attempt.
NamesOf(c) == IF c \in Rowless THEN Guess ELSE {<<Base[c], Collision[c]>>}

\* reset
Reset == failures' = 0 /\ open' = "no"

\* Mutant of AllowsRequest: the breaker closes with its count as it was.
AllowsRequestUncounted ==
    /\ open # "yes"
    /\ open' = "no"
    /\ UNCHANGED failures

\* allows_request, which resets the breaker when its time is over.
AllowsRequest ==
    /\ open # "yes"
    /\ IF open = "cooled" THEN Reset ELSE UNCHANGED breaker

StartCycle ==
    /\ pc = "idle"
    /\ AllowsRequest
    /\ todo' = Call
    /\ pc' = "loop"
    /\ UNCHANGED <<share, logVars, want, name, attempt, seen, broken, faults>>

\* Mutant of TakeCall: a call that has an entry, of whatever status, is passed over.
TakeCallOnce ==
    /\ pc = "loop" /\ todo # {}
    /\ AllowsRequest
    /\ IF log[Current] # "none"
         THEN todo' = todo \ {Current} /\ UNCHANGED <<pc, want>>
         ELSE pc' = "mix" /\ want' \in NamesOf(Current) /\ UNCHANGED todo
    /\ attempt' = 0 /\ seen' = noted[Current]
    /\ UNCHANGED <<share, logVars, name, broken, faults>>

\* The loop goes on with a call that is not done, and stops when the breaker
\* has opened.
TakeCall ==
    /\ pc = "loop" /\ todo # {}
    /\ AllowsRequest
    /\ IF log[Current] = "done"
         THEN todo' = todo \ {Current} /\ UNCHANGED <<pc, want>>
         ELSE pc' = "mix" /\ want' \in NamesOf(Current) /\ UNCHANGED todo
    /\ attempt' = 0 /\ seen' = noted[Current]
    /\ UNCHANGED <<share, logVars, name, broken, faults>>

EndCycle ==
    /\ pc = "loop"
    /\ todo = {} \/ open = "yes"
    /\ todo' = {}
    /\ pc' = "idle"
    /\ UNCHANGED <<share, logVars, breaker, want, name, attempt, seen, broken, faults>>

\* The call is leased, or its input is not complete: it is left for another
\* cycle and the log does not change.
SkipCall ==
    /\ pc = "mix"
    /\ Fault
    /\ todo' = todo \ {Current}
    /\ pc' = "loop"
    /\ UNCHANGED <<share, logVars, breaker, want, name, attempt, seen, broken>>

\* ensure_mono_pair and generate_stereo
MixCall ==
    /\ pc = "mix"
    /\ Current \notin broken
    /\ pc' = "tidy"
    /\ UNCHANGED <<share, logVars, breaker, todo, want, name, attempt, seen, broken, faults>>

MixFails ==
    /\ pc = "mix"
    /\ IF Current \in broken THEN UNCHANGED faults ELSE Fault
    /\ pc' = "error"
    /\ UNCHANGED <<share, logVars, breaker, todo, want, name, attempt, seen, broken>>

Wanted == {want[1], want[2]}

\* cleanup_remote_temporaries: those first seen a round ago are deleted, the
\* others are candidates, which reach the log with the outcome of the call.
TidyCall ==
    LET mine == {n \in Wanted : temp[n] # Nothing}
        old == mine \cap due[Current]
    IN  /\ pc = "tidy"
        /\ temp' = [n \in Name |-> IF n \in old THEN Nothing ELSE temp[n]]
        /\ seen' = mine \ old
        /\ pc' = "resolve"
        /\ UNCHANGED <<final, logVars, breaker, todo, want, name, attempt, broken, faults>>

-----------------------------------------------------------------------------
(* publish *)

\* _remote_sha: what is read back under a name, or that the name is not listed.
RemoteSha(n) == final[n]

\* The names resolve_remote_name may return: free, or with this very mix.
Usable == {n \in Wanted : RemoteSha(n) \in {Nothing, Current}}

\* The base name is preferred.  A mix that is there is not sent again.
Resolve ==
    /\ pc = "resolve"
    /\ IF Usable = {}
         THEN pc' = "collision" /\ UNCHANGED name
         ELSE /\ name' = IF want[1] \in Usable THEN want[1] ELSE want[2]
              /\ pc' = IF RemoteSha(name') = Current THEN "done" ELSE "store"
    /\ UNCHANGED <<share, logVars, breaker, todo, want, attempt, seen, broken, faults>>

\* _publish_with_retry: an error of the connection or of a checksum is met with
\* another attempt, on a new connection, until the delays are used up.
AttemptFails ==
    \/ attempt < Retries /\ pc' = "resolve" /\ attempt' = attempt + 1
    \/ attempt = Retries /\ pc' = "error" /\ UNCHANGED attempt

\* A refusal of the server (OperationFailure) is not.
RefusedByServer == pc' = "error" /\ UNCHANGED attempt

\* The connection is refused, or the directories are neither made nor there, or
\* the names cannot be read: nothing of this attempt is on the share.
ConnectFails ==
    /\ pc = "resolve"
    /\ Fault
    /\ AttemptFails \/ RefusedByServer
    /\ UNCHANGED <<share, logVars, breaker, todo, want, name, seen, broken>>

\* The first chunk truncates the temporary.
StoreFirst ==
    /\ pc = "store"
    /\ temp' = [temp EXCEPT ![name] = Part]
    /\ pc' = "storing"
    /\ UNCHANGED <<final, logVars, breaker, todo, want, name, attempt, seen, broken, faults>>

\* The last chunk completes it, unless something of it was lost on the way.
StoreLast ==
    /\ pc = "storing"
    /\ \/ temp' = [temp EXCEPT ![name] = Current] /\ UNCHANGED faults
       \/ UNCHANGED temp /\ Fault
    /\ pc' = "verify"
    /\ UNCHANGED <<final, logVars, breaker, todo, want, name, attempt, seen, broken>>

\* Mutant of Verify: the temporary is not read back.
VerifyNothing ==
    /\ pc = "verify"
    /\ pc' = "rename"
    /\ UNCHANGED <<share, logVars, breaker, todo, want, name, attempt, seen, broken, faults>>

\* verify_remote_temporary_and_rename reads the temporary back first; one that
\* differs is deleted and the attempt has failed.
Verify ==
    /\ pc = "verify"
    /\ IF temp[name] = Current
         THEN pc' = "rename" /\ UNCHANGED <<temp, attempt>>
         ELSE /\ temp' = [temp EXCEPT ![name] = Nothing]
              /\ AttemptFails
    /\ UNCHANGED <<final, logVars, breaker, todo, want, name, seen, broken, faults>>

Renamed ==
    /\ final' = [final EXCEPT ![name] = temp[name]]
    /\ temp' = [temp EXCEPT ![name] = Nothing]

Rename ==
    /\ pc = "rename"
    /\ Renamed
    /\ pc' = "check"
    /\ UNCHANGED <<logVars, breaker, todo, want, name, attempt, seen, broken, faults>>

\* The final file is read back; one that differs is deleted.
Check ==
    /\ pc = "check"
    /\ IF RemoteSha(name) = Current
         THEN pc' = "done" /\ UNCHANGED <<final, attempt>>
         ELSE /\ final' = [final EXCEPT ![name] = Nothing]
              /\ AttemptFails
    /\ UNCHANGED <<temp, logVars, breaker, todo, want, name, seen, broken, faults>>

\* What the request that is under way has done to the share when it fails.
Landed ==
    \/ UNCHANGED share
    \/ pc = "store" /\ temp' = [temp EXCEPT ![name] = Part] /\ UNCHANGED final
    \/ pc = "storing" /\ temp' = [temp EXCEPT ![name] = Current] /\ UNCHANGED final
    \/ pc = "rename" /\ Renamed

\* The same, after the temporary was deleted.
LandedAndDropped ==
    /\ pc \in Publishing \ {"resolve"}
    /\ temp' = [temp EXCEPT ![name] = Nothing]
    /\ \/ UNCHANGED final
       \/ pc = "rename" /\ final' = [final EXCEPT ![name] = temp[name]]

\* A later request fails.  publish tries to delete its temporary.
PublishFails ==
    /\ pc \in Publishing \ {"resolve"}
    /\ Fault
    /\ Landed \/ LandedAndDropped
    /\ AttemptFails \/ RefusedByServer
    /\ UNCHANGED <<logVars, breaker, todo, want, name, seen, broken>>

\* The scan for temporaries fails, which is not retried: the candidates in the
\* log stay.
TidyFails ==
    /\ pc = "tidy"
    /\ Fault
    /\ \E gone \in SUBSET (Wanted \cap due[Current]) :
          temp' = [n \in Name |-> IF n \in gone THEN Nothing ELSE temp[n]]
    /\ pc' = "error"
    /\ UNCHANGED <<final, logVars, breaker, todo, want, name, attempt, seen, broken>>

-----------------------------------------------------------------------------
(* The outcome of a call *)

Outcome(status, candidates) ==
    /\ log' = [log EXCEPT ![Current] = status]
    /\ noted' = [noted EXCEPT ![Current] = candidates]
    /\ due' = [due EXCEPT ![Current] = @ \cap candidates]
    /\ todo' = todo \ {Current}
    /\ pc' = "loop"
    /\ UNCHANGED <<want, name, attempt, seen, broken>>

\* Mutant of CountFailure: the breaker opens one failure early.
CountFailureEarly ==
    /\ failures' = IF failures < Threshold THEN failures + 1 ELSE failures
    /\ open' = IF failures' + 1 >= Threshold THEN "yes" ELSE open

\* record_failure
CountFailure ==
    /\ failures' = IF failures < Threshold THEN failures + 1 ELSE failures
    /\ open' = IF failures' = Threshold THEN "yes" ELSE open

\* record_success
CallDone ==
    /\ pc = "done"
    /\ Outcome("done", seen)
    /\ Reset
    /\ UNCHANGED <<share, faults>>

CallCollides ==
    /\ pc = "collision"
    /\ Outcome("failed", seen)
    /\ UNCHANGED <<share, breaker, faults>>

CallFails ==
    /\ pc = "error"
    /\ Outcome("pending", seen)
    /\ CountFailure
    /\ UNCHANGED <<share, faults>>

\* Mutant of TimesOut: the entry is written as after a publication.
TimesOutDone ==
    /\ pc \in Working
    /\ Fault
    /\ Landed
    /\ Outcome("done", {})
    /\ CountFailure

\* TRANSFER_TIMEOUT_SECONDS are over: the operation is cancelled, nothing is
\* deleted from the share, and the entry is written without candidates.
TimesOut ==
    /\ pc \in Working
    /\ Fault
    /\ Landed
    /\ Outcome("pending", {})
    /\ CountFailure

\* An error the cycle does not handle ends it (the database, some of the SMB
\* library's), and so does the queue; what it was writing stays on the share.
\* So does a lost lease: the operation is cancelled, and process_call raises
\* NameError over record_lease_failure, which the module does not import.
CycleAborted ==
    /\ pc # "idle"
    /\ Fault
    /\ Landed \/ LandedAndDropped
    /\ todo' = {} /\ pc' = "idle"
    /\ UNCHANGED <<logVars, breaker, want, name, attempt, seen, broken>>

\* The worker process dies; the breaker was in its memory.
Crash ==
    /\ Fault
    /\ Landed
    /\ todo' = {} /\ pc' = "idle"
    /\ Reset
    /\ UNCHANGED <<logVars, want, name, attempt, seen, broken>>

\* A done entry is pruned after a week, or a corrupt log is set aside: the call,
\* if its audio is still there, is worked on again.
ForgetCalls ==
    /\ pc = "idle"
    /\ Fault
    /\ \E cs \in {{c} : c \in {d \in Call : log[d] \in {"done", "failed"}}} \cup {Call} :
          /\ log' = [c \in Call |-> IF c \in cs THEN "none" ELSE log[c]]
          /\ noted' = [c \in Call |-> IF c \in cs THEN {} ELSE noted[c]]
          /\ due' = [c \in Call |-> IF c \in cs THEN {} ELSE due[c]]
    /\ UNCHANGED <<share, breaker, work, broken>>

\* reset_seconds pass.
BreakerCools ==
    /\ open = "yes"
    /\ open' = "cooled"
    /\ UNCHANGED <<share, logVars, failures, work, broken, faults>>

\* RECORDING_CLEANUP_ROUND_SECONDS pass.
RoundElapses ==
    /\ due # noted
    /\ due' = noted
    /\ UNCHANGED <<share, log, noted, breaker, work, broken, faults>>

-----------------------------------------------------------------------------
Progress ==
    \/ StartCycle \/ TakeCall \/ EndCycle \/ MixCall \/ MixFails \/ TidyCall
    \/ Resolve \/ StoreFirst \/ StoreLast \/ Verify \/ Rename \/ Check
    \/ CallDone \/ CallCollides \/ CallFails

Next ==
    \/ Progress
    \/ SkipCall \/ ConnectFails \/ PublishFails \/ TidyFails \/ TimesOut \/ CycleAborted
    \/ Crash \/ ForgetCalls
    \/ BreakerCools \/ RoundElapses

Spec == Init /\ [][Next]_vars

\* The cron starts cycle after cycle, and time passes.
Fairness == WF_vars(Progress) /\ WF_vars(BreakerCools)

FairSpec == Spec /\ Fairness

-----------------------------------------------------------------------------
\* The share keeps the promise of a write-once store, over every retry, lost
\* answer, timeout, crash, lost log entry and clash of names: no reader ever
\* sees a part of a recording, no recording is replaced or deleted, and none of
\* a call that has its row in the database is there twice.
Store == INSTANCE WriteOnceStore WITH Item <- Call, Once <- Call \ Rowless, store <- final

WriteOnce == Store!Spec

Published(c) == \E n \in Name : final[n] = c

\* The log never says done of a call that is not on the share.
DoneIsPublished == \A c \in Call : log[c] = "done" => Published(c)

\* As long as fewer calls than the breaker's threshold can never be mixed, every
\* other call ends up on the share, or is found to have no name left.
HealthyIsBackedUp ==
    \A c \in Call : <>(c \in broken \/ log[c] \in {"done", "failed"})

\* No temporary stays on the share for ever (under each name there is again and
\* again none), unless it has a name drawn from an mtime, which no call with a row
\* will look under again.
RemoteTemporariesGo ==
    LET abandoned(n) ==
            /\ \E g \in Guess : n \in {g[1], g[2]}
            /\ \A c \in Call \ Rowless :
                  n \in {Base[c], Collision[c]} => log[c] = "done" \/ c \in broken
    IN  \A n \in Name : []<>(temp[n] = Nothing \/ abandoned(n))

\* "retentar automaticamente a cada ciclo do worker": no call that is not on the
\* share is passed over for ever.
AlwaysRetried ==
    \A c \in Call : []<>(log[c] = "done" \/ (pc = "mix" /\ Current = c))
=============================================================================

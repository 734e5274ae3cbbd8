------------------------- MODULE RecordingCapacity --------------------------
(***************************************************************************)
(* Admission of recordings to the recordings filesystem                    *)
(* (RecordingCapacityGuard, src/audio/capacity.py) and what the calls it   *)
(* admits then write: the raw files while they last, the WAV files when    *)
(* they are converted, the stereo mix while they are backed up.            *)
(*                                                                         *)
(* Bytes are counted in a unit of the caller's choice; the files of the    *)
(* two channels are one.  Nothing but recordings is on the filesystem.     *)
(***************************************************************************)
EXTENDS Integers, FiniteSets

CONSTANTS
    Call,           \* the calls
    Total,          \* size of the filesystem
    PerCall,        \* bytes_per_call: what a call of max_call_seconds writes
    Longest,        \* what the longest call writes: nothing ends a call
    Headroom,       \* headroom_bytes
    MinFree,        \* min_free_percent; at 0 the guard refuses nobody
    ResumeFree      \* resume_free_percent

ASSUME CapacityAssumption ==
    /\ {Total, PerCall, Longest} \subseteq Nat \ {0}
    /\ Headroom \in Nat
    /\ MinFree \in 0 .. 99
    /\ ResumeFree \in MinFree + 1 .. 100
    /\ PerCall <= Longest
    /\ IsFiniteSet(Call)

VARIABLES
    stage,      \* where each call is: "none", "live", "raw", "wav", "mixing"
    raw,        \* bytes of its raw files
    wav,        \* bytes of its WAV files, the temporary ones included
    mix,        \* bytes of its stereo mix
    degraded    \* the guard refused the last call it was asked for

vars == <<stage, raw, wav, mix, degraded>>

Bytes == 0 .. Longest

TypeOK ==
    /\ stage \in [Call -> {"none", "live", "raw", "wav", "mixing"}]
    /\ raw \in [Call -> Bytes] /\ wav \in [Call -> Bytes] /\ mix \in [Call -> Bytes]
    /\ degraded \in BOOLEAN
    /\ \A c \in Call :
          /\ stage[c] \in {"none", "live"} => wav[c] = 0
          /\ stage[c] = "none" => raw[c] = 0
          /\ stage[c] # "mixing" => mix[c] = 0

\* The sum of a size over the calls, as the number of the calls' units.
Units(size) == UNION {{c} \X (1 .. size[c]) : c \in Call}
Sum(size) == Cardinality(Units(size))

Positive(n) == IF n > 0 THEN n ELSE 0

Used == Sum([c \in Call |-> raw[c] + wav[c] + mix[c]])

\* remaining_reserved_bytes: what is reserved and not yet written.
Remaining ==
    Sum([c \in Call |-> IF stage[c] = "live" THEN Positive(PerCall - raw[c]) ELSE 0])

\* pending_processing_bytes: the published raw files that wait for their WAV.
Pending == Sum([c \in Call |-> IF stage[c] = "raw" THEN raw[c] - wav[c] ELSE 0])

\* Mutant of Projected: what is reserved and not yet written is left out.
ProjectedUnreserved == Used + Pending + PerCall + Headroom

Projected == Used + Remaining + Pending + PerCall + Headroom

\* Mutant of Refused: the degraded mode is never left.
RefusedForEver == degraded \/ 100 * (Total - Projected) < Total * MinFree

Threshold == IF degraded THEN ResumeFree ELSE MinFree

\* free_percent < threshold, without the division; free_percent is never
\* below 0.
Refused == Threshold > 0 /\ 100 * (Total - Projected) < Total * Threshold

Init ==
    /\ stage = [c \in Call |-> "none"]
    /\ raw = [c \in Call |-> 0] /\ wav = [c \in Call |-> 0] /\ mix = [c \in Call |-> 0]
    /\ degraded = FALSE

-----------------------------------------------------------------------------
\* reserve: either way the answer decides the mode of the next.
Admit(c) ==
    /\ stage[c] = "none"
    /\ ~Refused
    /\ stage' = [stage EXCEPT ![c] = "live"]
    /\ degraded' = FALSE
    /\ UNCHANGED <<raw, wav, mix>>

Refuse(c) ==
    /\ stage[c] = "none"
    /\ Refused
    /\ degraded' = TRUE
    /\ UNCHANGED <<stage, raw, wav, mix>>

Write(c) ==
    /\ stage[c] = "live"
    /\ raw[c] < Longest /\ Used < Total
    /\ raw' = [raw EXCEPT ![c] = @ + 1]
    /\ UNCHANGED <<stage, wav, mix, degraded>>

\* The recording ends: its raw files are published and release gives the
\* reservation back.
End(c) ==
    /\ stage[c] = "live"
    /\ stage' = [stage EXCEPT ![c] = IF raw[c] = 0 THEN "none" ELSE "raw"]
    /\ UNCHANGED <<raw, wav, mix, degraded>>

\* ffmpeg writes the WAV file, which is as long as the raw one, beside it.
Convert(c) ==
    /\ stage[c] = "raw"
    /\ Used < Total
    /\ wav' = [wav EXCEPT ![c] = @ + 1]
    /\ stage' = [stage EXCEPT ![c] = IF wav'[c] = raw[c] THEN "wav" ELSE "raw"]
    /\ UNCHANGED <<raw, mix, degraded>>

\* The backup mixes the pair into a stereo file of the same length.
Mix(c) ==
    /\ stage[c] \in {"wav", "mixing"}
    /\ mix[c] < raw[c] /\ Used < Total
    /\ mix' = [mix EXCEPT ![c] = @ + 1]
    /\ stage' = [stage EXCEPT ![c] = "mixing"]
    /\ UNCHANGED <<raw, wav, degraded>>

\* ffmpeg finds the filesystem full: what it was writing is dropped.
NoSpace(c) ==
    /\ Used = Total
    /\ \/ stage[c] = "raw" /\ wav[c] > 0
       \/ stage[c] = "mixing" /\ mix[c] < raw[c]
    /\ wav' = IF stage[c] = "raw" THEN [wav EXCEPT ![c] = 0] ELSE wav
    /\ mix' = [mix EXCEPT ![c] = 0]
    /\ stage' = IF stage[c] = "mixing" THEN [stage EXCEPT ![c] = "wav"] ELSE stage
    /\ UNCHANGED <<raw, degraded>>

\* Mutant of Reclaim: the cleanup leaves the WAV files.
ReclaimRaw(c) ==
    /\ stage[c] = "mixing" /\ mix[c] = raw[c]
    /\ raw' = [raw EXCEPT ![c] = 0]
    /\ mix' = [mix EXCEPT ![c] = 0]
    /\ stage' = [stage EXCEPT ![c] = "none"]
    /\ UNCHANGED <<wav, degraded>>

\* The cleanup takes the files of the call: the mix is complete, and published,
\* or nobody works on the call and it is past retention.
Reclaim(c) ==
    /\ \/ stage[c] = "mixing" /\ mix[c] = raw[c]
       \/ stage[c] = "raw" /\ wav[c] = 0
       \/ stage[c] = "wav"
    /\ raw' = [raw EXCEPT ![c] = 0]
    /\ wav' = [wav EXCEPT ![c] = 0]
    /\ mix' = [mix EXCEPT ![c] = 0]
    /\ stage' = [stage EXCEPT ![c] = "none"]
    /\ UNCHANGED degraded

Process(c) == Convert(c) \/ Mix(c) \/ NoSpace(c)

Next == \E c \in Call :
            Admit(c) \/ Refuse(c) \/ Write(c) \/ End(c) \/ Process(c) \/ Reclaim(c)

Spec == Init /\ [][Next]_vars

\* Calls end and are processed, the PBX goes on asking for recordings, and the
\* cleanup, round after round, finds a call past retention between two attempts
\* to process it.
Fairness ==
    /\ WF_vars(\E c \in Call : Admit(c))
    /\ \A c \in Call : WF_vars(End(c)) /\ WF_vars(Process(c)) /\ SF_vars(Reclaim(c))

FairSpec == Spec /\ Fairness

-----------------------------------------------------------------------------
\* What the guard provisions for: the space that is used, reserved or awaited.
Committed == Used + Remaining + Pending

\* Admission never overcommits: whatever the interleaving of calls that grow,
\* end and are processed, the commitment exceeds the configured margin by no
\* more than what is not provisioned: the bytes by which a call that lasts
\* longer than max_call_seconds or its raw and WAV files together outgrow the
\* call's reservation, and the mix.
Overrun ==
    Sum([c \in Call |-> mix[c] + CASE stage[c] = "none" -> 0
                                    [] stage[c] = "live" -> Positive(raw[c] - PerCall)
                                    [] OTHER -> Positive(2 * raw[c] - PerCall)])

OvercommitBounded ==
    MinFree > 0 /\ (\E c \in Call : stage[c] # "none") =>
        100 * (Total - (Committed + Headroom - Overrun)) >= Total * MinFree

\* A refusal is not for ever: as calls end and are processed, space for the
\* resume margin comes back and a call is admitted.
RefusalEnds == degraded ~> ~degraded

\* The guard "evita o overfill": the filesystem is never full.
NeverFull == Used < Total
=============================================================================

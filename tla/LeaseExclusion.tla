--------------------------- MODULE LeaseExclusion ---------------------------
(***************************************************************************)
(* What the lease files of a call directory promise to the workers that    *)
(* share it: at any time at most one owner is active on the recording, and *)
(* the recording is never handed from one owner to another without being   *)
(* free in between.  RecordingLease implements this specification.         *)
(***************************************************************************)
CONSTANT Owner

VARIABLE active     \* the owners that are active on the recording

Init == active = {}

Take(o) == /\ active = {}
           /\ active' = {o}

Drop(o) == /\ active = {o}
           /\ active' = {}

Next == \E o \in Owner : Take(o) \/ Drop(o)

Spec == Init /\ [][Next]_active
=============================================================================

-------------------------- MODULE MCRecordingLease --------------------------
(* Instances of RecordingLease for TLC. *)
EXTENDS RecordingLease
=============================================================================

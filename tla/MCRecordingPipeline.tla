------------------------ MODULE MCRecordingPipeline -------------------------
(* Instances of RecordingPipeline for TLC. *)
EXTENDS RecordingPipeline

SmbOnly == {"smb"}
SmbAndTranscription == {"smb", "transcription"}
=============================================================================

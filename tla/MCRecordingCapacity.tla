------------------------ MODULE MCRecordingCapacity -------------------------
EXTENDS RecordingCapacity, TLC

CallSymmetry == Permutations(Call)
=============================================================================

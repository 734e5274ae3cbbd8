-------------------------- MODULE MCAudioIngestor ---------------------------
EXTENDS AudioIngestor, TLC

SocketSymmetry == Permutations(Socket)
=============================================================================

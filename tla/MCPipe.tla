------------------------------- MODULE MCPipe -------------------------------
EXTENDS Pipe, TLC

\* Readers, writers and bytes are interchangeable.
SafetySymmetry ==
  Permutations(Reader) \cup Permutations(Writer) \cup Permutations(Byte)
=============================================================================

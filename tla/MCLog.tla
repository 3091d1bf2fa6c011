------------------------------- MODULE MCLog -------------------------------
EXTENDS Log, TLC

\* Processes, blocks and contents are interchangeable.
SafetySymmetry ==
  Permutations(Proc) \cup Permutations(Block) \cup Permutations(Data)
=============================================================================

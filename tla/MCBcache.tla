------------------------------ MODULE MCBcache ------------------------------
(* Small instances of Bcache for TLC. *)
EXTENDS Bcache, TLC

\* Users are interchangeable, and so are buffers, blocks and contents.
SafetySymmetry ==
  Permutations(User) \cup Permutations(Buf) \cup Permutations(Block) \cup Permutations(Data)
=============================================================================

\* Two brackets over three buffers and four blocks, so that buffers are recycled;
\* at most one pinned block: User - 1 + MaxPinned < NBUF.
CONSTANTS
  User = {u1, u2}
  Buf = {b1, b2, b3}
  Block = {k1, k2, k3, k4}
  Data = {d1, d2}
  NoBlock = NoBlock
  NoUser = NoUser
  NoBuf = NoBuf
  MaxPinned = 1
SYMMETRY SafetySymmetry
SPECIFICATION Spec
INVARIANTS TypeOK UniqueBuffer LockExclusion ReadsLatest NoStrandedSleeper BufferAvailable
PROPERTY NeverRecycledInUse

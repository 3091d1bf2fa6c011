------------------------------- MODULE Bcache -------------------------------
(***************************************************************************)
(* The buffer cache of xv6 (kernel/bio.c) with the sleep-locks that guard  *)
(* its buffers (kernel/sleeplock.c).                                       *)
(*                                                                         *)
(* A user is one bread .. brelse bracket of a kernel process; a process    *)
(* that holds two buffers at once counts as two users.  Every critical     *)
(* section under bcache.lock or under a sleep-lock's inner spin-lock is    *)
(* one step.  What users do with a locked buffer is what log.c does:       *)
(* change it and pin it (log_write), or write it to disk and unpin it      *)
(* (install_trans), or write it without a pin (write_log, write_head).     *)
(***************************************************************************)
EXTENDS Naturals, FiniteSets

CONSTANTS User,      \* bread .. brelse brackets that can be in progress
          Buf,       \* the NBUF buffers
          Block,     \* the (dev, blockno) pairs that are ever read
          Data,      \* possible contents of a block
          NoBlock,   \* the zeroed (dev, blockno) of a buffer never used
          NoUser,    \* an unlocked sleep-lock (locked = 0)
          NoBuf,     \* no buffer
          MaxPinned  \* blocks the log may pin at a time (log.c admits LOGSIZE)

ASSUME BcacheAssumption ==
  /\ IsFiniteSet(User)
  /\ IsFiniteSet(Buf)
  /\ NoBlock \notin Block
  /\ NoUser \notin User
  /\ NoBuf \notin Buf
  /\ MaxPinned \in Nat

VARIABLES block,   \* block[b]: the (dev, blockno) buffer b stands for
          valid,   \* valid[b]: its data has been read from disk
          refcnt,  \* refcnt[b]
          data,    \* data[b]
          rank,    \* rank[b]: position in the LRU list, 1 = head.next
          holder,  \* holder[b]: the user that has b's sleep-lock
          pinned,  \* buffers that the log has pinned (bpin without bunpin)
          disk,    \* disk[k]: contents of block k on the disk
          pc,      \* pc[u]: where user u is
          bp,      \* bp[u]: its buffer
          latest   \* history: the contents most recently given to block k

vars == <<block, valid, refcnt, data, rank, holder, pinned, disk, pc, bp, latest>>

NBUF == Cardinality(Buf)

\* The user has the sleep-lock of its buffer.
Locked == {"read", "use", "dirty", "written", "done"}
\* The user counts in the refcnt of its buffer.
Using == Locked \cup {"acquire", "sleep", "unref"}

-----------------------------------------------------------------------------
\* binit: the static array is zeroed, the list order is that of the array.
Init ==
  /\ block = [b \in Buf |-> NoBlock]
  /\ valid = [b \in Buf |-> FALSE]
  /\ refcnt = [b \in Buf |-> 0]
  /\ \E zeroed \in Data : data = [b \in Buf |-> zeroed]
  /\ rank \in {f \in [Buf -> 1..NBUF] : \A a, b \in Buf : f[a] = f[b] => a = b}
  /\ holder = [b \in Buf |-> NoUser]
  /\ pinned = {}
  /\ disk \in [Block -> Data]
  /\ pc = [u \in User |-> "idle"]
  /\ bp = [u \in User |-> NoBuf]
  /\ latest = disk

\* Slip: only buffers already read from disk are looked at.
CachedSlip(k) == \E b \in Buf : block[b] = k /\ valid[b]

\* bget's first loop finds a buffer for the block.
Cached(k) == \E b \in Buf : block[b] = k

\* bget, first loop: the block has a buffer.
BgetHit(u, k) ==
  /\ pc[u] = "idle"
  /\ \E b \in Buf :
       /\ block[b] = k
       /\ refcnt' = [refcnt EXCEPT ![b] = @ + 1]
       /\ bp' = [bp EXCEPT ![u] = b]
  /\ pc' = [pc EXCEPT ![u] = "acquire"]
  /\ UNCHANGED <<block, valid, data, rank, holder, pinned, disk, latest>>

\* Slip: the tail of the list, used or not.
LeastRecentSlip(b) == \A a \in Buf : rank[a] <= rank[b]

\* The unused buffer nearest the tail of the list.
LeastRecent(b) ==
  /\ refcnt[b] = 0
  /\ \A a \in Buf : refcnt[a] = 0 => rank[a] <= rank[b]

\* bget, second loop: recycle the least recently used unused buffer.
BgetMiss(u, k) ==
  /\ pc[u] = "idle"
  /\ ~Cached(k)
  /\ \E b \in Buf :
       /\ LeastRecent(b)
       /\ block' = [block EXCEPT ![b] = k]
       /\ valid' = [valid EXCEPT ![b] = FALSE]
       /\ refcnt' = [refcnt EXCEPT ![b] = 1]
       /\ bp' = [bp EXCEPT ![u] = b]
  /\ pc' = [pc EXCEPT ![u] = "acquire"]
  /\ UNCHANGED <<data, rank, holder, pinned, disk, latest>>

\* Slip: lk->locked is not tested.
LockFreeSlip(b) == TRUE

\* The loop condition of acquiresleep, lk->locked, is false.
LockFree(b) == holder[b] = NoUser

\* acquiresleep: the lock is free.
AcquireSleep(u) ==
  /\ pc[u] = "acquire"
  /\ LockFree(bp[u])
  /\ holder' = [holder EXCEPT ![bp[u]] = u]
  /\ pc' = [pc EXCEPT ![u] = IF valid[bp[u]] THEN "use" ELSE "read"]
  /\ UNCHANGED <<block, valid, refcnt, data, rank, pinned, disk, bp, latest>>

\* acquiresleep: the lock is taken, sleep(lk) until releasesleep wakes us.
SleepOnLock(u) ==
  /\ pc[u] = "acquire"
  /\ ~LockFree(bp[u])
  /\ pc' = [pc EXCEPT ![u] = "sleep"]
  /\ UNCHANGED <<block, valid, refcnt, data, rank, holder, pinned, disk, bp, latest>>

\* bread: fill a buffer that is not valid.
ReadDisk(u) ==
  /\ pc[u] = "read"
  /\ data' = [data EXCEPT ![bp[u]] = disk[block[bp[u]]]]
  /\ valid' = [valid EXCEPT ![bp[u]] = TRUE]
  /\ pc' = [pc EXCEPT ![u] = "use"]
  /\ UNCHANGED <<block, refcnt, rank, holder, pinned, disk, bp, latest>>

\* The lock holder changes the contents of its buffer.
Modify(u, d) ==
  /\ pc[u] = "use"
  /\ data' = [data EXCEPT ![bp[u]] = d]
  /\ latest' = [latest EXCEPT ![block[bp[u]]] = d]
  /\ pc' = [pc EXCEPT ![u] = "dirty"]
  /\ UNCHANGED <<block, valid, refcnt, rank, holder, pinned, disk, bp>>

\* Slip: the changed buffer is not pinned.
LogWriteSlip(u) ==
  /\ pc[u] = "dirty"
  /\ pc' = [pc EXCEPT ![u] = "done"]
  /\ UNCHANGED <<block, valid, refcnt, data, rank, holder, pinned, disk, bp, latest>>

\* log_write: bpin the first time the block enters the log, absorb otherwise.
LogWrite(u) ==
  /\ pc[u] = "dirty"
  /\ \/ /\ bp[u] \notin pinned
        /\ Cardinality(pinned) < MaxPinned
        /\ pinned' = pinned \cup {bp[u]}
        /\ refcnt' = [refcnt EXCEPT ![bp[u]] = @ + 1]
     \/ /\ bp[u] \in pinned
        /\ UNCHANGED <<pinned, refcnt>>
  /\ pc' = [pc EXCEPT ![u] = "done"]
  /\ UNCHANGED <<block, valid, data, rank, holder, disk, bp, latest>>

\* bwrite, of a changed buffer or (install_trans) of a pinned one.
Bwrite(u) ==
  /\ pc[u] = "dirty" \/ (pc[u] = "use" /\ bp[u] \in pinned)
  /\ disk' = [disk EXCEPT ![block[bp[u]]] = data[bp[u]]]
  /\ pc' = [pc EXCEPT ![u] = IF pc[u] = "dirty" THEN "done" ELSE "written"]
  /\ UNCHANGED <<block, valid, refcnt, data, rank, holder, pinned, bp, latest>>

\* Slip: the reference is not given back.
DroppedSlip(b) == refcnt

\* refcnt with one reference to b given back.
Dropped(b) == [refcnt EXCEPT ![b] = @ - 1]

\* bunpin, by install_trans while it has the buffer locked.
Bunpin(u) ==
  /\ pc[u] = "written"
  /\ pinned' = pinned \ {bp[u]}
  /\ refcnt' = Dropped(bp[u])
  /\ pc' = [pc EXCEPT ![u] = "done"]
  /\ UNCHANGED <<block, valid, data, rank, holder, disk, bp, latest>>

\* Slip: releasesleep without its wakeup.
WakeSleepersSlip(b, u, s) == [pc EXCEPT ![u] = s]

\* wakeup(lk) on the sleep-lock of b, together with the state change to s of u.
WakeSleepers(b, u, s) ==
  [v \in User |-> IF v = u THEN s
                  ELSE IF pc[v] = "sleep" /\ bp[v] = b THEN "acquire" ELSE pc[v]]

\* brelse, first part: releasesleep.
ReleaseSleep(u) ==
  /\ pc[u] \in {"use", "done"}
  /\ holder' = [holder EXCEPT ![bp[u]] = NoUser]
  /\ pc' = WakeSleepers(bp[u], u, "unref")
  /\ UNCHANGED <<block, valid, refcnt, data, rank, pinned, disk, bp, latest>>

\* Slip: the buffers passed over keep their positions.
MoveToFrontSlip(b) == [rank EXCEPT ![b] = 1]

\* Unlink b and insert it at the head of the list.
MoveToFront(b) ==
  [a \in Buf |-> IF a = b THEN 1 ELSE IF rank[a] < rank[b] THEN rank[a] + 1 ELSE rank[a]]

\* brelse, second part: under bcache.lock again.
Unref(u) ==
  /\ pc[u] = "unref"
  /\ refcnt' = Dropped(bp[u])
  /\ rank' = IF refcnt[bp[u]] = 1 THEN MoveToFront(bp[u]) ELSE rank
  /\ pc' = [pc EXCEPT ![u] = "idle"]
  /\ bp' = [bp EXCEPT ![u] = NoBuf]
  /\ UNCHANGED <<block, valid, data, holder, pinned, disk, latest>>

\* The steps that carry a bracket already begun towards its end.
Step(u) ==
  \/ AcquireSleep(u) \/ SleepOnLock(u) \/ ReadDisk(u)
  \/ LogWrite(u) \/ Bwrite(u) \/ Bunpin(u)
  \/ ReleaseSleep(u) \/ Unref(u)

Next ==
  \E u \in User :
    \/ \E k \in Block : BgetHit(u, k) \/ BgetMiss(u, k)
    \/ \E d \in Data : Modify(u, d)
    \/ Step(u)

Spec == Init /\ [][Next]_vars
-----------------------------------------------------------------------------
\* Every variable stays in its range; the LRU ranks stay a permutation.
TypeOK ==
  /\ block \in [Buf -> Block \cup {NoBlock}]
  /\ valid \in [Buf -> BOOLEAN]
  /\ refcnt \in [Buf -> Nat]
  /\ data \in [Buf -> Data]
  /\ rank \in [Buf -> 1..NBUF]
  /\ \A a, b \in Buf : rank[a] = rank[b] => a = b
  /\ holder \in [Buf -> User \cup {NoUser}]
  /\ pinned \in SUBSET Buf
  /\ disk \in [Block -> Data]
  /\ pc \in [User -> Using \cup {"idle"}]
  /\ bp \in [User -> Buf \cup {NoBuf}]
  /\ latest \in [Block -> Data]

\* bio.c promises "a synchronization point for disk blocks used by multiple
\* processes": no block ever has two buffers, whatever bgets race.
UniqueBuffer ==
  \A a, b \in Buf : block[a] = block[b] /\ block[a] # NoBlock => a = b

\* "Only one process at a time can use a buffer": users with the same locked
\* buffer are one user, and the sleep-lock names it.
LockExclusion ==
  \A u \in User : pc[u] \in Locked => holder[bp[u]] = u

\* A user that has a buffer locked and read sees the last contents anyone gave
\* to that block, through any number of evictions, re-reads and installs.
ReadsLatest ==
  \A u \in User :
    pc[u] \in Locked \ {"read"} => data[bp[u]] = latest[block[bp[u]]]

\* A buffer that some user still counts on, locked or about to lock, is not
\* given to another block (bget recycles only at refcnt 0).
NeverRecycledInUse ==
  [][\A u \in User : pc[u] \in Using => block'[bp[u]] = block[bp[u]]]_vars

\* releasesleep leaves no process asleep on a lock that is free.
NoStrandedSleeper ==
  \A u \in User : pc[u] = "sleep" => holder[bp[u]] # NoUser

\* bget "In either case, return locked buffer": when a block is not cached there
\* is an unused buffer, so the panic "bget: no buffers" cannot be reached, as long
\* as the other users and the log's pins together are fewer than the buffers.
BufferAvailable ==
  (\E u \in User : pc[u] = "idle") /\ (\E k \in Block : ~Cached(k))
     => \E b \in Buf : refcnt[b] = 0
-----------------------------------------------------------------------------
(* The inductive invariant behind the properties above. *)

UsersOf(b) == {u \in User : pc[u] \in Using /\ bp[u] = b}

\* Who has which buffer, and who sleeps on it.
LockInv ==
  /\ \A u \in User : bp[u] \in Buf <=> pc[u] \in Using
  /\ LockExclusion
  /\ \A b \in Buf : holder[b] # NoUser => pc[holder[b]] \in Locked /\ bp[holder[b]] = b
  /\ NoStrandedSleeper

\* refcnt counts the users of a buffer and the log's pin, nothing else.
RefInv ==
  \A b \in Buf :
    refcnt[b] = Cardinality(UsersOf(b)) + (IF b \in pinned THEN 1 ELSE 0)

\* Which block a buffer stands for.
MapInv ==
  /\ UniqueBuffer
  /\ \A u \in User : pc[u] \in Using => block[bp[u]] \in Block
  /\ \A u \in User : pc[u] \in Locked => (valid[bp[u]] <=> pc[u] # "read")
  /\ \A u \in User : pc[u] = "written" => bp[u] \in pinned
  /\ \A b \in pinned : valid[b]
  /\ \A b \in Buf : valid[b] => block[b] \in Block

\* Buffers agree with the history, and what only the cache knows is protected.
DataInv ==
  /\ \A b \in Buf : valid[b] => data[b] = latest[block[b]]
  /\ \A u \in User : pc[u] = "written" => disk[block[bp[u]]] = latest[block[bp[u]]]
  /\ \A b \in Buf : valid[b] /\ disk[block[b]] # latest[block[b]]
        => b \in pinned \/ \E u \in User : pc[u] = "dirty" /\ bp[u] = b
  /\ \A k \in Block : (\A b \in Buf : block[b] = k => ~valid[b]) => disk[k] = latest[k]

IInv == TypeOK /\ LockInv /\ RefInv /\ MapInv /\ DataInv

\* log_write pins no more than the log admits.
PinInv == Cardinality(pinned) <= MaxPinned
=============================================================================

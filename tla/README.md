# Verification of the xv6 kernel and the thread labs of this repository

The repository holds the labs of an operating-systems course.  Its core is an
xv6-riscv kernel (`src/xv6-riscv/kernel`) extended with threads
(`thread_create`, `thread_join`, `thread_exit`, a `growproc` that keeps the
threads' page tables alike); beside it are small user-level programs on threads,
condition variables, user-level context switching, shells and an ext2 reader.
This project models the parts of the kernel that several processes, processors
or crashes act on at once, runs the kernel's own test programs on the modelled
system calls, models the thread labs, checks all of it with TLC on small
instances, and proves the most important facts with TLAPS for every size.

## Inventory

| Component | State | Operations | What makes it hard | What makes it correct |
|---|---|---|---|---|
| Buffer cache, sleep-locks (`bio.c`, `sleeplock.c`) | NBUF buffers: block, valid, refcnt, data, LRU position, lock | bget, bread, bwrite, brelse, bpin, bunpin | two locks taken one after the other, recycling, pins | one buffer per block, one user at a time, readers see the last contents |
| Log (`log.c`) | header in memory and on disk, log blocks, outstanding, committing | begin_op, end_op, log_write, commit, recovery | power failure between any two disk writes; sleeping for space | operations are atomic across crashes; nobody sleeps for ever |
| Processes and threads (`proc.c`) | process table, wait_lock, p->lock | allocproc, fork, exit, wait, kill, sleep, wakeup, scheduler, thread_* | lost wakeups, slots reused while their process still runs, lock order | no exit or join is missed, a slot is freed only off its stack |
| Address spaces (`kalloc.c`, `vm.c`, `exec.c`, `growproc`) | free list, page tables, sizes, thread stacks | fork, exec, sbrk, exit and wait, thread calls | pages shared by threads, failing allocations, calls of one group that overlap | no page lost, freed twice or seen by another process |
| Pipes (`pipe.c`, `file.c`) | ring, counters, open ends | pipewrite, piperead, pipeclose, fileclose | blocked writers and readers, kills, closes, wrapping counters | a bounded queue; sleepers have a reason; page freed once |
| Open files (`file.c`) | file table, reference counts, offsets | filealloc, filedup, fileclose, fileread, filewrite, filestat | last close against other users | counts say how many descriptors there are |
| Inodes and directories (`fs.c`, `sysfile.c`, `mkfs.c`) | inodes and directories on disk, bitmap, inode table | iget, iput, ilock, itrunc, bmap, readi, writei, dirlink, namex, create, link, unlink, open, chdir | references against on-disk link counts, lock order, changes of several blocks, full disk | the disk is consistent whenever power may fail; an inode goes with its last use; no deadlock |
| Traps, system calls (`trap.c`, `syscall.c`) | none of their own | usertrap, devintr, syscall | killed tested before and after a call | part of `ProcLife` and `UserTests` |
| User programs (`usertests.c`, `grind.c`, `sh.c`, `init.c`, ...) | script, memory, status | the calls they make | several processes, orphans, kills, full tables | every test passes under every schedule and gives everything back |
| Condition-variable and mutex labs (`condvar_*`, `activities`, `exam2`, `sample_exams`, `threads_basics`) | shared variables, mutex, condition variables | one thread function each | lost and spurious wake-ups, unlocked counters | who may be inside together, the result, termination |
| User-level threads (`ust`) | contexts, stacks, active flags | create, schedule, yield, finish | reuse of slots and stacks | the tests' counts, no stack left |
| Devices (`virtio_disk.c`, `uart.c`, `console.c`), spin-locks, ext2 reader, shell lab | | | | not modelled, see below |

How they interact: a file-system call is a `begin_op .. end_op` bracket; inside,
it reads and changes buffers and gives them to `log_write`, which pins them; the
last `end_op` commits.  All of them block with `sleep` and `wakeup` of `proc.c`.
`Log` takes from `Bcache` that `bread` returns the last contents of a block
(theorem `BreadReturnsLatest`), `FileSystem` takes from `Log` that an operation is
durable as a whole (theorem `LogIsCrashAtomic`) and from `Pipe` that a pipe is a
bounded queue, and every module takes from `ProcLife` that `sleep` releases its
lock and sleeps without losing a wakeup.  `UserTests` puts programs on top of
`FileSystem`.

## Modules

* **Bcache** (`bio.c`, `sleeplock.c`): one user is one `bread .. brelse` bracket.
  A critical section under `bcache.lock` or under a sleep-lock's inner lock is one
  step.  Users do what `log.c` and `fs.c` do with a buffer: change it and
  `log_write` it, write it, install it and unpin it.  `latest` is a history
  variable.  `MaxPinned` stands for the log's bound.
* **Log** (`log.c`): each critical section and each write of a disk block is a
  step, `Crash` may come between any two, also during recovery.  `phase` tells how
  far recovery or commit has come, `log.committing` is derived from it.
  **AtomicDisk** is what it promises: a disk whose operations become durable
  together, between operations, and which a crash takes back to the last durable
  state.  The refinement mapping maps `durable` to what recovery would produce now.
* **ProcLife** (`proc.c`): process table and locks.  A step is at most one critical
  section; the scans of `wakeup`, `reparent` and `wait` go slot by slot, so every
  interleaving of two processors is there.  `pc` names the place in the kernel;
  `it`, `i`, `j`, `tid`, `havekids` are the locals.  What a call does to memory is
  `UserMem`'s; where that panics, `ProcLife`'s call stays for ever with its locks
  (`Panicking`), as `panic`'s loop does.
* **UserMem** (`kalloc.c`, `vm.c`, `growproc`, `exec`, `thread_*`): the free list,
  the user half of every page table, guard pages, private stacks, sizes in units of
  which `PGSIZE` make a page.  `growproc` and `thread_create` take no common lock,
  so they are split where another member of the group can see the difference.  A
  page table and trapframe count as one page.
* **Pipe** (`pipe.c`, `file.c`): one turn of a loop under `pi->lock` is a step, since
  `kill` takes another lock.  `nread` and `nwrite` are taken modulo `Modulus`.
  **BoundedQueue** is what a pipe promises.
* **FileSystem** (`fs.c`, `file.c`, `sysfile.c`, `mkfs.c`): the kernel state `k` is
  the disk (`ino`, `used`, `blk`), the inode table (`ref`, `valid`, `lock`, `mem`),
  the file table, the pipes and who is killed.  The helpers of `fs.c` are operators
  that take a state and return the one they leave; each stretch of a call under an
  inode lock is an action, and what a call holds between two of them is in its
  frame `f[p]` (`pc`, `path`, `ip`, `dp`, the references it is about to `iput`).
  `Balloc`, `Bmap` and `Writei` have direct and indirect blocks, holes, short
  writes and a disk that fills up.  `Admitted` is `begin_op`'s bound.
* **FileCalls**: any calls of several processes, `fork`, `exit`, and power failures
  that leave the disk and nothing else.  `MCFileSystem` picks the calls.
* **UserTests**: a program is a script of calls with the results it accepts; one
  behaviour runs one test, started by `init` as `usertests` does.  Scripts follow
  `usertests.c`, `grind.c`, `stressfs.c`, `sh.c` and small commands line by line,
  with the sizes scaled to the small disk.  `Forks`, `Dies`, `Waits`, `Kills`,
  `Sbrks` and `Touches` are the process side of the kernel at the level of whole
  calls (`ProcLife` and `UserMem` have the detail).
* **Pthreads** (external): mutex and condition variable as the labs use them.  A
  step is a critical section; `Sleep`, `Signal`, `Broadcast` and `Spurious` change
  who waits on which variable.  **CondvarLabs**, **ExamLabs** and **ThreadLabs**
  hold one action per thread function, **Labs** puts them side by side: a behaviour
  runs one program.
* **MC...** modules hold symmetry sets, views and values for TLC;
  **BcacheProofs**, **LogProofs**, **PipeProofs**, **ProcLifeProofs**,
  **UserMemProofs**, **FileSystemProofs** and **LastUseProofs** hold the theorems.
  **FileSystemSteps** is the first half of FileSystemProofs: counting, and the steps
  of the calls on names.

Definitions whose names end in `Slip` are deliberate errors (a dropped guard, a
forgotten wakeup, a wrong bound); putting one in place of the definition it is
named after makes the property listed with it in `PROJECT.json` fail, which shows
that the property depends on that line of code.

### Abstractions

Contents of blocks and bytes are members of small sets; formats and messages are
left out.  In `FileSystem` a path is a sequence of names, a unit of a block stands
for bytes, a directory entry or a block address, and a name longer than DIRSIZ is
cut as `skipelem` does.  An address outside a process's memory is the flag `bad` of
a call.  The delays of user programs (`sleep`) are steps without effect.  Memory ordering is that of the locks.  `allocproc` may
take any unused slot, as its scan is not atomic.  Init only forks and waits
(`user/init.c`), and is not killed.  In `Bcache` a disk transfer is one step.  In
`UserMem` a call that fails for lack of memory or slots changes nothing and is no
step, except the error path of `thread_create`, which does.

## Runs

| Run | Instance | Shows |
|---|---|---|
| bcache | 2 users, 3 buffers, 4 blocks, 1 pin | all properties of `Bcache`; buffers are recycled, and a block's contents survive eviction |
| log | 2 processes, 3 blocks, LOGSIZE 4, MAXOPBLOCKS 2 | refinement of `AtomicDisk`, durability, pins, no panic, a waker for every sleeper |
| log_liveness | 2 processes, 2 blocks, LOGSIZE 6, MAXOPBLOCKS 3 | sleepers are woken, recovery ends |
| processes | 4 slots, 2 processors, 4 pids | fork, exit, wait, kill |
| threads | the same, thread calls | join, `wait_lock` is released |
| thread_ends_by_exit | threads may call `exit` | **violation**: the joiner is never woken |
| pipe | 2 readers, 2 writers, ring of 2, counters modulo 4, kills | refinement of `BoundedQueue`, sleepers, page freed once |
| memory | 4 slots, 17 pages, sizes across page boundaries | pages neither lost nor shared nor freed twice |
| memory_orphan | leader may exit before its thread | **violation**: pages freed under a running thread |
| fs | 2 processes, 3 calls each, 3 inodes, 4 blocks of 4 units, power failures | reference counts, consistent disk, last use, no panic, no circle of locks |
| usertests | 7 processes at most, 11 inodes, 14 blocks, 18 pages; 80 programs | every test passes in every interleaving, and everything is given back |
| labs | 21 lab programs and the tests of the user-level threads, 6 threads at most, spurious wake-ups | exclusion, results, termination |

Bounds.  Two users of a lock show every race between two; the third buffer and the
fourth block make recycling happen with a pin in place.  In the log
runs the second operation is sometimes admitted and sometimes put to sleep, and
transactions have one and two blocks; a third block shows that admission keeps
the log from filling up.  Four slots with four pids let a parent,
a child and a grandchild live together, and a slot be used twice.  A ring of two
with counters modulo four wraps both.  Seventeen pages are not enough for four
processes, so every allocation fails somewhere.  `BufferAvailable` holds as long
as the other users and the pins are fewer than the buffers (`BgetFindsBuffer`
proves it); `param.h` makes NBUF equal to LOGSIZE, so a completely full log would
break that, see the hazards.
In the fs run a file of five units needs its indirect block, four blocks are not
enough for everything, one process fills the only descriptor and three inodes fill
the inode table, so allocation fails at every place; two operations are open at
once.  The usertests disk holds what a test needs and no more for the tests that
fill it (`fsfull`, `diskfull`, `outofinodes`), the table of processes is full in
`forkforkfork` and `forktest`, and memory runs out in `mem`, `execout` and
`sbrkfail`.  A loop of hundreds of turns has one to three: the second turn starts
from what the first left behind, and the turns after it find the same.  A lab's
threads are those of its `main`, or one or two of each kind where `main` starts more
of the same.

Deadlock is checked in bcache, log, log_liveness, processes, threads and usertests.  A pipe with all
descriptors closed has nothing left to do, and in the memory runs a call that
cannot succeed is no step, so those do not check it; in fs processes stop after
their calls (`NoStuck` is the deadlock property), and programs of the labs end.

### Fairness

`Log`: weak fairness of recovery, of the committing process and of an operation's
`end_op`: boot and commit run straight through, and a system call makes finitely
many `log_write`s.  None of a process's `begin_op`, and none of crashes; `ComesUp`
speaks of behaviours in which power stops failing.  `ProcLife`: weak fairness of a
process that is in the kernel and on a processor; with a spin-lock held, interrupts
are off and it keeps its processor.  No fairness of the scheduler, and none of
acquiring a lock somebody else keeps taking, is needed for `WaitLockReleased`.
`Labs`: weak fairness of every thread's next critical section: the host's scheduler
and its mutexes starve nobody.  A thread in `pthread_cond_wait` has no enabled step
until it is woken, and spurious wake-ups are not fair, so no property is saved by
them.

### What the violations show

* `thread_ends_by_exit`: `exit` wakes `p->parent`, the joiner sleeps on the thread.
* `memory_orphan`: nothing keeps the owner of an address space until its threads
  are gone.

Further observations, made with other values of the constants and not kept as
runs: with `NLog = LOGSIZE`, the log `mkfs` makes, operations that use their whole
reservation reach the panic of `log_write`, since `begin_op` counts LOGSIZE blocks
and the disk has one less; a `pipewrite` that is killed after it has put bytes in
leaves without `wakeup`, so a reader may sleep beside them (`NoStrandedReader`
allows that case); with `Careful = FALSE`, `link` can write a name into a directory
that another process has just removed, and the file keeps a link too many; players
of a second band may start before the first band has stopped (`band.c:86`);
`threadSort`'s threads may take the same chunk; the unlocked `waiting` counters of
`problem2.c` may leave a thread asleep.

### Careful programs

`UserMem` has a constant `Risks`.  The memory run has none of them: programs do not
overlap calls that change one address space, leaders join their threads before
they exit or exec, nobody waits for a thread, threads end by `thread_exit` and do
not fork or exec, memory is not given back while there are threads, and not below
the heap.  Each of these is needed, and adding one makes TLC find the failure:
`overlap` the panic "mappages: remap" or a new thread without the new page,
`orphan` the run above, `wait` and `fork` a panic in `uvmunmap` or `uvmcopy`,
`exit` the panic "freewalk: leaf" at the join, `shrink` a page that two processes
can write.  They are listed under the hazards with their lines.  What remains
even for careful programs is the panic of `thread_create` when memory runs out,
which `PanicOnlyOom` leaves room for.

`FileCalls` has a constant `Careful`: a directory is removed only while no other
process is in the kernel or has it as its current directory, and nobody names files
from a removed directory.  The tests of `UserTests` are under no such assumption;
`iputtest`, `exitiputtest`, `openiputtest`, `iref` and `grind` remove directories
that are in use.

## Proofs

For every value of the constants that satisfies the named assumptions
(`BcacheAssumption`, `LogAssumption`, `PipeAssumption`, `ProcAssumption`,
`UserMemAssumption`, `FileSystemAssumption`, `MkfsAssumption`), and the hypotheses a
theorem states:

* **BcacheProofs**: `TypeCorrect`, `OneBufferPerBlock`, `OneUserPerLockedBuffer`,
  `BreadReturnsLatest`, `NobodySleepsOnFreeLock`, `UsedBufferKept`.  The inductive
  invariant `IInv` of `Bcache` says besides the properties that `refcnt` counts
  exactly the users and the pin (`RefInv`; without it a used buffer could be
  recycled), that the lock's holder is the one locked user (`LockInv`), and that
  contents which only the cache has are pinned or in the hands of the user about to
  log them (`DataInv`; without it an eviction could lose them).
  `BgetFindsBuffer` needs `Cardinality(User) + MaxPinned <= NBUF`: if no buffer were
  free, each would have a user of its own or a pin (`PinInv` bounds the pins), and
  with one user idle those are fewer than the buffers.
* **LogProofs**: `TypeCorrect`, `QuietStateIsDurable`, `PinsBalanced`,
  `NoLostWakeup`, and `LogIsCrashAtomic`, the refinement of `AtomicDisk`.  `IInv`
  of `Log` relates the two headers phase by phase (`HeaderInv`), counts the
  operations (`CountInv`), and says where the contents are that a crash must not
  lose (`ContentsInv`): blocks not in the log are the same in cache and home, log
  blocks already copied equal the cache, blocks already installed are home.
  `LogNeverFull` needs `Roomy`: an operation writes fewer blocks than MAXOPBLOCKS
  (`filewrite` cuts its writes so, and the other calls write a handful), two
  operations fit into LOGSIZE, and the log on disk is not shorter than LOGSIZE.
  `SpaceInv` adds what is in the log to what the open operations may still write.
* **PipeProofs**: `NoStrandedWriter`, `ReaderWoken`, `FreedOnceUnused`.  `IInv` of
  `Pipe` says who is inside (`PcInv`), who closes (`CloseInv`), and allows a sleeper
  to be wrong about the pipe only while somebody inside is going to wake it
  (`SleepInv`, `ReadInv`).  `PipeImplementsQueue` is the refinement of
  `BoundedQueue`: the bytes from `nread` to `nwrite` are the queue (`RingInv` bounds
  their number).  It rests on lemmas about remainders: since the ring's size divides
  the range of the counters, as 512 divides 2^32, adding one and wrapping around
  moves an index to the next place of the ring, and places less than a ring apart
  are different.
* **ProcLifeProofs**: `ReapedOffCpu` and `TypeCorrect` hold whatever programs do.
  `IInv` of `ProcLife` says which labels of a call mean that `wait_lock` or the
  process's own lock is held (`WaitLockInv`, `CpuInv`), and that a slot somebody is
  filling is nobody else's (`FrameInv`).  `WaitHearsExit` and `NoOrphans` are about
  programs without `thread_create`, the ones of the processes run: `ReparentInv`
  says what `reparent` has done when it has reached a slot, `WaitInv` that a child
  which `wait` has passed is no zombie, and that a child which became one after its
  parent let go of `wait_lock` has the wakeup before it.  `JoinHearsThreadExit` is
  about programs without `exit` and `kill`, the ones of the threads run; with `exit`
  it is false, as the run thread_ends_by_exit shows.
* **UserMemProofs**: `NoDanglingReference`, `NoPageLost`, `SpacesSeparate`,
  `ThreadsShareMemory`, `PanicsOnlyOutOfMemory`, for careful programs (`Risks = {}`,
  see above; the run memory_orphan shows that the hypothesis is needed).  `IInv` of
  `UserMem` says that every page is free or owned exactly once, by the slot whose
  kernel page, private stack or user page it is, threads owning no user pages
  (`OwnInv`); that a leader has a page at every address below its size and nowhere
  else (`SizeInv`); that a thread's page table is its leader's but for the guard page
  and the pages `growproc` has still to map in it (`ShareInv`); that every leader has
  a guard page (`GuardInv`); which slots a call under way has taken (`SlotInv`); and
  that no two calls change one address space at a time (`CallInv`, from the guards
  of careful programs).  No property above is inductive without these: a page is not
  leaked by `proc_freepagetable` only because `sz` tells which pages there are, and
  `uvmunmap` does not panic for the same reason.
* **FileSystemProofs** (with **FileSystemSteps**): `SaneUntilPanic`,
  `ReferenceCountsExact` and `InodeTableFresh`, for any calls of any finite number of
  processes, removed directories, `fork`, `exit` and power failures included
  (`Careful` may be either).  They hold until a panic, since a panic stops the
  kernel in the middle of a step.  `CountsRight` is inductive only together with
  what says where the references are: which labels of a call go with a reference in
  `ip` or `dp`, and that at most two are left to put (`FrameInv`, `PlacedOK`); that
  entries of the file table without references are free (`FileOK`); that a lock has
  the one holder whose frame says so (`LockInv`); and that entries in use agree with
  the disk even while locked, but for an inode between the two halves of its last
  `iput` (`CacheOK`, `Freed`).  The argument is an account: lemma `UsesMove` says
  that the uses of an inode change by what one process's frame, its directory and
  the open files do, since nobody else's do, and `Accounts` says that a step which
  moves as many references between frame, current directory and open files as it
  adds to the counts keeps `CountsRight`.  Each action then has a lemma that does its
  own small sum.  The folds of `Writei` and `Itrunc` do not matter for it, as both
  leave every count alone, whatever they compute.  That the image `mkfs` makes has an
  inode for every number, with a link if it is in use (mkfs's `ialloc` writes
  `nlink` 1), is `MkfsAssumption` (the construction is a fold); TLC evaluates it in
  the runs fs and usertests.
* **LastUseProofs**, on top of these: `KeptUntilPanic`, and from it
  `UnlinkedFileKept` (`FreedWithLastUse`, until a panic).  `Kept` says who answers for
  an inode: one that is locked or open has a valid entry which no put is freeing
  (`LocksLoaded`, `FilesLoaded`); one on disk without links was left by a power
  failure, has a valid entry in use, so that its last put will free it, or is in the
  hands of the `create` that has just taken it (`OrphansKept`), which happens only
  inside an operation (`OperationsOpen`).  It is inductive only with `Sane`: `valid` is
  cleared by `iget` of an entry without references and by the end of a freeing put,
  and a put frees only when `ref` is 1, whereas an open file or a lock and the put
  itself would be two uses by `CountsRight`; a put that takes `ref` to 0 without
  freeing has seen `nlink` # 0 in a valid entry, which is what the disk has by
  `CacheOK`.
  `PutNeverWaitsForLock` is the comment in `iput` ("this acquiresleep() won't
  block"): a lock is held with a reference, so nobody else has locked an inode whose
  only reference is about to be put.
  `FilecloseNeverPanics` has no "until a panic": the panic of `fileclose` is
  unreachable, because the count of a file is at least the descriptors that refer to
  it, and no other operation raises that panic (`Calm`).

Only model-checked:

* all liveness properties (the prover has no fairness): `WaitLockReleased`, the
  sleepers of the log, `ComesUp`, `AllFinish`;
* of `FileSystem` and `FileCalls`: `CrashSafe`, `NoStuck`, and `NoPanic` but for
  `fileclose`'s.  They are about the contents of directories and blocks: links are
  counted over directories, and inode numbers, also the ones a put is applied to, are
  read from them.  `Writei`, `Itrunc` and the searches of directories fold over the
  blocks of a file, so what they compute for every size is an induction over data,
  which is out of the prover's reach; `NoPanic` besides needs calls that fit into the
  tables;
* `UserTests` and `Labs`: their programs are finite and TLC's runs are exhaustive
  for them.

## Not modelled

* `virtio_disk.c`, `console.c`, `uart.c`, `plic.c`: the other side is hardware that
  is not in the repository.  `spinlock.c`, the assembly files and the start-up code
  are below the level of a critical section.
* The kernel page table, `copyin` and `copyout` beyond success and failure;
  argument decoding; the timer's ticks.
* The shell's parser, `umalloc.c`, `printf.c`, `grep.c`: sequential string and list
  code.  `src/ext2`, `src/simpleshell`, `src/process_lab`, `src/exam1`,
  `src/stack_smashing`, `src/debug`: short sequential programs or templates; the
  ext2 reader only reads an image.
* `shower.c`, whose threads run until `main` quits and change `wash` outside the
  mutex; `factoring.c`, whose threads share nothing; `sieve.c`,
  `task_dispatch.c` and the `prodcons` activity, which are templates; of
  `simulator.c` all but the number of instructions.

## Plan

1. Done: Bcache, Log, ProcLife, Pipe, UserMem, FileSystem with FileCalls and
   UserTests, the labs; proofs of Bcache, Log, Pipe, ProcLife, UserMem, and of the
   reference counts, the inode table and the last use of inodes of FileSystem.
2. The virtio descriptor ring and the UART's ring against their interrupts, with
   the device as an external part.

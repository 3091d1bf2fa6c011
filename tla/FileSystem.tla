---------------------------- MODULE FileSystem ----------------------------
(***************************************************************************)
(* Open files, inodes, directories and the block bitmap of xv6 (file.c,    *)
(* fs.c, sysfile.c), one step per stretch of code under an inode lock.     *)
(* The helpers of fs.c are operators on the kernel state s: they take a    *)
(* state and return the one they leave, with their result.  The buffer     *)
(* cache and the log below are those of Bcache and Log: a block read is    *)
(* the block last written, and an operation (begin_op .. end_op) is        *)
(* durable as a whole.  Pipes are the bounded queues Pipe is shown to be.  *)
(***************************************************************************)
EXTENDS Integers, Sequences, FiniteSets, SequencesExt, FiniteSetsExt

CONSTANTS Proc,      \* processes
          NINODES,   \* inodes on disk, 1 .. NINODES
          NBLOCKS,   \* data blocks, 1 .. NBLOCKS
          BSIZE,     \* units of a block: bytes of a file, entries of a directory
          NDIRECT,   \* direct blocks of an inode
          NINODE,    \* entries of the inode table
          NFILE,     \* entries of the file table
          NOFILE,    \* descriptors of a process
          NDEV,      \* device numbers with a driver are below
          PIPESIZE,  \* units a pipe holds
          WRITEMAX,  \* units written in one transaction
          MAXOPS,    \* operations the log admits at once
          Files      \* what mkfs puts into the root directory

ASSUME FileSystemAssumption ==
  /\ \A c \in {NINODES, NBLOCKS, BSIZE, NDIRECT, NINODE, NFILE, NOFILE,
               PIPESIZE, WRITEMAX, MAXOPS} : c \in Nat \ {0}
  /\ IsFiniteSet(Proc) /\ Proc # {} /\ 0 \notin Proc

VARIABLES k,      \* kernel: disk, inode table, file table, pipes
          ofile,  \* descriptors of a process, 0 or a file
          cwd,    \* current directory
          f       \* kernel frame of a process

vars == <<k, ofile, cwd, f>>

Inum == 1 .. NINODES
Block == 1 .. NBLOCKS
ROOTINO == 1
NINDIRECT == BSIZE
MAXFILE == NDIRECT + NINDIRECT
None == [type |-> "none", major |-> 0, nlink |-> 0, size |-> 0,
         addrs |-> [n \in 0 .. NDIRECT |-> 0]]
\* A unit of a block: a byte <<v, "">>, an entry <<inum, name>>, an address <<b, "">>.
Zero == <<0, "">>
Zeroed == [n \in 0 .. BSIZE - 1 |-> Zero]
NoFile == [ref |-> 0, type |-> "none", ip |-> 0, off |-> 0, readable |-> FALSE,
           writable |-> FALSE]
NoPipe == [data |-> <<>>, readopen |-> FALSE, writeopen |-> FALSE]
Panic(s, msg) == [s EXCEPT !.panic = IF @ = "" THEN msg ELSE @]

(***************************************************************************)
(* Blocks and inodes.                                                      *)
(***************************************************************************)
\* balloc and bmap change the bitmap, blocks and the addresses of an inode:
\* d is [used, blk, addrs].
Balloc(d) ==
  LET Taken(b) == [d |-> [d EXCEPT !.used = @ \cup {b}, !.blk[b] = Zeroed], addr |-> b]
  IN IF Block \ d.used = {} THEN [d |-> d, addr |-> 0] ELSE Taken(Min(Block \ d.used))

Iupdate(s, i) == [s EXCEPT !.ino[i] = s.mem[i]]

\* An update of the in-memory inode that its owner writes through.
Updated(s, i, ip) == Iupdate([s EXCEPT !.mem[i] = ip], i)

TableFull(s) == Cardinality({j \in Inum : s.ref[j] > 0}) = NINODE

Iget(s, i) ==
  IF s.ref[i] > 0 THEN [s EXCEPT !.ref[i] = @ + 1]
  ELSE IF TableFull(s) THEN Panic(s, "iget: no inodes")
  ELSE [s EXCEPT !.ref[i] = 1, !.valid[i] = FALSE]

IdupSlip(s, i) == s
Idup(s, i) == [s EXCEPT !.ref[i] = @ + 1]

\* The caller has checked that the lock is free.
Ilock(s, i) ==
  LET Checked(t) == IF t.mem[i].type = "none" THEN Panic(t, "ilock: no type") ELSE t
  IN IF s.ref[i] < 1 THEN Panic(s, "ilock")
     ELSE IF s.valid[i] THEN s
     ELSE Checked([s EXCEPT !.mem[i] = s.ino[i], !.valid[i] = TRUE])

Ialloc(s, type) ==
  LET free == {i \in Inum : s.ino[i].type = "none"} IN
  IF free = {} THEN [s |-> s, ip |-> 0]
  ELSE [s |-> Iget([s EXCEPT !.ino[Min(free)] = [None EXCEPT !.type = type]], Min(free)),
        ip |-> Min(free)]

\* The block for block number bn of the file, allocated if missing, and so is the
\* indirect block.
Bmap(d, bn) ==
  LET Inode(n) ==
        LET Set(b) == [b EXCEPT !.d.addrs[n] = b.addr]
        IN IF d.addrs[n] # 0 THEN [d |-> d, addr |-> d.addrs[n]] ELSE Set(Balloc(d))
      Indirect(ind, n) ==
        LET Set(b) == [b EXCEPT !.d.blk[ind.addr][n] = <<b.addr, "">>]
        IN IF ind.addr = 0 THEN ind
           ELSE IF ind.d.blk[ind.addr][n][1] # 0 THEN [ind EXCEPT !.addr = ind.d.blk[@][n][1]]
           ELSE Set(Balloc(ind.d))
  IN IF bn < NDIRECT THEN Inode(bn) ELSE Indirect(Inode(NDIRECT), bn - NDIRECT)

\* The address bmap finds without allocating; 0 if there is none.
Addr(s, ip, bn) ==
  IF bn < NDIRECT THEN ip.addrs[bn]
  ELSE IF ip.addrs[NDIRECT] = 0 THEN 0
  ELSE s.blk[ip.addrs[NDIRECT]][bn - NDIRECT][1]

\* The blocks of an inode, the indirect block too, as a sequence.
BlocksOf(s, ip) ==
  SelectSeq([n \in 1 .. NDIRECT + 1 |-> ip.addrs[n - 1]]
            \o [n \in 1 .. NINDIRECT |-> Addr(s, ip, NDIRECT + n - 1)],
            LAMBDA b : b # 0)

TruncatedSlip(s, i) == {b \in Block : \E n \in 0 .. NDIRECT : s.mem[i].addrs[n] = b}
Truncated(s, i) == ToSet(BlocksOf(s, s.mem[i]))

Itrunc(s, i) ==
  LET Cleared(t, freed) ==
        Updated([t EXCEPT !.used = @ \ freed], i, [t.mem[i] EXCEPT !.addrs = None.addrs, !.size = 0])
      Free(freed) ==
        Cleared(IF freed \subseteq s.used THEN s ELSE Panic(s, "freeing free block"), freed)
  IN Free(Truncated(s, i))

\* Units off .. off + n - 1 of a file, cut at its end.  Below the size every
\* block is there, so the bmap of readi allocates nothing (part of CrashSafe).
Readi(s, ip, off, n) ==
  IF off > ip.size \/ n < 0 THEN <<>>
  ELSE [j \in 1 .. Min({n, ip.size - off}) |->
          s.blk[Addr(s, ip, (off + j - 1) \div BSIZE)][(off + j - 1) % BSIZE]]

WrittenSize(ip, end) == [ip EXCEPT !.size = Max({@, end})]

\* Writes n times unit v; bad: the source is not in user memory, which copyin
\* finds out after bmap.
Writei(s, i, off, n, v, bad) ==
  LET Put(a, m) ==
        IF m.addr = 0 \/ bad THEN [d |-> m.d, r |-> a.r, short |-> TRUE]
        ELSE [d |-> [m.d EXCEPT !.blk[m.addr][(off + a.r) % BSIZE] = v],
              r |-> a.r + 1, short |-> FALSE]
      Unit(a, j) == IF a.short THEN a ELSE Put(a, Bmap(a.d, (off + a.r) \div BSIZE))
      start == [used |-> s.used, blk |-> s.blk, addrs |-> s.mem[i].addrs]
      Done(e) == [s |-> Updated([s EXCEPT !.used = e.d.used, !.blk = e.d.blk], i,
                                WrittenSize([s.mem[i] EXCEPT !.addrs = e.d.addrs], off + e.r)),
                  r |-> e.r]
  IN IF off > s.mem[i].size \/ off + n > MAXFILE * BSIZE THEN [s |-> s, r |-> -1]
     ELSE Done(FoldLeft(Unit, [d |-> start, r |-> 0, short |-> FALSE], [j \in 1 .. n |-> j]))

(***************************************************************************)
(* Directories.                                                            *)
(***************************************************************************)
Entries(s, ip) == Readi(s, ip, 0, ip.size)
Dirsiz(name) == IF name = "123456789012345" THEN "12345678901234" ELSE name

\* Position of the entry with this name, 0 if there is none.
Dirlookup(s, ip, name) ==
  LET First(found) == IF found = {} THEN 0 ELSE Min(found)
      In(e) == First({j \in DOMAIN e : e[j][1] # 0 /\ e[j][2] = name})
  IN In(Entries(s, ip))

DirPlaceSlip(e) == Len(e)
DirPlace(e) ==
  LET free == {j \in DOMAIN e : e[j][1] = 0}
  IN IF free = {} THEN Len(e) ELSE Min(free) - 1

Dirlink(s, i, name, inum) ==
  LET w == Writei(s, i, DirPlace(Entries(s, s.mem[i])), 1, <<inum, name>>, FALSE)
  IN IF Dirlookup(s, s.mem[i], name) # 0 THEN [s |-> s, ok |-> FALSE]
     ELSE [s |-> w.s, ok |-> w.r = 1]

Isdirempty(s, ip) == \A j \in 3 .. ip.size : Entries(s, ip)[j][1] = 0

(***************************************************************************)
(* Frames.  pc: where the call is; path: what namex has left; ip, dp:      *)
(* references the call holds; puts: references it is about to iput, in     *)
(* order; tx: inside begin_op .. end_op; ret: the result.                  *)
(***************************************************************************)
Idle == [pc |-> "idle", call |-> [sys |-> ""], path |-> <<>>, to |-> "", ip |-> 0,
         dp |-> 0, puts |-> <<>>, tx |-> FALSE, freeing |-> FALSE, n |-> 0,
         ret |-> [n |-> 0, data |-> <<>>]]

Step(p, s, g) == k' = s /\ f' = [f EXCEPT ![p] = g] /\ UNCHANGED <<ofile, cwd>>
\* A panic stops every processor.
Up == k.panic = ""
At(p, pc) == Up /\ f[p].pc = pc /\ f[p].puts = <<>>
Unlocked(i) == k.lock[i] = 0
Admitted == Cardinality({q \in Proc : f[q].tx}) < MAXOPS
Ret(g, n) == [g EXCEPT !.pc = "ret", !.ip = 0, !.dp = 0, !.ret = [n |-> n, data |-> <<>>]]
Puts(g, is) == [g EXCEPT !.puts = @ \o is]

\* namex starts at the root or at the current directory; skipelem drops the slash.
Absolute(path) == path # <<>> /\ Head(path) = "/"
Walking(p, s, g, path, to) ==
  LET i == IF Absolute(path) THEN ROOTINO ELSE cwd[p]
  IN Step(p, IF Absolute(path) THEN Iget(s, i) ELSE Idup(s, i),
          [g EXCEPT !.pc = "walk", !.to = to, !.ip = i,
                    !.path = IF Absolute(path) THEN Tail(path) ELSE path])

Parent(to) == to \in {"create", "link", "unlink"}

\* One turn of the loop of namex: ilock, look the next element up, iunlock; the
\* iput of the directory follows.
Namex(p) ==
  /\ At(p, "walk")
  /\ LET g == f[p]
         s == Ilock(k, g.ip)
         name == Dirsiz(Head(g.path))
         at == Dirlookup(s, s.mem[g.ip], name)
         fails == [g EXCEPT !.pc = g.to, !.ip = 0, !.puts = <<g.ip>>]
     IN IF g.path = <<>>
        THEN Step(p, k, IF Parent(g.to) THEN fails ELSE [g EXCEPT !.pc = g.to])
        ELSE /\ Unlocked(g.ip)
             /\ IF s.mem[g.ip].type # "dir" THEN Step(p, s, fails)
                ELSE IF Parent(g.to) /\ Len(g.path) = 1
                THEN Step(p, s, [g EXCEPT !.pc = g.to])
                ELSE IF at = 0 THEN Step(p, s, fails)
                ELSE LET next == Entries(s, s.mem[g.ip])[at][1]
                     IN Step(p, Iget(s, next),
                             [g EXCEPT !.ip = next, !.path = Tail(@), !.puts = <<g.ip>>])

(***************************************************************************)
(* iput.  The last reference to an inode without links frees it: first its *)
(* blocks and the inode on disk, under its lock, then the table entry.     *)
(***************************************************************************)
LastUseSlip(s, i) == s.valid[i] /\ s.mem[i].nlink = 0
LastUse(s, i) == s.ref[i] = 1 /\ s.valid[i] /\ s.mem[i].nlink = 0

IputFree(p) ==
  /\ Up /\ f[p].puts # <<>> /\ ~f[p].freeing
  /\ LET i == Head(f[p].puts)
         t == Itrunc(k, i)
     IN /\ LastUse(k, i)
        /\ IF Unlocked(i)
           THEN Step(p, Updated([t EXCEPT !.lock[i] = p], i, [t.mem[i] EXCEPT !.type = "none"]),
                     [f[p] EXCEPT !.freeing = TRUE])
           ELSE Step(p, Panic(k, "sched locks"), f[p])

IputFreedSlip(s, i) == [s EXCEPT !.lock[i] = 0]
IputFreed(s, i) == [s EXCEPT !.valid[i] = FALSE, !.lock[i] = 0]

IputDone(p) ==
  /\ Up /\ f[p].puts # <<>>
  /\ LET i == Head(f[p].puts)
         s == IF f[p].freeing THEN IputFreed(k, i) ELSE k
     IN /\ f[p].freeing \/ ~LastUse(k, i)
        /\ Step(p, [s EXCEPT !.ref[i] = @ - 1],
                [f[p] EXCEPT !.puts = Tail(@), !.freeing = FALSE,
                             !.tx = @ /\ f[p].pc # "exit"])

(***************************************************************************)
(* open, mkdir, mknod.                                                     *)
(***************************************************************************)
FreeFile(s) == {x \in 1 .. NFILE : s.file[x].ref = 0}
FreeFd(p) == {d \in 0 .. NOFILE - 1 : ofile[p][d] = 0}

\* sys_open without O_CREATE, after namei; exec, which only reads the file.
OpenExisting(p) ==
  /\ At(p, "open")
  /\ LET g == f[p]
         s == Ilock(k, g.ip)
         mode == g.call.mode
     IN IF g.ip = 0 THEN Step(p, k, Ret(g, -1))
        ELSE /\ Unlocked(g.ip)
             /\ IF s.mem[g.ip].type = "dir" /\ mode # {}
                THEN Step(p, s, Puts(Ret(g, -1), <<g.ip>>))
                ELSE Step(p, [s EXCEPT !.lock[g.ip] = p], [g EXCEPT !.pc = "opened"])

\* sys_open once it has the inode locked.
Opened(p) ==
  /\ At(p, "opened")
  /\ LET g == f[p]
         s == [k EXCEPT !.lock[g.ip] = 0]
         ip == k.mem[g.ip]
         mode == g.call.mode
         x == Min(FreeFile(s))
         fd == Min(FreeFd(p))
         t == [s EXCEPT !.file[x] =
                 [NoFile EXCEPT !.ref = 1, !.type = IF ip.type = "dev" THEN "dev" ELSE "inode",
                                !.ip = g.ip, !.readable = "WRONLY" \notin mode,
                                !.writable = mode \cap {"WRONLY", "RDWR"} # {}]]
     IN IF \/ ip.type = "dev" /\ ip.major \notin 0 .. NDEV - 1
           \/ FreeFile(s) = {} \/ FreeFd(p) = {}
        THEN Step(p, s, Puts(Ret(g, -1), <<g.ip>>))
        ELSE /\ k' = IF "TRUNC" \in mode /\ ip.type = "file" THEN Itrunc(t, g.ip) ELSE t
             /\ ofile' = [ofile EXCEPT ![p][fd] = x]
             /\ f' = [f EXCEPT ![p] = Ret(g, fd)]
             /\ UNCHANGED cwd

CreateType(c) == CASE c.sys = "open" -> "file" [] c.sys = "mkdir" -> "dir" [] OTHER -> "dev"

\* create after nameiparent: an existing file is opened once the directory has
\* been put; a new inode is taken with the directory locked.
Create(p) ==
  /\ At(p, "create")
  /\ LET g == f[p]
         s == Ilock(k, g.ip)
         at == Dirlookup(s, s.mem[g.ip], Dirsiz(Head(g.path)))
         old == Entries(s, s.mem[g.ip])[at][1]
         new == Ialloc(s, CreateType(g.call))
     IN IF g.ip = 0 THEN Step(p, k, Ret(g, -1))
        ELSE /\ Unlocked(g.ip)
             /\ IF at # 0
                THEN Step(p, Iget(s, old), Puts([g EXCEPT !.pc = "exists", !.ip = old], <<g.ip>>))
                ELSE IF new.ip = 0 THEN Step(p, s, Puts(Ret(g, -1), <<g.ip>>))
                ELSE Step(p, [new.s EXCEPT !.lock[g.ip] = p],
                          [g EXCEPT !.pc = "new", !.ip = new.ip, !.dp = g.ip])

CreateExists(p) ==
  /\ At(p, "exists")
  /\ LET g == f[p]
         s == Ilock(k, g.ip)
     IN /\ Unlocked(g.ip)
        /\ IF CreateType(g.call) = "file" /\ s.mem[g.ip].type \in {"file", "dev"}
           THEN Step(p, [s EXCEPT !.lock[g.ip] = p], [g EXCEPT !.pc = "opened"])
           ELSE Step(p, s, Puts(Ret(g, -1), <<g.ip>>))

CreateNew(p) ==
  /\ At(p, "new")
  /\ Unlocked(f[p].ip)
  /\ LET g == f[p]
         dir == CreateType(g.call) = "dir"
         Counted(s) == Updated(s, g.ip, [s.mem[g.ip] EXCEPT !.nlink = 1, !.major = g.call.major])
         Add(r, i, name, inum) == IF r.ok THEN Dirlink(r.s, i, name, inum) ELSE r
         Dots(r) == IF dir THEN Add(Add(r, g.ip, ".", g.ip), g.ip, "..", g.dp) ELSE r
         Parented(s) == IF dir THEN Updated(s, g.dp, [s.mem[g.dp] EXCEPT !.nlink = @ + 1]) ELSE s
         Made(r) ==
           IF ~r.ok
           THEN Step(p, [Updated(r.s, g.ip, [r.s.mem[g.ip] EXCEPT !.nlink = 0])
                           EXCEPT !.lock[g.dp] = 0],
                     Puts(Ret(g, -1), <<g.ip, g.dp>>))
           ELSE IF g.call.sys = "open"
           THEN Step(p, [Parented(r.s) EXCEPT !.lock[g.dp] = 0, !.lock[g.ip] = p],
                     Puts([g EXCEPT !.pc = "opened", !.dp = 0], <<g.dp>>))
           ELSE Step(p, [Parented(r.s) EXCEPT !.lock[g.dp] = 0], Puts(Ret(g, 0), <<g.dp, g.ip>>))
     IN Made(Add(Dots([s |-> Counted(Ilock(k, g.ip)), ok |-> TRUE]),
                 g.dp, Dirsiz(Head(g.path)), g.ip))

(***************************************************************************)
(* link, unlink, chdir.                                                    *)
(***************************************************************************)
Link(p) ==
  /\ At(p, "old")
  /\ LET g == f[p]
         s == Ilock(k, g.ip)
         t == Updated(s, g.ip, [s.mem[g.ip] EXCEPT !.nlink = @ + 1])
     IN IF g.ip = 0 THEN Step(p, k, Ret(g, -1))
        ELSE /\ Unlocked(g.ip)
             /\ IF s.mem[g.ip].type = "dir" THEN Step(p, s, Puts(Ret(g, -1), <<g.ip>>))
                ELSE Walking(p, t, [g EXCEPT !.dp = g.ip], g.call.new, "link")

\* Here dp is the linked inode and ip the directory of the new name.
LinkName(p) ==
  /\ At(p, "link")
  /\ LET g == f[p]
         s == Ilock(k, g.ip)
         d == Dirlink(s, g.ip, Dirsiz(Head(g.path)), g.dp)
     IN IF g.ip = 0 THEN Step(p, k, [g EXCEPT !.pc = "linkbad"])
        ELSE /\ Unlocked(g.ip)
             /\ IF d.ok THEN Step(p, d.s, Puts(Ret(g, 0), <<g.ip, g.dp>>))
                ELSE Step(p, d.s, Puts([g EXCEPT !.pc = "linkbad", !.ip = 0], <<g.ip>>))

LinkUndone(ip) == [ip EXCEPT !.nlink = @ - 1]

LinkBad(p) ==
  /\ At(p, "linkbad")
  /\ Unlocked(f[p].dp)
  /\ LET g == f[p]
         s == Ilock(k, g.dp)
     IN Step(p, Updated(s, g.dp, LinkUndone(s.mem[g.dp])), Puts(Ret(g, -1), <<g.dp>>))

IsDotSlip(name) == name = ".."
IsDot(name) == name \in {".", ".."}

Unlink(p) ==
  /\ At(p, "unlink")
  /\ LET g == f[p]
         s == Ilock(k, g.ip)
         name == Dirsiz(Head(g.path))
         at == Dirlookup(s, s.mem[g.ip], name)
         i == Entries(s, s.mem[g.ip])[at][1]
     IN IF g.ip = 0 THEN Step(p, k, Ret(g, -1))
        ELSE /\ Unlocked(g.ip)
             /\ IF IsDot(name) \/ at = 0
                THEN Step(p, s, Puts(Ret(g, -1), <<g.ip>>))
                ELSE Step(p, [Iget(s, i) EXCEPT !.lock[g.ip] = p],
                          [g EXCEPT !.pc = "entry", !.dp = g.ip, !.ip = i, !.n = at])

\* The inode is locked under its directory's lock; the entry and, for a directory,
\* the parent's link go first.
UnlinkEntry(p) ==
  /\ At(p, "entry")
  /\ Unlocked(f[p].ip)
  /\ LET g == f[p]
         s == Ilock(k, g.ip)
         ip == s.mem[g.ip]
         t == Writei(s, g.dp, g.n - 1, 1, Zero, FALSE).s
         u == IF ip.type = "dir"
              THEN Updated(t, g.dp, [t.mem[g.dp] EXCEPT !.nlink = @ - 1]) ELSE t
     IN IF ip.nlink < 1 THEN Step(p, Panic(s, "unlink: nlink < 1"), g)
        ELSE IF ip.type = "dir" /\ ~Isdirempty(s, ip)
        THEN Step(p, [s EXCEPT !.lock[g.dp] = 0], Puts(Ret(g, -1), <<g.ip, g.dp>>))
        ELSE Step(p, [u EXCEPT !.lock[g.dp] = 0, !.lock[g.ip] = p],
                  Puts([g EXCEPT !.pc = "unlinked", !.dp = 0], <<g.dp>>))

Unlinked(p) ==
  /\ At(p, "unlinked")
  /\ LET g == f[p]
         s == Updated(k, g.ip, [k.mem[g.ip] EXCEPT !.nlink = @ - 1])
     IN Step(p, [s EXCEPT !.lock[g.ip] = 0], Puts(Ret(g, 0), <<g.ip>>))

Chdir(p) ==
  /\ At(p, "chdir")
  /\ LET g == f[p]
         s == Ilock(k, g.ip)
     IN IF g.ip = 0 THEN Step(p, k, Ret(g, -1))
        ELSE /\ Unlocked(g.ip)
             /\ IF s.mem[g.ip].type # "dir" THEN Step(p, s, Puts(Ret(g, -1), <<g.ip>>))
                ELSE /\ k' = s
                     /\ cwd' = [cwd EXCEPT ![p] = g.ip]
                     /\ f' = [f EXCEPT ![p] = Puts(Ret(g, 0), <<cwd[p]>>)]
                     /\ UNCHANGED ofile

\* exec: 0 if the file is a program, whose first unit is 99, and the arguments fit
\* on the stack.
ReadProgram(p) ==
  /\ At(p, "exec")
  /\ LET g == f[p]
         s == Ilock(k, g.ip)
     IN IF g.ip = 0 THEN Step(p, k, Ret(g, -1))
        ELSE /\ Unlocked(g.ip)
             /\ Step(p, s, Puts(Ret(g, IF Readi(s, s.mem[g.ip], 0, 1) = <<<<99, "">>>> /\ g.call.fits
                                       THEN 0 ELSE -1), <<g.ip>>))

(***************************************************************************)
(* Descriptors.                                                            *)
(***************************************************************************)
\* fileclose: the last reference to a file gives its inode back in an operation of
\* its own, or closes its end of the pipe; pc tells what follows.
CloseFd(p, d, g) ==
  LET x == ofile[p][d]
      file == k.file[x]
      last == file.ref = 1
  IN /\ ofile' = [ofile EXCEPT ![p][d] = 0]
     /\ k' = IF file.ref < 1 THEN Panic(k, "fileclose")
             ELSE IF ~last THEN [k EXCEPT !.file[x].ref = @ - 1]
             ELSE IF file.type = "pipe"
             THEN [k EXCEPT !.file[x] = NoFile,
                            !.pipe[file.ip] = IF file.writable THEN [@ EXCEPT !.writeopen = FALSE]
                                              ELSE [@ EXCEPT !.readopen = FALSE]]
             ELSE [k EXCEPT !.file[x] = NoFile]
     /\ f' = [f EXCEPT ![p] = IF last /\ file.type # "pipe"
                              THEN [g EXCEPT !.to = g.pc, !.pc = "fileclose", !.ip = file.ip]
                              ELSE g]
     /\ UNCHANGED cwd

Fileclose(p) ==
  /\ At(p, "fileclose")
  /\ Admitted
  /\ Step(p, k, [f[p] EXCEPT !.pc = f[p].to, !.tx = TRUE, !.ip = 0, !.puts = <<f[p].ip>>])

Dup(p, c) ==
  LET x == ofile[p][c.fd]
  IN IF FreeFd(p) = {} THEN Step(p, k, Ret(Idle, -1))
     ELSE /\ k' = [k EXCEPT !.file[x].ref = @ + 1]
          /\ ofile' = [ofile EXCEPT ![p][Min(FreeFd(p))] = x]
          /\ f' = [f EXCEPT ![p] = Ret(Idle, Min(FreeFd(p)))]
          /\ UNCHANGED cwd

\* fileread: nobody types, so a read of the console waits for ever.
Read(p) ==
  /\ At(p, "read")
  /\ LET g == f[p]
         x == ofile[p][g.call.fd]
         file == k.file[x]
         s == Ilock(k, file.ip)
         data == Readi(s, s.mem[file.ip], file.off, g.call.n)
         queue == k.pipe[file.ip].data
         m == Min({g.call.n, Len(queue)})
         Got(d) == [Ret(g, Len(d)) EXCEPT !.ret.data = d]
     IN \/ /\ ~file.readable
           /\ Step(p, k, Ret(g, -1))
        \/ /\ file.readable /\ file.type = "inode" /\ Unlocked(file.ip)
           /\ IF g.call.bad THEN Step(p, s, Ret(g, IF data = <<>> THEN 0 ELSE -1))
              ELSE Step(p, [s EXCEPT !.file[x].off = @ + Len(data)], Got(data))
        \/ /\ file.readable /\ file.type = "pipe"
           /\ \/ p \in k.killed /\ Step(p, k, Ret(g, -1))
              \/ /\ p \notin k.killed
                 /\ queue # <<>> \/ ~k.pipe[file.ip].writeopen
                 /\ IF g.call.bad
                    THEN Step(p, [k EXCEPT !.pipe[file.ip].data = SubSeq(@, 2, Len(@))], Ret(g, 0))
                    ELSE Step(p, [k EXCEPT !.pipe[file.ip].data = SubSeq(@, m + 1, Len(@))],
                              Got(SubSeq(queue, 1, m)))

\* filewrite: a regular file is written WRITEMAX units at a time, each an operation
\* of its own; pipewrite puts in what fits and waits for the rest.
Write(p) ==
  /\ At(p, "write")
  /\ LET g == f[p]
         x == ofile[p][g.call.fd]
         file == k.file[x]
         left == g.call.n - g.n
         v == <<g.call.v, "">>
         s == Ilock(k, file.ip)
         n1 == Min({left, WRITEMAX})
         w == Writei(s, file.ip, file.off, n1, v, g.call.bad)
         pi == k.pipe[file.ip]
         m == Min({left, PIPESIZE - Len(pi.data)})
     IN \/ /\ ~file.writable
           /\ Step(p, k, Ret(g, -1))
        \/ /\ file.writable
           /\ \/ left <= 0
              \/ g.call.bad /\ file.type = "dev"
              \/ g.call.bad /\ file.type = "pipe" /\ pi.readopen /\ p \notin k.killed
           /\ Step(p, k, Ret(g, g.n))
        \/ /\ file.writable /\ left > 0 /\ file.type = "dev" /\ ~g.call.bad
           /\ Step(p, k, Ret(g, g.call.n))
        \/ /\ file.writable /\ left > 0 /\ file.type = "inode" /\ Admitted /\ Unlocked(file.ip)
           /\ Step(p, [w.s EXCEPT !.file[x].off = @ + Max({w.r, 0})],
                   IF w.r = n1 THEN [g EXCEPT !.n = @ + n1] ELSE Ret(g, -1))
        \/ /\ file.writable /\ left > 0 /\ file.type = "pipe"
           /\ \/ /\ ~pi.readopen \/ p \in k.killed
                 /\ Step(p, k, Ret(g, -1))
              \/ /\ pi.readopen /\ p \notin k.killed /\ m > 0 /\ ~g.call.bad
                 /\ Step(p, [k EXCEPT !.pipe[file.ip].data = @ \o [j \in 1 .. m |-> v]],
                         [g EXCEPT !.n = @ + m])

Fstat(p) ==
  /\ At(p, "fstat")
  /\ LET g == f[p]
         file == k.file[ofile[p][g.call.fd]]
         s == Ilock(k, file.ip)
         ip == s.mem[file.ip]
     IN IF file.type = "pipe" THEN Step(p, k, Ret(g, -1))
        ELSE /\ Unlocked(file.ip)
             /\ Step(p, s, IF g.call.bad THEN Ret(g, -1)
                           ELSE [Ret(g, 0) EXCEPT !.ret.data = <<<<file.ip, ip.type>>, <<ip.nlink, "">>,
                                                           <<ip.size, "">>>>])

PipeCall(p, c) ==
  LET fds == FreeFd(p)
      fd0 == Min(fds)
      fd1 == Min(fds \ {fd0})
      x == Min(FreeFile(k))
      y == Min(FreeFile(k) \ {x})
      i == Min({j \in 1 .. NFILE : k.pipe[j] = NoPipe})
      File(w) == [NoFile EXCEPT !.ref = 1, !.type = "pipe", !.ip = i, !.readable = ~w,
                                !.writable = w]
  IN IF Cardinality(fds) < 2 \/ Cardinality(FreeFile(k)) < 2 \/ c.bad
     THEN Step(p, k, Ret(Idle, -1))
     ELSE /\ k' = [k EXCEPT !.file[x] = File(FALSE), !.file[y] = File(TRUE),
                            !.pipe[i] = [data |-> <<>>, readopen |-> TRUE, writeopen |-> TRUE]]
          /\ ofile' = [ofile EXCEPT ![p][fd0] = x, ![p][fd1] = y]
          /\ f' = [f EXCEPT ![p] = Ret(Idle, 0)]
          /\ UNCHANGED cwd

(***************************************************************************)
(* System calls: entry and return.                                         *)
(***************************************************************************)
OnPath == {"open", "mkdir", "mknod", "link", "unlink", "chdir", "exec"}
OnFd == {"read", "write", "fstat", "dup", "close"}
HasFd(p, c) == c.fd \in 0 .. NOFILE - 1 /\ ofile[p][c.fd] # 0

\* Where namex goes on to.
WalkTo(c) ==
  CASE c.sys = "open" /\ "CREATE" \notin c.mode -> "open"
    [] c.sys \in {"open", "mkdir", "mknod"} -> "create"
    [] c.sys = "link" -> "old"
    [] OTHER -> c.sys

Enter(p, c) ==
  /\ At(p, "idle")
  /\ \/ /\ c.sys \in OnPath /\ c.bad
        /\ Step(p, k, Ret(Idle, -1))
     \/ /\ c.sys \in OnPath /\ ~c.bad /\ Admitted
        /\ Walking(p, k, [Idle EXCEPT !.call = c, !.tx = TRUE], c.path, WalkTo(c))
     \/ /\ c.sys \in OnFd /\ ~HasFd(p, c)
        /\ Step(p, k, Ret(Idle, -1))
     \/ /\ c.sys \in {"read", "write", "fstat"} /\ HasFd(p, c)
        /\ Step(p, k, [Idle EXCEPT !.pc = c.sys, !.call = c])
     \/ c.sys = "dup" /\ HasFd(p, c) /\ Dup(p, c)
     \/ c.sys = "close" /\ HasFd(p, c) /\ CloseFd(p, c.fd, Ret(Idle, 0))
     \/ c.sys = "pipe" /\ PipeCall(p, c)
     \/ /\ c.sys = "exit"
        /\ Step(p, k, [Idle EXCEPT !.pc = "exit"])

\* The end_op of an operation, and the return to user space.
Return(p) ==
  /\ At(p, "ret")
  /\ Step(p, k, [Idle EXCEPT !.ret = f[p].ret])

Fork(p, q) ==
  /\ At(p, "idle") /\ f[q].pc = "unused"
  /\ LET Refs(x) == Cardinality({d \in DOMAIN ofile[p] : ofile[p][d] = x})
         s == [k EXCEPT !.file = [x \in DOMAIN k.file |-> [k.file[x] EXCEPT !.ref = @ + Refs(x)]],
                        !.killed = @ \ {q}]
     IN k' = Idup(s, cwd[p])
  /\ ofile' = [ofile EXCEPT ![q] = ofile[p]]
  /\ cwd' = [cwd EXCEPT ![q] = cwd[p]]
  /\ f' = [f EXCEPT ![q] = Idle]

\* exit: close the descriptors one after the other, then leave the directory.
Exit(p) ==
  /\ At(p, "exit")
  /\ IF \E d \in DOMAIN ofile[p] : ofile[p][d] # 0
     THEN CloseFd(p, Min({d \in DOMAIN ofile[p] : ofile[p][d] # 0}), f[p])
     ELSE /\ Admitted
          /\ f' = [f EXCEPT ![p] = [Idle EXCEPT !.pc = "gone", !.tx = TRUE, !.puts = <<cwd[p]>>]]
          /\ cwd' = [cwd EXCEPT ![p] = 0]
          /\ UNCHANGED <<k, ofile>>

Gone(p) ==
  /\ At(p, "gone")
  /\ Step(p, k, [Idle EXCEPT !.pc = "unused"])

\* The steps of a process inside the kernel, but for its last one.
Inside(p) ==
  \/ Namex(p) \/ IputFree(p) \/ IputDone(p)
  \/ OpenExisting(p) \/ Opened(p) \/ Create(p) \/ CreateExists(p) \/ CreateNew(p)
  \/ Link(p) \/ LinkName(p) \/ LinkBad(p) \/ Unlink(p) \/ UnlinkEntry(p) \/ Unlinked(p)
  \/ Chdir(p) \/ ReadProgram(p) \/ Fileclose(p) \/ Read(p) \/ Write(p) \/ Fstat(p)
  \/ Exit(p)

(***************************************************************************)
(* The disk mkfs makes, and a kernel that has just booted from a disk.     *)
(***************************************************************************)
Blank == [ino |-> [i \in Inum |-> None], used |-> {}, blk |-> [b \in Block |-> Zeroed],
          ref |-> [i \in Inum |-> 0], valid |-> [i \in Inum |-> FALSE],
          lock |-> [i \in Inum |-> 0], mem |-> [i \in Inum |-> None],
          file |-> [x \in 1 .. NFILE |-> NoFile], pipe |-> [x \in 1 .. NFILE |-> NoPipe],
          killed |-> {}, lost |-> {}, panic |-> ""]

Iappend(s, i, v) == Writei([s EXCEPT !.mem[i] = s.ino[i]], i, s.ino[i].size, 1, v, FALSE).s
MkfsIalloc(s, i, type) == [s EXCEPT !.ino[i] = [None EXCEPT !.type = type, !.nlink = 1]]

\* Each file of Files is [name, data]; the root directory is rounded up to a block.
Mkfs ==
  LET root == Iappend(Iappend(MkfsIalloc(Blank, ROOTINO, "dir"), ROOTINO, <<1, ".">>),
                      ROOTINO, <<1, "..">>)
      Add(s, j) ==
        LET i == j + 1
            t == Iappend(MkfsIalloc(s, i, "file"), ROOTINO, <<i, Files[j].name>>)
        IN FoldLeft(LAMBDA u, v : Iappend(u, i, <<v, "">>), t, Files[j].data)
      full == FoldLeft(Add, root, [j \in 1 .. Len(Files) |-> j])
  IN [full EXCEPT !.ino[ROOTINO].size = (@ \div BSIZE + 1) * BSIZE]

\* mkfs writes an inode for every number, and gives those it uses a link.
ASSUME MkfsAssumption ==
  /\ DOMAIN Mkfs.ino = Inum
  /\ \A i \in Inum : DOMAIN Mkfs.ino[i] = DOMAIN None
  /\ \A i \in Inum : Mkfs.ino[i].type # "none" => Mkfs.ino[i].nlink # 0

\* init's process has the root as its directory.
Booted(disk, p) ==
  /\ k = [Blank EXCEPT !.ino = disk.ino, !.used = disk.used, !.blk = disk.blk,
                       !.ref[ROOTINO] = 1]
  /\ ofile = [q \in Proc |-> [d \in 0 .. NOFILE - 1 |-> 0]]
  /\ cwd = [q \in Proc |-> IF q = p THEN ROOTINO ELSE 0]
  /\ f = [q \in Proc |-> IF q = p THEN Idle ELSE [Idle EXCEPT !.pc = "unused"]]

(***************************************************************************)
(* Properties.                                                             *)
(***************************************************************************)
\* What refers to file x, to inode i: the open files, the current directories and
\* the references that calls in progress hold.
Descriptors(of, x) == {pd \in Proc \X (0 .. NOFILE - 1) : of[pd[1]][pd[2]] = x}
OpenFiles(file, i) == {x \in 1 .. NFILE : file[x].type \in {"inode", "dev"} /\ file[x].ip = i}
Pending(fr, i) == {pj \in UNION {{p} \X DOMAIN fr[p].puts : p \in Proc} : fr[pj[1]].puts[pj[2]] = i}
Uses(i) ==
  Cardinality(OpenFiles(k.file, i)) + Cardinality({p \in Proc : cwd[p] = i})
    + Cardinality({p \in Proc : f[p].ip = i}) + Cardinality({p \in Proc : f[p].dp = i})
    + Cardinality(Pending(f, i))

\* Every number that counts references says how many there are: file.ref the
\* descriptors, inode ref the open files, the current directories and the
\* references that calls in progress hold (filedup, fileclose, iget, idup, iput).
CountsRight ==
  /\ \A x \in 1 .. NFILE : k.file[x].ref = Cardinality(Descriptors(ofile, x))
  /\ \A i \in Inum : k.ref[i] = Uses(i)

\* What can be on disk when power fails, that is between operations: an inode has
\* as many links as directories that still exist name it ("." apart), every data
\* block in use belongs to one inode once, files have no holes.
Linked == {i \in Inum : k.ino[i].type = "dir" /\ k.ino[i].nlink > 0}
Names(i) ==
  MapThenSumSet(LAMBDA d : LET e == Entries(k, k.ino[d])
                           IN Cardinality({j \in DOMAIN e : e[j][1] = i /\ e[j][2] # "."}),
                Linked)
AllBlocks == FoldLeft(LAMBDA a, i : a \o BlocksOf(k, k.ino[i]), <<>>, [i \in 1 .. NINODES |-> i])
CrashSafe ==
  (\A p \in Proc : ~f[p].tx) =>
    /\ \A i \in Inum : k.ino[i].nlink = Names(i)
    /\ IsInjective(AllBlocks) /\ ToSet(AllBlocks) = k.used
    /\ \A i \in Inum : \A n \in 0 .. k.ino[i].size - 1 : Addr(k, k.ino[i], n \div BSIZE) # 0

\* An inode nobody has locked is on disk as it is in memory (iupdate after every
\* change, valid cleared when the inode is freed).
CacheRight == \A i \in Inum : k.ref[i] > 0 /\ k.valid[i] /\ k.lock[i] = 0 => k.mem[i] = k.ino[i]

\* A file without names keeps its inode as long as somebody uses it, and no longer;
\* only a power failure can leave it behind (iput).
FreedWithLastUse ==
  \A i \in Inum :
    /\ (\A p \in Proc : ~f[p].tx) /\ k.ino[i].type # "none" /\ k.ino[i].nlink = 0
         => k.ref[i] > 0 \/ i \in k.lost
    /\ \A x \in 1 .. NFILE : k.file[x].type = "inode" /\ k.file[x].ip = i => k.ino[i].type # "none"

\* No panic of fs.c or file.c, and iput never waits for the lock of an inode that
\* only it refers to ("this acquiresleep() won't block").
NoPanic == k.panic = ""
-----------------------------------------------------------------------------
(* The inductive invariant behind CountsRight and CacheRight, until a panic. *)

\* The tables have their entries and the entries their fields.
TablesOK(s) ==
  /\ DOMAIN s = DOMAIN Blank
  /\ DOMAIN s.ref = Inum /\ DOMAIN s.valid = Inum /\ DOMAIN s.lock = Inum
  /\ DOMAIN s.mem = Inum /\ DOMAIN s.ino = Inum
  /\ \A i \in Inum : DOMAIN s.mem[i] = DOMAIN None /\ DOMAIN s.ino[i] = DOMAIN None
  /\ DOMAIN s.file = 1 .. NFILE

\* An entry of the file table without references is free.
FileOK(s) ==
  \A x \in 1 .. NFILE :
    /\ DOMAIN s.file[x] = DOMAIN NoFile
    /\ s.file[x].ref = 0 <=> s.file[x].type = "none"
    /\ s.file[x].type \in {"none", "inode", "dev", "pipe"}

\* Where a call may hold references.
PlacedOK(g) ==
  /\ g.ip # 0 => g.pc \in {"walk", "open", "opened", "create", "exists", "new", "old", "link",
                           "unlink", "entry", "unlinked", "chdir", "exec", "fileclose"}
  /\ g.dp # 0 => g.pc \in {"new", "entry", "link", "linkbad"} \/ (g.pc = "walk" /\ g.to = "link")
  /\ g.pc = "walk" => g.to \in {"open", "create", "old", "link", "unlink", "chdir", "exec"}
  /\ g.pc = "fileclose" => g.to \in {"ret", "exit"}
  /\ g.pc \in {"new", "entry", "unused"} => g.puts = <<>>

\* It has two references to put at most, and frees no inode it has locked for
\* another reason.
FrameOK(g) ==
  /\ DOMAIN g = DOMAIN Idle
  /\ g.puts = <<>> \/ g.puts = <<g.puts[1]>> \/ g.puts = <<g.puts[1], g.puts[2]>>
  /\ g.freeing => g.puts # <<>> /\ (g.pc \in {"opened", "unlinked"} => g.ip # g.puts[1] \/ g.ip \notin Inum)
  /\ PlacedOK(g)

FrameInv ==
  /\ DOMAIN f = Proc /\ DOMAIN cwd = Proc
  /\ ofile \in [Proc -> [0 .. NOFILE - 1 -> 0 .. NFILE]]
  /\ \A p \in Proc :
       /\ FrameOK(f[p])
       /\ f[p].pc \in {"gone", "unused"} => cwd[p] = 0 /\ \A d \in 0 .. NOFILE - 1 : ofile[p][d] = 0

\* A call in frame g keeps inode i locked from one step to the next.
HasLocked(g, i) ==
  \/ g.pc \in {"opened", "unlinked"} /\ g.ip = i
  \/ g.pc \in {"new", "entry"} /\ g.dp = i
  \/ g.freeing /\ g.puts[1] = i

LockInv ==
  \A i \in Inum :
    /\ k.lock[i] \in Proc \cup {0}
    /\ \A p \in Proc : k.lock[i] = p <=> HasLocked(f[p], i)

\* The entry of an inode in use agrees with the disk, locked or not; between the two
\* halves of iput's last put, ialloc may already have given the inode away on disk.
CacheOK(s, freed) ==
  \A i \in Inum \ freed :
    s.ref[i] > 0 /\ s.valid[i] => s.mem[i] = s.ino[i] /\ s.mem[i].type # "none"
Freed == {i \in Inum : \E p \in Proc : f[p].freeing /\ f[p].puts[1] = i}

Sane == TablesOK(k) /\ FileOK(k) /\ FrameInv /\ CountsRight /\ LockInv /\ CacheOK(k, Freed)
IInv == NoPanic => Sane

(* The inductive invariant behind FreedWithLastUse: who answers for an inode. *)

\* Somebody uses the inode, its entry is valid and it is not being freed.
Loaded(s, freed, i) == s.ref[i] > 0 /\ s.valid[i] /\ i \notin freed

\* A locked inode has been read from disk, unless its last put has the lock.
LocksLoaded == \A i \in Inum : k.lock[i] # 0 => i \in Freed \/ Loaded(k, Freed, i)

\* So has the inode of an open file, which no put is freeing.
FilesLoaded ==
  \A x \in 1 .. NFILE : k.file[x].type \in {"inode", "dev"} /\ k.file[x].ip \in Inum
                      => Loaded(k, Freed, k.file[x].ip)

\* The stretch of a call that may take a new inode is inside an operation.
InOperation(g) == g.pc \in {"walk", "create", "new", "old"} => g.tx
OperationsOpen == \A p \in Proc : InOperation(f[p])

\* An inode in use on disk that has no link was left by a power failure, or has a valid
\* entry that tells its last put to free it, or create has just taken it.
Orphan(ip) == ip.type # "none" /\ ip.nlink = 0
Making(g, i) == g.pc = "new" /\ g.ip = i
OrphansKept ==
  \A i \in Inum : Orphan(k.ino[i]) =>
    i \in k.lost \/ Loaded(k, Freed, i) \/ \E p \in Proc : Making(f[p], i)

Kept == LocksLoaded /\ FilesLoaded /\ OperationsOpen /\ OrphansKept
KeptInv == NoPanic => Sane /\ Kept
=============================================================================

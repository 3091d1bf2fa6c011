----------------------------- MODULE FileCalls -----------------------------
(***************************************************************************)
(* Processes that make system calls on one file system, and power          *)
(* failures.                                                               *)
(***************************************************************************)
EXTENDS FileSystem

CONSTANTS Call,      \* the calls each process makes
          MAXCALLS,  \* bound on the calls of a process
          Crashes,   \* may power fail?
          Careful    \* do programs leave directories alone that others remove?

VARIABLE left        \* calls a process may still make

\* Power fails between operations; a failure inside one leaves the disk as it was
\* before (Log), so it is a failure at that earlier moment.
Crash(p) ==
  /\ Crashes /\ Up
  /\ \A q \in Proc : ~f[q].tx
  /\ k' = [Blank EXCEPT !.ino = k.ino, !.used = k.used, !.blk = k.blk, !.ref[ROOTINO] = 1,
                       !.lost = {i \in Inum : k.ino[i].type # "none" /\ k.ino[i].nlink = 0}]
  /\ ofile' = [q \in Proc |-> [d \in 0 .. NOFILE - 1 |-> 0]]
  /\ cwd' = [q \in Proc |-> IF q = p THEN ROOTINO ELSE 0]
  /\ f' = [q \in Proc |-> IF q = p THEN Idle ELSE [Idle EXCEPT !.pc = "unused"]]

\* In careful programs a directory is removed while nobody else is in the kernel or
\* in that directory, and nobody names files from a removed directory.
Rmdir(c) == c.sys = "unlink" /\ c.rmdir
WithCare(p, c) ==
  /\ c.sys \in OnPath => Absolute(c.path) \/ k.ino[cwd[p]].nlink > 0
  /\ c.sys = "link" => Absolute(c.new) \/ k.ino[cwd[p]].nlink > 0
  /\ \A q \in Proc \ {p} :
       /\ f[q].pc # "idle" => ~Rmdir(f[q].call)
       /\ Rmdir(c) => f[q].pc \in {"idle", "unused"} /\ cwd[q] \in {0, ROOTINO}

UserCall(p, c) ==
  /\ At(p, "idle") /\ left[p] > 0
  /\ Careful => WithCare(p, c)
  /\ left' = [left EXCEPT ![p] = @ - 1]
  /\ Enter(p, c)

Next ==
  \E p \in Proc :
    \/ (Inside(p) \/ Return(p) \/ Gone(p)) /\ UNCHANGED left
    \/ \E c \in Call[p] : UserCall(p, c)
    \/ \E q \in Proc : Fork(p, q) /\ UNCHANGED left
    \/ Crash(p) /\ UNCHANGED left

Init ==
  /\ Booted(Mkfs, CHOOSE p \in Proc : TRUE)
  /\ left = [p \in Proc |-> MAXCALLS]

Spec == Init /\ [][Next]_<<vars, left>>

\* The inode lock the next step of a call takes, 0 if none.
Wanted(p) ==
  LET g == f[p] IN
  CASE g.puts # <<>> -> 0
    [] g.pc = "walk" -> IF g.path = <<>> THEN 0 ELSE g.ip
    [] g.pc \in {"open", "create", "exists", "new", "old", "link", "unlink", "entry", "chdir"} -> g.ip
    [] g.pc = "linkbad" -> g.dp
    [] g.pc \in {"read", "write", "fstat"} -> k.file[ofile[p][g.call.fd]].ip
    [] OTHER -> 0

\* Calls in progress never wait for one another's inode locks in a circle: while
\* somebody is inside the kernel, somebody there does not wait for a lock (ilock in
\* namex, create and sys_unlink, which lock a directory before what is in it).
NoStuck ==
  LET inside == {p \in Proc : f[p].pc \notin {"idle", "unused"}}
  IN inside # {} => \E p \in inside : Wanted(p) = 0 \/ k.lock[Wanted(p)] = 0
=============================================================================

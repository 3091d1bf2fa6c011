----------------------------- MODULE UserTests -----------------------------
(***************************************************************************)
(* The user programs of xv6 on the file system and process calls of the    *)
(* kernel: init, the shell's runcmd, usertests.c and small programs, each  *)
(* as a script.  A script is a sequence of instructions; one names the     *)
(* results the program accepts, and any other makes the program leave with *)
(* status 1, as the tests do after printing a message, or jump.  Processes *)
(* run their scripts concurrently, one step of the kernel at a time.       *)
(*                                                                         *)
(* Sizes are scaled down: a unit stands for many bytes, a loop of hundreds *)
(* of turns has one to three; which block, directory or table a test fills *)
(* is kept.                                                                *)
(***************************************************************************)
EXTENDS FileSystem

CONSTANTS NPAGE,   \* pages of memory for processes
          Run,     \* names of the tests to run, one per behaviour
          NPROC    \* slots of the process table, for each test

VARIABLES test,    \* the test of this behaviour
          u        \* user side of a process

(***************************************************************************)
(* Instructions.                                                           *)
(***************************************************************************)
NoChild == -9
AnyN == -1 .. 999
Instr(op, want) == [op |-> op, c |-> [sys |-> ""], want |-> want, to |-> 0, n |-> 0, part |-> ""]
Sys(call, want) == [Instr("sys", want) EXCEPT !.c = call]
\* Where to go on, from here, after a result that is not wanted.
Else(ins, d) == [ins EXCEPT !.to = d]
\* The same call with an address outside the process's memory.
Bad(ins) == [ins EXCEPT !.c.bad = TRUE]
Rep(n, script) == FlattenSeq([j \in 1 .. n |-> script])

N(name) == <<name>>
RDONLY == {}
WRONLY == {"WRONLY"}
RDWR == {"RDWR"}
CREATE == {"CREATE"}
TRUNC == {"TRUNC"}

On(sys, path, want) ==
  Sys([sys |-> sys, path |-> path, bad |-> FALSE, mode |-> {}, major |-> 0, fits |-> TRUE], want)
open(path, mode, want) == [On("open", path, want) EXCEPT !.c.mode = mode]
mkdir(path, want) == On("mkdir", path, want)
mknod(path, major, want) == [On("mknod", path, want) EXCEPT !.c.major = major]
unlink(path, want) == On("unlink", path, want)
chdir(path, want) == On("chdir", path, want)
link(old, new, want) == Sys([sys |-> "link", path |-> old, new |-> new, bad |-> FALSE], want)
\* exec of a program continues with the script of that name.
exec(name, want) == [On("exec", N(name), want) EXCEPT !.part = name]
write(fd, n, v, want) == Sys([sys |-> "write", fd |-> fd, n |-> n, v |-> v, bad |-> FALSE], want)
read(fd, n, want) == Sys([sys |-> "read", fd |-> fd, n |-> n, bad |-> FALSE], want)
fstat(fd, want) == Sys([sys |-> "fstat", fd |-> fd, bad |-> FALSE], want)
dup(fd, want) == Sys([sys |-> "dup", fd |-> fd], want)
close(fd) == Sys([sys |-> "close", fd |-> fd], AnyN)
pipe(want) == Sys([sys |-> "pipe", bad |-> FALSE], want)
fork(part) == [Instr("fork", {1}) EXCEPT !.part = part]
\* The status of a child that has ended, NoChild if there is no child.
wait(want) == Instr("wait", want)
kill(part) == [Instr("kill", AnyN) EXCEPT !.part = part]
sleep == Instr("sleep", AnyN)
sbrk(n, want) == [Instr("sbrk", want) EXCEPT !.n = n]
touch(page) == [Instr("touch", {0}) EXCEPT !.n = page]
goto(d) == [Instr("goto", {}) EXCEPT !.to = d]
exit(x) == [Instr("exit", {}) EXCEPT !.n = x]
\* What the reads and fstats since the last got returned, in order.
got(allowed) == Instr("got", allowed)
halt == Instr("halt", {})
\* A page no process may touch: the kernel's, the guard page, the text.
Kernel == 99
OK == {0}
Err == {-1}

(***************************************************************************)
(* Programs.                                                               *)
(***************************************************************************)
\* init: a console, a shell (here the driver of the tests), and wait for orphans too.
init == <<Else(open(N("console"), RDWR, {0}), 2), goto(3),
          mknod(N("console"), 1, AnyN), open(N("console"), RDWR, {0}),
          dup(0, {1}), dup(0, {2}), fork("run"),
          Else(wait(AnyN), 2), goto(-1), halt>>

\* run: the test in a process of its own.
run == <<fork("main"), wait({0}), exit(0)>>

echo == <<write(1, 2, 7, AnyN), exit(0)>>
\* cat with a buffer of one unit.
cat == <<Else(read(0, 1, {1}), 3), write(1, 1, 7, {1}), goto(-2)>>
Programs == [init |-> init, run |-> run, echo |-> echo, cat |-> cat]

(***************************************************************************)
(* usertests.c: addresses outside the process.                             *)
(***************************************************************************)
copyin == [main |-> Rep(2, <<
  open(N("copyin1"), CREATE \cup WRONLY, {3}), Bad(write(3, 2, 1, Err)), close(3),
  unlink(N("copyin1"), AnyN), Bad(write(1, 2, 1, {-1, 0})), pipe(OK),
  Bad(write(4, 2, 1, {-1, 0})), close(3), close(4)>>)]

copyout == [main |-> Rep(2, <<
  open(N("README"), RDONLY, {3}), Bad(read(3, 2, {-1, 0})), close(3), pipe(OK),
  write(4, 1, 1, {1}), Bad(read(3, 2, {-1, 0})), close(3), close(4)>>)]

copyinstr1 == [main |-> Rep(2, <<Bad(open(N("x"), CREATE \cup WRONLY, Err))>>)]

BadName == <<Bad(unlink(N("x"), Err)), Bad(open(N("x"), CREATE \cup WRONLY, Err)),
             Bad(link(N("x"), N("x"), Err)), Bad(exec("x", Err))>>
copyinstr2 == [main |-> BadName \o <<fork("child"), wait({747})>>,
               child |-> <<Bad(exec("echo", Err)), exit(747)>>]
copyinstr3 == [main |-> <<sbrk(2, AnyN), touch(2)>> \o BadName]

rwsbrk == [main |-> <<
  sbrk(2, {1}), sbrk(-2, {1}), open(N("rwsbrk"), CREATE \cup WRONLY, {3}),
  Bad(write(3, 1, 1, Err)), close(3), unlink(N("rwsbrk"), AnyN),
  open(N("README"), RDONLY, {3}), Bad(read(3, 1, Err)), close(3)>>]

validatetest == [main |-> <<link(N("nosuchfile"), N("x"), Err),
                            Bad(link(N("nosuchfile"), N("x"), Err))>>]

argptest == [main |-> <<open(N("README"), RDONLY, {3}), Bad(read(3, -1, AnyN)), close(3)>>]
pgbug == [main |-> <<Bad(exec("x", AnyN)), Bad(pipe(AnyN)), exit(0)>>]
badarg == [main |-> Rep(2, <<Bad(exec("echo", AnyN))>>) \o <<exit(0)>>]

badwrite == [main |-> <<unlink(N("junk"), AnyN)>> \o Rep(NBLOCKS, <<
  open(N("junk"), CREATE \cup WRONLY, {3}), Bad(write(3, 1, 1, AnyN)), close(3),
  unlink(N("junk"), AnyN)>>) \o <<
  open(N("junk"), CREATE \cup WRONLY, {3}), write(3, 1, 1, {1}), close(3),
  unlink(N("junk"), AnyN), exit(0)>>]

(***************************************************************************)
(* usertests.c: files.                                                     *)
(***************************************************************************)
truncate1 == LET t == N("truncfile") IN [main |-> <<
  unlink(t, AnyN), open(t, CREATE \cup WRONLY \cup TRUNC, {3}), write(3, 2, 1, AnyN), close(3),
  open(t, RDONLY, {3}), read(3, 9, {2}), open(t, WRONLY \cup TRUNC, {4}),
  open(t, RDONLY, {5}), read(5, 9, {0}), read(3, 9, {0}), write(4, 3, 1, AnyN),
  read(5, 9, {3}), read(3, 9, {1}), unlink(t, AnyN), close(4), close(3), close(5)>>]

truncate2 == LET t == N("truncfile") IN [main |-> <<
  unlink(t, AnyN), open(t, CREATE \cup WRONLY \cup TRUNC, {3}), write(3, 2, 1, AnyN),
  open(t, WRONLY \cup TRUNC, {4}), write(3, 1, 1, Err), unlink(t, AnyN), close(3), close(4)>>]

truncate3 == LET t == N("truncfile") IN [
  main |-> <<open(t, CREATE \cup WRONLY \cup TRUNC, AnyN), close(3), fork("child")>> \o Rep(2, <<
    open(t, CREATE \cup WRONLY \cup TRUNC, {3}), write(3, 1, 1, {1}), close(3)>>) \o <<
    wait({0}), unlink(t, AnyN)>>,
  child |-> <<open(t, WRONLY, {3}), write(3, 2, 2, {2}), close(3),
              open(t, RDONLY, AnyN), read(3, 9, AnyN), close(3)>>]

opentest == [main |-> <<open(N("echo"), RDONLY, {3}), close(3),
                        open(N("doesnotexist"), RDONLY, Err)>>]

writetest == [main |-> <<open(N("small"), CREATE \cup RDWR, {3})>> \o
  Rep(2, <<write(3, 1, 1, {1}), write(3, 1, 2, {1})>>) \o <<close(3),
  open(N("small"), RDONLY, {3}), read(3, 9, {4}), got({<<1, 2, 1, 2>>}), close(3),
  unlink(N("small"), OK)>>]

writebig == [main |->
  <<open(N("big"), CREATE \cup RDWR, {3})>>
  \o [b \in 1 .. MAXFILE |-> write(3, BSIZE, b, {BSIZE})]
  \o <<close(3), open(N("big"), RDONLY, {3})>>
  \o FlattenSeq([b \in 1 .. MAXFILE |->
       <<read(3, BSIZE, {BSIZE}), got({[j \in 1 .. BSIZE |-> b]})>>])
  \o <<read(3, BSIZE, {0}), close(3), unlink(N("big"), OK)>>]

Names3 == <<"a0", "a1", "a2">>
createtest == [main |-> FlattenSeq([j \in 1 .. 3 |->
    <<open(N(Names3[j]), CREATE \cup RDWR, AnyN), close(3)>>])
  \o [j \in 1 .. 3 |-> unlink(N(Names3[j]), AnyN)]]

exectest == LET e == N("echo-ok") IN [
  main |-> <<unlink(e, AnyN), fork("child"), wait({0}), open(e, RDONLY, {3}),
             read(3, 2, {2}), unlink(e, AnyN), got({<<7, 7>>}), exit(0)>>,
  child |-> <<close(1), open(e, CREATE \cup WRONLY, {1}), exec("echo", {})>>]

sharedfd == LET s == N("sharedfd") Shared(v) == Rep(2, <<write(3, 2, v, {2})>>) IN [
  main |-> <<unlink(s, AnyN), open(s, CREATE \cup RDWR, {3}), fork("child")>> \o Shared(1) \o <<
    wait({0}), close(3), open(s, RDONLY, {3}), read(3, 9, {8}),
    got({a \in [1 .. 8 -> {1, 2}] : Cardinality({j \in 1 .. 8 : a[j] = 1}) = 4}),
    close(3), unlink(s, AnyN), exit(0)>>,
  child |-> Shared(2)]

\* Each of two children writes a file of its own (NCHILD is 4 in the code).
fourfiles == LET Child(name, v) == <<open(N(name), CREATE \cup RDWR, {3}), write(3, 2, v, {2})>>
                 Check(name, v) == <<open(N(name), RDONLY, {3}), read(3, 9, {2}), got({<<v, v>>}),
                                     close(3), unlink(N(name), AnyN)>> IN [
  main |-> <<unlink(N("f0"), AnyN), fork("c0"), unlink(N("f1"), AnyN), fork("c1"),
             wait({0}), wait({0})>> \o Check("f0", 1) \o Check("f1", 2),
  c0 |-> Child("f0", 1), c1 |-> Child("f1", 2)]

unlinkread == LET r == N("unlinkread") IN [main |-> <<
  open(r, CREATE \cup RDWR, {3}), write(3, 3, 8, AnyN), close(3), open(r, RDWR, {3}),
  unlink(r, OK), open(r, CREATE \cup RDWR, {4}), write(4, 2, 9, AnyN), close(4),
  read(3, 9, {3}), got({<<8, 8, 8>>}), write(3, 5, 1, {5}), close(3), unlink(r, AnyN)>>]

linktest == LET a == N("lf1") b == N("lf2") IN [main |-> <<
  unlink(a, AnyN), unlink(b, AnyN), open(a, CREATE \cup RDWR, {3}), write(3, 3, 1, {3}), close(3),
  link(a, b, OK), unlink(a, AnyN), open(a, RDONLY, Err), open(b, RDONLY, {3}), read(3, 9, {3}),
  close(3), link(b, b, Err), unlink(b, AnyN), link(b, a, Err), link(N("."), a, Err)>>]

bigwrite == LET Turn(sz) == <<
                  open(N("bigwrite"), CREATE \cup RDWR, {3}), write(3, sz, 1, {sz}),
                  write(3, sz, 1, {sz}), close(3), unlink(N("bigwrite"), AnyN)>> IN [
  main |-> <<unlink(N("bigwrite"), AnyN)>> \o FlattenSeq([j \in 1 .. WRITEMAX |-> Turn(j + 2)])]

bigfile == [main |-> <<unlink(N("bigfile.dat"), AnyN), open(N("bigfile.dat"), CREATE \cup RDWR, {3})>>
  \o [j \in 1 .. 3 |-> write(3, 6, j, {6})]
  \o <<close(3), open(N("bigfile.dat"), RDONLY, {3})>>
  \o FlattenSeq([j \in 1 .. 6 |-> <<read(3, 3, {3}), got({[m \in 1 .. 3 |-> (j + 1) \div 2]})>>])
  \o <<read(3, 3, {0}), close(3), unlink(N("bigfile.dat"), AnyN)>>]

(***************************************************************************)
(* usertests.c: directories.                                               *)
(***************************************************************************)
IntoRemoved(d) == <<mkdir(N(d), OK), chdir(N(d), OK), unlink(<<"..", d>>, OK)>>
iputtest == [main |-> IntoRemoved("iputdir") \o <<chdir(<<"/">>, OK)>>]
exitiputtest == [main |-> <<fork("child"), wait({0})>>, child |-> IntoRemoved("iputdir")]
openiputtest == [main |-> <<mkdir(N("oidir"), OK), fork("child"), sleep, unlink(N("oidir"), OK),
                            wait({0})>>,
                 child |-> <<open(N("oidir"), RDWR, Err)>>]
dirtest == [main |-> <<mkdir(N("dir0"), OK), chdir(N("dir0"), OK), chdir(N(".."), OK),
                       unlink(N("dir0"), OK)>>]

\* Two children, three files each: the second is deleted again.
createdelete == LET Child(n) == FlattenSeq([j \in 1 .. 3 |->
                      <<open(N(n[j]), CREATE \cup RDWR, {3}), close(3)>>]) \o <<unlink(N(n[2]), OK)>>
                    Check(n) == <<open(N(n[1]), RDONLY, {3}), close(3), open(N(n[2]), RDONLY, Err),
                                  open(N(n[3]), RDONLY, {3}), close(3)>> IN [
  main |-> <<fork("c0"), fork("c1"), wait({0}), wait({0})>>
           \o Check(<<"p0", "p1", "p2">>) \o Check(<<"q0", "q1", "q2">>)
           \o <<unlink(N("p0"), AnyN), unlink(N("q1"), AnyN)>>,
  c0 |-> Child(<<"p0", "p1", "p2">>), c1 |-> Child(<<"q0", "q1", "q2">>)]

\* Turn 0: both create C0; turn 1: both link it to C1; later one opens, one unlinks.
concreate == LET c0 == N("C0") c1 == N("C1") Make(c) == <<open(c, CREATE \cup RDWR, {3}), close(3)>>
                 Opens(c) == Rep(2, <<open(c, RDONLY, AnyN), close(3)>>)
                 Unlinks(c) == Rep(2, <<unlink(c, AnyN)>>) IN [
  main |-> <<unlink(c0, AnyN), fork("make")>> \o Make(c0) \o <<wait({0}), unlink(c1, AnyN),
    fork("link"), link(c0, c1, AnyN), wait({0}), open(N("."), RDONLY, {3}), read(3, 24, AnyN),
    got({<<".", "..", "README", "echo", "cat", "console", "C0", "C1">>}), close(3),
    fork("opens")>> \o Unlinks(c0) \o <<wait(AnyN), fork("unlinks")>> \o Opens(c1)
    \o <<wait(AnyN)>>,
  make |-> Make(c0), link |-> <<link(c0, c1, AnyN)>>,
  opens |-> Opens(c0), unlinks |-> Unlinks(c1)]

\* The calls that the pseudo-random numbers pick, in an order of ours.
linkunlink == LET x == N("x") create == <<open(x, CREATE \cup RDWR, AnyN), close(3)>> IN [
  main |-> <<unlink(x, AnyN), fork("child"), link(N("cat"), x, AnyN), unlink(x, AnyN)>>
           \o create \o <<wait(AnyN), unlink(x, AnyN)>>,
  child |-> create \o <<unlink(x, AnyN), link(N("cat"), x, AnyN)>>]

subdir == LET ff == <<"dd", "ff">> ddd == <<"dd", "dd">> ffff == <<"dd", "dd", "ffff">>
              dff == <<"dd", "dd", "ff">> under == <<"dd", "ff", "ff">> gone == <<"dd", "xx", "ff">>
              Make(path, v) == <<open(path, CREATE \cup RDWR, {3}), write(3, 2, v, AnyN), close(3)>> IN
  [main |-> <<unlink(N("ff"), AnyN), mkdir(N("dd"), OK)>> \o Make(ff, 1) \o <<
    unlink(N("dd"), Err), mkdir(<<"/", "dd", "dd">>, OK)>> \o Make(dff, 2) \o <<
    open(<<"dd", "dd", "..", "ff">>, RDONLY, {3}), read(3, 9, {2}), got({<<1, 1>>}), close(3),
    link(dff, ffff, OK), unlink(dff, OK), open(dff, RDONLY, Err),
    chdir(N("dd"), OK), chdir(<<"dd", "..", "..", "dd">>, OK),
    chdir(<<"dd", "..", "..", "..", "dd">>, OK), chdir(<<".", "..">>, OK),
    open(ffff, RDONLY, {3}), read(3, 9, {2}), got({<<2, 2>>}), close(3), open(dff, RDONLY, Err),
    open(under, CREATE \cup RDWR, Err), open(gone, CREATE \cup RDWR, Err),
    open(N("dd"), CREATE, Err), open(N("dd"), RDWR, Err), open(N("dd"), WRONLY, Err),
    link(under, <<"dd", "dd", "xx">>, Err), link(gone, <<"dd", "dd", "xx">>, Err),
    link(ff, ffff, Err), mkdir(under, Err), mkdir(gone, Err), mkdir(ffff, Err),
    unlink(gone, Err), unlink(under, Err), chdir(ff, Err), chdir(<<"dd", "xx">>, Err),
    unlink(ffff, OK), unlink(ff, OK), unlink(N("dd"), Err), unlink(ddd, OK), unlink(N("dd"), OK)>>]

fourteen == LET a == "12345678901234" b == "123456789012345" IN [main |-> <<
  mkdir(N(a), OK), mkdir(<<a, b>>, OK), open(<<b, b, b>>, CREATE, {3}), close(3),
  open(<<a, a, a>>, RDONLY, {3}), close(3), mkdir(<<a, a>>, Err), mkdir(<<b, a>>, Err),
  unlink(<<b, a>>, AnyN), unlink(<<a, a>>, AnyN), unlink(<<a, a, a>>, AnyN),
  unlink(<<b, b, b>>, AnyN), unlink(<<a, b>>, AnyN), unlink(N(a), AnyN)>>]

rmdot == [main |-> <<
  mkdir(N("dots"), OK), chdir(N("dots"), OK), unlink(N("."), Err), unlink(N(".."), Err),
  chdir(<<"/">>, OK), unlink(<<"dots", ".">>, Err), unlink(<<"dots", "..">>, Err),
  unlink(N("dots"), OK)>>]

dirfile == LET d == N("dirfile") dx == <<"dirfile", "xx">> IN [main |-> <<
  open(d, CREATE, {3}), close(3), chdir(d, Err), open(dx, RDONLY, Err), open(dx, CREATE, Err),
  mkdir(dx, Err), unlink(dx, Err), link(N("README"), dx, Err), unlink(d, OK),
  open(N("."), RDWR, Err), open(N("."), RDONLY, {3}), write(3, 1, 1, Err), close(3)>>]

iref == LET d == N("irefd") IN [main |-> Rep(2, <<
    mkdir(d, OK), chdir(d, OK), mkdir(<<>>, AnyN), link(N("README"), <<>>, AnyN),
    open(<<>>, CREATE, AnyN), close(3), open(N("xx"), CREATE, AnyN), close(3),
    unlink(N("xx"), AnyN)>>)
  \o Rep(2, <<chdir(N(".."), AnyN), unlink(d, AnyN)>>) \o <<chdir(<<"/">>, AnyN)>>]

XNames == <<"x0", "x1", "x2", "x3">>
bigdir == [main |-> <<unlink(N("bd"), AnyN), open(N("bd"), CREATE, {3}), close(3)>>
  \o [j \in 1 .. 4 |-> link(N("bd"), N(XNames[j]), OK)] \o <<unlink(N("bd"), AnyN)>>
  \o [j \in 1 .. 4 |-> unlink(N(XNames[j]), OK)]]

manywrites == LET Child(name, turns) == <<unlink(name, AnyN)>> \o Rep(turns, <<
                    open(name, CREATE \cup RDWR, {3}), write(3, WRITEMAX + 1, 1, {WRITEMAX + 1}),
                    close(3)>>) \o <<unlink(name, AnyN), unlink(name, AnyN)>> IN [
  main |-> <<fork("c0"), fork("c1"), wait({0}), wait({0}), exit(0)>>,
  c0 |-> Child(N("ba"), 1), c1 |-> Child(N("bb"), 1)]

\* The disk full of files: the second name finds no block, or too few.
Fill(name, last) == <<Else(open(name, CREATE \cup RDWR, {3}), 4 + last),
                      Else(write(3, BSIZE, 1, {BSIZE}), 2), goto(-1), close(3)>>
fsfull == [main |-> Fill(N("f0000"), 8) \o Fill(N("f0001"), 4) \o Fill(N("f0002"), 0)
  \o <<unlink(N("f0002"), AnyN), unlink(N("f0001"), AnyN), unlink(N("f0000"), AnyN)>>]

Zs == <<"zz00", "zz01", "zz02", "zz03", "zz04", "zz05", "zz06">>
Make(name) == <<unlink(N(name), AnyN), open(N(name), CREATE \cup RDWR \cup TRUNC, AnyN), close(3)>>
Unlinks == [j \in 1 .. Len(Zs) |-> unlink(N(Zs[j]), AnyN)]
diskfull == [main |-> <<unlink(N("diskfulldir"), AnyN)>> \o Fill(N("big0"), 8) \o Fill(N("big1"), 4)
  \o Fill(N("big2"), 0) \o FlattenSeq([j \in 1 .. Len(Zs) |-> Make(Zs[j])])
  \o <<mkdir(N("diskfulldir"), Err), unlink(N("diskfulldir"), AnyN)>>
  \o Unlinks \o <<unlink(N("big0"), AnyN), unlink(N("big1"), AnyN), unlink(N("big2"), AnyN)>>]
outofinodes == [main |-> FlattenSeq([j \in 1 .. Len(Zs) |-> Make(Zs[j])]) \o Unlinks]

(***************************************************************************)
(* usertests.c: processes and pipes.                                       *)
(***************************************************************************)
Forever == <<goto(0)>>
Leaves(x) == <<exit(x)>>

pipe1 == [main |-> <<pipe(OK), fork("child"), close(4), read(3, 1, {1}),
                     Else(read(3, 2, 1 .. 2), 2), goto(-1), got({<<1, 1, 1, 2>>}), close(3),
                     wait({0})>>,
          child |-> <<close(3), write(4, 3, 1, {3}), write(4, 1, 2, {1})>>]

killstatus == [main |-> Rep(2, <<fork("child"), sleep, kill("child"), wait(Err)>>) \o Leaves(0),
               child |-> Forever]

preempt == [main |-> <<fork("c1"), fork("c2"), pipe(AnyN), fork("c3"), close(4), read(3, 9, {1}),
                       close(3), kill("c1"), kill("c2"), kill("c3"),
                       wait(AnyN), wait(AnyN), wait(AnyN)>>,
            c1 |-> Forever, c2 |-> Forever,
            c3 |-> <<close(3), write(4, 1, 1, {1}), close(4)>> \o Forever]

exitwait == [main |-> <<fork("c1"), wait({1}), fork("c2"), wait({2})>>,
             c1 |-> Leaves(1), c2 |-> Leaves(2)]
reparent == [main |-> Rep(2, <<fork("child"), wait(AnyN)>>) \o Leaves(0),
             child |-> <<fork("orphan"), exit(0)>>, orphan |-> Leaves(0)]
twochildren == [main |-> Rep(2, <<fork("child"), fork("child"), wait(AnyN), wait(AnyN)>>),
                child |-> Leaves(0)]
forkfork == [main |-> <<fork("child"), fork("child"), wait({0}), wait({0})>>,
             child |-> <<fork("leaf"), wait(AnyN), exit(0)>>, leaf |-> Leaves(0)]
reparent2 == [main |-> <<fork("child"), wait(AnyN), exit(0)>>,
              child |-> <<fork("leaf"), fork("leaf"), exit(0)>>, leaf |-> Leaves(0)]

\* Every child forks until the table is full or the file is there.
forkforkfork == LET stop == N("stopforking")
                    Stops == <<open(stop, CREATE \cup RDWR, AnyN), close(3)>> IN [
  main |-> <<unlink(stop, AnyN), fork("child"), sleep>> \o Stops
           \o <<wait(AnyN), sleep>>,
  child |-> <<Else(open(stop, RDONLY, Err), 5), Else(fork("child"), 2), goto(-2)>> \o Stops
            \o <<exit(0)>>]

\* fork until it fails, then wait for all of them.
forktest == [main |-> <<Else(fork("leaf"), 2), goto(-1), Else(wait(AnyN), 2), goto(-1)>>,
             leaf |-> Leaves(0)]

(***************************************************************************)
(* usertests.c: memory.                                                    *)
(***************************************************************************)
mem == [main |-> <<fork("child"), wait({-1, 0})>>,
        child |-> <<Else(sbrk(1, {1}), 2), goto(-1), sbrk(-1, {1}), sbrk(1, {1})>>]
sbrkbasic == [main |-> <<fork("much"), wait({-1, 0}), sbrk(1, {1}), touch(1), fork("child"),
                         sbrk(1, {1}), wait({0})>>,
              much |-> <<Else(sbrk(NPAGE, {1}), 2), touch(NPAGE), exit(0)>>,
              child |-> <<sbrk(1, {1})>>]
sbrkmuch == [main |-> <<sbrk(3, {1}), touch(1), touch(2), touch(3), sbrk(-1, {1}), sbrk(1, {1}),
                        touch(3), sbrk(-3, {1})>>]
Faults == <<touch(Kernel), exit(1)>>
Faulting == [main |-> <<fork("child"), wait(Err)>>, child |-> Faults]
kernmem == Faulting
MAXVAplus == Faulting
stacktest == Faulting
textwrite == Faulting
sbrkfail == [main |-> <<pipe(OK), fork("c1"), read(3, 1, AnyN), fork("c2"), read(3, 1, AnyN),
                        sbrk(1, {1}), kill("c1"), wait(AnyN), kill("c2"), wait(AnyN),
                        fork("much"), wait({-1, 2})>>,
             c1 |-> <<sbrk(3, AnyN), write(4, 1, 1, AnyN), sleep, goto(-1)>>,
             c2 |-> <<sbrk(3, AnyN), write(4, 1, 1, AnyN), sleep, goto(-1)>>,
             much |-> <<sbrk(NPAGE, AnyN), touch(NPAGE), exit(1)>>]
sbrkarg == [main |-> <<sbrk(1, AnyN), open(N("sbrk"), CREATE \cup WRONLY, {3}),
                       unlink(N("sbrk"), AnyN), write(3, 2, 1, {2}), close(3),
                       sbrk(1, AnyN), pipe(OK)>>]
bsstest == [main |-> <<touch(0)>>]
bigargtest == LET b == N("bigarg-ok") IN [
  main |-> <<unlink(b, AnyN), fork("child"), wait({0}), open(b, RDONLY, {3}), close(3)>>,
  child |-> <<[exec("echo", AnyN) EXCEPT !.c.fits = FALSE], open(b, CREATE, AnyN), close(3), exit(0)>>]
sbrkbugs == [main |-> <<fork("all"), wait(AnyN), fork("some"), wait(AnyN), fork("little"),
                        wait(AnyN), exit(0)>>,
             all |-> <<sbrk(-1, AnyN), exit(0)>>, some |-> <<sbrk(0, AnyN), exit(0)>>,
             little |-> <<sbrk(2, AnyN), sbrk(0, AnyN), exit(0)>>]
sbrklast == [main |-> <<sbrk(1, AnyN), sbrk(1, AnyN), touch(2), open(N("x"), CREATE \cup RDWR, {3}),
                        write(3, 1, 1, AnyN), close(3), open(N("x"), RDWR, {3}), read(3, 1, AnyN),
                        got({<<1>>})>>]
sbrk8000 == [main |-> <<sbrk(-2 * NPAGE, AnyN), touch(0)>>]
execout == [main |-> <<fork("c0"), wait(AnyN), fork("c1"), wait(AnyN), exit(0)>>,
            c0 |-> <<Else(sbrk(1, {1}), 2), goto(-1), close(1), exec("echo", AnyN), exit(0)>>,
            c1 |-> <<Else(sbrk(1, {1}), 2), goto(-1), sbrk(-1, AnyN), sbrk(-1, AnyN), close(1),
                     exec("echo", AnyN), exit(0)>>]

\* drivetests: what countfree counts before and after is the same; here around forks.
Free(n) == <<pipe(OK), fork("count"), close(4), Else(read(3, 1, {1}), 2), goto(-1),
             got({[j \in 1 .. n |-> 9]}), close(3), wait(AnyN)>>
countfree == [main |-> Free(NPAGE - 8) \o twochildren.main \o Free(NPAGE - 8),
              child |-> Leaves(0),
              count |-> <<close(3), Else(sbrk(1, {1}), 3), write(4, 1, 9, {1}), goto(-2), exit(0)>>]

(***************************************************************************)
(* Other programs.                                                         *)
(***************************************************************************)
\* runcmd of the shell.
RunExec(name) == <<exec(name, AnyN), exit(0)>>
RunRedir(fd, file, mode) == <<close(fd), open(file, mode, {fd})>>
RunPipe(left, right) == <<pipe(OK), fork(left), fork(right), close(3), close(4),
                          wait(AnyN), wait(AnyN), exit(0)>>
PipeEnd(fd, end) == <<close(fd), dup(end, {fd}), close(3), close(4)>>
RunList(left) == <<fork(left), wait(AnyN)>>
RunBack(cmd) == <<fork(cmd), exit(0)>>

\* echo | cat > out; the pipe ends when every copy of its write end is closed.
sh_pipe == LET out == N("out") IN [
  main |-> <<fork("line"), wait({0}), open(out, RDONLY, {3}), read(3, 9, {2}),
             got({<<7, 7>>}), close(3), unlink(out, OK)>>,
  line |-> RunPipe("left", "right"),
  left |-> PipeEnd(1, 4) \o RunExec("echo"),
  right |-> PipeEnd(0, 3) \o RunRedir(1, out, CREATE \cup WRONLY \cup TRUNC) \o RunExec("cat")]
\* echo | nosuchprogram
sh_broken == [main |-> <<fork("line"), wait({0})>>, line |-> RunPipe("left", "right"),
              left |-> PipeEnd(1, 4) \o RunExec("echo"),
              right |-> PipeEnd(0, 3) \o RunExec("nosuchprogram")]
\* nosuchprogram; echo > out &
sh_list == LET out == N("out") IN [
  main |-> <<fork("line"), wait({0}), sleep>>,
  line |-> RunList("none") \o RunBack("back"),
  none |-> RunExec("nosuchprogram"),
  back |-> RunRedir(1, out, CREATE \cup WRONLY \cup TRUNC) \o RunExec("echo")]

stressfs == LET Body(name) == <<open(name, CREATE \cup RDWR, AnyN), write(3, 2, 1, {2}), close(3),
                                open(name, RDONLY, {3}), read(3, 2, {2}), close(3), wait(AnyN \cup {NoChild}), exit(0)>> IN [
  main |-> <<fork("next")>> \o Body(N("stressfs0")), next |-> Body(N("stressfs1"))]

\* Small commands, the way the shell runs them one after the other.
stat(name) == <<open(N(name), RDONLY, {4}), fstat(4, OK), close(4)>>
ls == LET names == <<".", "..", "README", "echo", "cat", "console", "d">>
          Shown(name) == <<read(3, 1, {1}), got({<<name>>})>> \o stat(name)
                         \o <<got({<<type, n, sz>> : type \in {"file", "dir", "dev"}, n \in 1 .. 2,
                                                    sz \in 0 .. 8})>> IN
  <<open(N("."), RDONLY, {3}), fstat(3, OK), got({<<"dir", 2, 8>>})>>
  \o FlattenSeq([j \in 1 .. Len(names) |-> Shown(names[j])])
  \o <<read(3, 1, {1}), Else(read(3, 1, {1}), 2), goto(-1), close(3), exit(0)>>
wc(path) == <<open(path, RDONLY, {3}), Else(read(3, 1, {1}), 2), goto(-1), close(3), exit(0)>>
ln(old, new) == <<link(old, new, OK), exit(0)>>
rm(path) == <<unlink(path, OK), exit(0)>>
zombie == <<fork("leaf"), sleep, exit(0)>>
commands == LET dx == <<"d", "x">> Command(part) == <<fork(part), wait({0})>> IN [
  main |-> Command("mkdir") \o Command("ls") \o Command("ln") \o Command("wc")
           \o Command("rm") \o Command("rmdir") \o Command("zombie") \o Command("greets"),
  mkdir |-> <<mkdir(N("d"), OK), exit(0)>>, ls |-> ls, ln |-> ln(N("README"), dx), wc |-> wc(dx),
  rm |-> rm(dx), rmdir |-> rm(N("d")), zombie |-> zombie, greets |-> RunExec("echo"), leaf |-> Leaves(0)]

\* grind.c.  The turns of go; fd is 3 once turn 5 or 6 has opened it.
grind == LET a == N("a") b == N("b") RWC == CREATE \cup RDWR
             Touch(path) == <<open(path, RWC, AnyN), close(3)>> IN <<
  Touch(<<"grindir", "..", "a">>), Touch(<<"grindir", "..", "grindir", "..", "b">>),
  <<unlink(<<"grindir", "..", "a">>, AnyN)>>,
  <<chdir(N("grindir"), OK), unlink(<<"..", "b">>, AnyN), chdir(<<"/">>, AnyN)>>,
  <<close(3), open(<<"/", "grindir", "..", "a">>, RWC, AnyN)>>,
  <<close(3), open(<<"/", ".", "grindir", ".", "..", "b">>, RWC, AnyN)>>,
  <<write(3, 2, 1, AnyN)>>, <<read(3, 2, AnyN)>>,
  <<mkdir(<<"grindir", "..", "a">>, AnyN)>> \o Touch(<<"a", "..", "a", ".", "a">>)
    \o <<unlink(<<"a", "a">>, AnyN)>>,
  <<mkdir(<<"/", "..", "b">>, AnyN)>> \o Touch(<<"grindir", "..", "b", "b">>)
    \o <<unlink(<<"b", "b">>, AnyN)>>,
  <<unlink(b, AnyN), link(<<"..", "grindir", ".", "..", "a">>, <<"..", "b">>, AnyN)>>,
  <<unlink(<<"..", "grindir", "..", "a">>, AnyN),
    link(<<"..", ".", "b">>, <<"/", "grindir", "..", "a">>, AnyN)>>,
  <<fork("leaf"), wait(AnyN)>>, <<fork("forks"), wait(AnyN)>>,
  <<Else(sbrk(1, {1}), 2)>>, <<sbrk(-1, AnyN)>>,
  <<fork("creates"), chdir(<<"..", "grindir", "..">>, OK), kill("creates"), wait(AnyN)>>,
  <<fork("suicide"), wait(AnyN)>>,
  <<pipe(OK), fork("pipes"), close(3), close(4), wait(AnyN)>>,
  <<fork("removes"), wait(AnyN)>>,
  <<unlink(N("c"), AnyN), open(N("c"), RWC, {3}), write(3, 1, 1, {1}), fstat(3, OK),
    got({<<"file", n, 1>> : n \in 0 .. 1}), close(3), unlink(N("c"), AnyN)>>,
  <<pipe(OK), pipe(OK), fork("echo1"), fork("cat2"), close(3), close(4), close(6),
    read(5, 1, AnyN), read(5, 1, AnyN), close(5), wait({0}), wait({0}), got({<<7, 7>>})>> >>

go(turns) == <<mkdir(N("grindir"), AnyN), chdir(N("grindir"), OK), chdir(<<"/">>, AnyN)>>
             \o FlattenSeq([j \in 1 .. Len(turns) |-> grind[turns[j]]])

\* What the children of go do; a fork in a child may fail.
GoChildren == LET MayFork(part) == Else(fork(part), 1)
                  Pipes == <<write(4, 1, 1, {1}), read(3, 1, {1}), exit(0)>> IN [
  leaf |-> Leaves(0),
  forks |-> <<MayFork("forks1"), MayFork("leaf"), exit(0)>>, forks1 |-> <<MayFork("leaf"), exit(0)>>,
  creates |-> <<open(N("a"), CREATE \cup RDWR, AnyN), close(3), exit(0)>>,
  suicide |-> <<kill("suicide"), exit(0)>>,
  pipes |-> <<MayFork("pipes1"), MayFork("pipes2")>> \o Pipes,
  pipes1 |-> <<MayFork("pipes2")>> \o Pipes, pipes2 |-> Pipes,
  removes |-> <<unlink(N("a"), AnyN), mkdir(N("a"), AnyN), chdir(N("a"), AnyN),
                unlink(<<"..", "a">>, AnyN), open(N("x"), CREATE \cup RDWR, AnyN),
                unlink(N("x"), AnyN), exit(0)>>,
  echo1 |-> <<close(5), close(6), close(3), close(1), dup(4, {1}), close(4),
              [exec("echo", {}) EXCEPT !.c.path = <<"grindir", "..", "echo">>], exit(2)>>,
  cat2 |-> <<close(4), close(5), close(0), dup(3, {0}), close(3), close(1), dup(6, {1}), close(6),
             [exec("cat", {}) EXCEPT !.c.path = <<"/", "cat">>], exit(6)>>]

\* iter: two processes that make their turns at once; a message of go is a failure.
iter(turnsA, turnsB) == GoChildren @@
  [main |-> <<unlink(N("a"), AnyN), unlink(N("b"), AnyN), fork("goA"), fork("goB"),
              Else(wait({0}), 3), wait({0}), exit(0),
              kill("goA"), kill("goB"), wait(AnyN), exit(1)>>,
   goA |-> go(turnsA), goB |-> go(turnsB)]

Tests == [
  copyin |-> copyin, copyout |-> copyout, copyinstr1 |-> copyinstr1, copyinstr2 |-> copyinstr2,
  copyinstr3 |-> copyinstr3, rwsbrk |-> rwsbrk, truncate1 |-> truncate1, truncate2 |-> truncate2,
  truncate3 |-> truncate3, openiput |-> openiputtest, exitiput |-> exitiputtest, iput |-> iputtest,
  opentest |-> opentest, writetest |-> writetest, writebig |-> writebig, createtest |-> createtest,
  dirtest |-> dirtest, exectest |-> exectest, pipe1 |-> pipe1, killstatus |-> killstatus,
  preempt |-> preempt, exitwait |-> exitwait, reparent |-> reparent, twochildren |-> twochildren,
  forkfork |-> forkfork, forkforkfork |-> forkforkfork, reparent2 |-> reparent2, mem |-> mem,
  sharedfd |-> sharedfd, fourfiles |-> fourfiles, createdelete |-> createdelete,
  unlinkread |-> unlinkread, linktest |-> linktest, concreate |-> concreate,
  linkunlink |-> linkunlink, subdir |-> subdir, bigwrite |-> bigwrite, bigfile |-> bigfile,
  fourteen |-> fourteen, rmdot |-> rmdot, dirfile |-> dirfile, iref |-> iref, forktest |-> forktest,
  sbrkbasic |-> sbrkbasic, sbrkmuch |-> sbrkmuch, kernmem |-> kernmem, MAXVAplus |-> MAXVAplus,
  sbrkfail |-> sbrkfail, sbrkarg |-> sbrkarg, validatetest |-> validatetest, bsstest |-> bsstest,
  bigargtest |-> bigargtest, argptest |-> argptest, stacktest |-> stacktest,
  textwrite |-> textwrite, pgbug |-> pgbug, sbrkbugs |-> sbrkbugs, sbrklast |-> sbrklast,
  sbrk8000 |-> sbrk8000, badarg |-> badarg, bigdir |-> bigdir, manywrites |-> manywrites,
  badwrite |-> badwrite, execout |-> execout, fsfull |-> fsfull, diskfull |-> diskfull,
  outofinodes |-> outofinodes, countfree |-> countfree, sh_pipe |-> sh_pipe, sh_broken |-> sh_broken,
  sh_list |-> sh_list,
  stressfs |-> stressfs, commands |-> commands,
  grind_dirs |-> iter(<<1, 9, 3>>, <<10, 4, 11>>), grind_files |-> iter(<<12, 5, 7>>, <<2, 21>>),
  grind_procs |-> iter(<<13, 15, 16, 18>>, <<17>>), grind_removed |-> iter(<<20>>, <<6, 8>>),
  grind_forks |-> iter(<<>>, <<14>>), grind_pipes |-> iter(<<>>, <<19>>),
  grind_echo |-> GoChildren @@ [main |-> go(<<22>>)]]

(***************************************************************************)
(* The machine.                                                            *)
(***************************************************************************)
NoProc == [state |-> "free", parent |-> 0, part |-> "", i |-> 1, x |-> 0, sz |-> 0, acc |-> <<>>]
uvars == <<test, u>>

Script(p) == IF u[p].part \in DOMAIN Programs THEN Programs[u[p].part] ELSE Tests[test][u[p].part]
\* The instruction a program is at.  A script that has failed leaves with status 1,
\* one that is through with 0.
Ins(script, i) == CASE i = 0 -> exit(1) [] i > Len(script) -> exit(0) [] OTHER -> script[i]

FreePages == NPAGE - MapThenSumSet(LAMBDA p : IF u[p].state = "free" THEN 0 ELSE u[p].sz + 1, Proc)
Children(p) == {q \in Proc : u[q].state # "free" /\ u[q].parent = p}
Ready(p) == u[p].state = "run" /\ At(p, "idle")

\* The program goes on with result r of its instruction.
Went(p, ins, r) ==
  [u[p] EXCEPT !.i = IF r \in ins.want THEN @ + 1 ELSE IF ins.to # 0 THEN @ + ins.to ELSE 0]
Goes(p, ins, r) == u' = [u EXCEPT ![p] = Went(p, ins, r)] /\ UNCHANGED <<vars, test>>

StartExit(p, x) == Enter(p, [sys |-> "exit"]) /\ u' = [u EXCEPT ![p].x = x] /\ UNCHANGED test

\* usertrap: a killed process, or one without memory to run in, leaves with -1.
Trapped(p) ==
  /\ Ready(p)
  /\ p \in k.killed \/ u[p].sz = 0
  /\ StartExit(p, -1)

Runs(p) == Ready(p) /\ p \notin k.killed /\ u[p].sz > 0

Calls(p, ins) == Runs(p) /\ ins.op = "sys" /\ Enter(p, ins.c) /\ UNCHANGED uvars

\* What a read returned, without empty directory entries.
Shown(data) == [j \in DOMAIN data |-> IF data[j][2] = "" THEN data[j][1] ELSE data[j][2]]
Seen(data) == Shown(SelectSeq(data, LAMBDA d : d[1] # 0))

Returns(p, ins) ==
  /\ u[p].state = "run" /\ Return(p)
  /\ UNCHANGED test
  /\ LET w == Went(p, ins, f[p].ret.n)
     IN u' = [u EXCEPT ![p] =
                IF ins.c.sys = "exec" /\ f[p].ret.n = 0 /\ ins.part # ""
                THEN IF FreePages < 2 THEN Went(p, ins, -1)
                     ELSE [u[p] EXCEPT !.part = ins.part, !.i = 1, !.sz = 1]
                ELSE IF ins.c.sys = "read" THEN [w EXCEPT !.acc = @ \o Seen(f[p].ret.data)]
                ELSE IF ins.c.sys = "fstat" THEN [w EXCEPT !.acc = @ \o Shown(f[p].ret.data)]
                ELSE w]

Forks(p, ins) ==
  /\ Runs(p) /\ ins.op = "fork"
  /\ LET free == {q \in 1 .. NPROC[test] : u[q].state = "free"}
         q == Min(free)
     IN IF free = {} \/ FreePages < u[p].sz + 1 THEN Goes(p, ins, -1)
        ELSE /\ Fork(p, q)
             /\ u' = [u EXCEPT ![p] = Went(p, ins, 1),
                               ![q] = [NoProc EXCEPT !.state = "run", !.parent = p, !.x = -2,
                                          !.part = ins.part, !.sz = u[p].sz]]
             /\ UNCHANGED test

ReparentedSlip(c) == c
Reparented(c) == [c EXCEPT !.parent = 1]

\* The end of exit: the children go to init, the parent may collect the status.
Dies(p) ==
  /\ Gone(p)
  /\ u' = [q \in Proc |-> IF q = p THEN [u[q] EXCEPT !.state = "zombie"]
                          ELSE IF q \in Children(p) THEN Reparented(u[q]) ELSE u[q]]
  /\ UNCHANGED test

Waits(p, ins) ==
  /\ Runs(p) /\ ins.op = "wait"
  /\ IF Children(p) = {} THEN Goes(p, ins, NoChild)
     ELSE LET dead == {q \in Children(p) : u[q].state = "zombie"}
              q == Min(dead)
          IN /\ dead # {}
             /\ u' = [u EXCEPT ![p] = Went(p, ins, u[q].x), ![q] = NoProc]
             /\ UNCHANGED <<vars, test>>

Kills(p, ins) ==
  /\ Runs(p) /\ ins.op = "kill"
  /\ u' = [u EXCEPT ![p] = Went(p, ins, 0)]
  /\ k' = [k EXCEPT !.killed = @ \cup {q \in Children(p) \cup {p} : u[q].part = ins.part}]
  /\ UNCHANGED <<ofile, cwd, f, test>>

\* growproc: shrinking below 0 wraps around and changes nothing.
Grown(sz, n) == IF sz + n < 0 THEN sz ELSE sz + n
Sbrks(p, ins) ==
  /\ Runs(p) /\ ins.op = "sbrk"
  /\ IF ins.n > FreePages THEN Goes(p, ins, -1)
     ELSE /\ u' = [u EXCEPT ![p] = [Went(p, ins, 1) EXCEPT !.sz = Grown(@, ins.n)]]
          /\ UNCHANGED <<vars, test>>

\* A load or store: beyond the process's memory the kernel ends it.
Touches(p, ins) ==
  /\ Runs(p) /\ ins.op = "touch"
  /\ IF ins.n < u[p].sz THEN Goes(p, ins, 0) ELSE StartExit(p, -1)

Local(p, ins) ==
  /\ Runs(p)
  /\ \/ ins.op = "sleep" /\ Goes(p, ins, 0)
     \/ ins.op = "goto" /\ ins.to # 0 /\ Goes(p, ins, 0)
     \/ /\ ins.op = "got"
        /\ u' = [u EXCEPT ![p] = [Went(p, ins, u[p].acc) EXCEPT !.acc = <<>>]]
        /\ UNCHANGED <<vars, test>>
     \/ ins.op = "exit" /\ StartExit(p, ins.n)

UserStep(p, ins) ==
  \/ Calls(p, ins) \/ Returns(p, ins) \/ Forks(p, ins) \/ Waits(p, ins) \/ Kills(p, ins)
  \/ Sbrks(p, ins) \/ Touches(p, ins) \/ Local(p, ins)

\* init is through with everything.
Halted == Ready(1) /\ u[1].i = Len(init)

Next ==
  \/ \E p \in Proc :
       \/ Inside(p) /\ UNCHANGED uvars
       \/ Trapped(p)
       \/ Dies(p)
       \/ u[p].state = "run" /\ \E ins \in {Ins(Script(p), u[p].i)} : UserStep(p, ins)
  \/ Halted /\ UNCHANGED <<vars, uvars>>

Init ==
  /\ Booted(Mkfs, 1)
  /\ test \in Run
  /\ u = [p \in Proc |-> IF p = 1 THEN [NoProc EXCEPT !.state = "run", !.part = "init", !.sz = 1, !.x = -2]
                         ELSE NoProc]

Spec == Init /\ [][Next]_<<vars, uvars>>

\* The tests pass whatever the order of the steps of the processes they start: the
\* process that drives them never leaves with status 1 (run, "FAILED"), and the
\* kernel does not panic.
TestsPass == k.panic = "" /\ \A p \in Proc : u[p].part = "run" => u[p].x \in {-2, 0}

\* After a test everything it used is given back: no open file but the console, no
\* reference to an inode but those of init, no process, every page (countfree).
AllReleased ==
  Halted => /\ \A p \in Proc \ {1} : u[p] = NoProc
            /\ \A x \in 1 .. NFILE : k.file[x].ref = IF x = ofile[1][0] THEN 3 ELSE 0
            /\ \A i \in Inum : k.ref[i] = IF i \in {ROOTINO, k.file[ofile[1][0]].ip} THEN 1 ELSE 0
            /\ \A x \in 1 .. NFILE : ~k.pipe[x].readopen /\ ~k.pipe[x].writeopen
=============================================================================

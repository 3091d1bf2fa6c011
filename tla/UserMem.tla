------------------------------ MODULE UserMem ------------------------------
(***************************************************************************)
(* Physical pages and user address spaces of xv6 (kernel/kalloc.c,         *)
(* kernel/vm.c) as processes and threads use them: fork, exec, sbrk, exit  *)
(* and wait, thread_create, thread_exit and thread_join (kernel/proc.c,    *)
(* kernel/exec.c).                                                         *)
(*                                                                         *)
(* A thread has a page table of its own that maps its leader's pages and   *)
(* one private stack page.  A step is what the code does between two       *)
(* points where another member of the group can tell the difference:       *)
(* growproc and thread_create hold no lock that the other takes.           *)
(* Addresses are counted in units of which PGSIZE make a page.             *)
(***************************************************************************)
EXTENDS Integers, FiniteSets

CONSTANTS NPROC,    \* slots of the process table; slot 1 is initproc
          NPages,   \* pages of physical memory
          PGSIZE,   \* units of an address per page
          MaxPages, \* bound: pages of an address space below the thread stacks
          Image,    \* sizes of the programs exec can load
          Sbrk,     \* arguments of sbrk
          Calls,    \* the system calls programs make
          Risks     \* what programs are not careful about, see below

\* overlap: calls that change one address space overlap; orphan: a leader exits or
\* execs with threads not joined; wait: a parent waits for a thread; fork, exec,
\* exit: a thread makes that call; heap: sbrk gives back more than it has got;
\* shrink: sbrk gives memory back while there are threads.
ASSUME UserMemAssumption ==
  /\ NPROC \in Nat \ {0} /\ NPages \in Nat \ 0..3 /\ PGSIZE \in Nat \ {0} /\ MaxPages \in Nat \ 0..2
  /\ Image \subseteq Nat \ {0} /\ Sbrk \subseteq Int \ {0}
  /\ Calls \subseteq {"fork", "exec", "sbrk", "exit", "wait",
                      "thread_create", "thread_exit", "thread_join"}
  /\ Risks \subseteq {"overlap", "orphan", "wait", "fork", "exec", "exit", "heap", "shrink"}

Slot == 1..NPROC
initproc == 1
Page == 1..NPages
VA == 0..MaxPages - 1   \* user pages, by page number
None == 0

VARIABLES free,    \* kmem.freelist
          state,   \* state[p]; "LIVE" stands for the states of a process that runs
          parent, father,
          kpage,   \* kpage[p]: its trapframe and the pages of its page table
          map,     \* map[p][v]: the page its page table has at v, or None
          guard,   \* guard[p]: the page numbers mapped without PTE_U
          stack,   \* stack[p]: a thread's private stack page, or None
          sz,      \* sz[p]
          pc,      \* pc[p]: where p's call is
          oldsz, newsz, \* growproc's locals
          np,      \* thread_create's local
          panic    \* the message of panic, or ""

table == <<state, parent, father, kpage, map, guard, stack, sz>>
frame == <<pc, oldsz, newsz, np>>
vars == <<free, table, frame, panic>>

PGROUNDUP(a) == (a + PGSIZE - 1) \div PGSIZE   \* as a page number

\* The page numbers of [from, to).
NewPages(from, to) == {v \in VA : PGROUNDUP(from) <= v /\ v * PGSIZE < to}
Below(size) == {v \in VA : v < PGROUNDUP(size)}

Mapped(p) == {v \in VA : map[p][v] # None}
PagesOf(p, vs) == {map[p][v] : v \in vs} \ {None}

\* kalloc pops the free list; which free page it returns makes no difference.
kalloc(k) ==
  CHOOSE x \in free : Cardinality({y \in free : y < x}) = k

\* kalloc for every page number of vs, after skip other pages.
Filled(vs, skip) ==
  [v \in VA |-> IF v \in vs THEN kalloc(skip + Cardinality({w \in vs : w < v})) ELSE None]

Enough(k) == Cardinality(free) >= k
Taken(k) == {kalloc(j) : j \in 0..k - 1}

NoMap == [v \in VA |-> None]

\* userinit, and initcode's exec("/init"): a page of program, a guard page, a stack
\* page.
Init ==
  /\ free = 5..NPages
  /\ state = [p \in Slot |-> IF p = initproc THEN "LIVE" ELSE "UNUSED"]
  /\ parent = [p \in Slot |-> None]
  /\ father = [p \in Slot |-> None]
  /\ kpage = [p \in Slot |-> IF p = initproc THEN 1 ELSE None]
  /\ map = [p \in Slot |-> [v \in VA |-> IF p = initproc /\ v < 3 THEN v + 2 ELSE None]]
  /\ guard = [p \in Slot |-> IF p = initproc THEN {1} ELSE {}]
  /\ stack = [p \in Slot |-> None]
  /\ sz = [p \in Slot |-> IF p = initproc THEN 3 * PGSIZE ELSE 0]
  /\ pc = [p \in Slot |-> "user"]
  /\ oldsz = [p \in Slot |-> 0]
  /\ newsz = [p \in Slot |-> 0]
  /\ np = [p \in Slot |-> None]
  /\ panic = ""

\* group_leader
Leader(p) == IF father[p] # None THEN father[p] ELSE p
Group(L) == {q \in Slot : state[q] # "UNUSED" /\ Leader(q) = L}

\* The members that growproc's scans find beside the leader itself.
Threads(L) == {q \in Slot : father[q] = L /\ kpage[q] # None}

\* Nobody of the group is in a call that changes the address space.
Quiet(L) == \A q \in Group(L) : pc[q] = "user"

Careful(risk, cond) == risk \in Risks \/ cond

\* p is there, and the kernel has not panicked.
At(p, where) == panic = "" /\ pc[p] = where

\* A call begins; init.c only forks and waits.
Enter(p, call) ==
  /\ At(p, "user") /\ state[p] = "LIVE"
  /\ call \in Calls
  /\ p = initproc => call \in {"fork", "wait"}

Panic(why) ==
  /\ panic' = why
  /\ UNCHANGED <<free, table, frame>>
-----------------------------------------------------------------------------
(* Giving an address space back. *)

\* proc_freepagetable(p, sz): uvmunmap wants every page below sz mapped, freewalk
\* wants none mapped above it.
CanFree(p) == Mapped(p) = Below(sz[p]) /\ stack[p] = None

\* Slip: the pages of the process are not freed.
FreedBySlip(p) == {kpage[p]}

\* What freeproc gives to kfree.
FreedBy(p) == {kpage[p]} \cup PagesOf(p, Below(sz[p]))

\* freeproc_thread(p): unmaps what is mapped below sz, frees none of it.
CanFreeThread(p) == Mapped(p) \subseteq Below(sz[p]) /\ stack[p] = None

\* Slip: the shared pages are freed with the thread.
FreedByThreadSlip(p) == {kpage[p]} \cup PagesOf(p, Below(sz[p]))

\* What freeproc_thread gives to kfree.
FreedByThread(p) == {kpage[p]}

\* The slot is UNUSED again.
Clear(p) ==
  /\ state' = [state EXCEPT ![p] = "UNUSED"]
  /\ parent' = [parent EXCEPT ![p] = None]
  /\ father' = [father EXCEPT ![p] = None]
  /\ kpage' = [kpage EXCEPT ![p] = None]
  /\ map' = [map EXCEPT ![p] = NoMap]
  /\ guard' = [guard EXCEPT ![p] = {}]
  /\ stack' = [stack EXCEPT ![p] = None]
  /\ sz' = [sz EXCEPT ![p] = 0]
-----------------------------------------------------------------------------
(* Processes. *)

\* Slip: the child maps the parent's pages.
CopiedSlip(p) == map[p]

\* uvmcopy: new pages wherever the parent has one below sz.
Copied(p) == Filled(Below(sz[p]), 1)

\* fork: allocproc and uvmcopy.  When memory runs out everything is undone.
Fork(p) ==
  /\ Enter(p, "fork")
  /\ Careful("fork", father[p] = None) /\ Careful("overlap", Quiet(Leader(p)))
  /\ \/ /\ ~(Below(sz[p]) \subseteq Mapped(p))
        /\ Panic("uvmcopy: page not present")
     \/ /\ Below(sz[p]) \subseteq Mapped(p)
        /\ Enough(1 + Cardinality(Below(sz[p])))
        /\ \E q \in Slot :
             /\ state[q] = "UNUSED"
             /\ state' = [state EXCEPT ![q] = "LIVE"]
             /\ parent' = [parent EXCEPT ![q] = p]
             /\ kpage' = [kpage EXCEPT ![q] = kalloc(0)]
             /\ map' = [map EXCEPT ![q] = Copied(p)]
             /\ guard' = [guard EXCEPT ![q] = guard[p]]
             /\ sz' = [sz EXCEPT ![q] = sz[p]]
        /\ free' = free \ Taken(1 + Cardinality(Below(sz[p])))
        /\ UNCHANGED <<father, stack, frame, panic>>

\* exec: the new image, a guard page and a stack page; then the old one is freed.
Exec(p, size) ==
  LET top == PGROUNDUP(size) + 2 IN
  /\ Enter(p, "exec")
  /\ top <= MaxPages
  /\ Careful("exec", father[p] = None)
  /\ Careful("orphan", Group(Leader(p)) = {p}) /\ Careful("overlap", Quiet(Leader(p)))
  /\ Enough(top)
  /\ \/ /\ ~CanFree(p)
        /\ Panic("freewalk: leaf")
     \/ /\ CanFree(p)
        /\ map' = [map EXCEPT ![p] = Filled(0..top - 1, 0)]
        /\ guard' = [guard EXCEPT ![p] = {top - 2}]
        /\ sz' = [sz EXCEPT ![p] = top * PGSIZE]
        /\ free' = (free \ Taken(top)) \cup PagesOf(p, Below(sz[p]))
        /\ UNCHANGED <<state, parent, father, kpage, stack, frame, panic>>

\* exit: children go to init; the address space stays until somebody reaps.
\* thread_exit is exit for a process that is no thread.
Exit(p) ==
  /\ Enter(p, "exit") \/ (Enter(p, "thread_exit") /\ father[p] = None)
  /\ Careful("exit", father[p] = None)
  /\ Careful("orphan", Group(Leader(p)) = {p} \/ father[p] # None)
  /\ state' = [state EXCEPT ![p] = "ZOMBIE"]
  /\ parent' = [q \in Slot |-> IF parent[q] = p THEN initproc ELSE parent[q]]
  /\ UNCHANGED <<free, father, kpage, map, guard, stack, sz, frame, panic>>

\* wait: freeproc of a zombie child.
Wait(p, q) ==
  /\ Enter(p, "wait")
  /\ parent[q] = p /\ state[q] = "ZOMBIE"
  /\ Careful("wait", father[q] = None)
  /\ \/ /\ ~CanFree(q)
        /\ Panic("uvmunmap: not mapped")
     \/ /\ CanFree(q)
        /\ free' = free \cup FreedBy(q)
        /\ Clear(q)
        /\ UNCHANGED <<frame, panic>>
-----------------------------------------------------------------------------
(* growproc *)

\* n > 0: uvmalloc in the leader's page table; nothing changes if it fails.
GrowMap(p, n) ==
  LET L == Leader(p)
      vs == NewPages(sz[L], sz[L] + n) IN
  /\ Enter(p, "sbrk") /\ n > 0
  /\ sz[L] + n <= MaxPages * PGSIZE
  /\ Careful("overlap", Quiet(L))
  /\ Enough(Cardinality(vs))
  /\ \/ /\ vs \cap Mapped(L) # {}
        /\ Panic("mappages: remap")
     \/ /\ kpage[L] = None
        /\ Panic("kerneltrap")
     \/ /\ kpage[L] # None /\ vs \cap Mapped(L) = {}
        /\ map' = [map EXCEPT ![L] = [v \in VA |-> IF v \in vs THEN Filled(vs, 0)[v] ELSE @[v]]]
        /\ free' = free \ Taken(Cardinality(vs))
        /\ oldsz' = [oldsz EXCEPT ![p] = sz[L]]
        /\ newsz' = [newsz EXCEPT ![p] = sz[L] + n]
        /\ pc' = [pc EXCEPT ![p] = "share"]
        /\ UNCHANGED <<state, parent, father, kpage, guard, stack, sz, np, panic>>

\* Slip: the new pages are mapped in no thread but the caller.
SharersSlip(p, L) == Threads(L) \cap {p}

\* The threads that the broadcast of growproc reaches.
Sharers(p, L) == Threads(L)

\* The new pages are mapped in every thread that has nothing there.
GrowShare(p) ==
  LET L == Leader(p)
      vs == NewPages(oldsz[p], newsz[p]) IN
  /\ At(p, "share")
  /\ map' = [q \in Slot |->
       IF q \in Sharers(p, L)
       THEN [v \in VA |-> IF v \in vs /\ map[q][v] = None THEN map[L][v] ELSE map[q][v]]
       ELSE map[q]]
  /\ pc' = [pc EXCEPT ![p] = "setsz"]
  /\ UNCHANGED <<free, state, parent, father, kpage, guard, stack, sz, oldsz, newsz, np, panic>>

\* The page numbers that uvmdealloc(from, to) unmaps.
Released(from, to) == Below(from) \ Below(to)

\* The page table of p after uvmunmap.
Unmapped(p, vs) == [v \in VA |-> IF v \in vs THEN None ELSE map[p][v]]

\* oldsz + n, a uint64, does not wrap to more than oldsz (uvmdealloc then does
\* nothing).
NoWrap(a, n) == a + n >= 0

\* n < 0: uvmdealloc in the leader's page table.
Shrink(p, n) ==
  LET L == Leader(p)
      vs == Released(sz[L], sz[L] + n) IN
  /\ Enter(p, "sbrk") /\ n < 0
  /\ NoWrap(sz[L], n)
  /\ Careful("overlap", Quiet(L))
  /\ Careful("shrink", Group(L) = {L})
  /\ Careful("heap", \A g \in guard[L] : (g + 2) * PGSIZE <= sz[L] + n)
  /\ \/ /\ ~(vs \subseteq Mapped(L))
        /\ Panic("uvmunmap: not mapped")
     \/ /\ vs \subseteq Mapped(L)
        /\ map' = [map EXCEPT ![L] = Unmapped(L, vs)]
        /\ free' = free \cup PagesOf(L, vs)
        /\ oldsz' = [oldsz EXCEPT ![p] = sz[L]]
        /\ newsz' = [newsz EXCEPT ![p] = sz[L] + n]
        /\ guard' = [guard EXCEPT ![L] = @ \ vs]
        /\ pc' = [pc EXCEPT ![p] = "unshare"]
        /\ UNCHANGED <<state, parent, father, kpage, stack, sz, np, panic>>

\* The freed pages are unmapped in every thread; uvmunmap wants them mapped.
Unshare(p) ==
  LET L == Leader(p)
      vs == Released(oldsz[p], newsz[p]) IN
  /\ At(p, "unshare")
  /\ \/ /\ \E q \in Threads(L) : ~(vs \subseteq Mapped(q))
        /\ Panic("uvmunmap: not mapped")
     \/ /\ \A q \in Threads(L) : vs \subseteq Mapped(q)
        /\ map' = [q \in Slot |-> IF q \in Threads(L) THEN Unmapped(q, vs) ELSE map[q]]
        /\ pc' = [pc EXCEPT ![p] = "setsz"]
        /\ UNCHANGED <<free, state, parent, father, kpage, guard, stack, sz,
                       oldsz, newsz, np, panic>>

\* leader->sz = newsz, then q->sz = leader->sz for every member.
SetSz(p) ==
  LET L == Leader(p) IN
  /\ At(p, "setsz")
  /\ sz' = [q \in Slot |-> IF q = L \/ father[q] = L THEN newsz[p] ELSE sz[q]]
  /\ pc' = [pc EXCEPT ![p] = "user"]
  /\ oldsz' = [oldsz EXCEPT ![p] = 0]
  /\ newsz' = [newsz EXCEPT ![p] = 0]
  /\ UNCHANGED <<free, state, parent, father, kpage, map, guard, stack, np, panic>>
-----------------------------------------------------------------------------
(* Threads. *)

\* thread_create: allocproc, then the leader's user pages are mapped in np.
ThreadMap(p) ==
  LET L == Leader(p) IN
  /\ Enter(p, "thread_create")
  /\ Careful("overlap", Quiet(L))
  /\ Enough(1)
  /\ \E q \in Slot :
       /\ state[q] = "UNUSED"
       /\ state' = [state EXCEPT ![q] = "USED"]
       /\ kpage' = [kpage EXCEPT ![q] = kalloc(0)]
       /\ map' = [map EXCEPT ![q] =
            [v \in VA |-> IF v \in Below(sz[L]) \ guard[L] THEN map[L][v] ELSE None]]
       /\ sz' = [sz EXCEPT ![q] = sz[L]]
       /\ np' = [np EXCEPT ![p] = q]
  /\ free' = free \ Taken(1)
  /\ pc' = [pc EXCEPT ![p] = "stack"]
  /\ UNCHANGED <<parent, father, guard, stack, oldsz, newsz, panic>>

\* thread_create: uvmalloc of the stack page; np becomes a thread of the group.
ThreadStart(p) ==
  LET q == np[p] IN
  /\ At(p, "stack")
  /\ Enough(1)
  /\ stack' = [stack EXCEPT ![q] = kalloc(0)]
  /\ free' = free \ Taken(1)
  /\ father' = [father EXCEPT ![q] = Leader(p)]
  /\ parent' = [parent EXCEPT ![q] = p]
  /\ state' = [state EXCEPT ![q] = "LIVE"]
  /\ pc' = [pc EXCEPT ![p] = "user"]
  /\ np' = [np EXCEPT ![p] = None]
  /\ UNCHANGED <<kpage, map, guard, sz, oldsz, newsz, panic>>

\* thread_create: no page for the stack; freeproc(np).
ThreadFail(p) ==
  LET q == np[p] IN
  /\ At(p, "stack")
  /\ ~Enough(1)
  /\ \/ /\ ~CanFree(q)
        /\ Panic("uvmunmap: not mapped")
     \/ /\ CanFree(q)
        /\ free' = free \cup FreedBy(q)
        /\ Clear(q)
        /\ pc' = [pc EXCEPT ![p] = "user"]
        /\ np' = [np EXCEPT ![p] = None]
        /\ UNCHANGED <<oldsz, newsz, panic>>

\* Slip: the private stack stays mapped.
UnstackedSlip(p) == stack

\* thread_exit unmaps the private stack.
Unstacked(p) == [stack EXCEPT ![p] = None]

\* thread_exit, of a thread: its private stack is freed at once.
ThreadExit(p) ==
  /\ Enter(p, "thread_exit")
  /\ father[p] # None
  /\ stack' = Unstacked(p)
  /\ free' = free \cup ({stack[p]} \ {None})
  /\ state' = [state EXCEPT ![p] = "ZOMBIE"]
  /\ UNCHANGED <<parent, father, kpage, map, guard, sz, frame, panic>>

\* thread_join: freeproc_thread of a zombie of the group.
Join(p, q) ==
  /\ Enter(p, "thread_join")
  /\ father[q] = Leader(p) /\ state[q] = "ZOMBIE"
  /\ Careful("overlap", Quiet(Leader(p)))
  /\ \/ /\ ~CanFreeThread(q)
        /\ Panic("freewalk: leaf")
     \/ /\ CanFreeThread(q)
        /\ free' = free \cup FreedByThread(q)
        /\ Clear(q)
        /\ UNCHANGED <<frame, panic>>

Next ==
  \E p \in Slot :
    \/ Fork(p) \/ Exit(p)
    \/ \E size \in Image : Exec(p, size)
    \/ \E q \in Slot : Wait(p, q) \/ Join(p, q)
    \/ \E n \in Sbrk : GrowMap(p, n) \/ Shrink(p, n)
    \/ GrowShare(p) \/ Unshare(p) \/ SetSz(p)
    \/ ThreadMap(p) \/ ThreadStart(p) \/ ThreadFail(p) \/ ThreadExit(p)

Spec == Init /\ [][Next]_vars
-----------------------------------------------------------------------------
(* Properties. *)

Used == {p \in Slot : state[p] # "UNUSED"}

\* The pages that only p may refer to.
Private(p) == {kpage[p], stack[p]} \ {None}

\* "Fill with junk to catch dangling refs", "do_free=0, to avoid a double free": no
\* page table refers to a page on the free list, except that a shrinking growproc
\* frees the leader's pages before it unmaps them in the threads.
NoDangling ==
  \A p \in Used :
    /\ Private(p) \cap free = {}
    /\ (\A q \in Group(Leader(p)) : pc[q] # "unshare") => PagesOf(p, VA) \cap free = {}

\* No page is lost: what is not free some process refers to.
NoLeak == Page = free \cup UNION {Private(p) \cup PagesOf(p, VA) : p \in Used}

\* Address spaces are separate: a page is mapped at one address of one process, or
\* at that address by threads of one group, and private pages by nobody else.
\* A thread under construction is not yet in its group.
Isolation ==
  \A p, q \in Used :
    /\ \A v, w \in VA :
         map[p][v] = map[q][w] /\ map[p][v] # None =>
           v = w /\ (p = q \/ Leader(p) = Leader(q) \/ "USED" \in {state[p], state[q]})
    /\ p # q => Private(p) \cap (Private(q) \cup PagesOf(q, VA)) = {}

\* "The new thread shares the same pagetable with the parent thread, so global
\* variables and heap data are shared": between calls every thread has its
\* leader's user pages and size.
SharedView ==
  \A p \in Slot :
    state[p] = "LIVE" /\ father[p] # None /\ Quiet(father[p]) =>
      /\ sz[p] = sz[father[p]]
      /\ \A v \in VA \ guard[father[p]] : map[p][v] = map[father[p]][v]

\* Careful programs, those with no risk of Risks, cannot make the kernel panic on
\* its page tables, except in thread_create when memory runs out: its error path
\* gives np to freeproc, which wants the guard page mapped.
PanicOnlyOom == panic # "" => free = {}
-----------------------------------------------------------------------------
(* The inductive invariants behind these properties, for careful programs. *)

TypeOK ==
  /\ free \subseteq Page
  /\ state \in [Slot -> {"UNUSED", "USED", "LIVE", "ZOMBIE"}]
  /\ father \in [Slot -> Slot \cup {None}]
  /\ kpage \in [Slot -> Page \cup {None}] /\ stack \in [Slot -> Page \cup {None}]
  /\ map \in [Slot -> [VA -> Page \cup {None}]]
  /\ guard \in [Slot -> SUBSET VA]
  /\ sz \in [Slot -> Nat] /\ oldsz \in [Slot -> Nat] /\ newsz \in [Slot -> Nat]
  /\ pc \in [Slot -> {"user", "share", "unshare", "setsz", "stack"}]
  /\ np \in [Slot -> Slot \cup {None}]

\* What a slot in each state has, and who belongs to whom: a thread's leader lives,
\* and a thread under construction has a creator, in thread_create.
SlotInv ==
  /\ \A p \in Slot : state[p] = "UNUSED" => kpage[p] = None
  /\ \A p \in Slot : state[p] # "UNUSED" => kpage[p] # None
  /\ \A p \in Slot : state[p] = "USED" => \E c \in Slot : np[c] = p
  /\ \A p \in Slot : state[p] \in {"UNUSED", "USED", "ZOMBIE"} => stack[p] = None /\ pc[p] = "user"
  /\ \A p \in Slot : state[p] \in {"UNUSED", "USED"} => father[p] = None
  /\ \A p \in Slot : father[p] # None => state[father[p]] = "LIVE" /\ father[father[p]] = None
  /\ \A p \in Slot : father[p] = None => stack[p] = None
  /\ \A p \in Slot : np[p] # None <=> pc[p] = "stack"
  /\ \A p \in Slot : np[p] # None => state[np[p]] = "USED"
  /\ \A p, q \in Slot : np[p] = np[q] /\ np[p] # None => p = q

\* The calls that change an address space do not overlap; one that gives memory
\* back is made when there are no threads.
CallInv ==
  /\ \A p, q \in Slot :
       pc[p] # "user" /\ pc[q] # "user" /\ Leader(p) = Leader(q) => p = q
  /\ \A p, q \in Slot : pc[p] = "unshare" => father[q] # Leader(p)

\* Between growproc's work on the leader's page table and its setting sz.
Resizing(p) == pc[p] \in {"share", "unshare", "setsz"}

\* p has an address space of its own.
Lead(p) == state[p] \in {"LIVE", "ZOMBIE"} /\ father[p] = None

\* A leader has a page at every address below its size, or below the size growproc
\* is about to set, and nowhere else.
SizeInv ==
  /\ \A p \in Slot : Resizing(p) => Mapped(Leader(p)) = Below(newsz[p])
  /\ \A p \in Slot : pc[p] = "share" => oldsz[p] = sz[Leader(p)]
  /\ \A L \in Slot : Lead(L) /\ (\A p \in Slot : Resizing(p) => Leader(p) # L) =>
       Mapped(L) = Below(sz[L])

\* A leader has a guard page.
GuardInv ==
  /\ \A L \in Slot : Lead(L) => guard[L] # {} /\ guard[L] \subseteq Below(sz[L])
  /\ \A p \in Slot : Resizing(p) => guard[Leader(p)] \subseteq Below(newsz[p])

\* growproc has still to map the leader's page at v in the threads of L.
Unshared(L, v) ==
  \E p \in Slot : pc[p] = "share" /\ Leader(p) = L /\ v \in NewPages(oldsz[p], newsz[p])

\* q has the size of L and the pages of L but the guard page.
Shares(q, L) ==
  /\ sz[q] = sz[L]
  /\ \A v \in VA : map[q][v] \in {None, map[L][v]}
  /\ \A v \in VA \ guard[L] : Unshared(L, v) \/ map[q][v] = map[L][v]
  /\ \A v \in guard[L] : map[q][v] = None

ShareInv ==
  /\ \A q \in Slot : father[q] # None => Shares(q, father[q])
  /\ \A p \in Slot : np[p] # None => Shares(np[p], Leader(p))

\* What a slot owns: the page of the kernel, the stack, and a leader its user pages.
Ref == -2..MaxPages - 1
Owned(p) ==
  [x \in Ref |-> CASE x = -2 -> kpage[p]
                   [] x = -1 -> stack[p]
                   [] x >= 0 -> IF Lead(p) THEN map[p][x] ELSE None]
owned == [p \in Slot |-> Owned(p)]

\* Every page is free or owned, once.
Partition(own, f) ==
  /\ f \subseteq Page
  /\ \A p, q \in Slot, x, y \in Ref : own[p][x] = own[q][y] /\ own[p][x] # None => p = q /\ x = y
  /\ \A p \in Slot, x \in Ref : own[p][x] \notin f
  /\ \A g \in Page : g \in f \/ \E p \in Slot, x \in Ref : own[p][x] = g

OwnInv == Partition(owned, free)

IInv ==
  TypeOK /\ SlotInv /\ CallInv /\ SizeInv /\ GuardInv /\ ShareInv /\ OwnInv /\ PanicOnlyOom
=============================================================================

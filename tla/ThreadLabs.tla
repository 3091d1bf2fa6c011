----------------------------- MODULE ThreadLabs -----------------------------
(***************************************************************************)
(* The mutex labs of threads_basics and activities/mutex_locks, the sorting *)
(* lab, and the user-level threads of ust, in the form of CondvarLabs.      *)
(***************************************************************************)
EXTENDS Pthreads

-----------------------------------------------------------------------------
(* basic_mutex/add_a_lot.c and mutex_locks/simple_sum.c: the same counter   *)
(* with the mutex and without, when the increment is a load and a store.    *)

LOOPS == 2

add_a_lot_main == [crew |-> <<1, 2, 3>>, data |-> [total |-> 0, i |-> <<0, 0, 0>>]]

add10000(t) ==
  /\ At("add_a_lot", t, "start")
  /\ Go(t, IF s.i[t] + 1 < LOOPS THEN "start" ELSE "done",
        [total |-> s.total + 1, i |-> [s.i EXCEPT ![t] = @ + 1]], Quiet)

simple_sum_main == [crew |-> <<"A", "B">>,
                    data |-> [counter |-> 0, i |-> <<0, 0>>, reg |-> <<0, 0>>]]

mythread(t) ==
  \/ /\ At("simple_sum", t, "start")
     /\ Go(t, "store", [s EXCEPT !.reg[t] = s.counter], Quiet)
  \/ /\ At("simple_sum", t, "store")
     /\ Go(t, IF s.i[t] + 1 < LOOPS THEN "start" ELSE "done",
           [s EXCEPT !.counter = s.reg[t] + 1, !.i[t] = @ + 1], Quiet)

-----------------------------------------------------------------------------
(* basic_mutex/red_blue_purple.c.  Thread t is in its k[t]-th command,      *)
(* h[t] steps into it: the command locks its channels in order, has the     *)
(* output when it holds them all, and unlocks them in reverse.              *)

red_blue_purple_main ==
  [crew |-> <<<<"red", "red", "white", "red", "purple", "red">>,
              <<"red", "blue", "blue", "white", "purple", "red", "blue">>,
              <<"red", "purple", "purple", "purple">>>>,
   data |-> [lock |-> [red |-> 0, blue |-> 0], k |-> <<1, 1, 1>>, h |-> <<0, 0, 0>>]]

Locks(t) ==
  LET command == red_blue_purple_main.crew[t][s.k[t]]
  IN  CASE command = "white" -> <<>> [] command = "purple" -> <<"red", "blue">>
        [] OTHER -> <<command>>

command_step(t) ==
  /\ At("red_blue_purple", t, "start")
  /\ LET h == s.h[t]
         n == Len(Locks(t))
     IN  IF h < n
         THEN /\ s.lock[Locks(t)[h + 1]] = 0
              /\ Go(t, "start", [s EXCEPT !.lock[Locks(t)[h + 1]] = t, !.h[t] = @ + 1], Quiet)
         ELSE IF h < 2 * n
         THEN Go(t, "start", [s EXCEPT !.lock[Locks(t)[2 * n - h]] = 0, !.h[t] = @ + 1], Quiet)
         ELSE IF s.k[t] = Len(red_blue_purple_main.crew[t]) THEN Go(t, "done", s, Quiet)
         ELSE Go(t, "start", [s EXCEPT !.k[t] = @ + 1, !.h[t] = 0], Quiet)

(* The threads that write to the channel.                                  *)
Writing(channel) ==
  {t \in Inside("start") : channel \in ToSet(Locks(t)) /\ s.h[t] = Len(Locks(t))}

-----------------------------------------------------------------------------
(* thread_sorting/threadSort.c.  The array is a function on 0..N-1; a sort  *)
(* works on the n places from b on.                                         *)

Swapped(a, i, j) == [a EXCEPT ![i] = a[j], ![j] = a[i]]

UpTo(m, n) == [k \in 1..(n - m + 1) |-> m + k - 1]

BruteForceSort(a, b, n) ==
  FoldLeft(LAMBDA x, i : FoldLeft(LAMBDA y, j : IF y[j] < y[i] THEN Swapped(y, i, j) ELSE y,
                                  x, UpTo(i + 1, b + n - 1)),
           a, UpTo(b, b + n - 1))

RECURSIVE BubbleSort(_, _, _)
BubbleSort(a, b, n) ==
  LET pass == FoldLeft(LAMBDA x, i : IF x[i] < x[i - 1] THEN Swapped(x, i - 1, i) ELSE x,
                       a, UpTo(b + 1, b + n - 1))
  IN  IF pass = a THEN a ELSE BubbleSort(pass, b, n)

(* What Merge collects in tempArray.  lpos may reach mid itself, so when   *)
(* the left half is used up first array[mid] can be taken a second time.   *)
RECURSIVE TempArray(_, _, _, _, _)
TempArray(a, lpos, rpos, mid, right) ==
  IF lpos <= mid /\ rpos <= right
  THEN IF a[lpos] < a[rpos]
       THEN <<a[lpos]>> \o TempArray(a, lpos + 1, rpos, mid, right)
       ELSE <<a[rpos]>> \o TempArray(a, lpos, rpos + 1, mid, right)
  ELSE [k \in 1..Max({0, mid - lpos}) |-> a[lpos + k - 1]]
       \o [k \in 1..(right - rpos + 1) |-> a[rpos + k - 1]]

Merge(a, left, mid, right) ==
  LET temp == TempArray(a, left, mid, mid, right)
  IN  [i \in DOMAIN a |-> IF i - left + 1 \in 1..Len(temp) THEN temp[i - left + 1] ELSE a[i]]

Split(b, n) == <<b, n \div 2, b + n \div 2, n - n \div 2>>

RECURSIVE MergeSort(_, _, _)
MergeSort(a, b, n) ==
  IF n <= 1 THEN a
  ELSE LET h == Split(b, n)
       IN  Merge(MergeSort(MergeSort(a, h[1], h[2]), h[3], h[4]), b, b + n \div 2, b + n - 1)

VALS_PER_THREAD == 4
TotalNums == 3 * VALS_PER_THREAD

threadSort_main == [crew |-> <<"F", "B", "M">>,
                    data |-> [count |-> 0, sub |-> <<0, 0, 0>>, reg |-> <<0, 0, 0>>,
                              array |-> [i \in 0..(TotalNums - 1) |-> TotalNums - i]]]

(* A thread takes the chunk number from the unprotected count: it reads it, *)
(* for bubble and merge it reads it again, and then it increments it.  The  *)
(* sort itself, a second later, is one step.                                *)
thread_dispatch(t) ==
  LET letter == threadSort_main.crew[t]
      b == s.sub[t] * VALS_PER_THREAD
  IN \/ /\ At("threadSort", t, "start")
        /\ Go(t, IF letter = "F" THEN "load" ELSE "reread", [s EXCEPT !.sub[t] = s.count], Quiet)
     \/ At("threadSort", t, "reread") /\ Go(t, "load", [s EXCEPT !.sub[t] = s.count], Quiet)
     \/ At("threadSort", t, "load") /\ Go(t, "store", [s EXCEPT !.reg[t] = s.count], Quiet)
     \/ At("threadSort", t, "store") /\ Go(t, "sort", [s EXCEPT !.count = s.reg[t] + 1], Quiet)
     \/ /\ At("threadSort", t, "sort")
        /\ Go(t, "done",
              [s EXCEPT !.array = CASE letter = "F" -> BruteForceSort(@, b, VALS_PER_THREAD)
                                    [] letter = "B" -> BubbleSort(@, b, VALS_PER_THREAD)
                                    [] letter = "M" -> MergeSort(@, b, VALS_PER_THREAD)],
              Quiet)

ChunkSorted(c) ==
  \A i \in 0..(VALS_PER_THREAD - 1) :
    s.array[c * VALS_PER_THREAD + i] = TotalNums - (c + 1) * VALS_PER_THREAD + i + 1

-----------------------------------------------------------------------------
(* ust/basic_threads.c and its tests.  A user thread is the list of what it *)
(* still has to do; swapcontext passes control between it and the scheduler,*)
(* which is the only pthread of the program.                                *)

MAX_THREADS == 5

Times(n, code) == FlattenSeq([k \in 1..n |-> code])
Add(n) == [op |-> "add", n |-> n]
Yield == [op |-> "yield"]
Finish == [op |-> "finish"]
Saw(flag) == [op |-> "saw", flag |-> flag]          \* flag = true
Needs(flag) == [op |-> "needs", flag |-> flag]      \* if(!flag) count = -80
New(code) == [op |-> "create", code |-> code]

add_n(n) == Times(n, <<Yield, Add(1)>>) \o <<Finish>>
interleave(me, other) == <<Saw(me), Yield, Needs(other), Add(1), Finish>>
quick_ending_thread == <<Add(1), Finish>>
start_many_quick_threads == Times(20, <<New(quick_ending_thread), Yield>>) \o <<Finish>>
takes_an_int(n) == <<Add(n), Finish>>
takes_a_struct(a, b) == <<Add(a), Add(b), Finish>>
add_10_to_count_no_finish == Times(10, <<Yield, Add(1)>>)

(* The threads a test creates before schedule_threads, and the count it     *)
(* asserts when that returns.                                               *)
ust_tests ==
  [test_1 |-> [create |-> <<add_n(10)>>, count |-> 10],
   test_2a |-> [create |-> <<add_n(10), add_n(10)>>, count |-> 20],
   test_2b |-> [create |-> <<add_n(3), add_n(10), add_n(3)>>, count |-> 16],
   test_2interleave |-> [create |-> <<interleave("one", "two"), interleave("two", "one")>>,
                         count |-> 2],
   test_3 |-> [create |-> <<start_many_quick_threads>>, count |-> 20],
   test_4int |-> [create |-> <<takes_an_int(7), takes_an_int(3)>>, count |-> 10],
   test_4struct |-> [create |-> <<takes_a_struct(5, 6)>>, count |-> 11],
   test_5 |-> [create |-> <<add_10_to_count_no_finish, add_10_to_count_no_finish>>, count |-> 20]]

initialize_basic_threads ==
  [active |-> [i \in 1..MAX_THREADS |-> FALSE], code |-> [i \in 1..MAX_THREADS |-> <<>>],
   stack |-> [i \in 1..MAX_THREADS |-> 0], num_threads |-> 0, current |-> 1,
   i |-> 1, run |-> FALSE, count |-> 0, seen |-> {}]

find_empty(d) ==
  LET free == {i \in 1..MAX_THREADS : ~d.active[i]} IN IF free = {} THEN {} ELSE {Min(free)}

(* stack counts the live allocations of a slot.  A full table ends the     *)
(* program with exit(1): count is then no test's result.                   *)
create_new_thread(d, code) ==
  LET empty == find_empty(d)
  IN  IF empty = {} THEN [d EXCEPT !.count = -1]
      ELSE LET e == CHOOSE i \in empty : TRUE
           IN  [d EXCEPT !.active[e] = TRUE, !.code[e] = code, !.stack[e] = @ + 1,
                         !.num_threads = Max({@, e})]

ust_main(test) ==
  [crew |-> <<"main">>,
   data |-> FoldLeft(create_new_thread, initialize_basic_threads, ust_tests[test].create)]

ust_test == DOMAIN ust_tests

schedule_threads(t) ==
  \/ /\ lab \in ust_test /\ At(lab, t, "start")
     /\ IF s.i > s.num_threads
        THEN Go(t, IF s.run THEN "start" ELSE "done", [s EXCEPT !.i = 1, !.run = FALSE], Quiet)
        ELSE IF s.active[s.i]
        THEN Go(t, "thread", [s EXCEPT !.run = TRUE, !.current = s.i], Quiet)
        ELSE Go(t, "start", [s EXCEPT !.i = @ + 1], Quiet)
  \/ /\ lab \in ust_test /\ At(lab, t, "back")
     /\ Go(t, "start", [s EXCEPT !.i = @ + 1, !.stack[s.i] = IF s.active[s.i] THEN @ ELSE @ - 1],
           Quiet)

(* One step of the running thread.  Code that ends returns to thread_helper,*)
(* which calls finish_thread.                                               *)
user_thread(t) ==
  /\ lab \in ust_test /\ At(lab, t, "thread")
  /\ LET me == s.current
         op == IF s.code[me] = <<>> THEN Finish ELSE Head(s.code[me])
         d == IF s.code[me] = <<>> THEN s ELSE [s EXCEPT !.code[me] = Tail(@)]
     IN  CASE op.op = "yield" -> Go(t, "back", d, Quiet)
           [] op.op = "finish" -> Go(t, "back", [d EXCEPT !.active[me] = FALSE], Quiet)
           [] op.op = "add" -> Go(t, "thread", [d EXCEPT !.count = @ + op.n], Quiet)
           [] op.op = "saw" -> Go(t, "thread", [d EXCEPT !.seen = @ \cup {op.flag}], Quiet)
           [] op.op = "needs" ->
                Go(t, "thread", IF op.flag \in d.seen THEN d ELSE [d EXCEPT !.count = -80], Quiet)
           [] op.op = "create" -> Go(t, "thread", create_new_thread(d, op.code), Quiet)

=============================================================================

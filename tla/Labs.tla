-------------------------------- MODULE Labs --------------------------------
(***************************************************************************)
(* The thread labs side by side: a behaviour is a run of one program.       *)
(***************************************************************************)
EXTENDS CondvarLabs, ExamLabs, ThreadLabs

Program ==
  [threeJobs |-> threeJobs_main, littleredhen |-> littleredhen_main,
   priority |-> priority_main, band |-> band_main, tunnel |-> tunnel_main,
   rooms |-> rooms_main, max |-> max_main, inorder |-> inorder_main,
   reader_writer |-> reader_writer_main,
   problem1 |-> problem1_main, problem2 |-> problem2_main, problem3 |-> problem3_main,
   stoplight |-> stoplight_main, game |-> game_main, lunch |-> lunch_main,
   critical |-> critical_main, threadpool |-> threadpool_main,
   add_a_lot |-> add_a_lot_main, simple_sum |-> simple_sum_main,
   red_blue_purple |-> red_blue_purple_main, threadSort |-> threadSort_main]

Setup(l) == IF l \in ust_test THEN ust_main(l) ELSE Program[l]

Labs == DOMAIN Program \cup ust_test

CONSTANT Run  \* the programs to run

ASSUME RunAssumption == Run \subseteq Labs

Thread == 1..6

Init ==
  /\ lab \in Run
  /\ s = Setup(lab).data
  /\ pc = [t \in DOMAIN Setup(lab).crew |-> "start"]
  /\ cv = [t \in DOMAIN Setup(lab).crew |-> "awake"]

Step(t) ==
  \/ threeJobs(t) \/ littleRedHenThread(t) \/ otherAnimalThread(t) \/ priority(t) \/ friend(t)
  \/ ewcar(t) \/ wecar(t) \/ ambulance(t) \/ customer(t) \/ max(t) \/ inorder(t)
  \/ reader(t) \/ writer(t)
  \/ thread_func(t) \/ join_cpus(t) \/ threadABC(t) \/ request_fn(t) \/ worker_fn(t)
  \/ north_south(t) \/ east_west(t) \/ stoplight(t)
  \/ home_players(t) \/ away_players(t) \/ referee(t) \/ lunch_friend(t) \/ red_blue(t)
  \/ worker_thread(t)
  \/ add10000(t) \/ mythread(t) \/ command_step(t)
  \/ schedule_threads(t) \/ user_thread(t)

Next == \E t \in Thread : Step(t) \/ thread_dispatch(t) \/ Spurious(t)

(* Every thread keeps running: the host's scheduler and its mutexes starve  *)
(* nobody.  A thread in cond_wait is not helped by it.  (The sorting        *)
(* threads, which never wait, are left out.)                                *)
Spec == Init /\ [][Next]_vars /\ \A t \in Thread : WF_vars(Step(t))

-----------------------------------------------------------------------------
Kinds(p) == {Setup(lab).crew[t] : t \in Inside(p)}

CountIn(kind, p) == Cardinality({t \in Inside(p) : Setup(lab).crew[t] = kind})

(* What the threads of each program may do together:                        *)
(* one kind of job in the house (threeJobs.c:21) and one type of thread in  *)
(* the section (problem2.c); one thread in the priority section; no second  *)
(* player of a kind beside another (band.c:14); a writer alone              *)
(* (reader_writer_final.c); two requests preprocessed at most (problem3.c); *)
(* no northsouth car under a green eastwest light (stoplight.c); nobody     *)
(* plays before the whistle and it is blown for a full field (game.c);      *)
(* three in the critical section, two of a colour (critical.c); one writer  *)
(* to a channel (red_blue_purple.c:11).                                     *)
Exclusion ==
  CASE lab \in {"threeJobs", "problem2"} -> Cardinality(Kinds("in")) <= 1
    [] lab = "priority" -> Cardinality(Inside("in")) <= 1
    [] lab = "band" -> \A k \in {"drum", "sing", "guit"} : CountIn(k, "in") <= 1
    [] lab = "reader_writer" ->
         Inside("writing") # {} => Cardinality(Inside("writing") \cup Inside("reading")) = 1
    [] lab = "problem3" -> CountIn("request", "preprocess") <= 2
    [] lab = "stoplight" -> s.light = 2 => CountIn("ns", "in") = 0
    [] lab = "game" ->
         \A t \in Inside("play") : s.whistle_blown /\ Inside("start") = {}
    [] lab = "critical" ->
         /\ Cardinality(Inside("in")) <= 3
         /\ CountIn("red", "in") <= 2 /\ CountIn("blue", "in") <= 2
    [] lab = "red_blue_purple" ->
         \A c \in {"red", "blue"} : Cardinality(Writing(c)) <= 1
    [] OTHER -> TRUE

(* What is there when main's joins return: every loaf baked is eaten; the   *)
(* threads ran in the order of their numbers; every writer's update is in   *)
(* data; the total is the sum of the results; every request is delivered;   *)
(* every stack element went to one worker; a locked counter has every       *)
(* increment, an unlocked one at least two (simple_sum.c:34); the lunch     *)
(* groups are closed; a chunk that one sorting thread took is sorted; a     *)
(* user-level test counts what it asserts and leaves no thread stack        *)
(* allocated.                                                               *)
Outcome ==
  Finished =>
    CASE lab = "littleredhen" -> s.numLoaves = 0 /\ s.batch = NUM_BATCHES + 1
      [] lab = "inorder" -> s.order = <<1, 2, 3, 4>>
      [] lab = "reader_writer" -> s.data = 2 * ROUNDS
      [] lab = "problem1" -> s.total = FoldLeft(LAMBDA a, b : a + b, 0, s.res)
      [] lab = "problem3" -> s.total = NUM_REQUESTS /\ s.isdv = 0
      [] lab = "lunch" -> s.group_size = 0
      [] lab = "threadpool" -> s.popped = [i \in 1..STACK_LEN |-> i - 1]
      [] lab = "add_a_lot" -> s.total = 3 * LOOPS
      [] lab = "simple_sum" -> s.counter \in 2..(2 * LOOPS)
      [] lab = "threadSort" ->
           Cardinality({s.sub[t] : t \in 1..3}) = 3 => \A c \in 0..2 : ChunkSorted(c)
      [] lab \in ust_test ->
           /\ s.count = ust_tests[lab].count
           /\ \A i \in 1..MAX_THREADS : s.stack[i] = 0
      [] OTHER -> TRUE

(* Every program that should end does: no wake-up is lost and no threads    *)
(* wait for each other.  The others are left out: players of the band, who  *)
(* test only their own kind, may be left without partners; problem2's       *)
(* unlocked counters may leave a thread asleep; the stoplight runs for ever;*)
(* the sorting threads wait for nobody.                                     *)
AllFinish == lab \notin {"band", "problem2", "stoplight", "threadSort"} => <>Finished

=============================================================================

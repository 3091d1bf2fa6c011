------------------------------ MODULE ExamLabs ------------------------------
(***************************************************************************)
(* The thread programs of threads_basics, exam2 and the sample exams, in    *)
(* the form of CondvarLabs: X_main is what main sets up, the other          *)
(* definitions are the thread functions.                                    *)
(***************************************************************************)
EXTENDS Pthreads

-----------------------------------------------------------------------------
(* exam2/problem1.c: each thread simulates its own cpu, main joins the      *)
(* threads in order and adds up what they return.  A thread whose file does *)
(* not open, or whose malloc fails, adds nothing.                           *)

problem1_main == [crew |-> <<"cpu", "cpu", "cpu", "main">>,
                  data |-> [res |-> <<0, 0, 0>>, next |-> 1, total |-> 0]]

Instructions(id) == id + 2  \* how many lines files/test_instr<id>.txt has

thread_func(t) ==
  /\ At("problem1", t, "start") /\ problem1_main.crew[t] = "cpu"
  /\ \E count \in {Instructions(t), 0} : Go(t, "done", [s EXCEPT !.res[t] = count], Quiet)

join_cpus(t) ==
  /\ At("problem1", t, "start") /\ problem1_main.crew[t] = "main"
  /\ pc[s.next] = "done"
  /\ Go(t, IF s.next = 3 THEN "done" ELSE "start",
        [s EXCEPT !.total = @ + s.res[s.next], !.next = @ + 1], Quiet)

-----------------------------------------------------------------------------
(* exam2/problem2.c: threads of one type at a time.  waitingX++ is outside  *)
(* the mutex, so it and the waitingX-- under the mutex are each a load and a*)
(* store; s.mutex is the thread that is between the two with the mutex held.*)

problem2_main == [crew |-> <<1, 1, 2, 3>>,
                  data |-> [nowtype |-> 0, activity |-> 0, waiting |-> <<0, 0, 0>>,
                            reg |-> <<0, 0, 0, 0>>, mutex |-> 0]]

cvABC == <<"cvA", "cvB", "cvC">>

(* Whom the last A, B and C wake: the first of the other types that waits. *)
Preferred(type) ==
  LET order == <<<<2, 3>>, <<1, 3>>, <<1, 2>>>>[type]
  IN  IF s.waiting[order[1]] > 0 THEN order[1] ELSE order[2]

threadABC(t) ==
  LET type == problem2_main.crew[t]
      left == s.activity - 1
  IN \/ At("problem2", t, "start") /\ Go(t, "store", [s EXCEPT !.reg[t] = s.waiting[type]], Quiet)
     \/ At("problem2", t, "store") /\ Go(t, "enter", [s EXCEPT !.waiting[type] = s.reg[t] + 1], Quiet)
     \/ /\ At("problem2", t, "enter") /\ s.mutex = 0
        /\ WaitWhile(s.nowtype # type /\ s.nowtype # 0, t, cvABC[type], "count",
                     [s EXCEPT !.nowtype = type, !.reg[t] = s.waiting[type], !.mutex = t], Quiet)
     \/ /\ At("problem2", t, "count")
        /\ Go(t, "in", [s EXCEPT !.waiting[type] = s.reg[t] - 1, !.activity = @ + 1, !.mutex = 0],
              Quiet)
     \/ /\ At("problem2", t, "in") /\ s.mutex = 0
        /\ Go(t, "done", [s EXCEPT !.activity = left, !.nowtype = IF left = 0 THEN 0 ELSE @],
              When(left = 0, Broadcast({cvABC[Preferred(type)]})))

-----------------------------------------------------------------------------
(* exam2/problem3.c: at most two requests are preprocessed at a time, one   *)
(* worker delivers them all.                                                *)

NUM_REQUESTS == 4

problem3_main == [crew |-> <<"request", "request", "request", "request", "worker">>,
                  data |-> [prepo |-> 0, isdv |-> 0, total |-> 0]]

request_fn(t) ==
  \/ /\ At("problem3", t, "start") /\ problem3_main.crew[t] = "request"
     /\ WaitWhile(s.prepo >= 2, t, "cvre", "preprocess", [s EXCEPT !.prepo = @ + 1], Quiet)
  \/ /\ At("problem3", t, "preprocess")
     /\ Go(t, "done", [s EXCEPT !.prepo = @ - 1, !.isdv = @ + 1],
           Broadcast({"cvwo"} \cup IF s.prepo - 1 < 2 THEN {"cvre"} ELSE {}))

worker_fn(t) ==
  \/ /\ At("problem3", t, "start") /\ problem3_main.crew[t] = "worker"
     /\ IF s.total >= NUM_REQUESTS THEN Go(t, "done", s, Quiet)
        ELSE WaitWhile(s.isdv = 0, t, "cvwo", "deliver", [s EXCEPT !.isdv = @ - 1], Quiet)
  \/ At("problem3", t, "deliver") /\ Go(t, "start", [s EXCEPT !.total = @ + 1], Quiet)

-----------------------------------------------------------------------------
(* sample_exams/exam2/stoplight.c.  An eastwest car tests the same light,   *)
(* and sleeps on the same variable, as a northsouth one.                    *)

stoplight_main == [crew |-> <<"light", "ew", "ns", "ns", "ew">>,
                   data |-> [light |-> 1, nscar |-> 0, ewcar |-> 0]]

north_south(t) ==
  \/ /\ At("stoplight", t, "start") /\ stoplight_main.crew[t] = "ns"
     /\ WaitWhile(s.light # 1, t, "cvns", "in", [s EXCEPT !.nscar = @ + 1], Quiet)
  \/ /\ At("stoplight", t, "in") /\ stoplight_main.crew[t] = "ns"
     /\ Go(t, "done", [s EXCEPT !.nscar = @ - 1],
           When(s.nscar = 1 /\ s.light = 0, Signal("lightcv")))

east_west(t) ==
  \/ /\ At("stoplight", t, "start") /\ stoplight_main.crew[t] = "ew"
     /\ WaitWhile(s.light # 1, t, "cvns", "in", [s EXCEPT !.ewcar = @ + 1], Quiet)
  \/ /\ At("stoplight", t, "in") /\ stoplight_main.crew[t] = "ew"
     /\ Go(t, "done", [s EXCEPT !.ewcar = @ - 1],
           When(s.ewcar = 1 /\ s.light = 0, Signal("lightcv")))

stoplight(t) ==
  \/ /\ At("stoplight", t, "start") \/ At("stoplight", t, "ns_clearing")
     /\ stoplight_main.crew[t] = "light"
     /\ IF s.nscar > 0 THEN Sleep(t, "ns_clearing", "lightcv", [s EXCEPT !.light = 0], Quiet)
        ELSE Go(t, "eastwest", [s EXCEPT !.light = 2], Broadcast({"cvew"}))
  \/ /\ At("stoplight", t, "eastwest") \/ At("stoplight", t, "ew_clearing")
     /\ IF s.ewcar > 0 THEN Sleep(t, "ew_clearing", "lightcv", [s EXCEPT !.light = 0], Quiet)
        ELSE Go(t, "start", [s EXCEPT !.light = 1], Broadcast({"cvns"}))

-----------------------------------------------------------------------------
(* makeup_solution/game.c: the players wait for the whistle, the home team  *)
(* then waits for its star (the first home player) to be interviewed.       *)

NUM_PLAYERS == 4

game_main == [crew |-> <<"star", "home", "away", "away", "referee">>,
              data |-> [interview_over |-> FALSE, num_players_arrived |-> 0,
                        whistle_blown |-> FALSE]]

(* A player's arrival: the last one wakes the referee, and waits as well.  *)
Arrives(t) ==
  /\ At("game", t, "start") \/ At("game", t, "wait")
  /\ LET d == IF pc[t] = "start" THEN [s EXCEPT !.num_players_arrived = @ + 1] ELSE s
         W == When(pc[t] = "start" /\ d.num_players_arrived = NUM_PLAYERS, Signal("referee_wait"))
     IN  IF ~d.whistle_blown THEN Sleep(t, "wait", "player_wait", d, W) ELSE Go(t, "play", d, W)

home_players(t) ==
  \/ t \in DOMAIN pc /\ lab = "game" /\ game_main.crew[t] \in {"star", "home"} /\ Arrives(t)
  \/ /\ At("game", t, "play") /\ game_main.crew[t] = "star"
     /\ Go(t, "done", [s EXCEPT !.interview_over = TRUE], Broadcast({"interview"}))
  \/ /\ At("game", t, "play") /\ game_main.crew[t] = "home"
     /\ WaitWhile(~s.interview_over, t, "interview", "done", s, Quiet)

away_players(t) ==
  \/ t \in DOMAIN pc /\ lab = "game" /\ game_main.crew[t] = "away" /\ Arrives(t)
  \/ At("game", t, "play") /\ game_main.crew[t] = "away" /\ Go(t, "done", s, Quiet)

referee(t) ==
  \/ /\ At("game", t, "start") /\ game_main.crew[t] = "referee"
     /\ WaitWhile(s.num_players_arrived < NUM_PLAYERS, t, "referee_wait", "play",
                  [s EXCEPT !.whistle_blown = TRUE], Broadcast({"player_wait"}))
  \/ At("game", t, "play") /\ game_main.crew[t] = "referee" /\ Go(t, "done", s, Quiet)

-----------------------------------------------------------------------------
(* makeup_solution/lunch.c: a group argues until the last to join is done.  *)

lunch_main == [crew |-> <<1, 2, 3, 4>>,
               data |-> [group_size |-> 0, group_num |-> 1,
                         my_size |-> <<0, 0, 0, 0>>, my_group |-> <<0, 0, 0, 0>>]]

lunch_friend(t) ==
  \/ /\ At("lunch", t, "start")
     /\ Go(t, "argue", [s EXCEPT !.group_size = @ + 1, !.my_size[t] = s.group_size + 1,
                                 !.my_group[t] = s.group_num], Quiet)
  \/ /\ At("lunch", t, "argue") \/ At("lunch", t, "wait")
     /\ IF pc[t] = "argue" /\ s.my_size[t] = s.group_size
        THEN Go(t, "done", [s EXCEPT !.group_size = 0, !.group_num = @ + 1], Broadcast({"waiting"}))
        ELSE IF s.group_num = s.my_group[t] THEN Sleep(t, "wait", "waiting", s, Quiet)
        ELSE Go(t, "done", s, Quiet)

-----------------------------------------------------------------------------
(* makeup_solution/critical.c: at most three threads, at most two a colour. *)

critical_main == [crew |-> <<"red", "red", "red", "blue", "blue", "blue">>,
                  data |-> [num_threads_in |-> 0, red |-> 0, blue |-> 0]]

CriticalFull(colour) == s.num_threads_in >= 3 \/ s[colour] >= 2

red_blue(t) ==
  LET colour == critical_main.crew[t]
  IN \/ /\ At("critical", t, "start")
        /\ WaitWhile(CriticalFull(colour), t, "cv", "in",
                     [s EXCEPT !.num_threads_in = @ + 1, ![colour] = @ + 1], Quiet)
     \/ /\ At("critical", t, "in")
        /\ Go(t, "done", [s EXCEPT !.num_threads_in = @ - 1, ![colour] = @ - 1], Broadcast({"cv"}))

-----------------------------------------------------------------------------
(* makeup_solution/threadpool.c: the workers pop one stack dry.             *)

STACK_LEN == 5

threadpool_main == [crew |-> <<1, 2, 3>>, data |-> [stackptr |-> 0, popped |-> <<>>]]

is_empty == s.stackptr >= STACK_LEN

worker_thread(t) ==
  \/ /\ At("threadpool", t, "start")
     /\ IF is_empty THEN Go(t, "done", s, Quiet)
        ELSE Go(t, "process",
                [stackptr |-> s.stackptr + 1, popped |-> Append(s.popped, s.stackptr)], Quiet)
  \/ At("threadpool", t, "process") /\ Go(t, "start", s, Quiet)

=============================================================================

----------------------------- MODULE CondvarLabs ----------------------------
(***************************************************************************)
(* The condition-variable labs (condvar_basics, condvar_challenge) and the  *)
(* readers/writers activity.  For each program, X_main is what its main     *)
(* creates - crew[t] is the kind of thread t, data the globals - and the    *)
(* action named after the thread function is one section of thread t.       *)
(* The crews and loop counts are scaled down, which is the bound of the     *)
(* runs; the capacities the guards test are the source's.                   *)
(***************************************************************************)
EXTENDS Pthreads

-----------------------------------------------------------------------------
(* condvar_challenge/threeJobs.c: one kind of worker in the house.          *)

threeJobs_main == [crew |-> <<1, 1, 2, 2, 3>>,
                   data |-> [active_job |-> 0, active_count |-> 0]]

(* The mutated form: the count alone is tested, not the kind at work.      *)
JobWaitsSlip(type) == type > s.active_job /\ s.active_count # 0

JobWaits(type) == type # s.active_job /\ s.active_count # 0

threeJobs(t) ==
  \/ /\ At("threeJobs", t, "start")
     /\ LET type == threeJobs_main.crew[t]
        IN  WaitWhile(JobWaits(type), t, "cond", "in",
                      [active_job |-> type, active_count |-> s.active_count + 1], Quiet)
  \/ /\ At("threeJobs", t, "in")
     /\ LET left == s.active_count - 1
        IN  Go(t, "done",
               [active_job |-> IF left = 0 THEN 0 ELSE s.active_job, active_count |-> left],
               When(left = 0, Broadcast({"cond"})))

-----------------------------------------------------------------------------
(* condvar_challenge/littleredhen.c: three animals eat what the hen bakes.  *)

NUM_LOAVES_PER_BATCH == 3
NUM_BATCHES == 2
NUM_LOAVES_TO_EAT == 2

littleredhen_main ==
  [crew |-> <<"animal", "animal", "animal", "hen">>,
   data |-> [numLoaves |-> 0, batch |-> 1, numLoavesEaten |-> <<0, 0, 0>>]]

littleRedHenThread(t) ==
  \/ /\ At("littleredhen", t, "start") /\ littleredhen_main.crew[t] = "hen"
     /\ WaitWhile(s.numLoaves > 0, t, "need_more_bread",
                  IF s.batch = NUM_BATCHES THEN "fed_up" ELSE "start",
                  [s EXCEPT !.numLoaves = @ + NUM_LOAVES_PER_BATCH, !.batch = @ + 1],
                  Broadcast({"bread_ready"}))
  \/ At("littleredhen", t, "fed_up") /\ Go(t, "done", s, Broadcast({"bread_ready"}))

(* The mutated form: a hungry animal goes to sleep without calling the hen.*)
CallHenSlip == Quiet

CallHen == Signal("need_more_bread")

otherAnimalThread(t) ==
  /\ At("littleredhen", t, "start") /\ littleredhen_main.crew[t] = "animal"
  /\ IF s.numLoaves = 0
     THEN Sleep(t, "start", "bread_ready", s, CallHen)
     ELSE Go(t, IF s.numLoavesEaten[t] + 1 < NUM_LOAVES_TO_EAT THEN "start" ELSE "done",
             [s EXCEPT !.numLoaves = @ - 1, !.numLoavesEaten[t] = @ + 1], Quiet)

-----------------------------------------------------------------------------
(* condvar_challenge/priority.c: the leaver signals the highest waiting     *)
(* thread.  When no thread waits the scan runs below waiting[0] and the     *)
(* signal goes to an address outside cv: no thread of the program wakes.    *)

priority_main == [crew |-> <<1, 2, 3, 4>>,
                  data |-> [use |-> FALSE, waiting |-> {}]]

InUse(d) == d.use

cvs == <<"cv1", "cv2", "cv3", "cv4">>  \* the array cv of the program

priority(t) ==
  LET num == priority_main.crew[t]
      d == IF pc[t] = "start" THEN [s EXCEPT !.waiting = @ \cup {num}] ELSE s
      rest == s.waiting \ {num}
  IN \/ /\ At("priority", t, "start") \/ At("priority", t, "wait")
        /\ IF InUse(d) THEN Sleep(t, "wait", cvs[num], d, Quiet)
           ELSE Go(t, "in", [d EXCEPT !.use = TRUE], Quiet)
     \/ /\ At("priority", t, "in")
        /\ Go(t, "done", [use |-> FALSE, waiting |-> rest],
              When(rest # {}, Signal(cvs[Max(rest)])))

-----------------------------------------------------------------------------
(* condvar_challenge/band.c: a drummer, a singer and a guitarist.           *)

band_main == [crew |-> <<"drum", "drum", "guit", "guit", "sing", "sing">>,
              data |-> [waiting |-> [k \in {"drum", "sing", "guit"} |-> 0],
                        working |-> [k \in {"drum", "sing", "guit"} |-> 0],
                        use |-> FALSE, band_members |-> 0]]

BandWaits(d, kind) == (\E k \in DOMAIN d.waiting : d.waiting[k] = 0) \/ d.working[kind] # 0

friend(t) ==
  LET kind == band_main.crew[t]
      d == IF pc[t] = "start" THEN [s EXCEPT !.waiting[kind] = @ + 1] ELSE s
      left == s.band_members - 1
  IN \/ /\ At("band", t, "start") \/ At("band", t, "wait")
        /\ IF BandWaits(d, kind) THEN Sleep(t, "wait", "cv", d, Quiet)
           ELSE Go(t, "in",
                   [d EXCEPT !.working[kind] = @ + 1, !.band_members = @ + 1, !.use = TRUE],
                   When(~d.use, Broadcast({"cv"})))
     \/ /\ At("band", t, "in")
        /\ Go(t, "done",
              [s EXCEPT !.working[kind] = @ - 1, !.waiting[kind] = @ - 1,
                        !.band_members = left, !.use = @ /\ left # 0],
              When(left = 0, Broadcast({"cv"})))

-----------------------------------------------------------------------------
(* condvar_basics/tunnel.c.  A thread sleeps in the tunnel with the mutex   *)
(* held, so it enters and leaves in one section and no count is ever seen   *)
(* above 0: the waits are there, and no thread ever takes one.              *)

tunnel_main == [crew |-> <<"ew", "ew", "we", "amb", "amb">>,
                data |-> [count_ew |-> 0, count_we |-> 0, amb |-> 0, amb_waiting |-> 0]]

ewcar(t) ==
  /\ At("tunnel", t, "start") /\ tunnel_main.crew[t] = "ew"
  /\ WaitWhile(s.count_ew >= 3 \/ s.amb > 0 \/ s.amb_waiting > 0,
               t, "cond_ew", "done", s, Signal("cond_ew"))

wecar(t) ==
  /\ At("tunnel", t, "start") /\ tunnel_main.crew[t] = "we"
  /\ WaitWhile(s.count_we >= 1 \/ s.amb > 0 \/ s.amb_waiting > 0,
               t, "cond_we", "done", s, Signal("cond_we"))

(* amb_waiting counts the ambulances from their arrival to their entry; a   *)
(* woken one ("again") is counted already.                                  *)
ambulance(t) ==
  /\ At("tunnel", t, "start") \/ At("tunnel", t, "again")
  /\ tunnel_main.crew[t] = "amb"
  /\ LET counted == IF pc[t] = "start" THEN 1 ELSE 0
     IN  IF s.amb >= 4 \/ (s.count_ew >= 3 /\ s.count_we >= 1)
         THEN Sleep(t, "again", "cond_amb", [s EXCEPT !.amb_waiting = @ + counted], Quiet)
         ELSE Go(t, "done", [s EXCEPT !.amb_waiting = @ + counted - 1],
                 Broadcast({"cond_amb", "cond_ew", "cond_we"}))

-----------------------------------------------------------------------------
(* condvar_basics/rooms.c: two rooms, each visited with the mutex held.  A  *)
(* customer who waited would leave a second room it never counted itself    *)
(* into; nobody waits, because the mutex keeps every room empty.            *)

rooms_main == [crew |-> <<"customer", "customer", "customer", "customer">>,
               data |-> [first_room |-> 0, second_room |-> 0, waiting_room |-> 0,
                         num_left_customers |-> 0]]

customer(t) ==
  \/ /\ At("rooms", t, "start")
     /\ WaitWhile(s.first_room >= 5, t, "c", "second", s, Signal("c"))
  \/ /\ At("rooms", t, "second") \/ At("rooms", t, "waiting")
     /\ IF pc[t] = "waiting"
        THEN WaitWhile(s.second_room >= 2, t, "c", "done",
                       [s EXCEPT !.waiting_room = @ - 1, !.second_room = @ - 1], Signal("c"))
        ELSE IF s.second_room < 2 THEN Go(t, "done", s, Signal("c"))
        ELSE IF s.waiting_room < 2
        THEN Sleep(t, "waiting", "c", [s EXCEPT !.waiting_room = @ + 1], Quiet)
        ELSE Go(t, "done", [s EXCEPT !.num_left_customers = @ + 1], Quiet)

-----------------------------------------------------------------------------
(* condvar_basics/max.c: number counts the arrived, waiting ones included,  *)
(* and is taken down again under the same lock.                             *)

max_main == [crew |-> <<"a", "b", "c", "d">>, data |-> [number |-> 0]]

max(t) ==
  /\ At("max", t, "start") \/ At("max", t, "again")
  /\ LET n == IF pc[t] = "start" THEN s.number + 1 ELSE s.number
     IN  IF n > 3 THEN Sleep(t, "again", "c", [number |-> n], Quiet)
         ELSE Go(t, "done", [number |-> n - 1], Broadcast({"c"}))

-----------------------------------------------------------------------------
(* condvar_basics/inorder.c: thread num runs its section num-th.            *)

inorder_main == [crew |-> <<2, 1, 4, 3>>, data |-> [done |-> 1, order |-> <<>>]]

(* The mutated form: a thread waits only for its predecessors' predecessor.*)
NotMyTurnSlip(num) == s.done < num - 1

NotMyTurn(num) == s.done # num

inorder(t) ==
  LET num == inorder_main.crew[t]
  IN  /\ At("inorder", t, "start")
      /\ WaitWhile(NotMyTurn(num), t, "c", "done",
                   [done |-> s.done + 1, order |-> Append(s.order, num)], Broadcast({"c"}))

-----------------------------------------------------------------------------
(* activities/readers_writers/reader_writer_final.c.  The threads loop for  *)
(* ever; they stop after ROUNDS turns here.                                 *)

ROUNDS == 2

reader_writer_main ==
  [crew |-> <<"r", "r", "w", "w">>,
   data |-> [data |-> 0, writer_active |-> FALSE, writers_waiting |-> 0, readers_active |-> 0,
             rounds |-> <<0, 0, 0, 0>>]]

Again(t) == IF s.rounds[t] + 1 < ROUNDS THEN "start" ELSE "done"

reader(t) ==
  \/ /\ At("reader_writer", t, "start") /\ reader_writer_main.crew[t] = "r"
     /\ WaitWhile(s.writer_active \/ s.writers_waiting > 0, t, "time_to_read", "reading",
                  [s EXCEPT !.readers_active = @ + 1], Quiet)
  \/ /\ At("reader_writer", t, "reading")
     /\ Go(t, Again(t), [s EXCEPT !.readers_active = @ - 1, !.rounds[t] = @ + 1],
           When(s.readers_active = 1, Signal("time_to_write")))

writer(t) ==
  \/ /\ At("reader_writer", t, "start") \/ At("reader_writer", t, "wait")
     /\ reader_writer_main.crew[t] = "w"
     /\ LET waiting == s.writers_waiting + (IF pc[t] = "start" THEN 1 ELSE 0)
        IN  IF s.readers_active > 0 \/ s.writer_active
            THEN Sleep(t, "wait", "time_to_write", [s EXCEPT !.writers_waiting = waiting], Quiet)
            ELSE Go(t, "writing",
                    [s EXCEPT !.writers_waiting = waiting - 1, !.writer_active = TRUE], Quiet)
  \/ /\ At("reader_writer", t, "writing")
     /\ Go(t, Again(t),
           [s EXCEPT !.data = @ + 1, !.writer_active = FALSE, !.rounds[t] = @ + 1],
           IF s.writers_waiting > 0 THEN Signal("time_to_write")
           ELSE Broadcast({"time_to_read"}))

=============================================================================

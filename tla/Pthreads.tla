------------------------------ MODULE Pthreads ------------------------------
(***************************************************************************)
(* POSIX threads as the programs of the labs and exams use them: mutexes    *)
(* and condition variables, and a main that creates every thread and joins  *)
(* them.  The library is not in the repository; it is modelled from its use.*)
(*                                                                          *)
(* A program holds its one mutex from pthread_mutex_lock to                 *)
(* pthread_mutex_unlock, or to the pthread_cond_wait that releases it, so   *)
(* such a section is one step.  A section that finds its while-condition    *)
(* true goes to sleep at the same place and tests it again when it is woken.*)
(* Creating a thread reads nothing the others write, so every order of the  *)
(* threads' steps is possible with all of them created first.               *)
(***************************************************************************)
EXTENDS Integers, Sequences, FiniteSets, SequencesExt, FiniteSetsExt

VARIABLES
  lab,  \* the program that runs
  s,    \* its shared variables, and the locals of a thread that outlive a section
  pc,   \* pc[t]: the section thread t is about to run
  cv    \* cv[t]: the condition variable t sleeps on, or "awake"

vars == <<lab, s, pc, cv>>

At(l, t, p) == lab = l /\ t \in DOMAIN pc /\ pc[t] = p /\ cv[t] = "awake"

(* The wakings a section can end with: each is a value for cv.             *)
Quiet == {cv}

Broadcast(C) == {[t \in DOMAIN cv |-> IF cv[t] \in C THEN "awake" ELSE cv[t]]}

(* pthread_cond_signal wakes one of the sleepers, whichever it likes.      *)
Signal(c) ==
  LET sleepers == {t \in DOMAIN cv : cv[t] = c}
  IN  IF sleepers = {} THEN Quiet ELSE {[cv EXCEPT ![t] = "awake"] : t \in sleepers}

When(b, W) == IF b THEN W ELSE Quiet

(* Thread t ends its section: the next one is p, the shared data become d. *)
Go(t, p, d, W) ==
  /\ pc' = [pc EXCEPT ![t] = p]
  /\ s' = d
  /\ cv' \in W
  /\ UNCHANGED lab

(* pthread_cond_wait(c): t will test its condition again at section p.     *)
Sleep(t, p, c, d, W) ==
  /\ pc' = [pc EXCEPT ![t] = p]
  /\ s' = d
  /\ \E w \in W : cv' = [w EXCEPT ![t] = c]
  /\ UNCHANGED lab

(* while (wait) pthread_cond_wait(c); then the rest of the section.        *)
WaitWhile(wait, t, c, p, d, W) ==
  IF wait THEN Sleep(t, pc[t], c, s, Quiet) ELSE Go(t, p, d, W)

(* POSIX lets a wait return although nobody signalled.                     *)
Spurious(t) ==
  /\ t \in DOMAIN cv /\ cv[t] # "awake"
  /\ cv' = [cv EXCEPT ![t] = "awake"]
  /\ UNCHANGED <<lab, s, pc>>

Inside(p) == {t \in DOMAIN pc : pc[t] = p}

(* Main's pthread_join of every thread returns.                            *)
Finished == \A t \in DOMAIN pc : pc[t] = "done"

=============================================================================

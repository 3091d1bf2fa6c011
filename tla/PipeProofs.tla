----------------------------- MODULE PipeProofs -----------------------------
(***************************************************************************)
(* Proofs about pipes, for any number of readers and writers and any size. *)
(***************************************************************************)
EXTENDS Pipe, SequenceTheorems, TLAPS

(* Remainders: what the ring buffer needs of %. *)

\* A quotient is determined by the multiple at or below the number.
LEMMA DivFound ==
  ASSUME NEW a \in Int, NEW m \in Nat \ {0}, NEW q \in Int, m * q <= a, a < m * q + m
  PROVE  a \div m = q
BY Z3

\* Quotient and remainder of a.
LEMMA DivMod ==
  ASSUME NEW a \in Int, NEW m \in Nat \ {0}
  PROVE  \E q \in Int, r \in 0..m - 1 : a = m * q + r /\ a \div m = q /\ a % m = r
<1>1. PICK q \in Int, r \in 0..m - 1 : q = a \div m /\ r = a % m  OBVIOUS
<1>2. a = m * q + r  BY <1>1, Z3
<1> QED  BY <1>1, <1>2

\* A remainder is determined by the number it leaves a multiple of m.
LEMMA ModFound ==
  ASSUME NEW m \in Nat \ {0}, NEW q \in Int, NEW r \in 0..m - 1, NEW a \in Int, a = m * q + r
  PROVE  a % m = r
<1>1. PICK mq \in Int : mq = m * q  OBVIOUS
<1>2. a \div m = q
  <2>1. mq <= a /\ a < mq + m  BY <1>1
  <2> QED  BY <1>1, <2>1, DivFound
<1>3. PICK s \in 0..m - 1 : a = m * q + s /\ a % m = s  BY <1>2, DivMod
<1> QED  BY <1>1, <1>3

\* Multiples of m do not matter.
LEMMA ModShift ==
  ASSUME NEW a \in Int, NEW m \in Nat \ {0}, NEW k \in Int
  PROVE  (a + m * k) % m = a % m
<1>1. PICK q \in Int, r \in 0..m - 1 : a = m * q + r /\ a % m = r  BY DivMod
<1>2. a + m * k = m * (q + k) + r  BY <1>1, Z3
<1>3. a + m * k \in Int /\ q + k \in Int  OBVIOUS
<1> QED  BY <1>1, <1>2, <1>3, ModFound

\* Fewer than m numbers in a row have distinct remainders.
LEMMA ModDistinct ==
  ASSUME NEW a \in Int, NEW b \in Int, NEW m \in Nat \ {0}, a <= b, b - a < m, a % m = b % m
  PROVE  a = b
<1>1. PICK q \in Int, r \in 0..m - 1 : a = m * q + r /\ a % m = r  BY DivMod
<1>2. PICK s \in Int : b = m * s + r
  <2>1. PICK s \in Int, t \in 0..m - 1 : b = m * s + t /\ b % m = t  BY DivMod
  <2> QED  BY <1>1, <2>1
<1>3. b - a = m * (s - q)  BY <1>1, <1>2, Z3
<1>4. s - q >= 1 => m * (s - q) >= m  BY Z3
<1>5. s - q <= -1 => m * (s - q) <= -m  BY Z3
<1>6. s = q  BY <1>3, <1>4, <1>5
<1> QED  BY <1>1, <1>2, <1>6

\* Multiples of a multiple of m do not matter either.
LEMMA ModShiftMultiple ==
  ASSUME NEW m \in Nat \ {0}, NEW n \in Nat, n % m = 0, NEW a \in Int, NEW k \in Int
  PROVE  (a + n * k) % m = a % m
<1>1. PICK q \in Int, r \in 0..m - 1 : n = m * q + r /\ n % m = r  BY DivMod
<1>2. n = m * q  BY <1>1
<1>3. PICK j \in Int : j = q * k  OBVIOUS
<1>4. n * k = m * j  BY <1>2, <1>3, Z3
<1>5. (a + m * j) % m = a % m  BY ModShift
<1> QED  BY <1>4, <1>5, Zenon

(* Counters of a ring modulo m. *)

\* A counter that is s ahead of r is (r + s) % m.
LEMMA Ahead ==
  ASSUME NEW m \in Nat \ {0}, NEW r \in Int, NEW w \in 0..m - 1
  PROVE  (r + ((w - r) % m)) % m = w
<1>1. w - r \in Int  OBVIOUS
<1>2. PICK q \in Int, s \in 0..m - 1 : w - r = m * q + s /\ (w - r) % m = s  BY <1>1, DivMod, Zenon
<1>3. PICK mq \in Int : mq = m * q  OBVIOUS
<1>4. PICK nq \in Int : nq = -q  OBVIOUS
<1>5. m * nq = -mq  BY <1>3, <1>4, Z3
<1>6. PICK e \in Int : e = r + s  OBVIOUS
<1>7. e = m * nq + w  BY <1>2, <1>3, <1>5, <1>6
<1>8. e % m = w  BY ONLY <1>7, m \in Nat \ {0}, e \in Int, nq \in Int, w \in 0..m - 1, ModFound
<1> QED  BY <1>2, <1>6, <1>8

\* Incrementing the counter that is ahead.
LEMMA Advance ==
  ASSUME NEW m \in Nat \ {0}, NEW r \in Int, NEW w \in Int, ((w - r) % m) + 1 < m
  PROVE  (((w + 1) % m) - r) % m = ((w - r) % m) + 1
<1>1. w - r \in Int /\ w + 1 \in Int  OBVIOUS
<1>2. PICK q \in Int, s \in 0..m - 1 : w - r = m * q + s /\ (w - r) % m = s  BY <1>1, DivMod, Zenon
<1>3. PICK c \in Int, v \in 0..m - 1 : w + 1 = m * c + v /\ (w + 1) % m = v  BY <1>1, DivMod, Zenon
<1>4. PICK d \in Int : d = q - c  OBVIOUS
<1>5. v - r = m * d + (s + 1)  BY <1>2, <1>3, <1>4, Z3
<1>6. PICK e \in Int, t \in 0..m - 1 : e = v - r /\ t = s + 1  BY <1>2
<1>7. e = m * d + t  BY <1>5, <1>6
<1>8. e % m = t  BY ONLY <1>7, m \in Nat \ {0}, e \in Int, d \in Int, t \in 0..m - 1, ModFound
<1> QED  BY <1>2, <1>3, <1>6, <1>8

\* Incrementing the counter that is behind.
LEMMA Follow ==
  ASSUME NEW m \in Nat \ {0}, NEW r \in Int, NEW w \in Int, (w - r) % m # 0
  PROVE  (w - ((r + 1) % m)) % m = ((w - r) % m) - 1
<1>1. w - r \in Int /\ r + 1 \in Int  OBVIOUS
<1>2. PICK q \in Int, s \in 0..m - 1 : w - r = m * q + s /\ (w - r) % m = s  BY <1>1, DivMod, Zenon
<1>3. PICK c \in Int, v \in 0..m - 1 : r + 1 = m * c + v /\ (r + 1) % m = v  BY <1>1, DivMod, Zenon
<1>4. PICK d \in Int : d = q + c  OBVIOUS
<1>5. w - v = m * d + (s - 1)  BY <1>2, <1>3, <1>4, Z3
<1>6. PICK e \in Int, t \in 0..m - 1 : e = w - v /\ t = s - 1  BY <1>2
<1>7. e = m * d + t  BY <1>5, <1>6
<1>8. e % m = t  BY ONLY <1>7, m \in Nat \ {0}, e \in Int, d \in Int, t \in 0..m - 1, ModFound
<1> QED  BY <1>2, <1>3, <1>6, <1>8

\* A counter that wraps at a multiple of m stays at its slot of the ring.
LEMMA WrapKeepsSlot ==
  ASSUME NEW m \in Nat \ {0}, NEW n \in Nat \ {0}, n % m = 0, NEW a \in Int, NEW k \in Int
  PROVE  ((a % n) + k) % m = (a + k) % m
<1>1. PICK q \in Int, r \in 0..n - 1 : a = n * q + r /\ a % n = r
  BY ONLY a \in Int, n \in Nat \ {0}, DivMod
<1>2. PICK nq \in Int, i \in Int : nq = n * q /\ i = r + k  OBVIOUS
<1>3. n \in Nat  OBVIOUS
<1>4. (i + n * q) % m = i % m
  BY ONLY <1>3, m \in Nat \ {0}, n % m = 0, i \in Int, q \in Int, ModShiftMultiple, Zenon
<1>5. a + k = i + nq  BY <1>1, <1>2
<1> QED  BY <1>1, <1>2, <1>4, <1>5

-----------------------------------------------------------------------------
(* The inductive invariant. *)

USE PipeAssumption

\* pipealloc establishes the inductive invariant.
LEMMA InitIInv == Init => IInv
<1> SUFFICES ASSUME Init PROVE IInv  OBVIOUS
<1>1. PcInv  BY DEF Init, PcInv, Inside, Proc, None
<1>2. CloseInv  BY DEF Init, CloseInv, Proc
<1>3. SleepInv  BY DEF Init, SleepInv, Proc
<1>4. ReadInv  BY DEF Init, ReadInv, Proc
<1> QED  BY <1>1, <1>2, <1>3, <1>4 DEF IInv

\* Every step preserves the inductive invariant.
LEMMA StepIInv == IInv /\ [Next]_vars => IInv'
<1> SUFFICES ASSUME IInv, [Next]_vars PROVE IInv'  OBVIOUS
<1> USE DEF Proc, None, Inside, pipe
<1>1. ASSUME NEW p \in Writer, NEW n \in 0..MaxCount, PipeWrite(p, n)  PROVE IInv'
  <2> USE <1>1 DEF PipeWrite
  <2>1. PcInv'  BY DEF IInv, PcInv
  <2>2. CloseInv'  BY DEF IInv, PcInv, CloseInv, End
  <2>3. SleepInv'  BY DEF IInv, PcInv, CloseInv, SleepInv, Full
  <2>4. ReadInv'  BY DEF IInv, PcInv, CloseInv, ReadInv, Empty
  <2> QED  BY <2>1, <2>2, <2>3, <2>4 DEF IInv
<1>2. ASSUME NEW p \in Writer, NEW b \in Byte, WriteByte(p, b)  PROVE IInv'
  <2> USE <1>2 DEF WriteByte
  <2>1. PcInv'  BY DEF IInv, PcInv
  <2>2. CloseInv'  BY DEF IInv, PcInv, CloseInv, End
  <2>3. SleepInv'  BY DEF IInv, PcInv, CloseInv, SleepInv, Full
  <2>4. ReadInv'  BY DEF IInv, PcInv, CloseInv, ReadInv, Empty
  <2> QED  BY <2>1, <2>2, <2>3, <2>4 DEF IInv
<1>3. ASSUME NEW p \in Writer, WriteRetry(p)  PROVE IInv'
  <2> USE <1>3 DEF WriteRetry
  <2>1. PcInv'  BY DEF IInv, PcInv
  <2>2. CloseInv'  BY DEF IInv, PcInv, CloseInv, End
  <2>3. SleepInv'  BY DEF IInv, PcInv, CloseInv, SleepInv, Full
  <2>4. ReadInv'  BY DEF IInv, PcInv, CloseInv, ReadInv, Empty
  <2> QED  BY <2>1, <2>2, <2>3, <2>4 DEF IInv
<1>4. ASSUME NEW p \in Writer, WriteFail(p)  PROVE IInv'
  <2> USE <1>4 DEF WriteFail
  <2>1. PcInv'  BY DEF IInv, PcInv
  <2>2. CloseInv'  BY DEF IInv, PcInv, CloseInv, End
  <2>3. SleepInv'  BY DEF IInv, PcInv, CloseInv, SleepInv, Full
  <2>4. ReadInv'  BY DEF IInv, PcInv, CloseInv, ReadInv, Empty
  <2> QED  BY <2>1, <2>2, <2>3, <2>4 DEF IInv
<1>5. ASSUME NEW p \in Writer, WriteCheck(p)  PROVE IInv'
  <2> USE <1>5 DEF WriteCheck
  <2>1. PcInv'  BY DEF IInv, PcInv
  <2>2. CloseInv'  BY DEF IInv, PcInv, CloseInv, End
  <2>3. SleepInv'  BY DEF IInv, PcInv, CloseInv, SleepInv, Full
  <2>4. ReadInv'  BY DEF IInv, PcInv, CloseInv, ReadInv, Empty
  <2> QED  BY <2>1, <2>2, <2>3, <2>4 DEF IInv
<1>6. ASSUME NEW p \in Writer, WriteSleep(p)  PROVE IInv'
  <2> USE <1>6 DEF WriteSleep, Wake, Woken
  <2>1. PcInv'  BY DEF IInv, PcInv
  <2>2. CloseInv'  BY DEF IInv, PcInv, CloseInv, End
  <2>3. SleepInv'
    <3>1. readopen  BY DEF IInv, PcInv, CloseInv, SleepInv
    <3>2. Full' /\ readopen'  BY <3>1 DEF Full
    <3> QED  BY <3>2 DEF IInv, PcInv, SleepInv
  <2>4. ReadInv'  BY DEF IInv, PcInv, CloseInv, ReadInv, Empty
  <2> QED  BY <2>1, <2>2, <2>3, <2>4 DEF IInv
<1>7. ASSUME NEW p \in Writer, WriteDone(p)  PROVE IInv'
  <2> USE <1>7 DEF WriteDone, Wake, Woken
  <2>1. PcInv'  BY DEF IInv, PcInv
  <2>2. CloseInv'  BY DEF IInv, PcInv, CloseInv, End
  <2>3. SleepInv'  BY DEF IInv, PcInv, CloseInv, SleepInv, Full
  <2>4. ReadInv'  BY DEF IInv, PcInv, CloseInv, ReadInv, Empty
  <2> QED  BY <2>1, <2>2, <2>3, <2>4 DEF IInv
<1>8. ASSUME NEW p \in Reader, NEW n \in 0..MaxCount, PipeRead(p, n)  PROVE IInv'
  <2> USE <1>8 DEF PipeRead
  <2>1. PcInv'  BY DEF IInv, PcInv
  <2>2. CloseInv'  BY DEF IInv, PcInv, CloseInv, End
  <2>3. SleepInv'  BY DEF IInv, PcInv, CloseInv, SleepInv, Full
  <2>4. ReadInv'  BY DEF IInv, PcInv, CloseInv, ReadInv, Empty
  <2> QED  BY <2>1, <2>2, <2>3, <2>4 DEF IInv
<1>9. ASSUME NEW p \in Reader, NEW copied \in BOOLEAN, ReadByte(p, copied)  PROVE IInv'
  <2> USE <1>9 DEF ReadByte
  <2>1. PcInv'  BY DEF IInv, PcInv
  <2>2. CloseInv'  BY DEF IInv, PcInv, CloseInv, End
  <2>3. SleepInv'  BY DEF IInv, PcInv, CloseInv, SleepInv, Full
  <2>4. ReadInv'  BY DEF IInv, PcInv, CloseInv, ReadInv, Empty
  <2> QED  BY <2>1, <2>2, <2>3, <2>4 DEF IInv
<1>10. ASSUME NEW p \in Reader, ReadRetry(p)  PROVE IInv'
  <2> USE <1>10 DEF ReadRetry
  <2>1. PcInv'  BY DEF IInv, PcInv
  <2>2. CloseInv'  BY DEF IInv, PcInv, CloseInv, End
  <2>3. SleepInv'  BY DEF IInv, PcInv, CloseInv, SleepInv, Full
  <2>4. ReadInv'  BY DEF IInv, PcInv, CloseInv, ReadInv, Empty
  <2> QED  BY <2>1, <2>2, <2>3, <2>4 DEF IInv
<1>11. ASSUME NEW p \in Reader, ReadFail(p)  PROVE IInv'
  <2> USE <1>11 DEF ReadFail
  <2>1. PcInv'  BY DEF IInv, PcInv
  <2>2. CloseInv'  BY DEF IInv, PcInv, CloseInv, End
  <2>3. SleepInv'  BY DEF IInv, PcInv, CloseInv, SleepInv, Full
  <2>4. ReadInv'  BY DEF IInv, PcInv, CloseInv, ReadInv, Empty
  <2> QED  BY <2>1, <2>2, <2>3, <2>4 DEF IInv
<1>12. ASSUME NEW p \in Reader, ReadCheck(p)  PROVE IInv'
  <2> USE <1>12 DEF ReadCheck
  <2>1. PcInv'  BY DEF IInv, PcInv
  <2>2. CloseInv'  BY DEF IInv, PcInv, CloseInv, End
  <2>3. SleepInv'  BY DEF IInv, PcInv, CloseInv, SleepInv, Full
  <2>4. ReadInv'  BY DEF IInv, PcInv, CloseInv, ReadInv, Empty
  <2> QED  BY <2>1, <2>2, <2>3, <2>4 DEF IInv
<1>13. ASSUME NEW p \in Reader, ReadSleep(p)  PROVE IInv'
  <2> USE <1>13 DEF ReadSleep
  <2>1. PcInv'  BY DEF IInv, PcInv
  <2>2. CloseInv'  BY DEF IInv, PcInv, CloseInv, End
  <2>3. SleepInv'  BY DEF IInv, PcInv, CloseInv, SleepInv, Full
  <2>4. ReadInv'  BY DEF IInv, PcInv, CloseInv, ReadInv, Empty
  <2> QED  BY <2>1, <2>2, <2>3, <2>4 DEF IInv
<1>14. ASSUME NEW p \in Reader, ReadReady(p)  PROVE IInv'
  <2> USE <1>14 DEF ReadReady
  <2>1. PcInv'  BY DEF IInv, PcInv
  <2>2. CloseInv'  BY DEF IInv, PcInv, CloseInv, End
  <2>3. SleepInv'  BY DEF IInv, PcInv, CloseInv, SleepInv, Full
  <2>4. ReadInv'  BY DEF IInv, PcInv, CloseInv, ReadInv, Empty
  <2> QED  BY <2>1, <2>2, <2>3, <2>4 DEF IInv
<1>15. ASSUME NEW p \in Reader, ReadDone(p)  PROVE IInv'
  <2> USE <1>15 DEF ReadDone, Wake, Woken
  <2>1. PcInv'  BY DEF IInv, PcInv
  <2>2. CloseInv'  BY DEF IInv, PcInv, CloseInv, End
  <2>3. SleepInv'  BY DEF IInv, PcInv, CloseInv, SleepInv, Full
  <2>4. ReadInv'  BY DEF IInv, PcInv, CloseInv, ReadInv, Empty
  <2> QED  BY <2>1, <2>2, <2>3, <2>4 DEF IInv
<1>16. ASSUME NEW p \in Proc, FileClose(p)  PROVE IInv'
  <2> USE <1>16 DEF FileClose, End
  <2>1. PcInv'  BY DEF IInv, PcInv
  <2>2. CloseInv'  BY DEF IInv, PcInv, CloseInv, End
  <2>3. SleepInv'  BY DEF IInv, PcInv, CloseInv, SleepInv, Full
  <2>4. ReadInv'  BY DEF IInv, PcInv, CloseInv, ReadInv, Empty
  <2> QED  BY <2>1, <2>2, <2>3, <2>4 DEF IInv
<1>17. ASSUME NEW p \in Proc, PipeClose(p)  PROVE IInv'
  <2> USE <1>17 DEF PipeClose, Wake, Woken, LastEnd
  <2>1. PcInv'  BY DEF IInv, PcInv
  <2>2. CloseInv'
    <3>1. CASE p \in Writer
      <4>1. readopen' = readopen /\ writeopen' = FALSE  BY <3>1 DEF IInv, CloseInv
      <4>2. writeopen  BY <3>1 DEF IInv, CloseInv
      <4>3. \A q \in Writer : pc'[q] = "closed"  BY <3>1 DEF IInv, PcInv, CloseInv, End
      <4>4. \A q \in Proc : q # p => (pc'[q] \in {"closing", "closed"} <=> pc[q] \in {"closing", "closed"})
                                    /\ (pc'[q] = "closed" <=> pc[q] = "closed")
        OBVIOUS
      <4> QED  BY <3>1, <4>1, <4>2, <4>3, <4>4 DEF IInv, PcInv, CloseInv, End
    <3>2. CASE p \in Reader
      <4>1. writeopen' = writeopen /\ readopen' = FALSE  BY <3>2 DEF IInv, CloseInv
      <4>2. readopen  BY <3>2 DEF IInv, CloseInv
      <4>3. \A q \in Reader : pc'[q] = "closed"  BY <3>2 DEF IInv, PcInv, CloseInv, End
      <4>4. \A q \in Proc : q # p => (pc'[q] \in {"closing", "closed"} <=> pc[q] \in {"closing", "closed"})
                                    /\ (pc'[q] = "closed" <=> pc[q] = "closed")
        OBVIOUS
      <4> QED  BY <3>2, <4>1, <4>2, <4>3, <4>4 DEF IInv, PcInv, CloseInv, End
    <3> QED  BY <3>1, <3>2
  <2>3. SleepInv'  BY DEF IInv, PcInv, CloseInv, SleepInv, Full
  <2>4. ReadInv'  BY DEF IInv, PcInv, CloseInv, ReadInv, Empty
  <2> QED  BY <2>1, <2>2, <2>3, <2>4 DEF IInv
<1>18. ASSUME NEW p \in Proc, Kill(p)  PROVE IInv'
  <2> USE <1>18 DEF Kill
  <2>1. PcInv'  BY DEF IInv, PcInv
  <2>2. CloseInv'  BY DEF IInv, PcInv, CloseInv, End
  <2>3. SleepInv'  BY DEF IInv, PcInv, CloseInv, SleepInv, Full
  <2>4. ReadInv'  BY DEF IInv, PcInv, CloseInv, ReadInv, Empty
  <2> QED  BY <2>1, <2>2, <2>3, <2>4 DEF IInv
<1>19. CASE UNCHANGED vars
  BY <1>19 DEF vars, IInv, PcInv, CloseInv, SleepInv, ReadInv, Full, Empty, End
<1> QED
  BY <1>1, <1>2, <1>3, <1>4, <1>5, <1>6, <1>7, <1>8, <1>9, <1>10, <1>11, <1>12, <1>13, <1>14, <1>15, <1>16, <1>17, <1>18, <1>19
     DEF Next, Write, Read

\* The inductive invariant holds in every reachable state.
THEOREM IInvHolds == Spec => []IInv
BY InitIInv, StepIInv, PTL DEF Spec

\* No writer stays asleep beside a pipe with room, or one that nobody can read,
\* whoever is killed.
THEOREM NoStrandedWriter == Spec => []WriterSleepsWhenFull
<1>1. IInv => WriterSleepsWhenFull
  BY DEF IInv, PcInv, SleepInv, WriterSleepsWhenFull, Proc, None, Inside
<1> QED  BY IInvHolds, <1>1, PTL

\* No reader stays asleep beside bytes it could have unless a writer was killed, nor
\* beside a pipe whose write end is closed.
THEOREM ReaderWoken == Spec => []NoStrandedReader
<1>1. IInv => NoStrandedReader
  <2> SUFFICES ASSUME IInv, lock = None, NEW p \in Reader, pc[p] = "rsleep"
               PROVE  (Empty \/ Writer \cap killed # {}) /\ writeopen
    BY DEF NoStrandedReader
  <2>1. \A w \in Writer : pc[w] \notin {"wloop", "wput"}
    <3> TAKE w \in Writer
    <3>1. w \in Proc /\ lock # w  BY DEF Proc, None
    <3> QED  BY <3>1 DEF IInv, PcInv, Inside
  <2> QED  BY <2>1 DEF IInv, ReadInv
<1> QED  BY IInvHolds, <1>1, PTL

\* The page of a pipe is freed once, when nobody can use it any more.
THEOREM FreedOnceUnused == Spec => []FreedWhenUnused
<1>1. IInv => FreedWhenUnused
  BY DEF IInv, CloseInv, FreedWhenUnused, Proc
<1> QED  BY IInvHolds, <1>1, PTL
-----------------------------------------------------------------------------
(* The ring buffer is a queue. *)

\* The slot of the ring a counter stands for, and a counter as a uint.
Slot(i) == i % PIPESIZE
Wrap(i) == i % Modulus

\* What the proofs below use of them: the ring's slots,
LEMMA SlotFacts ==
  /\ \A i \in Int : Slot(i) \in 0..PIPESIZE - 1 /\ Wrap(i) \in 0..Modulus - 1
  /\ \A i \in Int, j \in Int : i < j /\ j - i < PIPESIZE => Slot(i) # Slot(j)
  /\ \A i \in Int, k \in Int : Slot(Wrap(i) + k) = Slot(i + k)
<1>1. \A i \in Int : Slot(i) \in 0..PIPESIZE - 1 /\ Wrap(i) \in 0..Modulus - 1  BY DEF Slot, Wrap
<1>2. PIPESIZE \in Nat \ {0} /\ Modulus \in Nat \ {0} /\ Modulus % PIPESIZE = 0  OBVIOUS
<1>3. ASSUME NEW i \in Int, NEW j \in Int, i < j, j - i < PIPESIZE  PROVE Slot(i) # Slot(j)
  <2>1. i <= j /\ i # j  BY <1>3
  <2> QED  BY ONLY <1>2, <1>3, <2>1, ModDistinct DEF Slot
<1>4. ASSUME NEW a \in Int, NEW k \in Int  PROVE Slot(Wrap(a) + k) = Slot(a + k)
  BY ONLY <1>2, a \in Int, k \in Int, WrapKeepsSlot, Zenon DEF Slot, Wrap
<1> QED  BY <1>1, <1>3, <1>4

\* and the distance of its counters.
LEMMA WrapFacts ==
  /\ \A r \in Int, w \in 0..Modulus - 1 : Wrap(r + Wrap(w - r)) = w
  /\ \A r \in Int, w \in Int : Wrap(w - r) + 1 < Modulus => Wrap(Wrap(w + 1) - r) = Wrap(w - r) + 1
  /\ \A r \in Int, w \in Int : Wrap(w - r) # 0 => Wrap(w - Wrap(r + 1)) = Wrap(w - r) - 1
<1>1. Modulus \in Nat \ {0}  OBVIOUS
<1>2. ASSUME NEW r \in Int, NEW w \in 0..Modulus - 1  PROVE Wrap(r + Wrap(w - r)) = w
  BY ONLY <1>1, r \in Int, w \in 0..Modulus - 1, Ahead, Zenon DEF Wrap
<1>3. ASSUME NEW r \in Int, NEW w \in Int, Wrap(w - r) + 1 < Modulus
      PROVE  Wrap(Wrap(w + 1) - r) = Wrap(w - r) + 1
  BY ONLY <1>1, <1>3, r \in Int, w \in Int, Advance, Zenon DEF Wrap
<1>4. ASSUME NEW r \in Int, NEW w \in Int, Wrap(w - r) # 0
      PROVE  Wrap(w - Wrap(r + 1)) = Wrap(w - r) - 1
  BY ONLY <1>1, <1>4, r \in Int, w \in Int, Follow, Zenon DEF Wrap
<1> QED  BY <1>2, <1>3, <1>4

\* The bytes of the ring from r on are a sequence.
LEMMA RingSeq ==
  ASSUME NEW d \in [0..PIPESIZE - 1 -> Byte], NEW r \in Int, NEW n \in Nat
  PROVE  LET s == [k \in 1..n |-> d[Slot(r + k - 1)]]
         IN  s \in Seq(Byte) /\ Len(s) = n
<1> DEFINE s == [k \in 1..n |-> d[Slot(r + k - 1)]]
<1>1. s \in [1..n -> Byte]
  <2>1. ASSUME NEW k \in 1..n  PROVE d[Slot(r + k - 1)] \in Byte
    <3>1. r + k - 1 \in Int  OBVIOUS
    <3>2. Slot(r + k - 1) \in 0..PIPESIZE - 1  BY ONLY <3>1, SlotFacts, Zenon
    <3> QED  BY <3>2
  <2> QED  BY <2>1
<1>2. s \in Seq(Byte)  BY <1>1, SeqDef
<1>3. DOMAIN s = 1..n  OBVIOUS
<1>4. Len(s) = n
  <2> HIDE DEF s
  <2> QED  BY <1>2, <1>3, LenProperties
<1> QED  BY <1>2, <1>4

\* pipewrite: pi->data[pi->nwrite++ % PIPESIZE] = ch appends a byte, also when
\* nwrite wraps.
LEMMA WriteAppends ==
  ASSUME RingInv, NEW p \in Writer, NEW b \in Byte, WriteByte(p, b)
  PROVE  RingInv' /\ Len(Contents) < PIPESIZE /\ Contents' = Append(Contents, b)
<1>1. /\ nread \in 0..Modulus - 1 /\ nwrite \in 0..Modulus - 1
      /\ Wrap(nwrite - nread) <= PIPESIZE /\ nwrite # Wrap(nread + PIPESIZE)
      /\ nwrite' = Wrap(nwrite + 1) /\ nread' = nread
      /\ data \in [0..PIPESIZE - 1 -> Byte] /\ data' = [data EXCEPT ![Slot(nwrite)] = b]
      /\ Contents = [k \in 1..Wrap(nwrite - nread) |-> data[Slot(nread + k - 1)]]
      /\ Contents' = [k \in 1..Wrap(nwrite' - nread') |-> data'[Slot(nread' + k - 1)]]
      /\ PIPESIZE \in Nat \ {0} /\ Modulus \in Nat \ {0} /\ PIPESIZE < Modulus
  BY DEF RingInv, WriteByte, Full, Contents, Slot, Wrap
<1> HIDE PipeAssumption
<1>2. PICK n \in Nat : n = Wrap(nwrite - nread)
  <2>1. nwrite - nread \in Int  BY <1>1
  <2>2. Wrap(nwrite - nread) \in 0..Modulus - 1  BY ONLY <2>1, SlotFacts, Zenon
  <2> QED  BY <1>1, <2>2
<1>3. nwrite = Wrap(nread + n)  BY <1>1, <1>2, WrapFacts
<1>4. n < PIPESIZE
  <2>1. n <= PIPESIZE /\ n # PIPESIZE  BY <1>1, <1>2, <1>3
  <2> QED  BY <1>1, <2>1
<1>5. Wrap(nwrite' - nread') = n + 1
  <2>1. Wrap(nwrite - nread) + 1 < Modulus /\ nwrite \in Int /\ nread \in Int  BY <1>1, <1>2, <1>4
  <2>2. Wrap(Wrap(nwrite + 1) - nread) = Wrap(nwrite - nread) + 1  BY ONLY <2>1, WrapFacts, Zenon
  <2> QED  BY <1>1, <1>2, <2>2
<1>6. Slot(nwrite) = Slot(nread + n) /\ Slot(nwrite) \in 0..PIPESIZE - 1
  <2>1. Slot(Wrap(nread + n) + 0) = Slot(nread + n + 0)  BY <1>1, SlotFacts
  <2>2. nwrite + 0 = nwrite /\ nread + n + 0 = nread + n  BY <1>1
  <2> QED  BY <1>1, <1>3, <2>1, <2>2, SlotFacts
<1>7. RingInv'
  <2>1. nwrite' \in 0..Modulus - 1  BY <1>1, SlotFacts
  <2>2. data' \in [0..PIPESIZE - 1 -> Byte]  BY <1>1, <1>6
  <2>3. Wrap(nwrite' - nread') <= PIPESIZE  BY <1>1, <1>4, <1>5
  <2> QED  BY <1>1, <2>1, <2>2, <2>3 DEF RingInv, Wrap
<1>8. Contents = [k \in 1..n |-> data[Slot(nread + k - 1)]]  BY <1>1, <1>2
<1>9. Contents' = [k \in 1..n + 1 |-> data'[Slot(nread + k - 1)]]  BY <1>1, <1>5
<1>10. Contents \in Seq(Byte) /\ Len(Contents) = n
  <2>1. nread \in Int /\ data \in [0..PIPESIZE - 1 -> Byte]  BY <1>1
  <2> QED  BY ONLY <1>8, <2>1, n \in Nat, RingSeq, Zenon
<1>11. Contents' \in Seq(Byte) /\ Len(Contents') = n + 1
  <2>1. nread \in Int /\ n + 1 \in Nat /\ data' \in [0..PIPESIZE - 1 -> Byte]  BY <1>1, <1>6
  <2> QED  BY ONLY <1>9, <2>1, RingSeq, Zenon
<1>12. /\ Append(Contents, b) \in Seq(Byte) /\ Len(Append(Contents, b)) = n + 1
       /\ \A k \in 1..n : Append(Contents, b)[k] = Contents[k]
       /\ Append(Contents, b)[n + 1] = b
  BY <1>10, AppendProperties
<1>13. \A k \in 1..n : Contents'[k] = Contents[k]
  <2> TAKE k \in 1..n
  <2>1. PICK i \in Int, j \in Int : i = nread + k - 1 /\ j = nread + n  BY <1>1
  <2>2. i < j /\ j - i < PIPESIZE  BY <1>1, <1>4, <2>1
  <2>3. Slot(i) # Slot(nwrite) /\ Slot(i) \in 0..PIPESIZE - 1  BY <1>6, <2>1, <2>2, SlotFacts
  <2>4. data'[Slot(i)] = data[Slot(i)]  BY <1>1, <2>3
  <2> QED  BY <1>8, <1>9, <2>1, <2>4
<1>14. Contents'[n + 1] = b
  <2>1. nread + (n + 1) - 1 = nread + n  BY <1>1
  <2>2. Contents'[n + 1] = data'[Slot(nwrite)]  BY <1>6, <1>9, <2>1
  <2> QED  BY <1>1, <1>6, <2>2
<1>15. Contents' = Append(Contents, b)
  <2>1. \A k \in 1..n + 1 : k = n + 1 \/ k \in 1..n  OBVIOUS
  <2>2. \A k \in 1..n + 1 : Contents'[k] = Append(Contents, b)[k]
    BY <1>12, <1>13, <1>14, <2>1
  <2> QED  BY <1>11, <1>12, <2>2, SeqEqual
<1> QED  BY <1>4, <1>7, <1>10, <1>15

\* piperead: pi->nread++ takes the oldest byte out, also when nread wraps.
LEMMA ReadTakesOldest ==
  ASSUME RingInv, NEW p \in Reader, NEW copied \in BOOLEAN, ReadByte(p, copied)
  PROVE  RingInv' /\ Contents # <<>> /\ Contents' = Tail(Contents)
<1>1. /\ nread \in 0..Modulus - 1 /\ nwrite \in 0..Modulus - 1
      /\ Wrap(nwrite - nread) <= PIPESIZE /\ nread # nwrite
      /\ nwrite' = nwrite /\ nread' = Wrap(nread + 1)
      /\ data \in [0..PIPESIZE - 1 -> Byte] /\ data' = data
      /\ Contents = [k \in 1..Wrap(nwrite - nread) |-> data[Slot(nread + k - 1)]]
      /\ Contents' = [k \in 1..Wrap(nwrite' - nread') |-> data'[Slot(nread' + k - 1)]]
      /\ PIPESIZE \in Nat \ {0} /\ Modulus \in Nat \ {0}
      /\ Wrap(nread) = nread
  BY DEF RingInv, ReadByte, Empty, Contents, Slot, Wrap
<1> HIDE PipeAssumption
<1>2. PICK n \in Nat : n = Wrap(nwrite - nread)
  <2>1. nwrite - nread \in Int  BY <1>1
  <2>2. Wrap(nwrite - nread) \in 0..Modulus - 1  BY ONLY <2>1, SlotFacts, Zenon
  <2> QED  BY <1>1, <2>2
<1>3. n > 0
  <2>1. nwrite = Wrap(nread + n)  BY <1>1, <1>2, WrapFacts
  <2>2. n = 0 => nread + n = nread  BY <1>1
  <2>3. n # 0  BY <1>1, <2>1, <2>2
  <2> QED  BY <2>3
<1>4. nread' \in 0..Modulus - 1  BY <1>1, SlotFacts
<1>5. Wrap(nwrite' - nread') = n - 1
  <2>1. Wrap(nwrite - nread) # 0 /\ nwrite \in Int /\ nread \in Int  BY <1>1, <1>2, <1>3
  <2>2. Wrap(nwrite - Wrap(nread + 1)) = Wrap(nwrite - nread) - 1  BY ONLY <2>1, WrapFacts, Zenon
  <2> QED  BY <1>1, <1>2, <2>2
<1>6. RingInv'
  <2>1. Wrap(nwrite' - nread') <= PIPESIZE  BY <1>1, <1>2, <1>5
  <2> QED  BY <1>1, <1>4, <2>1 DEF RingInv, Wrap
<1>7. Contents = [k \in 1..n |-> data[Slot(nread + k - 1)]]  BY <1>1, <1>2
<1>8. Contents' = [k \in 1..n - 1 |-> data[Slot(nread' + k - 1)]]  BY <1>1, <1>5
<1>9. Contents \in Seq(Byte) /\ Len(Contents) = n
  <2>1. nread \in Int /\ data \in [0..PIPESIZE - 1 -> Byte]  BY <1>1
  <2> QED  BY ONLY <1>7, <2>1, n \in Nat, RingSeq, Zenon
<1>10. Contents' \in Seq(Byte) /\ Len(Contents') = n - 1
  <2>1. nread' \in Int /\ n - 1 \in Nat /\ data \in [0..PIPESIZE - 1 -> Byte]  BY <1>1, <1>3, <1>4
  <2> QED  BY ONLY <1>8, <2>1, RingSeq, Zenon
<1>11. Contents # <<>>  BY <1>3, <1>9, EmptySeq
<1>12. \A k \in 1..n - 1 : Contents'[k] = Contents[k + 1]
  <2> TAKE k \in 1..n - 1
  <2>1. PICK i \in Int, d \in Int : i = nread + 1 /\ d = k - 1  BY <1>1
  <2>2. Slot(Wrap(i) + d) = Slot(i + d)  BY SlotFacts
  <2>3. nread' + k - 1 = Wrap(i) + d /\ nread + (k + 1) - 1 = i + d  BY <1>1, <1>4, <2>1
  <2>4. k + 1 \in 1..n  BY <1>3
  <2> QED  BY <1>7, <1>8, <2>2, <2>3, <2>4
<1>13. /\ Tail(Contents) \in Seq(Byte) /\ Len(Tail(Contents)) = n - 1
       /\ \A k \in 1..n - 1 : Tail(Contents)[k] = Contents[k + 1]
  BY <1>9, <1>11, HeadTailProperties
<1>14. Contents' = Tail(Contents)  BY <1>10, <1>12, <1>13, SeqEqual
<1> QED  BY <1>6, <1>11, <1>14

\* A new pipe is an empty queue.
LEMMA InitQueue == Init => RingInv /\ Queue!Init
<1> SUFFICES ASSUME Init PROVE RingInv /\ Queue!Init  OBVIOUS
<1>1. (nwrite - nread) % Modulus = 0
  <2>1. nwrite - nread = 0  BY DEF Init
  <2> QED  BY <2>1
<1>2. RingInv  BY <1>1 DEF RingInv, Init
<1>3. Contents = <<>>  BY <1>1 DEF Contents
<1> QED  BY <1>2, <1>3 DEF Queue!Init

\* Every step of the pipe is a step of the queue, or leaves the queue alone.
LEMMA StepQueue == RingInv /\ [Next]_vars => RingInv' /\ [Queue!Next]_Contents
<1> SUFFICES ASSUME RingInv, [Next]_vars PROVE RingInv' /\ [Queue!Next]_Contents  OBVIOUS
<1>1. ASSUME NEW p \in Writer, NEW b \in Byte, WriteByte(p, b)
      PROVE  RingInv' /\ [Queue!Next]_Contents
  BY <1>1, WriteAppends DEF Queue!Next, Queue!Put
<1>2. ASSUME NEW p \in Reader, NEW copied \in BOOLEAN, ReadByte(p, copied)
      PROVE  RingInv' /\ [Queue!Next]_Contents
  BY <1>2, ReadTakesOldest DEF Queue!Next, Queue!Get
<1>3. ASSUME UNCHANGED <<data, nread, nwrite>>
      PROVE  RingInv' /\ [Queue!Next]_Contents
  BY <1>3 DEF RingInv, Contents
<1>4. \A p \in Writer : Write(p) => UNCHANGED <<data, nread, nwrite>> \/ \E b \in Byte : WriteByte(p, b)
  BY DEF Write, PipeWrite, WriteRetry, WriteFail, WriteCheck, WriteSleep, WriteDone, pipe
<1>5. \A p \in Reader : Read(p) => UNCHANGED <<data, nread, nwrite>>
                                   \/ \E copied \in BOOLEAN : ReadByte(p, copied)
  BY DEF Read, PipeRead, ReadRetry, ReadFail, ReadCheck, ReadSleep, ReadReady, ReadDone, pipe
<1>6. \A p \in Proc : FileClose(p) \/ PipeClose(p) \/ Kill(p) => UNCHANGED <<data, nread, nwrite>>
  BY DEF FileClose, PipeClose, Kill, pipe
<1>7. UNCHANGED vars => UNCHANGED <<data, nread, nwrite>>  BY DEF vars, pipe
<1> QED  BY <1>1, <1>2, <1>3, <1>4, <1>5, <1>6, <1>7 DEF Next

\* A pipe implements a bounded queue, for every size that divides the range of the
\* counters: bytes come out once and in the order they went in.
THEOREM PipeImplementsQueue == Spec => PipeIsQueue
BY InitQueue, StepQueue, PTL DEF Spec, PipeIsQueue, Queue!Spec
=============================================================================

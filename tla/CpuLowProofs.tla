---------------------------- MODULE CpuLowProofs ----------------------------
(***************************************************************************)
(* Machine-checked proofs about CPU_LOW: receptions on their way to        *)
(* CPU_HIGH and reads of its memory, for any number of buffers, any depth  *)
(* of the mailbox and any number of reboots; then the transmission of an   *)
(* MPDU, for any retry limits, any width of the counts and any contention  *)
(* window.                                                                 *)
(***************************************************************************)
EXTENDS RxPktBuf, DcfTx, QueueLemmas, FiniteSetTheorems

-----------------------------------------------------------------------------
(* The inductive invariant.                                                *)

\* What the program counters say about the registers of each CPU.
RegistersOK ==
    /\ high.pc = "payload" => high.left = 1
    /\ high.pc \in {"payload", "process"} => high.msg \in Messages
    /\ high.pc \in {"rx", "unlock"} => \E b \in Bufs : high.msg = Ready(b)
    /\ low.pc # "write" => low.out = <<>>

\* CPU_LOW has a buffer to receive into, also while it answers a message.
Holding == low.pc = "rx" \/ (low.pc = "write" /\ low.next = "rx")

\* The state word and the mutex of the buffer each CPU works on.
BuffersHeld ==
    /\ Holding => owner[low.buf] = "LOW" /\ state[low.buf] = "LOW_CTRL"
    /\ low.pc = "unlock" => owner[low.buf] = "LOW"
                            /\ state[low.buf] \in {"READY", "LOW_CTRL"}
    /\ high.pc = "rx" => state[buf] = "HIGH_CTRL"

HoldInv == TypeOK /\ RegistersOK /\ BuffersHeld

\* Without a reboot: the words are messages one after the other, a header with
\* as many payload words as it says.
Framed ==
    /\ \A i \in 1 .. Len(Way) :
          /\ Way[i] = Data <=> IF i = 1 THEN high.pc = "payload" ELSE Way[i - 1].left = 1
          /\ (\E b \in Bufs : Way[i].msg = Ready(b)) => Way[i].left = 0
    /\ Way # <<>> => Way[Len(Way)].left = 0
    /\ high.pc = "payload" => Way # <<>>
    /\ high.pc = "payload" => \A b \in Bufs : high.msg # Ready(b)

\* ... and a buffer is READY exactly while one message about it is on its way.
InWay(b) == \E i \in 1 .. Len(Way) : Way[i].msg = Ready(b)
AtHigh(b) == high.pc = "process" /\ high.msg = Ready(b)
AtLow(b) == low.pc = "unlock" /\ low.buf = b

OneMessage ==
    /\ \A b \in Bufs : state[b] = "READY" <=> (AtLow(b) \/ InWay(b) \/ AtHigh(b))
    /\ \A b \in Bufs : AtLow(b) => ~InWay(b) /\ ~AtHigh(b)
    /\ \A b \in Bufs : AtHigh(b) => ~InWay(b)
    /\ \A b \in Bufs : \A i, j \in 1 .. Len(Way) :
          Way[i].msg = Ready(b) /\ Way[j].msg = Ready(b) => i = j
    /\ \A b \in Bufs : state[b] = "READY" => owner[b] = "none" \/ AtLow(b)

NoReboot ==
    boot.reboots = 0 => /\ low.pc # "boot" /\ high.pc # "boot" /\ low.up
                        /\ Framed /\ OneMessage

\* Without a reboot and a time-out: a request, or its answer, is under way once
\* and only while its read waits.
AnswerInWay == \E i \in 1 .. Len(Way) : \E r \in Reads : Way[i].msg = Answer(r)
AnswerAtHigh ==
    high.pc \in {"payload", "process"} /\ \E r \in Reads : high.msg = Answer(r)
Asking == mem.waiting /\ mem.buffer /\ mem.got = 0

OneAnswer ==
    /\ requests # <<>> => Asking /\ requests = <<mem.last>> /\ mem.last # 0
                          /\ ~AnswerInWay /\ ~AnswerAtHigh
    /\ AnswerInWay => Asking /\ ~AnswerAtHigh
    /\ AnswerAtHigh => Asking /\ high.msg = Answer(mem.last)
    /\ \A i, j \in 1 .. Len(Way) : \A r, q \in Reads :
          Way[i].msg = Answer(r) /\ Way[j].msg = Answer(q) => i = j /\ r = mem.last
    /\ mem.got \in {0, mem.last}

ReadInv ==
    /\ mem.buffer => mem.waiting
    /\ boot.reboots = 0 /\ ~mem.late => OneAnswer

RxInv == HoldInv /\ NoReboot /\ ReadInv

-----------------------------------------------------------------------------
(* The words.                                                              *)

\* A message tells its kind and what it is about.
LEMMA MessageFacts ==
    /\ \A b \in Bufs : Ready(b) \in Messages /\ Ready(b)[2] = b
    /\ \A r \in Reads : Answer(r) \in Messages /\ Answer(r)[2] = r
    /\ Status \in Messages /\ Data.msg \notin Messages
    /\ \A b, r : Ready(b) # Answer(r) /\ Ready(b) # Status /\ Answer(r) # Status
                 /\ Ready(b) # Data.msg /\ Answer(r) # Data.msg /\ Status # Data.msg
    /\ \A b, c : (Ready(b) = Ready(c) => b = c) /\ (Answer(b) = Answer(c) => b = c)
    /\ \A m \in Messages : \/ m = Status
                           \/ \E b \in Bufs : m = Ready(b)
                           \/ \E r \in Reads : m = Answer(r)
<1>1. /\ \A b, r : Ready(b) # Answer(r) /\ Ready(b) # Status /\ Answer(r) # Status
      /\ \A b : Ready(b) # Data.msg /\ Answer(b) # Data.msg
      /\ Status # Data.msg
  BY DEF Ready, Answer, Status, Data
<1>2. \A b, c : (Ready(b) = Ready(c) => b = c) /\ (Answer(b) = Answer(c) => b = c)
  BY DEF Ready, Answer
<1>3. \A b : Ready(b)[2] = b /\ Answer(b)[2] = b
  BY DEF Ready, Answer
<1> QED
  BY <1>1, <1>2, <1>3 DEF Messages

\* A word is a header or payload.
LEMMA WordFacts ==
    /\ \A w \in Words : /\ w.msg \in Messages \cup {Data.msg} /\ w.left \in 0 .. 1
                        /\ w = Data <=> w.msg = Data.msg
                        /\ w # Data => w.msg \in Messages
    /\ \A m \in Messages, n \in 0 .. 1 : /\ Header(m, n) \in Words
                                         /\ Header(m, n).msg = m
                                         /\ Header(m, n).left = n
                                         /\ Header(m, n) # Data
    /\ Data \in Words /\ Data.left = 0
<1>1. \A m, n : Header(m, n).msg = m /\ Header(m, n).left = n
  BY DEF Header
<1>2. Data \in Words /\ Data.left = 0
  BY DEF Words, Data
<1>3. Data.msg \notin Messages
  BY MessageFacts
<1>4. \A m \in Messages, n \in 0 .. 1 : Header(m, n) \in Words /\ Header(m, n) # Data
  BY <1>1, <1>3 DEF Words
<1>5. ASSUME NEW w \in Words
      PROVE  /\ w.msg \in Messages \cup {Data.msg} /\ w.left \in 0 .. 1
             /\ w = Data <=> w.msg = Data.msg
             /\ w # Data => w.msg \in Messages
  <2>1. CASE w = Data
    BY <1>2, <2>1
  <2>2. CASE w # Data
    <3>1. PICK m \in Messages, n \in 0 .. 1 : w = Header(m, n)
      BY <2>2 DEF Words
    <3> QED
      BY <1>1, <1>3, <2>2, <3>1
  <2> QED
    BY <2>1, <2>2
<1> QED
  BY <1>1, <1>2, <1>4, <1>5

LEMMA BufFacts ==
    /\ 0 \in Bufs /\ NumRx \in Nat
    /\ \A b \in Bufs : (b + 1) % NumRx \in Bufs
    /\ \A n \in 0 .. NumRx : n < NumRx => n \in Bufs /\ n + 1 \in 0 .. NumRx
    /\ Depth - 1 \in Nat
<1>1. NumRx \in Nat /\ NumRx > 0 /\ Depth \in Nat /\ Depth > 0
  BY RxAssumption
<1>2. \A n \in Int : n % NumRx \in 0 .. NumRx - 1
  BY <1>1
<1> QED
  BY <1>1, <1>2 DEF Bufs

LEMMA BoundFacts ==
    /\ 0 \in 0 .. MaxReads /\ 0 \in 0 .. NumRx /\ 0 \in 0 .. MaxReboots
    /\ \A n \in 0 .. MaxReboots : n < MaxReboots => n + 1 \in 0 .. MaxReboots
    /\ \A n \in 0 .. MaxReads : n < MaxReads => n + 1 \in 0 .. MaxReads
    /\ MaxReads \in Nat /\ MaxReboots \in Nat /\ Depth \in Nat
  BY RxAssumption

-----------------------------------------------------------------------------
(* Each CPU's registers and the buffer it works on.                        *)

LEMMA LowReceiveHold ==
    ASSUME HoldInv, LowReceive
    PROVE  HoldInv'
<1> USE DEF HoldInv, LowReceive, highSide, SetState
<1>1. TypeOK'
  BY BufFacts, WordFacts
  DEF TypeOK, RegistersOK, RxStates, LowRegs, LowPCs
<1>2. RegistersOK'
  BY BufFacts, WordFacts
  DEF TypeOK, RegistersOK, LowRegs, LowPCs
<1>3. BuffersHeld'
  BY BufFacts, WordFacts
  DEF TypeOK, RegistersOK, BuffersHeld, Holding, buf, LowRegs, LowPCs
<1> QED
  BY <1>1, <1>2, <1>3

LEMMA LowUnlockHold ==
    ASSUME HoldInv, LowUnlock
    PROVE  HoldInv'
<1> USE DEF HoldInv, LowUnlock, highSide, Unlock, Write
<1>1. TypeOK'
  <2>1. <<Header(Ready(low.buf), 0)>> \in Seq(Words)
    <3>1. low.buf \in Bufs
      BY DEF TypeOK, LowRegs
    <3>2. Header(Ready(low.buf), 0) \in Words
      BY <3>1, MessageFacts, WordFacts
    <3> QED
      BY <3>2
  <2>2. low' \in LowRegs
    BY <2>1 DEF TypeOK, LowRegs, LowPCs
  <2> QED
    BY <2>2 DEF TypeOK
<1>2. RegistersOK'
  BY DEF TypeOK, RegistersOK, LowRegs
<1>3. BuffersHeld'
  BY DEF TypeOK, RegistersOK, BuffersHeld, Holding, buf, LowRegs
<1> QED
  BY <1>1, <1>2, <1>3

LEMMA LowWriteHold ==
    ASSUME HoldInv, LowWrite
    PROVE  HoldInv'
<1> USE DEF HoldInv, LowWrite, highSide, Latched, Above, Full
<1>1. low.out \in Seq(Words) /\ fifo \in Seq(Words) /\ Depth \in Nat
  BY RxAssumption DEF TypeOK, LowRegs
<1>2. TypeOK'
  <2>1. CASE low.out = <<>>
    <3>1. low' \in LowRegs
      BY <2>1 DEF TypeOK, LowRegs, LowPCs
    <3> QED
      BY <2>1, <3>1 DEF TypeOK
  <2>2. CASE low.out # <<>>
    <3>1. Head(low.out) \in Words /\ Tail(low.out) \in Seq(Words)
      BY <1>1, <2>2, TailFacts
    <3>2. low' \in LowRegs
      BY <2>2, <3>1 DEF TypeOK, LowRegs
    <3>3. fifo' \in Seq(Words) /\ Len(fifo') = Len(fifo) + 1
      <4>1. fifo' = Append(fifo, Head(low.out))
        BY <2>2
      <4> QED
        BY <1>1, <3>1, <4>1, AppendFacts
    <3>4. Len(fifo') <= Depth
      BY <1>1, <2>2, <3>3
    <3> QED
      BY <2>2, <3>2, <3>3, <3>4 DEF TypeOK
  <2> QED
    BY <2>1, <2>2
<1>3. RegistersOK'
  BY DEF TypeOK, RegistersOK, LowRegs
<1>4. BuffersHeld'
  <2>1. /\ Holding' => Holding /\ low'.buf = low.buf
        /\ low'.pc # "unlock"
    BY DEF TypeOK, LowRegs, Holding
  <2> QED
    BY <2>1 DEF BuffersHeld, buf
<1> QED
  BY <1>2, <1>3, <1>4

LEMMA LowSearchHold ==
    ASSUME HoldInv, LowSearch
    PROVE  HoldInv'
<1> USE DEF HoldInv, LowSearch, highSide, Lock, CanLock
<1> DEFINE next == (low.buf + 1) % NumRx
<1>1. next \in Bufs /\ low.buf \in Bufs
  BY BufFacts DEF TypeOK, LowRegs
<1>2. <<Header(Status, 1), Data>> \in Seq(Words)
  <2>1. Header(Status, 1) \in Words /\ Data \in Words
    BY MessageFacts, WordFacts
  <2> QED
    BY <2>1
<1>3. low.pc = "search" /\ low.out = <<>> /\ low \in LowRegs
  BY DEF TypeOK, RegistersOK
<1> HIDE DEF next
<1>4. \/ /\ low' = [low EXCEPT !.buf = next] /\ owner' = owner
      \/ /\ state[next] = "LOW_CTRL"
         /\ owner' = [owner EXCEPT ![next] = "LOW"]
         /\ \/ low' = [low EXCEPT !.pc = "rx", !.buf = next]
            \/ low' = [low EXCEPT !.pc = "write", !.out = <<Header(Status, 1), Data>>,
                                  !.next = "rx", !.buf = next, !.up = TRUE]
  BY <1>3 DEF next, Write
<1>5. low' \in LowRegs
  BY <1>1, <1>2, <1>3, <1>4 DEF LowRegs, LowPCs
<1>6. TypeOK'
  BY <1>1, <1>4, <1>5 DEF TypeOK
<1>7. RegistersOK'
  BY <1>3, <1>4 DEF RegistersOK, LowRegs
<1>8. BuffersHeld'
  <2>1. low'.pc # "unlock" /\ (Holding' => low'.buf = next /\ owner'[next] = "LOW"
                                           /\ state'[next] = "LOW_CTRL")
    BY <1>1, <1>3, <1>4 DEF Holding, LowRegs, TypeOK
  <2> QED
    BY <2>1 DEF BuffersHeld, buf
<1> QED
  BY <1>6, <1>7, <1>8

LEMMA LowAnswerHold ==
    ASSUME HoldInv, LowAnswer
    PROVE  HoldInv'
<1> USE DEF HoldInv, LowAnswer, highSide, Write
<1> DEFINE r == Head(requests)
           m == IF r = 0 THEN Status ELSE Answer(r)
<1>1. r \in Reads \cup {0} /\ requests' \in Seq(Reads \cup {0})
  BY TailFacts DEF TypeOK
<1>2. m \in Messages
  BY <1>1, MessageFacts
<1>3. low' = [low EXCEPT !.pc = "write", !.out = <<Header(m, 1), Data>>, !.next = "rx"]
  OBVIOUS
<1> HIDE DEF m, r
<1>4. <<Header(m, 1), Data>> \in Seq(Words)
  <2>1. Header(m, 1) \in Words /\ Data \in Words
    BY <1>2, WordFacts
  <2> QED
    BY <2>1
<1>5. low' \in LowRegs
  BY <1>3, <1>4 DEF TypeOK, LowRegs, LowPCs
<1>6. TypeOK'
  BY <1>1, <1>5 DEF TypeOK
<1>7. RegistersOK'
  BY <1>3 DEF TypeOK, RegistersOK, LowRegs
<1>8. BuffersHeld'
  BY <1>3 DEF TypeOK, BuffersHeld, Holding, buf, LowRegs
<1> QED
  BY <1>6, <1>7, <1>8

LEMMA LowRebootHold ==
    ASSUME HoldInv, LowReboot
    PROVE  HoldInv'
<1> USE DEF HoldInv, LowReboot, highSide, UnlockAll
<1>1. TypeOK'
  <2>1. low' \in LowRegs
    <3>1. <<>> \in Seq(Words)
      OBVIOUS
    <3> QED
      BY <3>1, BufFacts DEF LowRegs, LowPCs
  <2>2. boot' \in BootRegs
    BY BoundFacts DEF TypeOK, BootRegs
  <2> QED
    BY <2>1, <2>2 DEF TypeOK
<1>2. RegistersOK'
  BY DEF RegistersOK
<1>3. BuffersHeld'
  BY DEF BuffersHeld, Holding, buf
<1> QED
  BY <1>1, <1>2, <1>3

LEMMA LowBootBufHold ==
    ASSUME HoldInv, LowBootBuf
    PROVE  HoldInv'
<1> USE DEF HoldInv, LowBootBuf, highSide, Lock, SetState, BootTakes
<1>1. TypeOK'
  BY BufFacts DEF TypeOK, RxStates, BootRegs
<1>2. RegistersOK'
  BY DEF RegistersOK
<1>3. BuffersHeld'
  <2>1. ~Holding' /\ low'.pc = "boot"
    BY DEF Holding
  <2>2. high'.pc = "rx" => state'[buf] = state[buf]
    <3>1. boot.low \in Bufs /\ state \in [Bufs -> RxStates]
      BY BufFacts DEF TypeOK, BootRegs
    <3>2. high.pc = "rx" => state[buf] = "HIGH_CTRL" /\ buf \in Bufs
      BY MessageFacts DEF BuffersHeld, RegistersOK, buf
    <3> QED
      BY <3>1, <3>2
  <2> QED
    BY <2>1, <2>2 DEF BuffersHeld, buf
<1> QED
  BY <1>1, <1>2, <1>3

LEMMA LowBootDoneHold ==
    ASSUME HoldInv, LowBootDone
    PROVE  HoldInv'
<1> USE DEF HoldInv, LowBootDone, highSide
<1>1. TypeOK'
  <2>1. low' \in LowRegs
    BY DEF TypeOK, LowRegs, LowPCs
  <2>2. boot' \in BootRegs
    BY BufFacts DEF TypeOK, BootRegs
  <2> QED
    BY <2>1, <2>2 DEF TypeOK
<1>2. RegistersOK'
  BY DEF TypeOK, RegistersOK, LowRegs
<1>3. BuffersHeld'
  BY DEF TypeOK, BuffersHeld, Holding, buf, LowRegs
<1> QED
  BY <1>1, <1>2, <1>3

LEMMA HighInterruptHold ==
    ASSUME HoldInv, HighInterrupt
    PROVE  HoldInv'
<1> USE DEF HoldInv, HighInterrupt, lowSide
<1>1. TypeOK'
  BY MessageFacts, RxAssumption
  DEF TypeOK, RegistersOK, HighRegs, HighPCs
<1>2. RegistersOK'
  BY MessageFacts, RxAssumption
  DEF TypeOK, RegistersOK, HighRegs, HighPCs
<1>3. BuffersHeld'
  BY MessageFacts, RxAssumption
  DEF TypeOK, RegistersOK, BuffersHeld, Holding, buf, HighRegs, HighPCs
<1> QED
  BY <1>1, <1>2, <1>3

LEMMA WatchdogHold ==
    ASSUME HoldInv, Watchdog
    PROVE  HoldInv'
<1> USE DEF HoldInv, Watchdog, lowSide
<1>1. TypeOK'
  BY MessageFacts
  DEF TypeOK, RegistersOK, HighRegs, HighPCs
<1>2. RegistersOK'
  BY MessageFacts
  DEF TypeOK, RegistersOK, HighRegs, HighPCs
<1>3. BuffersHeld'
  BY MessageFacts
  DEF TypeOK, RegistersOK, BuffersHeld, Holding, buf, HighRegs, HighPCs
<1> QED
  BY <1>1, <1>2, <1>3

LEMMA HighReadHold ==
    ASSUME HoldInv, HighRead
    PROVE  HoldInv'
<1> USE DEF HoldInv, HighRead, lowSide, Goto, EndOfLoop, Payload
<1>1. high \in HighRegs /\ fifo \in Seq(Words)
  BY DEF TypeOK
<1>2. CASE high' = [high EXCEPT !.pc = EndOfLoop, !.msg = Data.msg,
                                !.int = @ /\ EndOfLoop # "main"]
  <2>1. high' \in HighRegs /\ high'.pc \in {"main", "clear"}
    BY <1>1, <1>2 DEF HighRegs, HighPCs
  <2>2. TypeOK'
    <3>1. fifo' \in Seq(Words) /\ Len(fifo') <= Depth /\ flushed' \in BOOLEAN
      <4>1. \/ fifo' = fifo /\ flushed' = flushed
            \/ fifo' = <<>> /\ flushed' = TRUE
            \/ fifo # <<>> /\ fifo' = Tail(fifo) /\ flushed' = flushed
        OBVIOUS
      <4> QED
        <5>1. Len(fifo) \in Nat /\ Len(fifo) <= Depth /\ Depth \in Nat
          BY <1>1, BoundFacts DEF TypeOK
        <5>2. fifo # <<>> => Tail(fifo) \in Seq(Words) /\ Len(Tail(fifo)) = Len(fifo) - 1
          BY <1>1, TailFacts
        <5>3. fifo' \in Seq(Words) /\ Len(fifo') <= Depth
          <6>1. CASE fifo' = fifo
            BY <1>1, <5>1, <6>1
          <6>2. CASE fifo' = <<>>
            BY <5>1, <6>2
          <6>3. CASE fifo # <<>> /\ fifo' = Tail(fifo)
            BY <5>1, <5>2, <6>3
          <6> QED
            BY <4>1, <6>1, <6>2, <6>3
        <5>4. flushed' \in BOOLEAN
          BY <4>1 DEF TypeOK
        <5> QED
          BY <5>3, <5>4
    <3> QED
      BY <2>1, <3>1 DEF TypeOK
  <2> QED
    BY <2>1, <2>2 DEF RegistersOK, BuffersHeld, Holding, buf
<1>3. CASE /\ fifo # <<>> /\ Head(fifo) # Data /\ fifo' = Tail(fifo)
           /\ high' = [high EXCEPT
                          !.msg = Head(fifo).msg, !.left = Head(fifo).left,
                          !.pc = IF Head(fifo).left > 0 THEN "payload" ELSE "process"]
           /\ UNCHANGED flushed
  <2>1. /\ Head(fifo) \in Words /\ fifo' \in Seq(Words) /\ Len(fifo') = Len(fifo) - 1
    BY <1>1, <1>3, TailFacts
  <2>2. Head(fifo).msg \in Messages /\ Head(fifo).left \in 0 .. 1
    BY <1>3, <2>1, WordFacts
  <2>3. /\ high' \in HighRegs /\ high'.msg \in Messages
        /\ (high'.pc = "payload" /\ high'.left = 1) \/ high'.pc = "process"
    <3> DEFINE n == Head(fifo).left
               to == IF n > 0 THEN "payload" ELSE "process"
    <3>1. high' = [high EXCEPT !.msg = Head(fifo).msg, !.left = n, !.pc = to]
      BY <1>3
    <3>2. to \in HighPCs /\ n \in 0 .. 1 /\ (to = "process" \/ (to = "payload" /\ n = 1))
      BY <2>2 DEF HighPCs
    <3> HIDE DEF n, to, HighRead
    <3>3. high' \in HighRegs /\ high'.msg = Head(fifo).msg /\ high'.pc = to /\ high'.left = n
      BY <1>1, <2>2, <3>1, <3>2 DEF HighRegs
    <3> QED
      BY <2>2, <3>2, <3>3
  <2>4. TypeOK'
    <3>1. Len(fifo') <= Depth
      BY <1>1, <2>1, BoundFacts DEF TypeOK
    <3> QED
      BY <1>3, <2>1, <2>3, <3>1 DEF TypeOK
  <2> QED
    BY <2>3, <2>4 DEF RegistersOK, BuffersHeld, Holding, buf
<1> QED
  BY <1>1, <1>2, <1>3

LEMMA HighPayloadHold ==
    ASSUME HoldInv, HighPayload
    PROVE  HoldInv'
<1> USE DEF HoldInv, HighPayload, lowSide
<1>1. /\ fifo' \in Seq(Words) /\ Len(fifo') = Len(fifo) - 1
  BY TailFacts DEF TypeOK
<1>2. high' \in HighRegs /\ high'.pc = "process" /\ high'.msg = high.msg
  <2>1. high \in HighRegs /\ high.left = 1
    BY DEF TypeOK, RegistersOK
  <2> QED
    <3>1. high' = [high EXCEPT !.left = 0, !.pc = "process"]
      BY <2>1
    <3> HIDE DEF HighPayload
    <3> QED
      <4>1. "process" \in HighPCs /\ 0 \in 0 .. 1
        BY DEF HighPCs
      <4> QED
        BY <2>1, <3>1, <4>1 DEF HighRegs
<1>3. TypeOK'
  BY <1>1, <1>2, RxAssumption DEF TypeOK
<1>4. RegistersOK'
  BY <1>2 DEF RegistersOK
<1>5. BuffersHeld'
  BY <1>2 DEF BuffersHeld, Holding, buf
<1> QED
  BY <1>3, <1>4, <1>5

LEMMA HighRxStartHold ==
    ASSUME HoldInv, HighRxStart
    PROVE  HoldInv'
<1> USE DEF HoldInv, HighRxStart, lowSide
<1>1. PICK b \in Bufs : high.msg = Ready(b)
  OBVIOUS
<1>2. buf = b /\ high \in HighRegs
  BY <1>1, MessageFacts DEF buf, TypeOK
<1>3. CASE CanLock("HIGH", buf)
  <2>1. /\ owner' = [owner EXCEPT ![b] = "HIGH"]
        /\ state' = [state EXCEPT ![b] = "HIGH_CTRL"]
        /\ high' \in HighRegs /\ high'.pc = "rx" /\ high'.msg = high.msg
    BY <1>2, <1>3 DEF Lock, SetState, Goto, HighRegs, HighPCs
  <2>2. TypeOK'
    BY <2>1 DEF TypeOK, RxStates
  <2>3. RegistersOK'
    BY <1>1, <2>1 DEF RegistersOK
  <2>4. owner[b] # "LOW"
    BY <1>2, <1>3 DEF CanLock
  <2>5. BuffersHeld'
    BY <1>2, <2>1, <2>4 DEF TypeOK, BuffersHeld, Holding, buf
  <2> QED
    BY <2>2, <2>3, <2>5
<1>4. CASE ~CanLock("HIGH", buf)
  <2>1. /\ UNCHANGED <<owner, state>>
        /\ high' \in HighRegs /\ high'.pc = "read"
    BY <1>2, <1>4 DEF Goto, HighRegs, HighPCs
  <2> QED
    BY <2>1 DEF TypeOK, RegistersOK, BuffersHeld, Holding, buf
<1> QED
  BY <1>3, <1>4

LEMMA HighRxStaleHold ==
    ASSUME HoldInv, HighRxStale
    PROVE  HoldInv'
<1> USE DEF HoldInv, HighRxStale, lowSide
<1>1. PICK b \in Bufs : high.msg = Ready(b)
  OBVIOUS
<1>2. buf = b /\ high \in HighRegs
  BY <1>1, MessageFacts DEF buf, TypeOK
<1>3. high' \in HighRegs /\ high'.pc = "read"
  BY <1>2 DEF Goto, HighRegs, HighPCs
<1>4. /\ owner' = IF owner[b] = "HIGH" THEN [owner EXCEPT ![b] = "none"] ELSE owner
      /\ state' = IF state[b] = "HIGH_CTRL" THEN [state EXCEPT ![b] = "LOW_CTRL"]
                  ELSE state
  BY <1>2 DEF Unlock, SetState
<1>5. TypeOK'
  BY <1>3, <1>4 DEF TypeOK, RxStates
<1>6. RegistersOK'
  BY <1>3 DEF RegistersOK
<1>7. BuffersHeld'
  BY <1>3, <1>4 DEF TypeOK, BuffersHeld, Holding
<1> QED
  BY <1>5, <1>6, <1>7

LEMMA HighRxEndHold ==
    ASSUME HoldInv, HighRxEnd
    PROVE  HoldInv'
<1> USE DEF HoldInv, HighRxEnd, lowSide, SetState, Goto, Processed, buf
<1>1. TypeOK'
  BY MessageFacts
  DEF TypeOK, RegistersOK, RxStates, HighRegs, HighPCs
<1>2. RegistersOK'
  BY MessageFacts
  DEF TypeOK, RegistersOK, HighRegs, HighPCs
<1>3. BuffersHeld'
  BY MessageFacts
  DEF TypeOK, RegistersOK, BuffersHeld, Holding, buf, HighRegs, HighPCs
<1> QED
  BY <1>1, <1>2, <1>3

LEMMA HighRxUnlockHold ==
    ASSUME HoldInv, HighRxUnlock
    PROVE  HoldInv'
<1> USE DEF HoldInv, HighRxUnlock, lowSide, Unlock, Goto, buf
<1>1. TypeOK'
  BY MessageFacts
  DEF TypeOK, RegistersOK, HighRegs, HighPCs
<1>2. RegistersOK'
  BY MessageFacts
  DEF TypeOK, RegistersOK, HighRegs, HighPCs
<1>3. BuffersHeld'
  BY MessageFacts
  DEF TypeOK, RegistersOK, BuffersHeld, Holding, buf, HighRegs, HighPCs
<1> QED
  BY <1>1, <1>2, <1>3

LEMMA HighAnswerHold ==
    ASSUME HoldInv, HighAnswer
    PROVE  HoldInv'
<1> USE DEF HoldInv, HighAnswer, lowSide
<1>1. PICK r \in Reads : high.msg = Answer(r)
  OBVIOUS
<1>2. high.msg[2] \in 0 .. MaxReads
  BY <1>1, MessageFacts, RxAssumption DEF Reads
<1>3. mem' \in MemRegs
  BY <1>2 DEF TypeOK, MemRegs
<1>4. high' \in HighRegs /\ high'.pc = "read"
  BY DEF TypeOK, Goto, HighRegs, HighPCs
<1>5. TypeOK'
  BY <1>3, <1>4 DEF TypeOK
<1> QED
  BY <1>4, <1>5 DEF RegistersOK, BuffersHeld, Holding, buf

LEMMA HighStatusHold ==
    ASSUME HoldInv, HighStatus
    PROVE  HoldInv'
<1> USE DEF HoldInv, HighStatus, lowSide, Goto
<1>1. TypeOK'
  BY MessageFacts
  DEF TypeOK, RegistersOK, HighRegs, HighPCs
<1>2. RegistersOK'
  BY MessageFacts
  DEF TypeOK, RegistersOK, HighRegs, HighPCs
<1>3. BuffersHeld'
  BY MessageFacts
  DEF TypeOK, RegistersOK, BuffersHeld, Holding, buf, HighRegs, HighPCs
<1> QED
  BY <1>1, <1>2, <1>3

LEMMA HighClearHold ==
    ASSUME HoldInv, HighClear
    PROVE  HoldInv'
<1> USE DEF HoldInv, HighClear, lowSide, Goto
<1>1. TypeOK'
  BY MessageFacts
  DEF TypeOK, RegistersOK, HighRegs, HighPCs
<1>2. RegistersOK'
  BY MessageFacts
  DEF TypeOK, RegistersOK, HighRegs, HighPCs
<1>3. BuffersHeld'
  BY MessageFacts
  DEF TypeOK, RegistersOK, BuffersHeld, Holding, buf, HighRegs, HighPCs
<1> QED
  BY <1>1, <1>2, <1>3

LEMMA HighLowerHold ==
    ASSUME HoldInv, HighLower
    PROVE  HoldInv'
<1> USE DEF HoldInv, HighLower, lowSide, Goto, Latched, Above
<1>1. TypeOK'
  BY MessageFacts, RxAssumption
  DEF TypeOK, RegistersOK, HighRegs, HighPCs
<1>2. RegistersOK'
  BY MessageFacts, RxAssumption
  DEF TypeOK, RegistersOK, HighRegs, HighPCs
<1>3. BuffersHeld'
  BY MessageFacts, RxAssumption
  DEF TypeOK, RegistersOK, BuffersHeld, Holding, buf, HighRegs, HighPCs
<1> QED
  BY <1>1, <1>2, <1>3

LEMMA MemRequestHold ==
    ASSUME HoldInv, MemRequest
    PROVE  HoldInv'
<1> USE DEF HoldInv, MemRequest
<1>1. mem' \in MemRegs /\ mem.last + 1 \in Reads
  <2>1. mem \in MemRegs /\ mem.last < MaxReads
    BY DEF TypeOK
  <2>2. mem.last + 1 \in 0 .. MaxReads /\ mem.last + 1 \in Reads
    BY <2>1, BoundFacts DEF MemRegs, Reads
  <2> QED
    BY <2>1, <2>2, BoundFacts DEF MemRegs
<1>2. requests' \in Seq(Reads \cup {0})
  BY <1>1, AppendFacts DEF TypeOK
<1>3. TypeOK'
  BY <1>1, <1>2 DEF TypeOK
<1> QED
  BY <1>3 DEF RegistersOK, BuffersHeld, Holding, buf

LEMMA MemDoneHold ==
    ASSUME HoldInv, MemDone
    PROVE  HoldInv'
<1> USE DEF HoldInv, MemDone, lowSide
<1>1. mem' \in MemRegs
  <2>1. mem \in MemRegs
    BY DEF TypeOK
  <2> QED
    BY <2>1, BoundFacts DEF MemRegs
<1>2. TypeOK'
  BY <1>1 DEF TypeOK
<1> QED
  BY <1>2 DEF RegistersOK, BuffersHeld, Holding, buf

LEMMA MemTimeoutHold ==
    ASSUME HoldInv, MemTimeout
    PROVE  HoldInv'
<1> USE DEF HoldInv, MemTimeout, lowSide
<1>1. mem' \in MemRegs
  <2>1. mem \in MemRegs
    BY DEF TypeOK
  <2> QED
    BY <2>1, BoundFacts DEF MemRegs
<1>2. TypeOK'
  BY <1>1 DEF TypeOK
<1> QED
  BY <1>2 DEF RegistersOK, BuffersHeld, Holding, buf

LEMMA HighRebootHold ==
    ASSUME HoldInv, HighReboot
    PROVE  HoldInv'
<1> USE DEF HoldInv, HighReboot, lowSide, UnlockAll
<1>1. TypeOK'
  <2>1. high' \in HighRegs /\ high'.pc = "boot"
    BY DEF HighRegs, HighPCs
  <2>2. mem' \in MemRegs
    <3>1. mem \in MemRegs
      BY DEF TypeOK
    <3> QED
      BY <3>1, BoundFacts DEF MemRegs
  <2>3. boot' \in BootRegs
    BY BoundFacts DEF TypeOK, BootRegs
  <2> QED
    BY <2>1, <2>2, <2>3 DEF TypeOK
<1>2. RegistersOK'
  BY DEF RegistersOK
<1>3. BuffersHeld'
  <2>1. \A b \in Bufs : owner[b] = "LOW" => owner'[b] = "LOW"
    OBVIOUS
  <2>2. low.buf \in Bufs /\ high'.pc = "boot"
    BY DEF TypeOK, LowRegs
  <2> QED
    BY <2>1, <2>2 DEF BuffersHeld, Holding
<1> QED
  BY <1>1, <1>2, <1>3

LEMMA HighBootBufHold ==
    ASSUME HoldInv, HighBootBuf
    PROVE  HoldInv'
<1> USE DEF HoldInv, HighBootBuf, lowSide, SetState, Unlock
<1>1. boot.high \in Bufs
  BY BufFacts DEF TypeOK, BootRegs
<1>2. TypeOK'
  BY BufFacts DEF TypeOK, RxStates, BootRegs
<1>3. RegistersOK'
  BY DEF RegistersOK
<1>4. BuffersHeld'
  <2>1. \A b \in Bufs : owner[b] = "LOW" => owner'[b] = "LOW"
    BY <1>1 DEF TypeOK
  <2>2. \A b \in Bufs : state[b] = "LOW_CTRL" => state'[b] = "LOW_CTRL"
    BY <1>1 DEF TypeOK
  <2>3. \A b \in Bufs : state'[b] \in {state[b], "LOW_CTRL"}
    BY <1>1 DEF TypeOK
  <2>4. low.buf \in Bufs
    BY DEF TypeOK, LowRegs
  <2> QED
    BY <2>1, <2>2, <2>3, <2>4 DEF BuffersHeld, Holding
<1> QED
  BY <1>2, <1>3, <1>4

LEMMA HighBootDoneHold ==
    ASSUME HoldInv, HighBootDone
    PROVE  HoldInv'
<1> USE DEF HoldInv, HighBootDone, Goto, Latched, Above
<1>1. high' \in HighRegs /\ high'.pc = "main"
  BY DEF TypeOK, HighRegs, HighPCs
<1>2. boot' \in BootRegs
  BY BoundFacts DEF TypeOK, BootRegs
<1>3. requests' \in Seq(Reads \cup {0})
  BY AppendFacts DEF TypeOK
<1>4. TypeOK'
  BY <1>1, <1>2, <1>3, RxAssumption DEF TypeOK
<1> QED
  BY <1>1, <1>4 DEF RegistersOK, BuffersHeld, Holding, buf

LEMMA InitHold == Init => HoldInv
<1> SUFFICES ASSUME Init PROVE HoldInv
  OBVIOUS
<1> USE DEF Init
<1>1. low \in LowRegs
  BY BufFacts DEF LowRegs, LowPCs
<1>2. high \in HighRegs
  BY DEF HighRegs, HighPCs
<1>3. mem \in MemRegs /\ boot \in BootRegs
  BY BoundFacts DEF MemRegs, BootRegs
<1>4. TypeOK
  <2>1. state \in [Bufs -> RxStates] /\ owner \in [Bufs -> {"none", "LOW", "HIGH"}]
    BY DEF RxStates
  <2>2. fifo \in Seq(Words) /\ Len(fifo) <= Depth /\ requests \in Seq(Reads \cup {0})
    BY BoundFacts
  <2> QED
    BY <1>1, <1>2, <1>3, <2>1, <2>2 DEF TypeOK
<1>5. RegistersOK /\ BuffersHeld
  BY BufFacts DEF RegistersOK, BuffersHeld, Holding
<1> QED
  BY <1>4, <1>5 DEF HoldInv

LEMMA NextHold ==
    ASSUME HoldInv, [Next]_vars
    PROVE  HoldInv'
<1>1. CASE UNCHANGED vars
  BY <1>1 DEF vars, HoldInv, TypeOK, RegistersOK, BuffersHeld, Holding, buf
<1> QED
  BY <1>1, LowReceiveHold, LowUnlockHold, LowWriteHold, LowSearchHold, LowAnswerHold,
     LowRebootHold, LowBootBufHold, LowBootDoneHold, HighInterruptHold, WatchdogHold,
     HighReadHold, HighPayloadHold, HighRxStartHold, HighRxStaleHold, HighRxEndHold,
     HighRxUnlockHold, HighAnswerHold, HighStatusHold, HighClearHold, HighLowerHold,
     MemRequestHold, MemDoneHold, MemTimeoutHold, HighRebootHold, HighBootBufHold,
     HighBootDoneHold
  DEF Next, LowStep, HighStep

\* Through any reboots, the buffer each CPU works on has the state word and the mutex
\* that frame_receive and the handler of the mailbox interrupt rely on.
THEOREM HoldInvariance == Spec => []HoldInv
<1>1. Init => HoldInv
  BY InitHold
<1>2. HoldInv /\ [Next]_vars => HoldInv'
  BY NextHold
<1> QED
  BY <1>1, <1>2, PTL DEF Spec

\* The PHY has its buffer to itself, whenever either CPU reboots.
THEOREM PhyAlone == Spec => []PhyWritesAlone
<1>1. HoldInv => PhyWritesAlone
  BY DEF HoldInv, PhyWritesAlone, BuffersHeld, Holding
<1> QED
  BY <1>1, HoldInvariance, PTL

LEMMA WayType ==
    ASSUME TypeOK
    PROVE  /\ fifo \in Seq(Words) /\ low.out \in Seq(Words) /\ Way \in Seq(Words)
           /\ Len(Way) \in Nat /\ (low.out = <<>> => Way = fifo)
<1>1. fifo \in Seq(Words) /\ low.out \in Seq(Words)
  BY DEF TypeOK, LowRegs
<1>2. fifo \o low.out \in Seq(Words) /\ fifo \o <<>> = fifo
  BY <1>1, ConcatProperties, ConcatEmptySeq
<1> QED
  BY <1>1, <1>2 DEF Way

\* CPU_HIGH takes the oldest word.
LEMMA WayRead ==
    ASSUME TypeOK, fifo # <<>>, fifo' = Tail(fifo), low' = low
    PROVE  /\ Way # <<>> /\ Way[1] = Head(fifo) /\ Way[1] \in Words
           /\ Len(Way) > 0 /\ Len(Way') = Len(Way) - 1
           /\ \A i \in 1 .. Len(Way) - 1 : Way'[i] = Way[i + 1]
<1>1. fifo \in Seq(Words) /\ low.out \in Seq(Words) /\ Way \in Seq(Words)
  BY WayType
<1>2. Way # <<>> /\ Head(Way) = Head(fifo) /\ Tail(Way) = Tail(fifo) \o low.out
  BY <1>1, ConcatTail DEF Way
<1>3. Way' = Tail(Way)
  BY <1>2 DEF Way
<1> HIDE DEF Way
<1> QED
  BY <1>1, <1>2, <1>3, TailFacts

\* A word CPU_LOW writes was on its way before.
LEMMA WayWrite ==
    ASSUME TypeOK, LowWrite
    PROVE  Way' = Way
<1>1. fifo \in Seq(Words) /\ low.out \in Seq(Words)
  BY WayType
<1>2. CASE low.out = <<>>
  BY <1>2 DEF Way, LowWrite, TypeOK, LowRegs
<1>3. CASE low.out # <<>>
  <2>1. fifo' = Append(fifo, Head(low.out)) /\ low'.out = Tail(low.out)
    BY <1>3 DEF LowWrite, TypeOK, LowRegs
  <2>2. Head(low.out) \in Words
    BY <1>1, <1>3, TailFacts
  <2>3. Append(fifo, Head(low.out)) = fifo \o <<Head(low.out)>>
    BY <1>1, <2>2, AppendIsConcat
  <2>4. (fifo \o <<Head(low.out)>>) \o Tail(low.out) = fifo \o low.out
    BY <1>1, <1>3, ConcatMove
  <2> QED
    BY <2>1, <2>3, <2>4 DEF Way
<1> QED
  BY <1>2, <1>3

\* CPU_LOW begins to write a message of one word, or of two.
LEMMA WayMessage ==
    ASSUME TypeOK, low.out = <<>>, fifo' = fifo, NEW h \in Words,
           low'.out = <<h>>
    PROVE  /\ Len(Way') = Len(Way) + 1 /\ Way'[Len(Way) + 1] = h
           /\ \A i \in 1 .. Len(Way) : Way'[i] = Way[i]
<1>1. fifo \in Seq(Words) /\ Way = fifo
  BY WayType
<1>2. <<h>> \in Seq(Words) /\ Len(<<h>>) = 1 /\ <<h>>[1] = h
  OBVIOUS
<1>3. Way' = fifo \o <<h>>
  BY DEF Way
<1>4. /\ Len(fifo \o <<h>>) = Len(fifo) + 1
      /\ \A i \in 1 .. Len(fifo) + 1 :
            (fifo \o <<h>>)[i] = IF i <= Len(fifo) THEN fifo[i] ELSE <<h>>[i - Len(fifo)]
  BY <1>1, <1>2, ConcatProperties
<1> HIDE DEF Way
<1>5. Len(fifo) \in Nat
  BY <1>1
<1> QED
  BY <1>1, <1>2, <1>3, <1>4, <1>5

LEMMA WayMessage2 ==
    ASSUME TypeOK, low.out = <<>>, fifo' = fifo, NEW h \in Words, NEW d \in Words,
           low'.out = <<h, d>>
    PROVE  /\ Len(Way') = Len(Way) + 2
           /\ Way'[Len(Way) + 1] = h /\ Way'[Len(Way) + 2] = d
           /\ \A i \in 1 .. Len(Way) : Way'[i] = Way[i]
<1>1. fifo \in Seq(Words) /\ Way = fifo
  BY WayType
<1> DEFINE m == <<h, d>>
<1>2. m \in Seq(Words) /\ Len(m) = 2 /\ m[1] = h /\ m[2] = d
  OBVIOUS
<1>3. Way' = fifo \o m
  BY DEF Way
<1> HIDE DEF Way, m
<1>4. /\ Len(fifo \o m) = Len(fifo) + 2
      /\ \A i \in 1 .. Len(fifo) + 2 :
            (fifo \o m)[i] = IF i <= Len(fifo) THEN fifo[i] ELSE m[i - Len(fifo)]
  <2>1. /\ Len(fifo \o m) = Len(fifo) + Len(m)
        /\ \A i \in 1 .. Len(fifo) + Len(m) :
              (fifo \o m)[i] = IF i <= Len(fifo) THEN fifo[i] ELSE m[i - Len(fifo)]
    BY <1>1, <1>2, ConcatProperties
  <2> QED
    BY <1>2, <2>1
<1>5. Len(fifo) \in Nat
  BY <1>1
<1>6. /\ Way'[Len(Way) + 1] = m[(Len(fifo) + 1) - Len(fifo)]
      /\ Way'[Len(Way) + 2] = m[(Len(fifo) + 2) - Len(fifo)]
  BY <1>1, <1>3, <1>4, <1>5
<1> QED
  BY <1>1, <1>2, <1>3, <1>4, <1>5, <1>6

\* What a step has to leave alone for the messages about receptions to be as
\* they were.
SameMessages ==
    /\ Way' = Way
    /\ \A b \in Bufs : /\ state'[b] = "READY" <=> state[b] = "READY"
                       /\ state[b] = "READY" /\ owner[b] = "none" => owner'[b] = "none"
                       /\ AtLow(b)' <=> AtLow(b)
                       /\ AtHigh(b)' <=> AtHigh(b)
    /\ high'.pc = "payload" <=> high.pc = "payload"
    /\ high.pc = "payload" => high'.msg = high.msg
    /\ low'.pc # "boot" /\ high'.pc # "boot" /\ low'.up

LEMMA SameMessagesInv ==
    ASSUME TypeOK, boot.reboots = 0, NoReboot, SameMessages
    PROVE  NoReboot'
<1>1. \A b \in Bufs : InWay(b)' <=> InWay(b)
  BY DEF SameMessages, InWay
<1>2. Framed'
  BY DEF NoReboot, SameMessages, Framed
<1>3. OneMessage'
  BY <1>1 DEF NoReboot, SameMessages, OneMessage
<1> QED
  BY <1>2, <1>3 DEF NoReboot, SameMessages

\* The steps of CPU_LOW without a message.
LEMMA LowQuietMessages ==
    ASSUME HoldInv, boot.reboots = 0, NoReboot, LowWrite \/ LowSearch
    PROVE  SameMessages
<1>1. low \in LowRegs /\ low.pc # "boot" /\ high.pc # "boot" /\ low.up /\ low.buf \in Bufs
  BY DEF HoldInv, TypeOK, NoReboot, LowRegs
<1>2. CASE LowWrite
  <2>1. Way' = Way
    BY <1>2, WayWrite DEF HoldInv
  <2>2. /\ low'.pc \in {"write", "rx", "search"} /\ low'.up
    BY <1>1, <1>2 DEF LowWrite, LowRegs
  <2> QED
    BY <1>1, <1>2, <2>1, <2>2
    DEF LowWrite, highSide, SameMessages, AtLow, AtHigh
<1>3. CASE LowSearch
  <2> DEFINE next == (low.buf + 1) % NumRx
  <2>1. next \in Bufs
    BY <1>1, BufFacts
  <2>2. /\ UNCHANGED <<state, fifo, high>>
        /\ \/ low' = [low EXCEPT !.buf = next] /\ owner' = owner
           \/ /\ state[next] = "LOW_CTRL" /\ low' = [low EXCEPT !.pc = "rx", !.buf = next]
              /\ owner' = [owner EXCEPT ![next] = "LOW"]
    BY <1>1, <1>3 DEF LowSearch, Lock, highSide
  <2> HIDE DEF next
  <2>3. low.pc = "search" /\ low'.pc \in {"rx", "search"} /\ low'.up /\ low'.out = low.out
    BY <1>1, <1>3, <2>2 DEF LowSearch, LowRegs
  <2>4. Way' = Way
    BY <2>2, <2>3 DEF Way
  <2> QED
    BY <1>1, <2>1, <2>2, <2>3, <2>4
    DEF SameMessages, AtLow, AtHigh, HoldInv, TypeOK
<1> QED
  BY <1>2, <1>3

\* The steps of CPU_HIGH without a message about a reception.
LEMMA HighQuietMessages ==
    ASSUME HoldInv, boot.reboots = 0, NoReboot,
           \/ HighInterrupt \/ Watchdog \/ HighAnswer \/ HighStatus \/ HighClear
           \/ HighLower \/ MemRequest \/ MemDone \/ MemTimeout
    PROVE  SameMessages
<1>1. high \in HighRegs /\ low.pc # "boot" /\ high.pc # "boot" /\ low.up
  BY DEF HoldInv, TypeOK, NoReboot
<1>2. UNCHANGED <<state, owner, fifo, low>>
  BY DEF HighInterrupt, Watchdog, HighAnswer, HighStatus, HighClear, HighLower,
         MemRequest, MemDone, MemTimeout, lowSide
<1>3. Way' = Way
  BY <1>2 DEF Way
<1>4. \A b \in Bufs : AtLow(b)' <=> AtLow(b)
  BY <1>2 DEF AtLow
<1>5. CASE high' = high
  BY <1>1, <1>2, <1>3, <1>4, <1>5 DEF SameMessages, AtHigh
<1>6. CASE HighInterrupt \/ Watchdog \/ HighClear \/ HighLower
  <2>1. /\ high.pc \in {"main", "clear", "lower"} /\ high'.pc \in {"read", "main", "lower"}
    BY <1>1, <1>6 DEF HighInterrupt, Watchdog, HighClear, HighLower, Goto, HighRegs
  <2> QED
    BY <1>1, <1>2, <1>3, <1>4, <2>1 DEF SameMessages, AtHigh
<1>7. CASE HighAnswer \/ HighStatus
  <2>1. /\ high.pc = "process" /\ high'.pc = "read"
        /\ \A b \in Bufs : high.msg # Ready(b)
    <3>1. high.pc = "process" /\ high'.pc = "read"
      BY <1>1, <1>7 DEF HighAnswer, HighStatus, Goto, HighRegs
    <3>2. high.msg = Status \/ \E r \in Reads : high.msg = Answer(r)
      BY <1>7 DEF HighAnswer, HighStatus
    <3> QED
      BY <3>1, <3>2, MessageFacts
  <2> QED
    BY <1>1, <1>2, <1>3, <1>4, <2>1 DEF SameMessages, AtHigh
<1> QED
  BY <1>5, <1>6, <1>7 DEF MemRequest, MemDone, MemTimeout

\* The end of a reception: the buffer is READY and about to be announced.
LEMMA LowReceiveMessages ==
    ASSUME HoldInv, boot.reboots = 0, NoReboot, LowReceive
    PROVE  NoReboot'
<1>1. /\ low \in LowRegs /\ low.pc = "rx" /\ low.buf \in Bufs /\ low.up
      /\ state[low.buf] = "LOW_CTRL" /\ owner[low.buf] = "LOW"
      /\ high.pc # "boot" /\ Framed /\ OneMessage
  BY DEF HoldInv, TypeOK, NoReboot, LowRegs, BuffersHeld, Holding, LowReceive
<1>2. /\ state' = [state EXCEPT ![low.buf] = "READY"] /\ state \in [Bufs -> RxStates]
      /\ low'.pc = "unlock" /\ low'.buf = low.buf /\ low'.out = low.out /\ low'.up
      /\ UNCHANGED <<owner, fifo, high>>
  BY <1>1 DEF HoldInv, TypeOK, LowReceive, SetState, LowRegs, highSide
<1>3. Way' = Way
  BY <1>2 DEF Way
<1>4. Framed'
  BY <1>1, <1>2, <1>3 DEF Framed
<1>5. \A b \in Bufs : /\ InWay(b)' <=> InWay(b)
                      /\ AtHigh(b)' <=> AtHigh(b)
                      /\ AtLow(b)' <=> b = low.buf
                      /\ ~AtLow(b)
  BY <1>1, <1>2, <1>3 DEF InWay, AtHigh, AtLow
<1>6. ~InWay(low.buf) /\ ~AtHigh(low.buf)
  BY <1>1 DEF OneMessage
<1>7. OneMessage'
  BY <1>1, <1>2, <1>3, <1>5, <1>6 DEF OneMessage
<1> QED
  BY <1>1, <1>2, <1>4, <1>7 DEF NoReboot

\* The buffer is announced.
LEMMA LowUnlockMessages ==
    ASSUME HoldInv, boot.reboots = 0, NoReboot, LowUnlock
    PROVE  NoReboot'
<1>1. /\ low \in LowRegs /\ low.pc = "unlock" /\ low.buf \in Bufs /\ low.up
      /\ low.out = <<>> /\ owner[low.buf] = "LOW" /\ owner \in [Bufs -> {"none", "LOW", "HIGH"}]
      /\ high.pc # "boot" /\ Framed /\ OneMessage /\ TypeOK
  BY DEF HoldInv, TypeOK, NoReboot, LowRegs, BuffersHeld, RegistersOK, LowUnlock
<1> DEFINE h == Header(Ready(low.buf), 0)
<1>2. /\ h \in Words /\ h.msg = Ready(low.buf) /\ h.left = 0 /\ h # Data
  BY <1>1, MessageFacts, WordFacts
<1>3. /\ owner' = [owner EXCEPT ![low.buf] = "none"]
      /\ low'.pc = "write" /\ low'.out = <<h>> /\ low'.up
      /\ UNCHANGED <<state, fifo, high>>
  BY <1>1 DEF LowUnlock, Unlock, Write, LowRegs, highSide
<1> HIDE DEF h
<1>4. /\ Len(Way') = Len(Way) + 1 /\ Way'[Len(Way) + 1] = h
      /\ \A i \in 1 .. Len(Way) : Way'[i] = Way[i]
  BY <1>1, <1>2, <1>3, WayMessage
<1>5. Len(Way) \in Nat /\ Way \in Seq(Words)
  BY <1>1, WayType
<1>6. Framed'
  <2>1. Way' # <<>>
    BY <1>4, <1>5
  <2>2. ASSUME NEW i \in 1 .. Len(Way')
        PROVE  /\ Way'[i] = Data <=> IF i = 1 THEN high'.pc = "payload"
                                     ELSE Way'[i - 1].left = 1
               /\ (\E b \in Bufs : Way'[i].msg = Ready(b)) => Way'[i].left = 0
    <3>1. CASE i \in 1 .. Len(Way)
      <4>1. i # 1 => i - 1 \in 1 .. Len(Way)
        BY <1>5, <3>1
      <4>2. Way'[i] = Way[i] /\ (i # 1 => Way'[i - 1] = Way[i - 1]) /\ high' = high
        BY <1>3, <1>4, <3>1, <4>1
      <4>3. /\ Way[i] = Data <=> IF i = 1 THEN high.pc = "payload"
                                 ELSE Way[i - 1].left = 1
            /\ (\E b \in Bufs : Way[i].msg = Ready(b)) => Way[i].left = 0
        BY <1>1, <3>1 DEF Framed
      <4> QED
        BY <4>2, <4>3
    <3>2. CASE i = Len(Way) + 1
      <4>1. i # 1 => i - 1 = Len(Way) /\ i - 1 \in 1 .. Len(Way) /\ Way # <<>>
        BY <1>5, <3>2
      <4>2. i = 1 => Way = <<>>
        BY <1>5, <3>2
      <4> QED
        BY <1>1, <1>2, <1>3, <1>4, <3>2, <4>1, <4>2 DEF Framed
    <3> QED
      BY <1>4, <1>5, <3>1, <3>2
  <2>3. Way'[Len(Way')].left = 0
    BY <1>2, <1>4
  <2> QED
    BY <1>1, <1>3, <2>1, <2>2, <2>3 DEF Framed
<1>7. \A b \in Bufs : /\ InWay(b)' <=> InWay(b) \/ b = low.buf
                      /\ AtHigh(b)' <=> AtHigh(b)
                      /\ AtLow(b) <=> b = low.buf
                      /\ ~AtLow(b)'
  <2>1. \A b \in Bufs : h.msg = Ready(b) <=> b = low.buf
    BY <1>2, MessageFacts
  <2>2. \A b \in Bufs : InWay(b)' <=> InWay(b) \/ b = low.buf
    BY <1>4, <1>5, <2>1 DEF InWay
  <2> QED
    BY <1>1, <1>3, <2>2 DEF AtHigh, AtLow
<1>8. OneMessage'
  <2>1. ~InWay(low.buf) /\ ~AtHigh(low.buf)
    BY <1>1, <1>7 DEF OneMessage
  <2>2. ASSUME NEW b \in Bufs, NEW i \in 1 .. Len(Way'), NEW j \in 1 .. Len(Way'),
               Way'[i].msg = Ready(b), Way'[j].msg = Ready(b)
        PROVE  i = j
    <3>1. CASE b = low.buf
      <4>1. i \notin 1 .. Len(Way) /\ j \notin 1 .. Len(Way)
        BY <1>4, <2>1, <2>2, <3>1 DEF InWay
      <4> QED
        BY <1>4, <1>5, <4>1
    <3>2. CASE b # low.buf
      <4>1. h.msg # Ready(b)
        BY <1>1, <1>2, <3>2, MessageFacts
      <4>2. i \in 1 .. Len(Way) /\ j \in 1 .. Len(Way)
        BY <1>4, <1>5, <2>2, <4>1
      <4> QED
        BY <1>1, <1>4, <2>2, <4>2 DEF OneMessage
    <3> QED
      BY <3>1, <3>2
  <2> QED
    BY <1>1, <1>3, <1>7, <2>1, <2>2 DEF OneMessage
<1> QED
  BY <1>1, <1>3, <1>6, <1>8 DEF NoReboot

\* CPU_LOW answers: two words that are not about a reception.
LEMMA LowAnswerMessages ==
    ASSUME HoldInv, boot.reboots = 0, NoReboot, LowAnswer
    PROVE  NoReboot'
<1>1. /\ low \in LowRegs /\ low.pc = "rx" /\ low.up /\ low.out = <<>> /\ requests # <<>>
      /\ high.pc # "boot" /\ Framed /\ OneMessage /\ TypeOK
  BY DEF HoldInv, NoReboot, TypeOK, RegistersOK, LowAnswer
<1> DEFINE m == IF Head(requests) = 0 THEN Status ELSE Answer(Head(requests))
           h == Header(m, 1)
<1>2. m \in Messages /\ \A b \in Bufs : m # Ready(b)
  <2>1. Head(requests) \in Reads \cup {0}
    BY <1>1, TailFacts DEF TypeOK
  <2> QED
    BY <2>1, MessageFacts
<1>3. /\ low'.pc = "write" /\ low'.out = <<h, Data>> /\ low'.up
      /\ UNCHANGED <<state, owner, fifo, high>>
  BY <1>1 DEF LowAnswer, Write, LowRegs, highSide
<1> HIDE DEF m
<1>4. h \in Words /\ h.msg = m /\ h.left = 1 /\ h # Data /\ Data \in Words /\ Data.left = 0
  BY <1>2, WordFacts
<1>5. \A b \in Bufs : Data.msg # Ready(b)
  BY MessageFacts
<1> HIDE DEF h
<1>6. /\ Len(Way') = Len(Way) + 2
      /\ Way'[Len(Way) + 1] = h /\ Way'[Len(Way) + 2] = Data
      /\ \A i \in 1 .. Len(Way) : Way'[i] = Way[i]
  BY <1>1, <1>3, <1>4, WayMessage2
<1>7. Len(Way) \in Nat /\ Way \in Seq(Words)
  BY <1>1, WayType
<1>8. Framed'
  <2>1. Way' # <<>>
    BY <1>6, <1>7
  <2>2. ASSUME NEW i \in 1 .. Len(Way')
        PROVE  /\ Way'[i] = Data <=> IF i = 1 THEN high'.pc = "payload"
                                     ELSE Way'[i - 1].left = 1
               /\ (\E b \in Bufs : Way'[i].msg = Ready(b)) => Way'[i].left = 0
    <3>1. CASE i \in 1 .. Len(Way)
      <4>1. i # 1 => i - 1 \in 1 .. Len(Way)
        BY <1>7, <3>1
      <4> QED
        BY <1>1, <1>3, <1>6, <3>1, <4>1 DEF Framed
    <3>2. CASE i = Len(Way) + 1
      <4>1. i # 1 => i - 1 = Len(Way) /\ i - 1 \in 1 .. Len(Way) /\ Way # <<>>
        BY <1>7, <3>2
      <4>2. i = 1 => Way = <<>>
        BY <1>7, <3>2
      <4> QED
        BY <1>1, <1>2, <1>3, <1>4, <1>6, <3>2, <4>1, <4>2 DEF Framed
    <3>3. CASE i = Len(Way) + 2
      <4>1. i # 1 /\ i - 1 = Len(Way) + 1
        BY <1>7, <3>3
      <4> QED
        BY <1>4, <1>5, <1>6, <3>3, <4>1
    <3> QED
      BY <1>6, <1>7, <3>1, <3>2, <3>3
  <2>3. Way'[Len(Way')].left = 0
    BY <1>4, <1>6
  <2> QED
    BY <1>1, <1>3, <2>1, <2>2, <2>3 DEF Framed
<1>9. \A b \in Bufs : /\ InWay(b)' <=> InWay(b)
                      /\ AtHigh(b)' <=> AtHigh(b)
                      /\ ~AtLow(b) /\ ~AtLow(b)'
  <2>1. \A b \in Bufs : InWay(b)' <=> InWay(b)
    <3> SUFFICES ASSUME NEW b \in Bufs PROVE InWay(b)' <=> InWay(b)
      OBVIOUS
    <3>1. ASSUME NEW i \in 1 .. Len(Way'), Way'[i].msg = Ready(b)
          PROVE  i \in 1 .. Len(Way)
      BY <1>2, <1>4, <1>5, <1>6, <1>7, <3>1
    <3>2. \A i \in 1 .. Len(Way) : i \in 1 .. Len(Way')
      BY <1>6, <1>7
    <3> QED
      BY <1>6, <3>1, <3>2 DEF InWay
  <2> QED
    BY <1>1, <1>3, <2>1 DEF AtHigh, AtLow
<1>10. \A b \in Bufs : \A i, j \in 1 .. Len(Way') :
          Way'[i].msg = Ready(b) /\ Way'[j].msg = Ready(b) => i = j
  <2> SUFFICES ASSUME NEW b \in Bufs, NEW i \in 1 .. Len(Way'), NEW j \in 1 .. Len(Way'),
                      Way'[i].msg = Ready(b), Way'[j].msg = Ready(b)
               PROVE  i = j
    OBVIOUS
  <2>1. i \in 1 .. Len(Way) /\ j \in 1 .. Len(Way)
    BY <1>2, <1>4, <1>5, <1>6, <1>7
  <2> QED
    BY <1>1, <1>6, <2>1 DEF OneMessage
<1>11. OneMessage'
  BY <1>1, <1>3, <1>9, <1>10 DEF OneMessage
<1> QED
  BY <1>1, <1>3, <1>8, <1>11 DEF NoReboot

\* What is left after the oldest word is as well framed as before.
LEMMA FramedTail ==
    ASSUME Framed, Len(Way) \in Nat, Len(Way) > 0, Len(Way') = Len(Way) - 1,
           \A i \in 1 .. Len(Way) - 1 : Way'[i] = Way[i + 1],
           \/ Way[1].left = 1 /\ high'.pc = "payload" /\ high'.msg = Way[1].msg
           \/ Way[1].left = 0 /\ high'.pc = "process"
    PROVE  Framed'
<1>1. Way # <<>>
  OBVIOUS
<1>2. ASSUME NEW i \in 1 .. Len(Way')
      PROVE  /\ Way'[i] = Data <=> IF i = 1 THEN high'.pc = "payload"
                                   ELSE Way'[i - 1].left = 1
             /\ (\E b \in Bufs : Way'[i].msg = Ready(b)) => Way'[i].left = 0
  <2>1. /\ i \in 1 .. Len(Way) - 1 /\ i + 1 \in 1 .. Len(Way) /\ i + 1 # 1
        /\ (i + 1) - 1 = i /\ Way'[i] = Way[i + 1]
    OBVIOUS
  <2>2. i # 1 => i - 1 \in 1 .. Len(Way) - 1 /\ (i - 1) + 1 = i
    OBVIOUS
  <2>3. i # 1 => Way'[i - 1] = Way[i]
    BY <2>2
  <2>4. /\ Way[i + 1] = Data <=> Way[i].left = 1
        /\ (\E b \in Bufs : Way[i + 1].msg = Ready(b)) => Way[i + 1].left = 0
    BY <2>1 DEF Framed
  <2> QED
    BY <2>1, <2>3, <2>4
<1>3. ASSUME Way' # <<>>
      PROVE  Way'[Len(Way')].left = 0
  <2>1. CASE Len(Way) - 1 \in 1 .. Len(Way) - 1
    BY <1>1, <2>1 DEF Framed
  <2>2. CASE Len(Way) = 1
    BY <1>3, <2>2
  <2> QED
    BY <2>1, <2>2
<1>4. ASSUME high'.pc = "payload"
      PROVE  Way' # <<>> /\ \A b \in Bufs : high'.msg # Ready(b)
  <2>1. Way[1].left = 1 /\ 1 \in 1 .. Len(Way)
    BY <1>4
  <2>2. Len(Way) # 1
    BY <1>1, <2>1 DEF Framed
  <2> QED
    BY <1>4, <2>1, <2>2 DEF Framed
<1> QED
  BY <1>2, <1>3, <1>4 DEF Framed

\* At most one message about a buffer is in the rest of the words, and none if
\* the oldest word was one.
LEMMA OneInTail ==
    ASSUME OneMessage, Len(Way) \in Nat, Len(Way) > 0, Len(Way') = Len(Way) - 1,
           \A i \in 1 .. Len(Way) - 1 : Way'[i] = Way[i + 1], NEW b \in Bufs
    PROVE  /\ InWay(b) <=> InWay(b)' \/ Way[1].msg = Ready(b)
           /\ Way[1].msg = Ready(b) => ~InWay(b)'
           /\ \A i, j \in 1 .. Len(Way') :
                 Way'[i].msg = Ready(b) /\ Way'[j].msg = Ready(b) => i = j
<1>1. /\ \A i \in 1 .. Len(Way') : i + 1 \in 1 .. Len(Way) /\ Way'[i] = Way[i + 1]
      /\ \A i \in 1 .. Len(Way) : i # 1 => /\ i - 1 \in 1 .. Len(Way')
                                           /\ Way'[i - 1] = Way[i]
      /\ 1 \in 1 .. Len(Way)
  OBVIOUS
<1>2. \A i, j \in 1 .. Len(Way) : Way[i].msg = Ready(b) /\ Way[j].msg = Ready(b) => i = j
  BY DEF OneMessage
<1>3. InWay(b) <=> InWay(b)' \/ Way[1].msg = Ready(b)
  BY <1>1 DEF InWay
<1>4. Way[1].msg = Ready(b) => ~InWay(b)'
  BY <1>1, <1>2 DEF InWay
<1>5. \A i, j \in 1 .. Len(Way') :
         Way'[i].msg = Ready(b) /\ Way'[j].msg = Ready(b) => i = j
  BY <1>1, <1>2
<1> QED
  BY <1>3, <1>4, <1>5

\* CPU_HIGH finds a header where it expects one: nothing is flushed.
LEMMA HighReadMessages ==
    ASSUME HoldInv, boot.reboots = 0, NoReboot, HighRead
    PROVE  NoReboot' /\ UNCHANGED flushed
<1>1. /\ high \in HighRegs /\ high.pc = "read" /\ low.pc # "boot" /\ low.up
      /\ Framed /\ OneMessage /\ TypeOK /\ UNCHANGED <<state, owner, low>>
  BY DEF HoldInv, TypeOK, NoReboot, HighRead, lowSide
<1>2. \A b \in Bufs : (AtLow(b)' <=> AtLow(b)) /\ ~AtHigh(b)
  BY <1>1 DEF AtLow, AtHigh
<1>3. CASE fifo = <<>>
  <2>1. /\ fifo' = fifo /\ flushed' = flushed /\ high'.pc \in {"main", "clear"}
    BY <1>1, <1>3 DEF HighRead, Goto, EndOfLoop, HighRegs
  <2>2. Way' = Way
    BY <1>1, <2>1 DEF Way
  <2>3. SameMessages
    BY <1>1, <1>2, <2>1, <2>2 DEF SameMessages, AtHigh
  <2> QED
    BY <1>1, <2>1, <2>3, SameMessagesInv
<1>4. CASE fifo # <<>>
  <2>1. /\ Way # <<>> /\ Len(Way) > 0 /\ Way[1] = Head(fifo) /\ Way[1] \in Words
    <3>1. fifo \in Seq(Words) /\ low.out \in Seq(Words) /\ Way \in Seq(Words)
      BY <1>1, WayType
    <3>2. Way # <<>> /\ Head(Way) = Head(fifo)
      BY <1>4, <3>1, ConcatTail DEF Way
    <3> QED
      BY <3>1, <3>2, TailFacts
  <2>2. 1 \in 1 .. Len(Way) /\ Len(Way) \in Nat
    BY <1>1, <2>1, WayType
  <2>3. Head(fifo) # Data
    BY <1>1, <2>1, <2>2 DEF Framed
  <2> DEFINE w == Way[1]
             to == IF w.left > 0 THEN "payload" ELSE "process"
  <2>4. /\ fifo' = Tail(fifo) /\ flushed' = flushed
        /\ high' = [high EXCEPT !.msg = w.msg, !.left = w.left, !.pc = to]
    BY <1>4, <2>1, <2>3 DEF HighRead, Payload
  <2>5. w.msg \in Messages /\ w.left \in 0 .. 1
    BY <2>1, <2>3, WordFacts
  <2>6. high'.msg = w.msg /\ high'.pc = to
    BY <1>1, <2>4 DEF HighRegs
  <2>7. (w.left = 1 /\ high'.pc = "payload") \/ (w.left = 0 /\ high'.pc = "process")
    BY <2>5, <2>6
  <2>8. /\ Len(Way') = Len(Way) - 1
        /\ \A i \in 1 .. Len(Way) - 1 : Way'[i] = Way[i + 1]
    BY <1>1, <1>4, <2>4, WayRead
  <2> HIDE DEF w, to
  <2>9. w = Way[1]
    BY DEF w
  <2>10. \A b \in Bufs : AtHigh(b)' <=> w.msg = Ready(b)
    BY <1>1, <2>2, <2>6, <2>7, <2>9 DEF AtHigh, Framed
  <2>11. Framed'
    BY <1>1, <2>1, <2>2, <2>6, <2>7, <2>8, <2>9, FramedTail
  <2>12. ASSUME NEW b \in Bufs
         PROVE  /\ InWay(b) <=> InWay(b)' \/ w.msg = Ready(b)
                /\ w.msg = Ready(b) => ~InWay(b)'
                /\ \A i, j \in 1 .. Len(Way') :
                      Way'[i].msg = Ready(b) /\ Way'[j].msg = Ready(b) => i = j
    BY <1>1, <2>1, <2>2, <2>8, <2>9, OneInTail
  <2>13. OneMessage'
    BY <1>1, <1>2, <2>10, <2>12 DEF OneMessage
  <2>14. high'.pc # "boot"
    BY <2>7
  <2> QED
    BY <1>1, <2>4, <2>11, <2>13, <2>14 DEF NoReboot
<1> QED
  BY <1>3, <1>4

\* The payload word is taken with its header.
LEMMA HighPayloadMessages ==
    ASSUME HoldInv, boot.reboots = 0, NoReboot, HighPayload
    PROVE  NoReboot'
<1>1. /\ high \in HighRegs /\ high.pc = "payload" /\ high.left = 1 /\ low.pc # "boot"
      /\ low.up /\ Framed /\ OneMessage /\ TypeOK /\ UNCHANGED <<state, owner, low>>
  BY DEF HoldInv, TypeOK, NoReboot, RegistersOK, HighPayload, lowSide
<1>2. /\ fifo # <<>> /\ fifo' = Tail(fifo) /\ high'.msg = high.msg
      /\ high'.pc = "process"
  BY <1>1 DEF HighPayload, HighRegs
<1>3. /\ Way # <<>> /\ Len(Way) > 0 /\ Way[1] \in Words
      /\ Len(Way') = Len(Way) - 1
      /\ \A i \in 1 .. Len(Way) - 1 : Way'[i] = Way[i + 1]
  BY <1>1, <1>2, WayRead
<1>4. 1 \in 1 .. Len(Way) /\ Len(Way) \in Nat
  BY <1>1, <1>3, WayType
<1>5. Way[1] = Data /\ Way[1].left = 0
  BY <1>1, <1>4, WordFacts DEF Framed
<1>6. Framed'
  BY <1>1, <1>2, <1>3, <1>4, <1>5, FramedTail
<1>7. \A b \in Bufs : /\ Way[1].msg # Ready(b)
                      /\ AtLow(b)' <=> AtLow(b)
                      /\ ~AtHigh(b) /\ ~AtHigh(b)'
  BY <1>1, <1>2, <1>5, MessageFacts DEF AtLow, AtHigh, Framed
<1>8. ASSUME NEW b \in Bufs
      PROVE  /\ InWay(b) <=> InWay(b)'
             /\ \A i, j \in 1 .. Len(Way') :
                   Way'[i].msg = Ready(b) /\ Way'[j].msg = Ready(b) => i = j
  BY <1>1, <1>3, <1>4, <1>7, OneInTail
<1>9. OneMessage'
  BY <1>1, <1>7, <1>8 DEF OneMessage
<1> QED
  BY <1>1, <1>2, <1>6, <1>9 DEF NoReboot

\* The buffer is locked and processed; its mutex is free.
LEMMA HighRxStartMessages ==
    ASSUME HoldInv, boot.reboots = 0, NoReboot, HighRxStart
    PROVE  NoReboot'
<1>1. /\ high \in HighRegs /\ high.pc = "process" /\ low.pc # "boot" /\ low.up
      /\ Framed /\ OneMessage /\ UNCHANGED <<fifo, low>>
      /\ state \in [Bufs -> RxStates] /\ owner \in [Bufs -> {"none", "LOW", "HIGH"}]
  BY DEF HoldInv, TypeOK, NoReboot, HighRxStart, lowSide
<1>2. PICK b \in Bufs : high.msg = Ready(b)
  BY DEF HighRxStart
<1>3. buf = b /\ state[b] = "READY"
  BY <1>2, MessageFacts DEF buf, HighRxStart
<1>4. AtHigh(b) /\ ~AtLow(b) /\ ~InWay(b)
  BY <1>1, <1>2 DEF AtHigh, OneMessage
<1>5. owner[b] = "none"
  BY <1>1, <1>3, <1>4 DEF OneMessage
<1>6. /\ state' = [state EXCEPT ![b] = "HIGH_CTRL"]
      /\ owner' = [owner EXCEPT ![b] = "HIGH"] /\ high'.pc = "rx"
  BY <1>1, <1>3, <1>5 DEF HighRxStart, CanLock, Lock, SetState, Goto, HighRegs
<1>7. Way' = Way
  BY <1>1 DEF Way
<1>8. \A c \in Bufs : /\ InWay(c)' <=> InWay(c)
                      /\ AtLow(c)' <=> AtLow(c)
                      /\ AtHigh(c) <=> c = b
                      /\ ~AtHigh(c)'
  BY <1>1, <1>2, <1>6, <1>7, MessageFacts DEF InWay, AtLow, AtHigh
<1>9. Framed'
  BY <1>1, <1>6, <1>7 DEF Framed
<1>10. OneMessage'
  BY <1>1, <1>4, <1>6, <1>7, <1>8 DEF OneMessage
<1> QED
  BY <1>1, <1>6, <1>9, <1>10 DEF NoReboot

\* A message never finds its buffer in another state.
LEMMA NoStaleMessage ==
    ASSUME boot.reboots = 0, NoReboot
    PROVE  ~HighRxStale /\ ~LowBootBuf /\ ~LowBootDone /\ ~HighBootBuf /\ ~HighBootDone
<1>1. ASSUME HighRxStale PROVE FALSE
  <2>1. PICK b \in Bufs : high.msg = Ready(b)
    BY <1>1 DEF HighRxStale
  <2>2. AtHigh(b) /\ state[b] # "READY"
    BY <1>1, <2>1, MessageFacts DEF HighRxStale, AtHigh, buf
  <2> QED
    BY <2>2 DEF NoReboot, OneMessage
<1> QED
  BY <1>1 DEF NoReboot, LowBootBuf, LowBootDone, HighBootBuf, HighBootDone

\* The buffer is given back.
LEMMA HighRxEndMessages ==
    ASSUME HoldInv, boot.reboots = 0, NoReboot, HighRxEnd \/ HighRxUnlock
    PROVE  SameMessages
<1>1. /\ high \in HighRegs /\ high.pc \in {"rx", "unlock"} /\ low.pc # "boot" /\ low.up
      /\ UNCHANGED <<fifo, low>>
      /\ state \in [Bufs -> RxStates] /\ owner \in [Bufs -> {"none", "LOW", "HIGH"}]
  BY DEF HoldInv, TypeOK, NoReboot, HighRxEnd, HighRxUnlock, lowSide
<1>2. PICK b \in Bufs : high.msg = Ready(b)
  BY <1>1 DEF HoldInv, RegistersOK
<1>3. buf = b
  BY <1>2, MessageFacts DEF buf
<1>4. Way' = Way /\ \A c \in Bufs : AtLow(c)' <=> AtLow(c)
  BY <1>1 DEF Way, AtLow
<1>5. CASE HighRxEnd
  <2>1. /\ state[b] = "HIGH_CTRL" /\ state' = [state EXCEPT ![b] = "LOW_CTRL"]
        /\ owner' = owner /\ high.pc = "rx" /\ high'.pc = "unlock"
    BY <1>1, <1>3, <1>5 DEF HoldInv, BuffersHeld, HighRxEnd, SetState, Processed, Goto,
                            HighRegs
  <2> QED
    BY <1>1, <1>4, <2>1 DEF SameMessages, AtHigh
<1>6. CASE HighRxUnlock
  <2>1. /\ state' = state /\ high.pc = "unlock" /\ high'.pc = "read"
        /\ (owner' = [owner EXCEPT ![b] = "none"] \/ owner' = owner)
    BY <1>1, <1>3, <1>6 DEF HighRxUnlock, Unlock, Goto, HighRegs
  <2> QED
    BY <1>1, <1>4, <2>1 DEF SameMessages, AtHigh
<1> QED
  BY <1>5, <1>6

LEMMA NextMessages ==
    ASSUME HoldInv, NoReboot, [Next]_vars
    PROVE  NoReboot'
<1> SUFFICES ASSUME boot'.reboots = 0 PROVE NoReboot'
  BY DEF NoReboot
<1>1. CASE UNCHANGED vars
  BY <1>1 DEF vars, NoReboot, Framed, OneMessage, Way, InWay, AtLow, AtHigh
<1>2. CASE LowReboot \/ HighReboot
  <2>1. boot.reboots \in Nat
    BY BoundFacts DEF HoldInv, TypeOK, BootRegs
  <2>2. boot'.reboots = boot.reboots + 1
    <3>1. boot \in BootRegs
      BY DEF HoldInv, TypeOK
    <3> QED
      BY <1>2, <3>1 DEF BootRegs, LowReboot, HighReboot
  <2> QED
    BY <2>1, <2>2
<1>3. CASE LowBootBuf \/ LowBootDone \/ HighBootBuf \/ HighBootDone
  <2>1. boot.reboots = 0
    BY <1>3 DEF HoldInv, TypeOK, BootRegs, LowBootBuf, LowBootDone, HighBootBuf,
                HighBootDone
  <2> QED
    BY <1>3, <2>1, NoStaleMessage
<1>4. CASE Next /\ boot' = boot
  <2>1. boot.reboots = 0 /\ TypeOK
    BY <1>4 DEF HoldInv
  <2>2. CASE \/ HighInterrupt \/ Watchdog \/ HighAnswer \/ HighStatus \/ HighClear
             \/ HighLower \/ MemRequest \/ MemDone \/ MemTimeout
    BY <2>1, <2>2, HighQuietMessages, SameMessagesInv
  <2>3. CASE LowWrite \/ LowSearch
    BY <2>1, <2>3, LowQuietMessages, SameMessagesInv
  <2>4. CASE HighRxEnd \/ HighRxUnlock
    BY <2>1, <2>4, HighRxEndMessages, SameMessagesInv
  <2> QED
    BY <1>2, <1>3, <1>4, <2>1, <2>2, <2>3, <2>4, LowReceiveMessages, LowUnlockMessages,
       LowAnswerMessages, HighReadMessages, HighPayloadMessages, HighRxStartMessages,
       NoStaleMessage
    DEF Next, LowStep, HighStep
<1> QED
  BY <1>1, <1>2, <1>3, <1>4
  DEF Next, LowStep, HighStep, LowReceive, LowUnlock, LowWrite, LowSearch, LowAnswer,
      HighInterrupt, Watchdog, HighRead, HighPayload, HighRxStart, HighRxStale,
      HighRxEnd, HighRxUnlock, HighAnswer, HighStatus, HighClear, HighLower,
      MemRequest, MemDone, MemTimeout
LEMMA InitMessages == Init => NoReboot
<1> SUFFICES ASSUME Init PROVE NoReboot
  OBVIOUS
<1>1. /\ Way = <<>> /\ Len(Way) = 0
      /\ low.pc = "rx" /\ low.up /\ high.pc = "main"
      /\ \A b \in Bufs : state[b] = "LOW_CTRL"
  BY DEF Init, Way
<1>2. Framed
  BY <1>1 DEF Framed
<1>3. OneMessage
  BY <1>1 DEF OneMessage, AtLow, AtHigh, InWay
<1> QED
  BY <1>1, <1>2, <1>3 DEF NoReboot

\* While neither CPU reboots, the mailbox holds whole messages, and a buffer is READY
\* exactly while the one message about it is on its way.
THEOREM MessagesInvariance == Spec => [](HoldInv /\ NoReboot)
<1>1. Init => HoldInv /\ NoReboot
  BY InitHold, InitMessages
<1>2. HoldInv /\ NoReboot /\ [Next]_vars => HoldInv' /\ NoReboot'
  BY NextHold, NextMessages
<1> QED
  BY <1>1, <1>2, PTL DEF Spec

\* One message on its way is counted once.
LEMMA CountOne ==
    ASSUME HoldInv, OneMessage, NEW b \in Bufs
    PROVE  Cardinality({i \in DOMAIN Way : Way[i].msg = Ready(b)})
             = IF InWay(b) THEN 1 ELSE 0
<1> DEFINE at == {i \in DOMAIN Way : Way[i].msg = Ready(b)}
<1>1. DOMAIN Way = 1 .. Len(Way)
  BY WayType DEF HoldInv
<1>2. CASE InWay(b)
  <2>1. PICK i \in 1 .. Len(Way) : Way[i].msg = Ready(b)
    BY <1>2 DEF InWay
  <2>2. at = {i}
    BY <1>1, <2>1 DEF OneMessage
  <2> QED
    BY <1>2, <2>2, FS_Singleton
<1>3. CASE ~InWay(b)
  <2>1. at = {}
    BY <1>1, <1>3 DEF InWay
  <2> QED
    BY <1>3, <2>1, FS_EmptySet
<1> QED
  BY <1>2, <1>3

\* While neither CPU reboots, one message about each READY buffer is on its way.
THEOREM Announcing == Spec => []ReadyAnnounced
<1>1. HoldInv /\ NoReboot => ReadyAnnounced
  <2> SUFFICES ASSUME HoldInv, NoReboot, boot.reboots = 0, NEW b \in Bufs
               PROVE  Announced(b) = IF state[b] = "READY" THEN 1 ELSE 0
    BY DEF ReadyAnnounced
  <2>1. OneMessage
    BY DEF NoReboot
  <2> DEFINE inWay == IF InWay(b) THEN 1 ELSE 0
             atLow == IF AtLow(b) THEN 1 ELSE 0
             atHigh == IF AtHigh(b) THEN 1 ELSE 0
  <2>2. Announced(b) = inWay + atLow + atHigh
    BY <2>1, CountOne DEF Announced, AtLow, AtHigh
  <2>3. /\ state[b] = "READY" <=> (AtLow(b) \/ InWay(b) \/ AtHigh(b))
        /\ AtLow(b) => ~InWay(b) /\ ~AtHigh(b)
        /\ AtHigh(b) => ~InWay(b)
    BY <2>1 DEF OneMessage
  <2>4. inWay + atLow + atHigh = IF state[b] = "READY" THEN 1 ELSE 0
    BY <2>3
  <2> QED
    BY <2>2, <2>4
<1> QED
  BY <1>1, MessagesInvariance, PTL

-----------------------------------------------------------------------------
(* Reads of the memory of CPU_LOW.                                         *)

\* What a step leaves alone that is not about a read.
SameReads ==
    /\ UNCHANGED <<requests, mem>>
    /\ AnswerInWay' <=> AnswerInWay
    /\ AnswerAtHigh' <=> AnswerAtHigh
    /\ AnswerAtHigh => high'.msg = high.msg
    /\ \A i, j \in 1 .. Len(Way') : \A r, q \in Reads :
          Way'[i].msg = Answer(r) /\ Way'[j].msg = Answer(q) => i = j /\ r = mem.last

LEMMA SameReadsInv ==
    ASSUME OneAnswer, SameReads
    PROVE  OneAnswer'
  BY DEF OneAnswer, SameReads, Asking

\* While no read waits there is neither a request nor an answer.
LEMMA NoAnswer ==
    ASSUME OneAnswer, ~Asking
    PROVE  requests = <<>> /\ ~AnswerInWay /\ ~AnswerAtHigh
  BY DEF OneAnswer

\* The steps that leave the words alone.
LEMMA QuietReads ==
    ASSUME HoldInv, boot.reboots = 0, NoReboot, OneAnswer,
           \/ LowReceive \/ LowWrite \/ LowSearch \/ HighInterrupt \/ Watchdog
           \/ HighRxStart \/ HighRxEnd \/ HighRxUnlock \/ HighStatus \/ HighClear
           \/ HighLower
    PROVE  OneAnswer'
<1>1. high \in HighRegs /\ low \in LowRegs
  BY DEF HoldInv, TypeOK
<1>2. UNCHANGED <<requests, mem>>
  BY DEF LowReceive, LowWrite, LowSearch, HighInterrupt, Watchdog, HighRxStart, HighRxEnd,
         HighRxUnlock, HighStatus, HighClear, HighLower, lowSide, highSide
<1>3. Way' = Way
  <2>1. CASE LowReceive \/ HighRxStart
    <3>1. fifo' = fifo /\ low'.out = low.out
      BY <1>1, <2>1 DEF LowReceive, HighRxStart, lowSide, LowRegs
    <3> QED
      BY <3>1 DEF Way
  <2> QED
    BY <2>1, LowQuietMessages, HighQuietMessages, HighRxEndMessages DEF SameMessages
<1>4. \A i, j \in 1 .. Len(Way') : \A r, q \in Reads :
         Way'[i].msg = Answer(r) /\ Way'[j].msg = Answer(q) => i = j /\ r = mem.last
  BY <1>3 DEF OneAnswer
<1>5. AnswerInWay' <=> AnswerInWay
  BY <1>3 DEF AnswerInWay
<1>6. CASE LowReceive \/ LowWrite \/ LowSearch
  <2>1. high' = high
    BY <1>6 DEF LowReceive, LowWrite, LowSearch, highSide
  <2>2. AnswerAtHigh' <=> AnswerAtHigh
    BY <2>1 DEF AnswerAtHigh
  <2> QED
    BY <1>2, <1>4, <1>5, <2>1, <2>2, SameReadsInv DEF SameReads
<1>7. CASE ~(LowReceive \/ LowWrite \/ LowSearch)
  <2>1. high'.pc \notin {"payload", "process"}
    BY <1>1, <1>7 DEF HighInterrupt, Watchdog, HighRxStart, HighRxEnd, HighRxUnlock,
                      HighStatus, HighClear, HighLower, Goto, HighRegs
  <2>2. \/ high.pc \notin {"payload", "process"}
        \/ high.msg = Status
        \/ \E b \in Bufs : high.msg = Ready(b)
    BY <1>7 DEF HighInterrupt, Watchdog, HighRxStart, HighRxEnd, HighRxUnlock,
                HighStatus, HighClear, HighLower
  <2>3. ~AnswerAtHigh' /\ ~AnswerAtHigh
    BY <2>1, <2>2, MessageFacts DEF AnswerAtHigh
  <2> QED
    BY <1>2, <1>4, <1>5, <2>3, SameReadsInv DEF SameReads
<1> QED
  BY <1>6, <1>7

\* The announcement of a reception is no answer.
LEMMA LowUnlockReads ==
    ASSUME HoldInv, OneAnswer, LowUnlock
    PROVE  OneAnswer'
<1>1. /\ low \in LowRegs /\ low.buf \in Bufs /\ low.out = <<>> /\ TypeOK
  BY DEF HoldInv, TypeOK, RegistersOK, LowRegs, LowUnlock
<1> DEFINE h == Header(Ready(low.buf), 0)
<1>2. h \in Words /\ \A r \in Reads : h.msg # Answer(r)
  BY <1>1, MessageFacts, WordFacts
<1>3. low'.out = <<h>> /\ UNCHANGED <<fifo, high, mem, requests>>
  BY <1>1 DEF LowUnlock, Write, LowRegs, highSide
<1> HIDE DEF h
<1>4. /\ Len(Way') = Len(Way) + 1 /\ Way'[Len(Way) + 1] = h
      /\ \A i \in 1 .. Len(Way) : Way'[i] = Way[i]
  BY <1>1, <1>2, <1>3, WayMessage
<1>5. Len(Way) \in Nat
  BY <1>1, WayType
<1>6. /\ \A i \in 1 .. Len(Way') : \A r \in Reads :
            Way'[i].msg = Answer(r) => i \in 1 .. Len(Way) /\ Way[i].msg = Answer(r)
      /\ \A i \in 1 .. Len(Way) : i \in 1 .. Len(Way')
  BY <1>2, <1>4, <1>5
<1>7. AnswerInWay' <=> AnswerInWay
  BY <1>4, <1>6 DEF AnswerInWay
<1>8. \A i, j \in 1 .. Len(Way') : \A r, q \in Reads :
         Way'[i].msg = Answer(r) /\ Way'[j].msg = Answer(q) => i = j /\ r = mem.last
  BY <1>6 DEF OneAnswer
<1>9. AnswerAtHigh' <=> AnswerAtHigh
  BY <1>3 DEF AnswerAtHigh
<1> QED
  BY <1>3, <1>7, <1>8, <1>9, SameReadsInv DEF SameReads

\* The one request becomes the one answer.
LEMMA LowAnswerReads ==
    ASSUME HoldInv, OneAnswer, LowAnswer
    PROVE  OneAnswer'
<1>1. /\ low \in LowRegs /\ low.out = <<>> /\ requests # <<>> /\ TypeOK /\ mem \in MemRegs
  BY DEF HoldInv, TypeOK, RegistersOK, LowAnswer
<1>2. /\ Asking /\ requests = <<mem.last>> /\ mem.last # 0 /\ ~AnswerInWay
      /\ ~AnswerAtHigh /\ mem.got \in {0, mem.last}
  BY <1>1 DEF OneAnswer
<1>3. mem.last \in Reads
  BY <1>1, <1>2, BoundFacts DEF MemRegs, Reads
<1>4. Head(requests) = mem.last /\ Tail(requests) = <<>>
  BY <1>2
<1> DEFINE h == Header(Answer(mem.last), 1)
<1>5. /\ h \in Words /\ h.msg = Answer(mem.last) /\ Data \in Words
      /\ \A r \in Reads : Data.msg # Answer(r) /\ (h.msg = Answer(r) => r = mem.last)
  BY <1>3, MessageFacts, WordFacts
<1>6. low'.out = <<h, Data>> /\ requests' = <<>> /\ UNCHANGED <<fifo, high, mem>>
  BY <1>1, <1>2, <1>4 DEF LowAnswer, Write, LowRegs, highSide
<1> HIDE DEF h
<1>7. /\ Len(Way') = Len(Way) + 2
      /\ Way'[Len(Way) + 1] = h /\ Way'[Len(Way) + 2] = Data
      /\ \A i \in 1 .. Len(Way) : Way'[i] = Way[i]
  BY <1>1, <1>5, <1>6, WayMessage2
<1>8. Len(Way) \in Nat
  BY <1>1, WayType
<1>9. ASSUME NEW i \in 1 .. Len(Way'), NEW r \in Reads, Way'[i].msg = Answer(r)
      PROVE  i = Len(Way) + 1 /\ r = mem.last
  <2>1. i \notin 1 .. Len(Way)
    BY <1>2, <1>7, <1>9 DEF AnswerInWay
  <2>2. i # Len(Way) + 2
    BY <1>5, <1>7, <1>9
  <2>3. i = Len(Way) + 1
    BY <1>7, <1>8, <2>1, <2>2
  <2> QED
    BY <1>5, <1>7, <1>9, <2>3
<1>10. ~AnswerAtHigh' /\ Asking'
  BY <1>2, <1>6 DEF AnswerAtHigh, Asking
<1> QED
  BY <1>2, <1>6, <1>9, <1>10 DEF OneAnswer

\* The words after the oldest one.
LEMMA TailReads ==
    ASSUME OneAnswer, Len(Way) \in Nat, Len(Way) > 0, Len(Way') = Len(Way) - 1,
           \A i \in 1 .. Len(Way) - 1 : Way'[i] = Way[i + 1]
    PROVE  /\ AnswerInWay' => AnswerInWay /\ \A r \in Reads : Way[1].msg # Answer(r)
           /\ AnswerInWay => AnswerInWay' \/ Way[1].msg = Answer(mem.last)
           /\ \A i, j \in 1 .. Len(Way') : \A r, q \in Reads :
                 Way'[i].msg = Answer(r) /\ Way'[j].msg = Answer(q) => i = j /\ r = mem.last
<1>1. /\ \A i \in 1 .. Len(Way') : i + 1 \in 1 .. Len(Way) /\ Way'[i] = Way[i + 1]
      /\ \A i \in 1 .. Len(Way) : i # 1 => /\ i - 1 \in 1 .. Len(Way')
                                           /\ Way'[i - 1] = Way[i]
      /\ 1 \in 1 .. Len(Way) /\ \A i \in 1 .. Len(Way') : i + 1 # 1
  OBVIOUS
<1>2. \A i, j \in 1 .. Len(Way) : \A r, q \in Reads :
         Way[i].msg = Answer(r) /\ Way[j].msg = Answer(q) => i = j /\ r = mem.last
  BY DEF OneAnswer
<1>3. \A i, j \in 1 .. Len(Way') : \A r, q \in Reads :
         Way'[i].msg = Answer(r) /\ Way'[j].msg = Answer(q) => i = j /\ r = mem.last
  BY <1>1, <1>2
<1>4. AnswerInWay' => AnswerInWay /\ \A r \in Reads : Way[1].msg # Answer(r)
  BY <1>1, <1>2 DEF AnswerInWay
<1>5. AnswerInWay => AnswerInWay' \/ Way[1].msg = Answer(mem.last)
  BY <1>1, <1>2 DEF AnswerInWay
<1> QED
  BY <1>3, <1>4, <1>5

\* CPU_HIGH reads a header.
LEMMA HighReadReads ==
    ASSUME HoldInv, boot.reboots = 0, NoReboot, OneAnswer, HighRead
    PROVE  OneAnswer'
<1>1. /\ high \in HighRegs /\ high.pc = "read" /\ Framed /\ TypeOK
      /\ UNCHANGED <<requests, mem, low>>
  BY DEF HoldInv, TypeOK, NoReboot, HighRead, lowSide
<1>2. ~AnswerAtHigh
  BY <1>1 DEF AnswerAtHigh
<1>3. CASE fifo = <<>>
  <2>1. fifo' = fifo /\ high'.pc \in {"main", "clear"}
    BY <1>1, <1>3 DEF HighRead, Goto, EndOfLoop, HighRegs
  <2>2. Way' = Way /\ ~AnswerAtHigh'
    BY <1>1, <2>1 DEF Way, AnswerAtHigh
  <2>3. AnswerInWay' <=> AnswerInWay
    BY <2>2 DEF AnswerInWay
  <2>4. \A i, j \in 1 .. Len(Way') : \A r, q \in Reads :
           Way'[i].msg = Answer(r) /\ Way'[j].msg = Answer(q) => i = j /\ r = mem.last
    BY <2>2 DEF OneAnswer
  <2> QED
    BY <1>1, <1>2, <2>2, <2>3, <2>4, SameReadsInv DEF SameReads
<1>4. CASE fifo # <<>>
  <2>1. /\ Way # <<>> /\ Way \in Seq(Words) /\ Way[1] = Head(fifo)
    <3>1. fifo \in Seq(Words) /\ low.out \in Seq(Words) /\ Way \in Seq(Words)
      BY <1>1, WayType
    <3>2. Way # <<>> /\ Head(Way) = Head(fifo)
      BY <1>4, <3>1, ConcatTail DEF Way
    <3> QED
      BY <3>1, <3>2, TailFacts
  <2>2. 1 \in 1 .. Len(Way) /\ Len(Way) \in Nat /\ Len(Way) > 0
    BY <2>1
  <2>3. Head(fifo) # Data
    BY <1>1, <2>1, <2>2 DEF Framed
  <2>4. fifo' = Tail(fifo) /\ high'.msg = Way[1].msg /\ high'.pc \in {"payload", "process"}
    BY <1>1, <1>4, <2>1, <2>3 DEF HighRead, HighRegs
  <2>5. /\ Len(Way') = Len(Way) - 1
        /\ \A i \in 1 .. Len(Way) - 1 : Way'[i] = Way[i + 1]
    BY <1>1, <1>4, <2>4, WayRead
  <2>6. /\ AnswerInWay' => AnswerInWay /\ \A r \in Reads : Way[1].msg # Answer(r)
        /\ \A i, j \in 1 .. Len(Way') : \A r, q \in Reads :
              Way'[i].msg = Answer(r) /\ Way'[j].msg = Answer(q) => i = j /\ r = mem.last
    BY <2>2, <2>5, TailReads
  <2>7. AnswerAtHigh' => AnswerInWay /\ ~AnswerInWay' /\ high'.msg = Answer(mem.last)
    BY <2>2, <2>4, <2>6 DEF AnswerAtHigh, AnswerInWay, OneAnswer
  <2>8. Asking' <=> Asking
    BY <1>1 DEF Asking
  <2> QED
    BY <1>1, <2>6, <2>7, <2>8 DEF OneAnswer
<1> QED
  BY <1>3, <1>4

\* CPU_HIGH reads the payload of its message.
LEMMA HighPayloadReads ==
    ASSUME HoldInv, boot.reboots = 0, NoReboot, OneAnswer, HighPayload
    PROVE  OneAnswer'
<1>1. /\ high \in HighRegs /\ high.pc = "payload" /\ high.left = 1 /\ Framed /\ TypeOK
      /\ UNCHANGED <<requests, mem, low>>
  BY DEF HoldInv, TypeOK, NoReboot, RegistersOK, HighPayload, lowSide
<1>2. /\ fifo # <<>> /\ fifo' = Tail(fifo) /\ high'.msg = high.msg /\ high'.pc = "process"
  BY <1>1 DEF HighPayload, HighRegs
<1>3. /\ Way # <<>> /\ Len(Way) > 0 /\ Len(Way') = Len(Way) - 1
      /\ \A i \in 1 .. Len(Way) - 1 : Way'[i] = Way[i + 1]
  BY <1>1, <1>2, WayRead
<1>4. 1 \in 1 .. Len(Way) /\ Len(Way) \in Nat
  BY <1>1, <1>3, WayType
<1>5. \A r : Way[1].msg # Answer(r)
  BY <1>1, <1>4, MessageFacts DEF Framed
<1>6. /\ AnswerInWay' <=> AnswerInWay
      /\ \A i, j \in 1 .. Len(Way') : \A r, q \in Reads :
            Way'[i].msg = Answer(r) /\ Way'[j].msg = Answer(q) => i = j /\ r = mem.last
  BY <1>3, <1>4, <1>5, TailReads
<1>7. AnswerAtHigh' <=> AnswerAtHigh
  BY <1>1, <1>2 DEF AnswerAtHigh
<1> QED
  BY <1>1, <1>2, <1>6, <1>7, SameReadsInv DEF SameReads

\* The answer is copied to the read that waits for it.
LEMMA HighAnswerReads ==
    ASSUME HoldInv, boot.reboots = 0, NoReboot, OneAnswer, HighAnswer
    PROVE  OneAnswer'
<1>1. /\ high \in HighRegs /\ high.pc = "process" /\ mem \in MemRegs
      /\ UNCHANGED <<requests, low>>
  BY DEF HoldInv, TypeOK, HighAnswer, lowSide
<1>2. AnswerAtHigh
  BY DEF HighAnswer, AnswerAtHigh
<1>3. Asking /\ high.msg = Answer(mem.last) /\ requests = <<>> /\ ~AnswerInWay
  BY <1>2 DEF OneAnswer
<1>4. high.msg[2] = mem.last
  BY <1>3, MessageFacts DEF HighAnswer, Answer
<1>5. mem' = [mem EXCEPT !.got = mem.last] /\ high'.pc = "read"
  BY <1>1, <1>3, <1>4 DEF HighAnswer, Asking, Goto, HighRegs
<1>6. mem'.got = mem'.last
  BY <1>1, <1>5 DEF MemRegs
<1>7. Way' = Way
  BY HighQuietMessages DEF SameMessages
<1>8. ~AnswerInWay' /\ ~AnswerAtHigh' /\ requests' = <<>>
  BY <1>1, <1>3, <1>5, <1>7 DEF AnswerInWay, AnswerAtHigh
<1>9. \A i, j \in 1 .. Len(Way') : \A r, q \in Reads :
         ~(Way'[i].msg = Answer(r) /\ Way'[j].msg = Answer(q))
  BY <1>8 DEF AnswerInWay
<1> QED
  BY <1>6, <1>8, <1>9 DEF OneAnswer

\* A read begins and ends without a request or an answer of another under way.
LEMMA MemReads ==
    ASSUME HoldInv, boot.reboots = 0, NoReboot, OneAnswer, MemRequest \/ MemDone
    PROVE  OneAnswer'
<1>1. /\ mem \in MemRegs /\ high' = high
  BY DEF HoldInv, TypeOK, MemRequest, MemDone
<1>2. ~Asking
  BY DEF MemRequest, MemDone, Asking
<1>3. requests = <<>> /\ ~AnswerInWay /\ ~AnswerAtHigh
  BY <1>2, NoAnswer
<1>4. Way' = Way
  BY HighQuietMessages DEF SameMessages
<1>5. ~AnswerInWay' /\ ~AnswerAtHigh'
  BY <1>1, <1>3, <1>4 DEF AnswerInWay, AnswerAtHigh
<1>6. \A i, j \in 1 .. Len(Way') : \A r, q \in Reads :
         ~(Way'[i].msg = Answer(r) /\ Way'[j].msg = Answer(q))
  BY <1>5 DEF AnswerInWay
<1>7. mem'.got = 0
  BY <1>1 DEF MemRequest, MemDone, MemRegs
<1>8. CASE MemDone
  BY <1>3, <1>5, <1>6, <1>7, <1>8 DEF OneAnswer, MemDone, lowSide
<1>9. CASE MemRequest
  <2>1. /\ mem'.last = mem.last + 1 /\ mem'.waiting /\ mem'.buffer /\ mem.last \in Nat
    BY <1>1, <1>9, BoundFacts DEF MemRequest, MemRegs
  <2>2. requests' = <<mem'.last>> /\ mem'.last # 0
    BY <1>3, <1>9, <2>1 DEF MemRequest
  <2> QED
    BY <1>5, <1>6, <1>7, <2>1, <2>2 DEF OneAnswer, Asking
<1> QED
  BY <1>8, <1>9

\* cpu_low_reg_read_buffer is set only while a read waits.
LEMMA BufferWaits ==
    ASSUME HoldInv, mem.buffer => mem.waiting, [Next]_vars
    PROVE  mem'.buffer => mem'.waiting
<1>1. mem \in MemRegs
  BY DEF HoldInv, TypeOK
<1>2. CASE mem' = mem
  BY <1>2
<1>3. CASE HighAnswer \/ MemRequest \/ MemDone \/ MemTimeout \/ HighReboot
  BY <1>1, <1>3 DEF HighAnswer, MemRequest, MemDone, MemTimeout, HighReboot, MemRegs
<1> QED
  BY <1>2, <1>3
  DEF Next, LowStep, HighStep, LowReceive, LowUnlock, LowWrite, LowSearch, LowAnswer,
      LowReboot, LowBootBuf, LowBootDone, HighInterrupt, Watchdog, HighRead, HighPayload,
      HighRxStart, HighRxStale, HighRxEnd, HighRxUnlock, HighStatus, HighClear, HighLower,
      HighBootBuf, HighBootDone, highSide, vars

\* A time-out stays a time-out, a reboot a reboot.
LEMMA LateStays ==
    ASSUME HoldInv, [Next]_vars, boot'.reboots = 0, ~mem'.late
    PROVE  boot.reboots = 0 /\ ~mem.late /\ ~MemTimeout /\ ~LowReboot /\ ~HighReboot
<1>1. mem \in MemRegs /\ boot \in BootRegs /\ boot.reboots \in Nat
  BY BoundFacts DEF HoldInv, TypeOK, BootRegs
<1>2. ~LowReboot /\ ~HighReboot
  <2>1. LowReboot \/ HighReboot => boot'.reboots = boot.reboots + 1
    BY <1>1 DEF LowReboot, HighReboot, BootRegs
  <2> QED
    BY <1>1, <2>1
<1>3. ~MemTimeout
  BY <1>1 DEF MemTimeout, MemRegs
<1>4. boot'.reboots = boot.reboots
  <2>1. CASE boot' = boot
    BY <2>1
  <2>2. CASE LowBootBuf \/ LowBootDone \/ HighBootBuf \/ HighBootDone
    BY <1>1, <2>2 DEF LowBootBuf, LowBootDone, HighBootBuf, HighBootDone, BootRegs
  <2> QED
    BY <1>2, <2>1, <2>2
    DEF Next, LowStep, HighStep, LowReceive, LowUnlock, LowWrite, LowSearch, LowAnswer,
        HighInterrupt, Watchdog, HighRead, HighPayload, HighRxStart, HighRxStale,
        HighRxEnd, HighRxUnlock, HighAnswer, HighStatus, HighClear, HighLower,
        MemRequest, MemDone, MemTimeout, vars
<1>5. mem'.late = mem.late
  <2>1. CASE mem' = mem
    BY <2>1
  <2>2. CASE HighAnswer \/ MemRequest \/ MemDone
    BY <1>1, <2>2 DEF HighAnswer, MemRequest, MemDone, MemRegs
  <2> QED
    BY <1>2, <1>3, <2>1, <2>2
    DEF Next, LowStep, HighStep, LowReceive, LowUnlock, LowWrite, LowSearch, LowAnswer,
        LowBootBuf, LowBootDone, HighInterrupt, Watchdog, HighRead, HighPayload,
        HighRxStart, HighRxStale, HighRxEnd, HighRxUnlock, HighStatus, HighClear,
        HighLower, HighBootBuf, HighBootDone, highSide, vars
<1> QED
  BY <1>2, <1>3, <1>4, <1>5

LEMMA NextReads ==
    ASSUME HoldInv, NoReboot, ReadInv, [Next]_vars
    PROVE  ReadInv'
<1>1. mem'.buffer => mem'.waiting
  BY BufferWaits DEF ReadInv
<1>2. ASSUME boot'.reboots = 0, ~mem'.late
      PROVE  OneAnswer'
  <2>1. boot.reboots = 0 /\ ~mem.late /\ ~MemTimeout /\ ~LowReboot /\ ~HighReboot
    BY <1>2, LateStays
  <2>2. OneAnswer
    BY <2>1 DEF ReadInv
  <2>3. CASE UNCHANGED vars
    BY <2>2, <2>3 DEF vars, OneAnswer, AnswerInWay, AnswerAtHigh, Asking, Way
  <2> QED
    BY <2>1, <2>2, <2>3, QuietReads, LowUnlockReads, LowAnswerReads, HighReadReads,
       HighPayloadReads, HighAnswerReads, MemReads, NoStaleMessage
    DEF Next, LowStep, HighStep
<1> QED
  BY <1>1, <1>2 DEF ReadInv

LEMMA InitReads == Init => ReadInv
<1> SUFFICES ASSUME Init PROVE ReadInv
  OBVIOUS
<1>1. Way = <<>> /\ Len(Way) = 0 /\ high.pc = "main" /\ requests = <<>>
      /\ ~mem.buffer /\ mem.got = 0
  BY DEF Init, Way
<1> QED
  BY <1>1 DEF ReadInv, OneAnswer, AnswerInWay, AnswerAtHigh

\* A read of the memory of CPU_LOW gets the answer to its own request, unless an
\* earlier one timed out or a CPU rebooted, and never one nobody waits for.
THEOREM ReadAnswers == Spec => []ReadsAnswered
<1>1. Init => HoldInv /\ NoReboot /\ ReadInv
  BY InitHold, InitMessages, InitReads
<1>2. HoldInv /\ NoReboot /\ ReadInv /\ [Next]_vars => HoldInv' /\ NoReboot' /\ ReadInv'
  BY NextHold, NextMessages, NextReads
<1>3. HoldInv /\ ReadInv => ReadsAnswered
  <2> SUFFICES ASSUME HoldInv, ReadInv PROVE ReadsAnswered
    OBVIOUS
  <2>1. boot.reboots \in Nat
    BY BoundFacts DEF HoldInv, TypeOK, BootRegs
  <2> QED
    BY <2>1 DEF ReadInv, OneAnswer, ReadsAnswered
<1> QED
  BY <1>1, <1>2, <1>3, PTL DEF Spec

-----------------------------------------------------------------------------
(* The transmission of an MPDU (module DcfTx).                             *)

\* The tuple of the software's variables, for the steps that leave it alone.
USE DEF soft

\* The counts of the station saturate and the window stays between its bounds.
LEMMA StationKept ==
    ASSUME CountsOK
    PROVE  /\ \A mode \in {"SHORT", "LONG"} : ResetFor(mode, station) \in Stations
           /\ ResetSsrc(station) \in Stations
<1>1. 0 \in 0 .. StationMax /\ CwMin \in CwMin .. CwMax
  BY DcfAssumption
<1>2. \A st \in Stations : /\ ResetSsrc(st) \in Stations /\ ResetSlrc(st) \in Stations
                           /\ ResetCw(st) \in Stations
  BY <1>1 DEF Stations, ResetSsrc, ResetSlrc, ResetCw
<1> QED
  BY <1>2 DEF CountsOK, ResetFor

LEMMA CappedType ==
    ASSUME NEW max \in Nat, NEW n \in Nat
    PROVE  Capped(n, max) \in 0 .. max
  BY DEF Capped

\* The window is widened at most to CwMax.
LEMMA WidenType ==
    ASSUME NEW st \in Stations, NEW atLimit \in BOOLEAN
    PROVE  Widen(st, atLimit) \in Stations
<1>1. Capped(st.cw + 1, CwMax) \in CwMin .. CwMax
  BY DcfAssumption DEF Stations, Capped
<1> QED
  BY <1>1, DcfAssumption DEF Stations, Widen

\* A failure counts one more for one of the two counts, or makes it wrap to 0.
LEMMA FailureCounted ==
    ASSUME CountsOK, CountFailure
    PROVE  /\ station' \in Stations
           /\ src' \in 0 .. RetryWrap - 1 /\ lrc' \in 0 .. RetryWrap - 1
           /\ src' \in {0, src, src + 1} /\ lrc' \in {0, lrc, lrc + 1}
<1>1. \A n \in 0 .. RetryWrap - 1 :
          (n + 1) % RetryWrap \in 0 .. RetryWrap - 1 /\ (n + 1) % RetryWrap \in {0, n + 1}
  BY DcfAssumption
<1>2. /\ src' \in 0 .. RetryWrap - 1 /\ lrc' \in 0 .. RetryWrap - 1
      /\ src' \in {0, src, src + 1} /\ lrc' \in {0, lrc, lrc + 1}
  BY <1>1 DEF CountsOK, CountFailure, IncrementSrc, IncrementLrc
<1>3. /\ [station EXCEPT !.ssrc = Capped(station.ssrc + 1, StationMax)] \in Stations
      /\ [station EXCEPT !.slrc = Capped(station.slrc + 1, StationMax)] \in Stations
  BY CappedType, DcfAssumption DEF CountsOK, Stations
<1>4. station' \in Stations
  BY <1>3, WidenType DEF CountFailure, IncrementSrc, IncrementLrc
<1> QED
  BY <1>2, <1>4

\* A message may set a limit to another positive value; when it is lower, that
\* is remembered.
LEMMA ConfigureKeeps ==
    ASSUME CountsOK, FlagsOK, Budget, Configure
    PROVE  /\ limit' \in [short : Nat, long : Nat] /\ lowered' \in BOOLEAN
           /\ configs' \in 0 .. MaxConfig
           /\ limit'.short > 0 /\ limit'.long > 0
           /\ ~lowered' => ~lowered /\ limit'.short >= limit.short /\ limit'.long >= limit.long
<1>1. CASE UNCHANGED <<limit, lowered, configs>>
  BY <1>1 DEF CountsOK, FlagsOK, Budget
<1>2. CASE ~ UNCHANGED <<limit, lowered, configs>>
  <2>1. PICK l \in Limits, which \in {"short", "long"} :
           /\ limit' = [limit EXCEPT ![which] = l]
           /\ lowered' = (lowered \/ l < limit[which])
           /\ configs < MaxConfig /\ configs' = configs + 1
    BY <1>2 DEF Configure
  <2>2. l \in Nat /\ l > 0
    BY DcfAssumption
  <2>3. /\ limit' \in [short : Nat, long : Nat] /\ limit'.short > 0 /\ limit'.long > 0
        /\ l >= limit[which] => limit'.short >= limit.short /\ limit'.long >= limit.long
    BY <2>1, <2>2 DEF CountsOK, Budget
  <2>4. limit[which] \in Nat
    BY DEF CountsOK
  <2>5. lowered' \in BOOLEAN /\ (~lowered' => ~lowered /\ ~(l < limit[which]))
    BY <2>1 DEF FlagsOK
  <2>6. configs' \in 0 .. MaxConfig
    BY <2>1, DcfAssumption DEF CountsOK
  <2> QED
    BY <2>2, <2>3, <2>4, <2>5, <2>6
<1> QED
  BY <1>1, <1>2

LEMMA HwTxStartInv ==
    ASSUME DcfInv, HwTxStart
    PROVE  DcfInv'
<1> USE DEF DcfInv, DcfTypeOK, HwTxStart
<1>1. FlagsOK'
  BY DEF FlagsOK
<1>2. CountsOK'
  BY DcfAssumption DEF CountsOK, PlacesOK, Frames, Reported
<1>3. PlacesOK'
  BY DEF PlacesOK, Controller, HwPhases, Receptions, Frames
<1>4. Exchange'
  BY DEF PlacesOK, Controller, HwPhases, Frames, Exchange, Rts
<1>5. Budget'
  BY DcfAssumption DEF FlagsOK, CountsOK, Budget
<1>6. Reported'
  BY DEF CountsOK, PlacesOK, Controller, HwPhases, Frames, Exchange, Reported
<1>7. SuccessIsAcked'
  BY DEF PlacesOK, Frames, Controller, Exchange, SuccessIsAcked
<1>8. LongMpduOnlyForRts'
  BY DEF PlacesOK, Frames, Exchange, Rts, LongMpduOnlyForRts
<1> QED
  BY <1>1, <1>2, <1>3, <1>4, <1>5, <1>6, <1>7, <1>8

LEMMA HwTxEndInv ==
    ASSUME DcfInv, HwTxEnd
    PROVE  DcfInv'
<1> USE DEF DcfInv, DcfTypeOK, HwTxEnd
<1>1. FlagsOK'
  BY DEF FlagsOK
<1>2. CountsOK'
  BY DcfAssumption DEF CountsOK, PlacesOK, Frames, Reported
<1>3. PlacesOK'
  BY DEF PlacesOK, Controller, HwPhases, Receptions, Frames
<1>4. Exchange'
  BY DEF PlacesOK, Controller, HwPhases, Frames, Exchange, Rts
<1>5. Budget'
  BY DcfAssumption DEF FlagsOK, CountsOK, Budget
<1>6. Reported'
  BY DEF CountsOK, PlacesOK, Controller, HwPhases, Frames, Exchange, Reported
<1>7. SuccessIsAcked'
  BY DEF PlacesOK, Frames, Controller, Exchange, SuccessIsAcked
<1>8. LongMpduOnlyForRts'
  BY DEF PlacesOK, Frames, Exchange, Rts, LongMpduOnlyForRts
<1> QED
  BY <1>1, <1>2, <1>3, <1>4, <1>5, <1>6, <1>7, <1>8

LEMMA HwTimeoutInv ==
    ASSUME DcfInv, HwTimeout
    PROVE  DcfInv'
<1> USE DEF DcfInv, DcfTypeOK, HwTimeout
<1>1. FlagsOK'
  BY DEF FlagsOK
<1>2. CountsOK'
  BY DcfAssumption DEF CountsOK, PlacesOK, Frames, Reported
<1>3. PlacesOK'
  BY DEF PlacesOK, Controller, HwPhases, Receptions, Frames
<1>4. Exchange'
  BY DEF PlacesOK, Controller, HwPhases, Frames, Exchange, Rts
<1>5. Budget'
  BY DcfAssumption DEF FlagsOK, CountsOK, Budget
<1>6. Reported'
  BY DEF CountsOK, PlacesOK, Controller, HwPhases, Frames, Exchange, Reported
<1>7. SuccessIsAcked'
  BY DEF PlacesOK, Frames, Controller, Exchange, SuccessIsAcked
<1>8. LongMpduOnlyForRts'
  BY DEF PlacesOK, Frames, Exchange, Rts, LongMpduOnlyForRts
<1> QED
  BY <1>1, <1>2, <1>3, <1>4, <1>5, <1>6, <1>7, <1>8

LEMMA HwRxStartInv ==
    ASSUME DcfInv, HwRxStart
    PROVE  DcfInv'
<1> USE DEF DcfInv, DcfTypeOK, HwRxStart, Receptions
<1>1. FlagsOK'
  BY DEF FlagsOK
<1>2. CountsOK'
  BY DcfAssumption DEF CountsOK, PlacesOK, Frames, Reported
<1>3. PlacesOK'
  <2>1. PICK k \in Receptions : hw' = [hw EXCEPT !.phase = "doneRx", !.rx = k]
    OBVIOUS
  <2> QED
    BY <2>1 DEF PlacesOK, Controller, HwPhases, Receptions, Frames
<1>4. Exchange'
  BY DEF PlacesOK, Controller, HwPhases, Frames, Exchange, Rts
<1>5. Budget'
  BY DcfAssumption DEF FlagsOK, CountsOK, Budget
<1>6. Reported'
  BY DEF CountsOK, PlacesOK, Controller, HwPhases, Frames, Exchange, Reported
<1>7. SuccessIsAcked'
  BY DEF PlacesOK, Frames, Controller, Exchange, SuccessIsAcked
<1>8. LongMpduOnlyForRts'
  BY DEF PlacesOK, Frames, Exchange, Rts, LongMpduOnlyForRts
<1> QED
  BY <1>1, <1>2, <1>3, <1>4, <1>5, <1>6, <1>7, <1>8

LEMMA TxStartInv ==
    ASSUME DcfInv, TxStart
    PROVE  DcfInv'
<1> USE DEF DcfInv, DcfTypeOK, TxStart
<1>1. FlagsOK'
  BY DEF FlagsOK
<1>2. CountsOK'
  BY DcfAssumption DEF CountsOK, PlacesOK, Frames, Reported
<1>3. PlacesOK'
  BY DEF PlacesOK, Controller, HwPhases, Receptions, Frames
<1>4. Exchange'
  BY DEF PlacesOK, Controller, HwPhases, Frames, Exchange, Rts
<1>5. Budget'
  BY DcfAssumption DEF FlagsOK, CountsOK, Budget
<1>6. Reported'
  BY DEF CountsOK, PlacesOK, Controller, HwPhases, Frames, Exchange, Reported
<1>7. SuccessIsAcked'
  BY DEF PlacesOK, Frames, Controller, Exchange, SuccessIsAcked
<1>8. LongMpduOnlyForRts'
  BY DEF PlacesOK, Frames, Exchange, Rts, LongMpduOnlyForRts
<1> QED
  BY <1>1, <1>2, <1>3, <1>4, <1>5, <1>6, <1>7, <1>8

LEMMA SubmitInv ==
    ASSUME DcfInv, Submit
    PROVE  DcfInv'
<1> USE DEF DcfInv, DcfTypeOK, Submit, Rts
<1>1. FlagsOK'
  BY DEF FlagsOK
<1>2. CountsOK'
  BY DcfAssumption DEF CountsOK, PlacesOK, Frames, Reported
<1>3. PlacesOK'
  BY DEF PlacesOK, Controller, HwPhases, Receptions, Frames
<1>4. Exchange'
  BY DEF PlacesOK, Controller, HwPhases, Frames, Exchange, Rts
<1>5. Budget'
  BY DcfAssumption DEF FlagsOK, CountsOK, Budget
<1>6. Reported'
  BY DEF CountsOK, PlacesOK, Controller, HwPhases, Frames, Exchange, Reported
<1>7. SuccessIsAcked'
  BY DEF PlacesOK, Frames, Controller, Exchange, SuccessIsAcked
<1>8. LongMpduOnlyForRts'
  BY DEF PlacesOK, Frames, Exchange, Rts, LongMpduOnlyForRts
<1> QED
  BY <1>1, <1>2, <1>3, <1>4, <1>5, <1>6, <1>7, <1>8

LEMMA PollTxActiveInv ==
    ASSUME DcfInv, PollTxActive
    PROVE  DcfInv'
<1> USE DEF DcfInv, DcfTypeOK, PollTxActive
<1>1. FlagsOK'
  BY DEF FlagsOK
<1>2. CountsOK'
  BY DcfAssumption DEF CountsOK, PlacesOK, Frames, Reported
<1>3. PlacesOK'
  BY DEF PlacesOK, Controller, HwPhases, Receptions, Frames
<1>4. Exchange'
  BY DEF PlacesOK, Controller, HwPhases, Frames, Exchange, Rts
<1>5. Budget'
  BY DcfAssumption DEF FlagsOK, CountsOK, Budget
<1>6. Reported'
  BY DEF CountsOK, PlacesOK, Controller, HwPhases, Frames, Exchange, Reported
<1>7. SuccessIsAcked'
  BY DEF PlacesOK, Frames, Controller, Exchange, SuccessIsAcked
<1>8. LongMpduOnlyForRts'
  BY DEF PlacesOK, Frames, Exchange, Rts, LongMpduOnlyForRts
<1> QED
  BY <1>1, <1>2, <1>3, <1>4, <1>5, <1>6, <1>7, <1>8

LEMMA PollRxInv ==
    ASSUME DcfInv, PollRx
    PROVE  DcfInv'
<1> USE DEF DcfInv, DcfTypeOK, PollRx, HwIdle
<1>1. FlagsOK'
  BY DEF FlagsOK
<1>2. CountsOK'
  BY DcfAssumption DEF CountsOK, PlacesOK, Frames, Reported
<1>3. PlacesOK'
  BY DEF PlacesOK, Controller, HwPhases, Receptions, Frames
<1>4. Exchange'
  BY DEF PlacesOK, Controller, HwPhases, Frames, Exchange, Rts
<1>5. Budget'
  BY DcfAssumption DEF FlagsOK, CountsOK, Budget
<1>6. Reported'
  <2>1. owed = 0 /\ pc' = "poll"
    BY DEF Reported
  <2>2. CASE UNCHANGED <<hw, owed>>
    BY <2>1, <2>2 DEF Reported
  <2>3. CASE hw' = [hw EXCEPT !.phase = "tx", !.sends = "mpdu"] /\ owed' = owed + 1
    BY <2>1, <2>3 DEF PlacesOK, Controller, Reported
  <2>4. CASE HwIdle /\ UNCHANGED owed
    BY <2>1, <2>4 DEF PlacesOK, Controller, Reported
  <2> QED
    BY <2>2, <2>3, <2>4
<1>7. SuccessIsAcked'
  BY DEF PlacesOK, Frames, Controller, Exchange, SuccessIsAcked
<1>8. LongMpduOnlyForRts'
  BY DEF PlacesOK, Frames, Exchange, Rts, LongMpduOnlyForRts
<1> QED
  BY <1>1, <1>2, <1>3, <1>4, <1>5, <1>6, <1>7, <1>8

LEMMA PollIdleInv ==
    ASSUME DcfInv, PollIdle
    PROVE  DcfInv'
<1> USE DEF DcfInv, DcfTypeOK, PollIdle, Done
<1>1. FlagsOK'
  BY DEF FlagsOK
<1>2. CountsOK'
  BY DcfAssumption, StationKept DEF CountsOK, PlacesOK, Frames, Reported
<1>3. PlacesOK'
  BY DEF PlacesOK, Controller, HwPhases, Receptions, Frames
<1>4. Exchange'
  BY DEF PlacesOK, Controller, HwPhases, Frames, Exchange, Rts
<1>5. Budget'
  BY DcfAssumption, StationKept DEF FlagsOK, CountsOK, Budget
<1>6. Reported'
  BY DEF CountsOK, PlacesOK, Controller, HwPhases, Frames, Exchange, Reported
<1>7. SuccessIsAcked'
  BY DEF PlacesOK, Frames, Controller, Exchange, SuccessIsAcked
<1>8. LongMpduOnlyForRts'
  BY DEF PlacesOK, Frames, Exchange, Rts, LongMpduOnlyForRts
<1> QED
  BY <1>1, <1>2, <1>3, <1>4, <1>5, <1>6, <1>7, <1>8

LEMMA PollIpcInv ==
    ASSUME DcfInv, PollIpc
    PROVE  DcfInv'
<1> USE DEF DcfInv, DcfTypeOK, PollIpc, Pending, Done
<1>1. FlagsOK'
  BY ConfigureKeeps DEF FlagsOK
<1>2. CountsOK'
  BY DcfAssumption, ConfigureKeeps DEF CountsOK, PlacesOK, Frames, Reported
<1>3. PlacesOK'
  BY DEF PlacesOK, Controller, HwPhases, Receptions, Frames
<1>4. Exchange'
  BY DEF PlacesOK, Controller, HwPhases, Frames, Exchange, Rts
<1>5. Budget'
  BY DcfAssumption, ConfigureKeeps DEF FlagsOK, CountsOK, Budget
<1>6. Reported'
  BY DEF CountsOK, PlacesOK, Controller, HwPhases, Frames, Exchange, Reported
<1>7. SuccessIsAcked'
  BY DEF PlacesOK, Frames, Controller, Exchange, SuccessIsAcked
<1>8. LongMpduOnlyForRts'
  BY DEF PlacesOK, Frames, Exchange, Rts, LongMpduOnlyForRts
<1> QED
  BY <1>1, <1>2, <1>3, <1>4, <1>5, <1>6, <1>7, <1>8

LEMMA DoneNoneInv ==
    ASSUME DcfInv, DoneNone
    PROVE  DcfInv'
<1> USE DEF DcfInv, DcfTypeOK, DoneNone, Return, HwIdle
<1>1. FlagsOK'
  BY DEF FlagsOK
<1>2. CountsOK'
  BY DcfAssumption, StationKept DEF CountsOK, PlacesOK, Frames, Reported
<1>3. PlacesOK'
  BY DEF PlacesOK, Controller, HwPhases, Receptions, Frames
<1>4. Exchange'
  BY DEF PlacesOK, Controller, HwPhases, Frames, Exchange, Rts
<1>5. Budget'
  BY DcfAssumption, StationKept DEF FlagsOK, CountsOK, Budget
<1>6. Reported'
  BY DEF CountsOK, PlacesOK, Controller, HwPhases, Frames, Exchange, Reported
<1>7. SuccessIsAcked'
  BY DEF PlacesOK, Frames, Controller, Exchange, SuccessIsAcked
<1>8. LongMpduOnlyForRts'
  BY DEF PlacesOK, Frames, Exchange, Rts, LongMpduOnlyForRts
<1> QED
  BY <1>1, <1>2, <1>3, <1>4, <1>5, <1>6, <1>7, <1>8

LEMMA CtsInTimeInv ==
    ASSUME DcfInv, CtsInTime
    PROVE  DcfInv'
<1> USE DEF DcfInv, DcfTypeOK, CtsInTime, DoneCts, ReceivedCts
<1>1. FlagsOK'
  BY DEF FlagsOK
<1>2. CountsOK'
  BY DcfAssumption, StationKept DEF CountsOK, PlacesOK, Frames, Reported
<1>3. PlacesOK'
  BY DEF PlacesOK, Controller, HwPhases, Receptions, Frames
<1>4. Exchange'
  BY DEF PlacesOK, Controller, HwPhases, Frames, Exchange, Rts
<1>5. Budget'
  BY DcfAssumption, StationKept DEF FlagsOK, CountsOK, Budget
<1>6. Reported'
  BY DEF CountsOK, PlacesOK, Controller, HwPhases, Frames, Exchange, Reported
<1>7. SuccessIsAcked'
  BY DEF PlacesOK, Frames, Controller, Exchange, SuccessIsAcked
<1>8. LongMpduOnlyForRts'
  BY DEF PlacesOK, Frames, Exchange, Rts, LongMpduOnlyForRts
<1> QED
  BY <1>1, <1>2, <1>3, <1>4, <1>5, <1>6, <1>7, <1>8

LEMMA CtsLateInv ==
    ASSUME DcfInv, CtsLate
    PROVE  DcfInv'
<1> USE DEF DcfInv, DcfTypeOK, CtsLate, DoneCts, ReceivedCts
<1>1. FlagsOK'
  BY DEF FlagsOK
<1>2. CountsOK'
  BY DcfAssumption, StationKept DEF CountsOK, PlacesOK, Frames, Reported
<1>3. PlacesOK'
  BY DEF PlacesOK, Controller, HwPhases, Receptions, Frames
<1>4. Exchange'
  BY DEF PlacesOK, Controller, HwPhases, Frames, Exchange, Rts
<1>5. Budget'
  BY DcfAssumption, StationKept DEF FlagsOK, CountsOK, Budget
<1>6. Reported'
  BY DEF CountsOK, PlacesOK, Controller, HwPhases, Frames, Exchange, Reported
<1>7. SuccessIsAcked'
  BY DEF PlacesOK, Frames, Controller, Exchange, SuccessIsAcked
<1>8. LongMpduOnlyForRts'
  BY DEF PlacesOK, Frames, Exchange, Rts, LongMpduOnlyForRts
<1> QED
  BY <1>1, <1>2, <1>3, <1>4, <1>5, <1>6, <1>7, <1>8

LEMMA DoneAckInv ==
    ASSUME DcfInv, DoneAck
    PROVE  DcfInv'
<1> USE DEF DcfInv, DcfTypeOK, DoneAck, ReceivedAck, Return, HwIdle
<1>1. FlagsOK'
  BY DEF FlagsOK
<1>2. CountsOK'
  BY DcfAssumption, StationKept DEF CountsOK, PlacesOK, Frames, Reported
<1>3. PlacesOK'
  BY DEF PlacesOK, Controller, HwPhases, Receptions, Frames
<1>4. Exchange'
  BY DEF PlacesOK, Controller, HwPhases, Frames, Exchange, Rts
<1>5. Budget'
  BY DcfAssumption, StationKept DEF FlagsOK, CountsOK, Budget
<1>6. Reported'
  BY DEF CountsOK, PlacesOK, Controller, HwPhases, Frames, Exchange, Reported
<1>7. SuccessIsAcked'
  BY DEF PlacesOK, Frames, Controller, Exchange, SuccessIsAcked
<1>8. LongMpduOnlyForRts'
  BY DEF PlacesOK, Frames, Exchange, Rts, LongMpduOnlyForRts
<1> QED
  BY <1>1, <1>2, <1>3, <1>4, <1>5, <1>6, <1>7, <1>8

LEMMA DoneOtherInv ==
    ASSUME DcfInv, DoneOther
    PROVE  DcfInv'
<1> USE DEF DcfInv, DcfTypeOK, DoneOther, Return, HwIdle
<1>1. FlagsOK'
  BY DEF FlagsOK
<1>2. CountsOK'
  BY DcfAssumption, FailureCounted DEF CountsOK, PlacesOK, Frames, Reported
<1>3. PlacesOK'
  BY DEF PlacesOK, Controller, HwPhases, Receptions, Frames
<1>4. Exchange'
  BY DEF PlacesOK, Controller, HwPhases, Frames, Exchange, Rts
<1>5. Budget'
  BY DcfAssumption, FailureCounted DEF FlagsOK, CountsOK, Budget
<1>6. Reported'
  BY DEF CountsOK, PlacesOK, Controller, HwPhases, Frames, Exchange, Reported
<1>7. SuccessIsAcked'
  BY DEF PlacesOK, Frames, Controller, Exchange, SuccessIsAcked
<1>8. LongMpduOnlyForRts'
  BY DEF PlacesOK, Frames, Exchange, Rts, LongMpduOnlyForRts
<1> QED
  BY <1>1, <1>2, <1>3, <1>4, <1>5, <1>6, <1>7, <1>8

LEMMA DoneTimeoutInv ==
    ASSUME DcfInv, DoneTimeout
    PROVE  DcfInv'
<1> USE DEF DcfInv, DcfTypeOK, DoneTimeout, Return, HwIdle
<1>1. FlagsOK'
  BY DEF FlagsOK
<1>2. CountsOK'
  BY DcfAssumption, FailureCounted DEF CountsOK, PlacesOK, Frames, Reported
<1>3. PlacesOK'
  BY DEF PlacesOK, Controller, HwPhases, Receptions, Frames
<1>4. Exchange'
  BY DEF PlacesOK, Controller, HwPhases, Frames, Exchange, Rts
<1>5. Budget'
  BY DcfAssumption, FailureCounted DEF FlagsOK, CountsOK, Budget
<1>6. Reported'
  BY DEF CountsOK, PlacesOK, Controller, HwPhases, Frames, Exchange, Reported
<1>7. SuccessIsAcked'
  BY DEF PlacesOK, Frames, Controller, Exchange, SuccessIsAcked
<1>8. LongMpduOnlyForRts'
  BY DEF PlacesOK, Frames, Exchange, Rts, LongMpduOnlyForRts
<1> QED
  BY <1>1, <1>2, <1>3, <1>4, <1>5, <1>6, <1>7, <1>8

LEMMA RetryInv ==
    ASSUME DcfInv, Retry
    PROVE  DcfInv'
<1> USE DEF DcfInv, DcfTypeOK, Retry
<1>1. FlagsOK'
  BY ConfigureKeeps DEF FlagsOK
<1>2. CountsOK'
  BY DcfAssumption, StationKept, ConfigureKeeps DEF CountsOK, PlacesOK, Frames, Reported
<1>3. PlacesOK'
  BY DEF PlacesOK, Controller, HwPhases, Receptions, Frames
<1>4. Exchange'
  BY DEF PlacesOK, Controller, HwPhases, Frames, Exchange, Rts
<1>5. Budget'
  BY DcfAssumption, StationKept, ConfigureKeeps DEF FlagsOK, CountsOK, Budget
<1>6. Reported'
  BY DEF CountsOK, PlacesOK, Controller, HwPhases, Frames, Exchange, Reported
<1>7. SuccessIsAcked'
  BY DEF PlacesOK, Frames, Controller, Exchange, SuccessIsAcked
<1>8. LongMpduOnlyForRts'
  BY DEF PlacesOK, Frames, Exchange, Rts, LongMpduOnlyForRts
<1> QED
  BY <1>1, <1>2, <1>3, <1>4, <1>5, <1>6, <1>7, <1>8

LEMMA MainLoopInv ==
    ASSUME DcfInv, MainLoop
    PROVE  DcfInv'
<1> USE DEF DcfInv, DcfTypeOK, MainLoop
<1>1. FlagsOK'
  BY ConfigureKeeps DEF FlagsOK
<1>2. CountsOK'
  BY DcfAssumption, ConfigureKeeps DEF CountsOK, PlacesOK, Frames, Reported
<1>3. PlacesOK'
  BY DEF PlacesOK, Controller, HwPhases, Receptions, Frames
<1>4. Exchange'
  BY DEF PlacesOK, Controller, HwPhases, Frames, Exchange, Rts
<1>5. Budget'
  BY DcfAssumption, ConfigureKeeps DEF FlagsOK, CountsOK, Budget
<1>6. Reported'
  BY DEF CountsOK, PlacesOK, Controller, HwPhases, Frames, Exchange, Reported
<1>7. SuccessIsAcked'
  BY DEF PlacesOK, Frames, Controller, Exchange, SuccessIsAcked
<1>8. LongMpduOnlyForRts'
  BY DEF PlacesOK, Frames, Exchange, Rts, LongMpduOnlyForRts
<1> QED
  BY <1>1, <1>2, <1>3, <1>4, <1>5, <1>6, <1>7, <1>8

LEMMA StutterInv ==
    ASSUME DcfInv, UNCHANGED dcfVars
    PROVE  DcfInv'
  BY DEF DcfInv, dcfVars, DcfTypeOK, FlagsOK, CountsOK, PlacesOK, Exchange, Rts, Budget,
         Reported, SuccessIsAcked, LongMpduOnlyForRts

LEMMA InitInv == DcfInit => DcfInv
<1> SUFFICES ASSUME DcfInit PROVE DcfInv
  OBVIOUS
<1> USE DEF DcfInit
<1>1. FlagsOK
  BY DEF FlagsOK
<1>2. CountsOK
  BY DcfAssumption DEF CountsOK, Stations
<1>3. PlacesOK
  BY DEF PlacesOK, Frames, Controller, HwPhases, Receptions
<1>4. Exchange /\ Budget /\ Reported
  BY DcfAssumption DEF Exchange, Budget, Reported
<1>5. SuccessIsAcked /\ LongMpduOnlyForRts
  BY DEF SuccessIsAcked, LongMpduOnlyForRts
<1> QED
  BY <1>1, <1>2, <1>3, <1>4, <1>5 DEF DcfInv, DcfTypeOK

LEMMA NextInv == DcfInv /\ [DcfNext]_dcfVars => DcfInv'
<1> SUFFICES ASSUME DcfInv, [DcfNext]_dcfVars PROVE DcfInv'
  OBVIOUS
<1>1. CASE TxStart \/ PollRx \/ MainLoop
  BY <1>1, TxStartInv, PollRxInv, MainLoopInv
<1>2. CASE Software
  BY <1>2, SubmitInv, PollTxActiveInv, PollIdleInv, PollIpcInv, DoneNoneInv, CtsInTimeInv,
     CtsLateInv, DoneAckInv, DoneOtherInv, DoneTimeoutInv, RetryInv DEF Software
<1>3. CASE Hardware
  BY <1>3, HwTxStartInv, HwTxEndInv, HwTimeoutInv, HwRxStartInv DEF Hardware
<1>4. CASE UNCHANGED dcfVars
  BY <1>4, StutterInv
<1> QED
  BY <1>1, <1>2, <1>3, <1>4 DEF DcfNext

\* DcfInv holds in every reachable state: between attempts the controller is idle
\* and nothing is owed, inside one its phase fixes what is owed and what counts.
THEOREM DcfInvariance == DcfSpec => []DcfInv
<1>1. DcfInit /\ [][DcfNext]_dcfVars => []DcfInv
  BY InitInv, NextInv, PTL
<1> QED
  BY <1>1, PTL DEF DcfSpec

\* A SUCCESS of a frame with a response means that the peer received the MPDU, for
\* any limits (TX_A_RESULT_RX_STARTED of frame_transmit_general).
THEOREM SuccessAcked == DcfSpec => []SuccessIsAcked
<1>1. DcfInv => SuccessIsAcked
  BY DEF DcfInv
<1> QED
  BY <1>1, DcfInvariance, PTL

\* frame_receive can start the long MPDU only between an RTS and its response.
THEOREM LongMpduSafe == DcfSpec => []LongMpduOnlyForRts
<1>1. DcfInv => LongMpduOnlyForRts
  BY DEF DcfInv
<1> QED
  BY <1>1, DcfInvariance, PTL

\* For any limits and any width of the counts no attempt begins beyond a limit,
\* unless a limit was lowered during the frame.
THEOREM RetryLimitsKept == DcfSpec => []WithinRetryLimits
<1>1. DcfInv => WithinRetryLimits
  BY DEF DcfInv, Budget, WithinRetryLimits
<1> QED
  BY <1>1, DcfInvariance, PTL

\* Every waveform of an attempt is reported before the next attempt.
THEOREM AllAttemptsReported == DcfSpec => []AttemptsReported
<1>1. DcfInv => AttemptsReported
  BY DEF DcfInv, DcfTypeOK, CountsOK, PlacesOK, Reported, AttemptsReported
<1> QED
  BY <1>1, DcfInvariance, PTL
=============================================================================

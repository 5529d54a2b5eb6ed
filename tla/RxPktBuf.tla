------------------------------ MODULE RxPktBuf ------------------------------
(***************************************************************************)
(* Receptions on their way from CPU_LOW to CPU_HIGH: the ring of receive   *)
(* packet buffers, the mailbox CPU_LOW -> CPU_HIGH word by word with its   *)
(* interrupt and watchdog, and wlan_mac_high_read_low_mem, the one request *)
(* whose answer CPU_HIGH waits for.                                        *)
(*                                                                         *)
(* A message is a header word and payload words.  The mailbox survives a   *)
(* reboot of either CPU, also in the middle of a message: the reader then  *)
(* takes the next header for payload, finds payload where a header should  *)
(* be, and flushes the mailbox.                                            *)
(*                                                                         *)
(* The mailbox core and its interrupt are external.  The interrupt latches *)
(* when the number of words rises above the threshold, as the comments of  *)
(* mailbox_int_handler imply.                                              *)
(***************************************************************************)
EXTENDS Integers, Sequences, FiniteSets

CONSTANTS NumRx,      \* NUM_RX_PKT_BUFS
          Depth,      \* words the mailbox holds
          MaxReads,   \* bound: calls of wlan_mac_high_read_low_mem
          MaxReboots  \* bound: reboots of either CPU

ASSUME RxAssumption ==
    /\ {NumRx, Depth} \subseteq Nat \ {0} /\ {MaxReads, MaxReboots} \subseteq Nat

Bufs == 0 .. NumRx - 1
RxStates == {"UNINITIALIZED", "HIGH_CTRL", "READY", "LOW_CTRL"}
Reads == 1 .. MaxReads

VARIABLES
    state,    \* rx_pkt_buf_state of every buffer
    owner,    \* the CPU that holds the buffer's mutex
    fifo,     \* words of the mailbox to CPU_HIGH
    rta,      \* receive threshold interrupt is latched
    thr,      \* receive threshold
    requests, \* mailbox to CPU_LOW: reads of memory (1 ..), status (0)
    low,      \* CPU_LOW: pc, rx_pkt_buf, words to write, pc after that
    high,     \* CPU_HIGH: pc, message, payload words left, called by interrupt
    mem,      \* read_low_mem: requests made, waiting, cpu_low_reg_read_buffer,
              \* the request whose answer was copied, whether one timed out
    boot,     \* reboots made, next buffer of the boot loops
    flushed   \* the mailbox has been flushed (not in the code)

vars == <<state, owner, fifo, rta, thr, requests, low, high, mem, boot, flushed>>
lowSide == <<requests, low>>
highSide == <<high, mem, thr, flushed>>

Header(m, words) == [msg |-> m, left |-> words]
Data == [msg |-> <<"data">>, left |-> 0]
Ready(b) == <<"ready", b>>
Answer(r) == <<"mem", r>>
Status == <<"status">>
Messages == {Ready(b) : b \in Bufs} \cup {Answer(r) : r \in Reads} \cup {Status}
Words == {Header(m, n) : m \in Messages, n \in 0 .. 1} \cup {Data}

LowPCs == {"rx", "unlock", "write", "search", "boot"}
HighPCs == {"main", "read", "payload", "process", "rx", "unlock", "clear", "lower", "boot"}

LowRegs == [pc : LowPCs, buf : Bufs, out : Seq(Words), next : {"rx", "search"},
            up : BOOLEAN]
HighRegs == [pc : HighPCs, msg : Messages \cup {Data.msg}, left : 0 .. 1, int : BOOLEAN]
MemRegs == [last : 0 .. MaxReads, waiting : BOOLEAN, buffer : BOOLEAN,
            got : 0 .. MaxReads, late : BOOLEAN]
BootRegs == [low : 0 .. NumRx, high : 0 .. NumRx, reboots : 0 .. MaxReboots]

TypeOK ==
    /\ state \in [Bufs -> RxStates] /\ owner \in [Bufs -> {"none", "LOW", "HIGH"}]
    /\ fifo \in Seq(Words) /\ Len(fifo) <= Depth
    /\ rta \in BOOLEAN /\ thr \in {0, Depth - 1} /\ flushed \in BOOLEAN
    /\ requests \in Seq(Reads \cup {0})
    /\ low \in LowRegs /\ high \in HighRegs /\ mem \in MemRegs /\ boot \in BootRegs

-----------------------------------------------------------------------------
(* The mailbox and mutex cores (external)                                  *)

Above(f, t) == Len(f) > t
\* The interrupt latches on the rising edge of the comparison.
Latched(f, t) == rta \/ (Above(f, t) /\ ~Above(fifo, thr))

CanLock(cpu, b) == owner[b] \in {"none", cpu}
Lock(cpu, b) == owner' = [owner EXCEPT ![b] = cpu]
Unlock(cpu, b) ==
    owner' = IF owner[b] = cpu THEN [owner EXCEPT ![b] = "none"] ELSE owner
UnlockAll(cpu) == owner' = [b \in Bufs |-> IF owner[b] = cpu THEN "none" ELSE owner[b]]
SetState(b, s) == state' = [state EXCEPT ![b] = s]

-----------------------------------------------------------------------------
(* CPU_LOW                                                                 *)

Full == Len(fifo) >= Depth

\* write_mailbox_msg, which blocks while the mailbox is full.
Write(words, next) == [low EXCEPT !.pc = "write", !.out = words, !.next = next]

\* frame_receive ends with a packet that is reported.
LowReceive ==
    /\ low.pc = "rx"
    /\ SetState(low.buf, "READY")
    /\ low' = [low EXCEPT !.pc = "unlock"]
    /\ UNCHANGED <<owner, fifo, rta, requests, boot, highSide>>

LowUnlock ==
    /\ low.pc = "unlock"
    /\ Unlock("LOW", low.buf)
    /\ low' = Write(<<Header(Ready(low.buf), 0)>>, "search")
    /\ UNCHANGED <<state, fifo, rta, requests, boot, highSide>>

LowWrite ==
    /\ low.pc = "write"
    /\ IF low.out = <<>>
       THEN low' = [low EXCEPT !.pc = low.next, !.next = "rx"] /\ UNCHANGED <<fifo, rta>>
       ELSE /\ ~Full
            /\ fifo' = Append(fifo, Head(low.out))
            /\ rta' = Latched(fifo', thr)
            /\ low' = [low EXCEPT !.out = Tail(@)]
    /\ UNCHANGED <<state, owner, requests, boot, highSide>>

\* One round of wlan_mac_low_lock_empty_rx_pkt_buf; the first one after a boot
\* is followed by the status message.
LowSearch ==
    /\ low.pc = "search"
    /\ LET b == (low.buf + 1) % NumRx IN
         IF state[b] = "LOW_CTRL" /\ CanLock("LOW", b)
         THEN /\ Lock("LOW", b)
              /\ low' = IF low.up THEN [low EXCEPT !.pc = "rx", !.buf = b]
                        ELSE [Write(<<Header(Status, 1), Data>>, "rx") EXCEPT
                              !.buf = b, !.up = TRUE]
         ELSE low' = [low EXCEPT !.buf = b] /\ UNCHANGED owner
    /\ UNCHANGED <<state, fifo, rta, requests, boot, highSide>>

\* IPC_MBOX_MEM_READ_WRITE in read mode and IPC_MBOX_CPU_STATUS.
LowAnswer ==
    /\ low.pc = "rx" /\ requests # <<>>
    /\ LET r == Head(requests) IN
         low' = Write(<<Header(IF r = 0 THEN Status ELSE Answer(r), 1), Data>>, "rx")
    /\ requests' = Tail(requests)
    /\ UNCHANGED <<state, owner, fifo, rta, boot, highSide>>

LowReboot ==
    /\ boot.reboots < MaxReboots
    /\ UnlockAll("LOW")
    /\ low' = [pc |-> "boot", buf |-> 0, out |-> <<>>, next |-> "rx", up |-> FALSE]
    /\ boot' = [boot EXCEPT !.low = 0, !.reboots = @ + 1]
    /\ UNCHANGED <<state, fifo, rta, requests, highSide>>

\* Mutant: every buffer is taken, also one that CPU_HIGH has not processed.
BootTakesAll(b) == TRUE
BootTakes(b) == state[b] \notin {"HIGH_CTRL", "READY"}

\* force_lock_rx_pkt_buf takes the mutex whoever holds it.
LowBootBuf ==
    /\ low.pc = "boot" /\ boot.low < NumRx
    /\ IF BootTakes(boot.low)
       THEN Lock("LOW", boot.low) /\ SetState(boot.low, "LOW_CTRL")
       ELSE UNCHANGED <<state, owner>>
    /\ boot' = [boot EXCEPT !.low = @ + 1]
    /\ UNCHANGED <<fifo, rta, requests, low, highSide>>

LowBootDone ==
    /\ low.pc = "boot" /\ boot.low = NumRx
    /\ low' = [low EXCEPT !.pc = "search"] /\ boot' = [boot EXCEPT !.low = 0]
    /\ UNCHANGED <<state, owner, fifo, rta, requests, highSide>>

-----------------------------------------------------------------------------
(* CPU_HIGH: interrupt, mailbox and messages                               *)

\* mailbox_int_handler raises the threshold to its maximum.
HighInterrupt ==
    /\ high.pc = "main" /\ rta
    /\ thr' = Depth - 1
    /\ high' = [high EXCEPT !.pc = "read", !.int = TRUE]
    /\ UNCHANGED <<state, owner, fifo, rta, mem, boot, flushed, lowSide>>

\* _mailbox_rx_watchdog, an event of the coarse timer.
Watchdog ==
    /\ high.pc = "main"
    /\ high' = [high EXCEPT !.pc = "read", !.int = FALSE]
    /\ UNCHANGED <<state, owner, fifo, rta, thr, mem, boot, flushed, lowSide>>

\* The message is dropped with the end of its handling.
Goto(pc) ==
    high' = [high EXCEPT !.pc = pc,
                         !.msg = IF pc \in {"rx", "unlock"} THEN @ ELSE Data.msg,
                         !.int = @ /\ pc # "main"]
EndOfLoop == IF high.int THEN "clear" ELSE "main"

\* Mutant: the payload is left in the mailbox.
NoPayload(header) == 0
Payload(header) == header.left

\* read_mailbox_msg: nothing to read, a header, or no header.
HighRead ==
    /\ high.pc = "read"
    /\ \/ /\ fifo = <<>>
          /\ Goto(EndOfLoop) /\ UNCHANGED <<fifo, flushed>>
       \/ /\ fifo # <<>> /\ Head(fifo) # Data
          /\ fifo' = Tail(fifo)
          /\ LET n == Payload(Head(fifo)) IN
               high' = [high EXCEPT !.msg = Head(fifo).msg, !.left = n,
                                    !.pc = IF n > 0 THEN "payload" ELSE "process"]
          /\ UNCHANGED flushed
       \/ /\ fifo # <<>> /\ Head(fifo) = Data
          /\ fifo' = <<>> /\ flushed' = TRUE
          /\ Goto(EndOfLoop)
    /\ UNCHANGED <<state, owner, rta, thr, mem, boot, lowSide>>

\* XMbox_ReadBlocking waits for the payload, whatever the next word is.
HighPayload ==
    /\ high.pc = "payload" /\ fifo # <<>>
    /\ fifo' = Tail(fifo)
    /\ high' = [high EXCEPT !.left = @ - 1,
                            !.pc = IF high.left = 1 THEN "process" ELSE "payload"]
    /\ UNCHANGED <<state, owner, rta, thr, mem, boot, flushed, lowSide>>

buf == high.msg[2]

\* IPC_MBOX_RX_PKT_BUF_READY of a READY buffer: lock and process it.
HighRxStart ==
    /\ high.pc = "process" /\ \E b \in Bufs : high.msg = Ready(b)
    /\ state[buf] = "READY"
    /\ IF CanLock("HIGH", buf)
       THEN Lock("HIGH", buf) /\ SetState(buf, "HIGH_CTRL") /\ Goto("rx")
       ELSE Goto("read") /\ UNCHANGED <<state, owner>>
    /\ UNCHANGED <<fifo, rta, thr, mem, boot, flushed, lowSide>>

\* The buffer is not READY: clean up.
HighRxStale ==
    /\ high.pc = "process" /\ \E b \in Bufs : high.msg = Ready(b)
    /\ state[buf] # "READY"
    /\ IF state[buf] = "HIGH_CTRL" THEN SetState(buf, "LOW_CTRL") ELSE UNCHANGED state
    /\ Unlock("HIGH", buf) /\ Goto("read")
    /\ UNCHANGED <<fifo, rta, thr, mem, boot, flushed, lowSide>>

\* Mutant: the buffer is not given back after it was processed.
ProcessedKept == "HIGH_CTRL"
Processed == "LOW_CTRL"

\* network_info, station_info, log and mpdu_rx_callback have returned.
HighRxEnd ==
    /\ high.pc = "rx"
    /\ SetState(buf, Processed) /\ Goto("unlock")
    /\ UNCHANGED <<owner, fifo, rta, thr, mem, boot, flushed, lowSide>>
HighRxUnlock ==
    /\ high.pc = "unlock"
    /\ Unlock("HIGH", buf) /\ Goto("read")
    /\ UNCHANGED <<state, fifo, rta, thr, mem, boot, flushed, lowSide>>

\* IPC_MBOX_MEM_READ_WRITE: an answer nobody waits for is dropped.
HighAnswer ==
    /\ high.pc = "process" /\ \E r \in Reads : high.msg = Answer(r)
    /\ mem' = IF mem.buffer THEN [mem EXCEPT !.got = high.msg[2]] ELSE mem
    /\ Goto("read")
    /\ UNCHANGED <<state, owner, fifo, rta, thr, boot, flushed, lowSide>>
HighStatus ==
    /\ high.pc = "process" /\ high.msg = Status
    /\ Goto("read")
    /\ UNCHANGED <<state, owner, fifo, rta, thr, mem, boot, flushed, lowSide>>

\* The end of mailbox_int_handler: acknowledge, then lower the threshold.
HighClear ==
    /\ high.pc = "clear"
    /\ rta' = FALSE /\ Goto("lower")
    /\ UNCHANGED <<state, owner, fifo, thr, mem, boot, flushed, lowSide>>
HighLower ==
    /\ high.pc = "lower"
    /\ thr' = 0 /\ rta' = Latched(fifo, 0) /\ Goto("main")
    /\ UNCHANGED <<state, owner, fifo, mem, boot, flushed, lowSide>>

-----------------------------------------------------------------------------
(* CPU_HIGH: wlan_mac_high_read_low_mem in the main loop                   *)

MemRequest ==
    /\ high.pc = "main" /\ ~mem.waiting /\ mem.last < MaxReads
    /\ mem' = [mem EXCEPT !.last = @ + 1, !.waiting = TRUE, !.buffer = TRUE, !.got = 0]
    /\ requests' = Append(requests, mem.last + 1)
    /\ UNCHANGED <<state, owner, fifo, rta, thr, low, high, boot, flushed>>

MemDone ==
    /\ high.pc = "main" /\ mem.waiting /\ mem.got # 0
    /\ mem' = [mem EXCEPT !.waiting = FALSE, !.buffer = FALSE, !.got = 0]
    /\ UNCHANGED <<state, owner, fifo, rta, thr, high, boot, flushed, lowSide>>

\* Mutant: the read buffer stays set after a time-out.
MemTimeoutKept ==
    /\ high.pc = "main" /\ mem.waiting
    /\ mem' = [mem EXCEPT !.waiting = FALSE, !.got = 0, !.late = TRUE]
    /\ UNCHANGED <<state, owner, fifo, rta, thr, high, boot, flushed, lowSide>>

\* The time may have run out before the status is read again.
MemTimeout ==
    /\ high.pc = "main" /\ mem.waiting
    /\ mem' = [mem EXCEPT !.waiting = FALSE, !.buffer = FALSE, !.got = 0, !.late = TRUE]
    /\ UNCHANGED <<state, owner, fifo, rta, thr, high, boot, flushed, lowSide>>

-----------------------------------------------------------------------------
(* CPU_HIGH: boot                                                          *)

HighReboot ==
    /\ boot.reboots < MaxReboots
    /\ UnlockAll("HIGH")
    /\ high' = [pc |-> "boot", msg |-> Data.msg, left |-> 0, int |-> FALSE]
    /\ mem' = [mem EXCEPT !.waiting = FALSE, !.buffer = FALSE, !.got = 0]
    /\ boot' = [boot EXCEPT !.high = 0, !.reboots = @ + 1]
    /\ UNCHANGED <<state, fifo, rta, thr, flushed, lowSide>>

HighBootBuf ==
    /\ high.pc = "boot" /\ boot.high < NumRx
    /\ IF state[boot.high] \in {"HIGH_CTRL", "READY"}
       THEN SetState(boot.high, "LOW_CTRL") /\ Unlock("HIGH", boot.high)
       ELSE UNCHANGED <<state, owner>>
    /\ boot' = [boot EXCEPT !.high = @ + 1]
    /\ UNCHANGED <<fifo, rta, thr, high, mem, flushed, lowSide>>

\* wlan_mac_high_request_low_state, then setup_mailbox_interrupt.
HighBootDone ==
    /\ high.pc = "boot" /\ boot.high = NumRx
    /\ requests' = Append(requests, 0)
    /\ thr' = 0 /\ rta' = Latched(fifo, 0)
    /\ Goto("main") /\ boot' = [boot EXCEPT !.high = 0]
    /\ UNCHANGED <<state, owner, fifo, mem, flushed, low>>

-----------------------------------------------------------------------------
LowStep == LowUnlock \/ LowWrite \/ LowSearch \/ LowAnswer \/ LowBootBuf \/ LowBootDone
HighStep ==
    \/ HighInterrupt \/ HighRead \/ HighPayload \/ HighRxStart \/ HighRxStale
    \/ HighRxEnd \/ HighRxUnlock \/ HighAnswer \/ HighStatus \/ HighClear
    \/ HighLower \/ HighBootBuf \/ HighBootDone
Next ==
    \/ LowStep \/ HighStep \/ LowReceive \/ Watchdog \/ MemRequest \/ MemDone
    \/ MemTimeout \/ LowReboot \/ HighReboot

\* Both CPUs have booted; CPU_LOW receives into buffer 0.
Init ==
    /\ state = [b \in Bufs |-> "LOW_CTRL"]
    /\ owner = [b \in Bufs |-> "LOW"]
    /\ fifo = <<>> /\ rta = FALSE /\ thr = 0 /\ requests = <<>> /\ flushed = FALSE
    /\ low = [pc |-> "rx", buf |-> 0, out |-> <<>>, next |-> "rx", up |-> TRUE]
    /\ high = [pc |-> "main", msg |-> Data.msg, left |-> 0, int |-> FALSE]
    /\ mem = [last |-> 0, waiting |-> FALSE, buffer |-> FALSE, got |-> 0, late |-> FALSE]
    /\ boot = [low |-> 0, high |-> 0, reboots |-> 0]

\* Both CPUs run; the watchdog is scheduled for ever.
Spec ==
    /\ Init /\ [][Next]_vars
    /\ WF_vars(LowStep) /\ WF_vars(HighStep)
    /\ SF_vars(Watchdog) /\ WF_vars(MemDone \/ MemTimeout)

-----------------------------------------------------------------------------
(* Properties                                                              *)

\* The PHY writes only to a buffer that CPU_LOW has locked and that CPU_HIGH is
\* not processing, also after a reboot of either CPU: the state words alone
\* decide, as CPU_HIGH gives a buffer back before it releases the mutex.
PhyWritesAlone ==
    /\ TypeOK
    /\ low.pc \in {"rx", "unlock"} => owner[low.buf] = "LOW"
    /\ low.pc = "rx" => state[low.buf] = "LOW_CTRL"
    /\ low.pc \in {"rx", "unlock"} /\ high.pc = "rx" => buf # low.buf

\* The words on their way to CPU_HIGH, those CPU_LOW has yet to write included.
Way == fifo \o low.out

Announced(b) ==
    Cardinality({i \in DOMAIN Way : Way[i].msg = Ready(b)})
    + (IF low.pc = "unlock" /\ low.buf = b THEN 1 ELSE 0)
    + (IF high.pc = "process" /\ high.msg = Ready(b) THEN 1 ELSE 0)

\* While neither CPU reboots a buffer is READY exactly as long as one message
\* about it is on its way: none is lost, handled twice or found stale.
ReadyAnnounced ==
    boot.reboots = 0 =>
        \A b \in Bufs : Announced(b) = IF state[b] = "READY" THEN 1 ELSE 0

\* CPU_LOW comes back to receiving: it is not blocked for ever by a full
\* mailbox, although an interrupt can be lost between the last read and the
\* acknowledgement, nor by a ring without a free buffer, also after a reboot of
\* either CPU unless the mailbox was flushed.
LowReceives == low.pc # "rx" ~> low.pc = "rx" \/ flushed

\* An answer of CPU_LOW is copied only to the buffer of a read that waits, and it
\* is the answer to that read unless an earlier read ended without its answer.
ReadsAnswered ==
    /\ mem.buffer => mem.waiting
    /\ mem.got \in {0, mem.last} \/ mem.late \/ boot.reboots > 0
=============================================================================

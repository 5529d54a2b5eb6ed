------------------------------ MODULE TxPktBuf ------------------------------
(***************************************************************************)
(* The hand-over of the MPDU transmit packet buffers between the two CPUs  *)
(* of the 802.11 Reference Design.                                         *)
(*                                                                         *)
(* CPU_HIGH copies a frame into a buffer it controls, marks it READY,      *)
(* releases the hardware mutex and posts TX_PKT_BUF_READY in the mailbox;  *)
(* CPU_LOW takes the mutex, transmits, marks the buffer DONE, releases the *)
(* mutex and posts TX_PKT_BUF_DONE; CPU_HIGH takes the mutex back and      *)
(* recycles the buffer.  State word, mutex and mailbox are three separate  *)
(* pieces of shared hardware: the accesses between which the other CPU can *)
(* act to any effect are steps of their own here.  A state write and a     *)
(* mutex operation are one step only where the mutex makes the other CPU   *)
(* unable to tell (HighDoneStale, and the cleaning of a buffer at boot).   *)
(*                                                                         *)
(* CPU_HIGH runs this code in its mailbox interrupt, or with interrupts    *)
(* stopped, and CPU_LOW is one polling loop: each CPU is one sequential    *)
(* process, but CPU_LOW also polls its mailbox inside the transmission of  *)
(* a frame.  (The poll_tx_queues of the STA does not stop interrupts       *)
(* itself; a call of it outside interrupt context is not modelled.)        *)
(* All frames belong to PKT_BUF_GROUP_GENERAL (what the STA and IBSS       *)
(* applications submit); module TxGroups adds the DTIM multicast group.    *)
(***************************************************************************)
EXTENDS Integers, Sequences, FiniteSets

CONSTANTS NumMpdu,        \* NUM_TX_PKT_BUF_MPDU
          GeneralLimit,   \* GENERAL buffers CPU_LOW may own at once (2)
          MaxPending,     \* MAX_NUM_PENDING_TX_PKT_BUFS
          MailboxDepth    \* messages a mailbox holds before a write blocks

ASSUME ConstantsAssumption ==
    /\ NumMpdu \in Nat \ {0}
    /\ GeneralLimit \in Nat \ {0}
    /\ MaxPending \in Nat
    /\ GeneralLimit <= MaxPending
    /\ MailboxDepth \in Nat \ {0}

Bufs == 0 .. NumMpdu - 1

\* tx_pkt_buf_state_t
States == {"UNINITIALIZED", "HIGH_CTRL", "READY", "LOW_CTRL", "DONE"}
CPUs == {"HIGH", "LOW"}
NoOwner == "none"
NoBuf == -1
\* IPC_MBOX_CPU_STATUS with CPU_STATUS_REASON_EXCEPTION
Exception == -2

VARIABLES
    bufState,   \* tx_pkt_buf_state of every buffer
    owner,      \* the CPU that holds the buffer's hardware mutex
    toLow,      \* mailbox CPU_HIGH -> CPU_LOW: READY messages
    toHigh,     \* mailbox CPU_LOW -> CPU_HIGH: DONE messages, exceptions
    hpc,        \* where CPU_HIGH is
    hbuf,       \* buffer of wlan_mac_high_mpdu_transmit
    hdone,      \* buffer whose DONE message is being processed
    havail,     \* num_pkt_bufs_avail of poll_tx_queues
    lpc,        \* where CPU_LOW's transmission of Head(ready) is
    lmsgpc,     \* where CPU_LOW's handling of a mailbox message is
    lmsg,       \* the buffer that message names
    ready,      \* gl_tx_pkt_buf_ready_list_general
    reboot      \* reboots so far; only module TxPktBufReboot changes it

\* What the steps of the other CPU leave alone.
highVars == <<hpc, hbuf, hdone, havail, reboot>>
lowVars == <<lpc, lmsgpc, lmsg, ready, reboot>>
vars == <<bufState, owner, toLow, toHigh, highVars, lowVars>>

\* hnext, lnext: the buffer the boot loop of CPU_HIGH or CPU_LOW visits next;
\* high, low: how often each has rebooted; abandoned: buffers CPU_HIGH was
\* handing over when it rebooted (wlan_mac_high.c:1169-1173).
NoReboot == [hnext |-> 0, lnext |-> 0, high |-> 0, low |-> 0, abandoned |-> {}]

HighPCs == {"idle", "done", "poll_start", "poll", "fill", "unlock", "send",
            "posttx", "halted", "boot"}
LowPCs == {"idle", "tx", "finish", "release", "unlock", "send", "halted", "boot"}

TypeOK ==
    /\ bufState \in [Bufs -> States]
    /\ owner \in [Bufs -> CPUs \cup {NoOwner}]
    /\ toLow \in Seq(Bufs)
    /\ toHigh \in Seq(Bufs \cup {Exception})
    /\ hpc \in HighPCs
    /\ hbuf \in Bufs \cup {NoBuf}
    /\ hdone \in Bufs \cup {NoBuf}
    /\ havail \in 0 .. GeneralLimit
    /\ lpc \in LowPCs
    /\ lmsgpc \in {"idle", "lock", "accept", "release"}
    /\ lmsg \in Bufs \cup {NoBuf}
    /\ ready \in Seq(Bufs)

-----------------------------------------------------------------------------
(* The mutex core, as seen through wlan_mac_pkt_buf_util.c.                *)

\* lock_tx_pkt_buf returns PKT_BUF_MUTEX_SUCCESS: XMutex_Trylock also
\* succeeds for the CPU that already holds the mutex.
CanLock(cpu, b) == owner[b] \in {NoOwner, cpu}

\* unlock_tx_pkt_buf: a mutex held by the other CPU is left as it is.
Unlocked(cpu, b) ==
    IF owner[b] = cpu THEN [owner EXCEPT ![b] = NoOwner] ELSE owner

SetState(b, s) == bufState' = [bufState EXCEPT ![b] = s]

-----------------------------------------------------------------------------
(* CPU_HIGH                                                                *)

LowOwned == {b \in Bufs : bufState[b] \in {"READY", "LOW_CTRL"}}
\* Mutant: finished buffers are filled again before they are recycled.
EmptyOrDone == {b \in Bufs : bufState[b] \in {"HIGH_CTRL", "DONE"}}
Empty == {b \in Bufs : bufState[b] = "HIGH_CTRL"}

\* wlan_mac_num_tx_pkt_buf_available(PKT_BUF_GROUP_GENERAL)
NumAvailable ==
    IF Empty = {} \/ Cardinality(LowOwned) > GeneralLimit THEN 0
    ELSE GeneralLimit - Cardinality(LowOwned)

\* A packet was enqueued (or a BSS event occurred): tx_poll_callback() is
\* called outside the mailbox handler.
HighPollRequest ==
    /\ hpc = "idle"
    /\ hpc' = "poll_start"
    /\ UNCHANGED <<bufState, owner, toLow, toHigh, hbuf, hdone, havail, lowVars>>

\* poll_tx_queues asks how many buffers it may fill.
HighPollStart ==
    /\ hpc = "poll_start"
    /\ havail' = NumAvailable
    /\ hpc' = "poll"
    /\ UNCHANGED <<bufState, owner, toLow, toHigh, hbuf, hdone, lowVars>>

\* dequeue_from_head returned a packet; transmit_checkin takes the first
\* buffer under HIGH_CTRL and wlan_mac_high_mpdu_transmit starts to copy.
HighFillStart ==
    /\ hpc = "poll" /\ havail > 0
    /\ \E b \in Empty :
          /\ \A c \in Empty : b <= c
          /\ hbuf' = b
    /\ hpc' = "fill"
    /\ UNCHANGED <<bufState, owner, toLow, toHigh, hdone, havail, lowVars>>

\* transmit_checkin finds no buffer: the packet is freed without being sent.
HighNoBuffer ==
    /\ hpc = "poll" /\ havail > 0
    /\ Empty = {}
    /\ havail' = havail - 1
    /\ UNCHANGED <<bufState, owner, toLow, toHigh, hpc, hbuf, hdone, lowVars>>

\* The copy and the frame info are complete: the state becomes READY.
HighSetReady ==
    /\ hpc = "fill"
    /\ SetState(hbuf, "READY")
    /\ hpc' = "unlock"
    /\ UNCHANGED <<owner, toLow, toHigh, hbuf, hdone, havail, lowVars>>

\* Mutant: CPU_HIGH does not release the mutex before it posts READY.
HighUnlockForgotten ==
    /\ hpc = "unlock"
    /\ hpc' = "send"
    /\ UNCHANGED <<bufState, owner, toLow, toHigh, hbuf, hdone, havail, lowVars>>

HighUnlock ==
    /\ hpc = "unlock"
    /\ owner[hbuf] # "LOW"
    /\ owner' = Unlocked("HIGH", hbuf)
    /\ hpc' = "send"
    /\ UNCHANGED <<bufState, toLow, toHigh, hbuf, hdone, havail, lowVars>>

\* unlock_tx_pkt_buf says NOT_LOCK_OWNER: the frame is dropped.
HighUnlockFail ==
    /\ hpc = "unlock"
    /\ owner[hbuf] = "LOW"
    /\ SetState(hbuf, "HIGH_CTRL")
    /\ hpc' = "poll" /\ hbuf' = NoBuf /\ havail' = havail - 1
    /\ UNCHANGED <<owner, toLow, toHigh, hdone, lowVars>>

\* write_mailbox_msg blocks while the mailbox is full.
HighSendReady ==
    /\ hpc = "send"
    /\ Len(toLow) < MailboxDepth
    /\ toLow' = Append(toLow, hbuf)
    /\ hpc' = "poll" /\ hbuf' = NoBuf /\ havail' = havail - 1
    /\ UNCHANGED <<bufState, owner, toHigh, hdone, lowVars>>

\* No buffer may be filled any more, or no queue holds a packet.
HighPollEnd ==
    /\ hpc = "poll"
    /\ hpc' = IF hdone = NoBuf THEN "idle" ELSE "posttx"
    /\ havail' = 0
    /\ UNCHANGED <<bufState, owner, toLow, toHigh, hbuf, hdone, lowVars>>

\* wlan_mac_high_ipc_rx reads one TX_PKT_BUF_DONE message.
HighRecvDone ==
    /\ hpc = "idle" /\ toHigh # <<>>
    /\ Head(toHigh) # Exception
    /\ hdone' = Head(toHigh)
    /\ toHigh' = Tail(toHigh)
    /\ hpc' = "done"
    /\ UNCHANGED <<bufState, owner, toLow, hbuf, havail, lowVars>>

\* "An unrecoverable exception has occurred in CPU_LOW, halting..."
HighRecvException ==
    /\ hpc = "idle" /\ toHigh # <<>>
    /\ Head(toHigh) = Exception
    /\ toHigh' = Tail(toHigh)
    /\ hpc' = "halted"
    /\ UNCHANGED <<bufState, owner, toLow, hbuf, hdone, havail, lowVars>>

\* Mutant: CPU_HIGH processes the DONE buffer without taking its mutex.
HighDoneUnlocked ==
    /\ hpc = "done"
    /\ bufState[hdone] = "DONE"
    /\ hpc' = "poll_start"
    /\ UNCHANGED <<bufState, owner, toLow, toHigh, hbuf, hdone, havail, lowVars>>

\* Expected state DONE: lock the buffer, then poll the queues first.
HighDoneLock ==
    /\ hpc = "done"
    /\ bufState[hdone] = "DONE"
    /\ CanLock("HIGH", hdone)
    /\ owner' = [owner EXCEPT ![hdone] = "HIGH"]
    /\ hpc' = "poll_start"
    /\ UNCHANGED <<bufState, toLow, toHigh, hbuf, hdone, havail, lowVars>>

HighDoneLockFail ==
    /\ hpc = "done"
    /\ bufState[hdone] = "DONE"
    /\ ~ CanLock("HIGH", hdone)
    /\ SetState(hdone, "HIGH_CTRL")
    /\ hpc' = "idle" /\ hdone' = NoBuf
    /\ UNCHANGED <<owner, toLow, toHigh, hbuf, havail, lowVars>>

\* UNINITIALIZED or HIGH_CTRL: force_lock, HIGH_CTRL, fall through to unlock.
HighDoneStale ==
    /\ hpc = "done"
    /\ bufState[hdone] \in {"UNINITIALIZED", "HIGH_CTRL"}
    /\ SetState(hdone, "HIGH_CTRL")
    /\ owner' = [owner EXCEPT ![hdone] = NoOwner]
    /\ hpc' = "idle" /\ hdone' = NoBuf
    /\ UNCHANGED <<toLow, toHigh, hbuf, havail, lowVars>>

\* Mutant: CPU_HIGH waits for CPU_LOW to finish with the buffer.
HighDoneWaitsForLow ==
    /\ hpc = "done"
    /\ bufState[hdone] = "READY"
    /\ owner' = Unlocked("HIGH", hdone)
    /\ hpc' = "idle" /\ hdone' = NoBuf
    /\ UNCHANGED <<bufState, toLow, toHigh, hbuf, havail, lowVars>>

\* READY or LOW_CTRL: "CPU Low will clean up".
HighDoneLowOwned ==
    /\ hpc = "done"
    /\ bufState[hdone] \in {"READY", "LOW_CTRL"}
    /\ owner' = Unlocked("HIGH", hdone)
    /\ hpc' = "idle" /\ hdone' = NoBuf
    /\ UNCHANGED <<bufState, toLow, toHigh, hbuf, havail, lowVars>>

\* Mutant: the state of a post-processed buffer is not reset.
HighRecycleForgotten ==
    /\ hpc = "posttx"
    /\ hpc' = "idle" /\ hdone' = NoBuf
    /\ UNCHANGED <<bufState, owner, toLow, toHigh, hbuf, havail, lowVars>>

\* Post-transmit processing reads the buffer and then recycles it.
HighRecycle ==
    /\ hpc = "posttx"
    /\ SetState(hdone, "HIGH_CTRL")
    /\ hpc' = "idle" /\ hdone' = NoBuf
    /\ UNCHANGED <<owner, toLow, toHigh, hbuf, havail, lowVars>>

-----------------------------------------------------------------------------
(* CPU_LOW                                                                 *)

\* Mutant: new buffers go to the head of the list.
EnlistFirst(b) ==
    ready' = IF Len(ready) < MaxPending THEN <<b>> \o ready ELSE ready

\* handle_tx_pkt_buf_ready: a list entry is taken from the free list; with
\* none left the call returns -1, which nobody looks at.
Enlist(b) ==
    ready' = IF Len(ready) < MaxPending THEN Append(ready, b) ELSE ready

\* wlan_mac_low_poll_ipc_rx, called in the main loop and while a frame is
\* being transmitted.
LowRecvReady ==
    /\ lmsgpc = "idle" /\ lpc \in {"idle", "tx"}
    /\ toLow # <<>>
    /\ lmsg' = Head(toLow)
    /\ toLow' = Tail(toLow)
    /\ lmsgpc' = "lock"
    /\ UNCHANGED <<bufState, owner, toHigh, highVars, lpc, ready>>

\* wlan_mac_low_lock_tx_pkt_buf finds READY and gets the mutex.
LowLock ==
    /\ lmsgpc = "lock"
    /\ bufState[lmsg] = "READY"
    /\ CanLock("LOW", lmsg)
    /\ owner' = [owner EXCEPT ![lmsg] = "LOW"]
    /\ lmsgpc' = "accept"
    /\ UNCHANGED <<bufState, toLow, toHigh, highVars, lpc, lmsg, ready>>

LowAccept ==
    /\ lmsgpc = "accept"
    /\ SetState(lmsg, "LOW_CTRL")
    /\ Enlist(lmsg)
    /\ lmsgpc' = "idle" /\ lmsg' = NoBuf
    /\ UNCHANGED <<owner, toLow, toHigh, highVars, lpc>>

\* The mutex is taken: HIGH_CTRL, and the caller enlists the buffer anyway.
LowLockFail ==
    /\ lmsgpc = "lock"
    /\ bufState[lmsg] = "READY"
    /\ ~ CanLock("LOW", lmsg)
    /\ SetState(lmsg, "HIGH_CTRL")
    /\ Enlist(lmsg)
    /\ lmsgpc' = "idle" /\ lmsg' = NoBuf
    /\ UNCHANGED <<owner, toLow, toHigh, highVars, lpc>>

\* Under CPU_LOW's control already: "Don't transmit - just clean up and return".
LowUnexpectedReset ==
    /\ lmsgpc = "lock"
    /\ bufState[lmsg] = "LOW_CTRL"
    /\ SetState(lmsg, "HIGH_CTRL")
    /\ lmsgpc' = "release"
    /\ UNCHANGED <<owner, toLow, toHigh, highVars, lpc, lmsg, ready>>

\* Not READY: CPU_LOW drops its lock, and enlists the buffer all the same.
LowUnexpected ==
    /\ \/ lmsgpc = "release"
       \/ lmsgpc = "lock" /\ bufState[lmsg] \notin {"READY", "LOW_CTRL"}
    /\ owner' = Unlocked("LOW", lmsg)
    /\ Enlist(lmsg)
    /\ lmsgpc' = "idle" /\ lmsg' = NoBuf
    /\ UNCHANGED <<bufState, toLow, toHigh, highVars, lpc>>

\* poll_tx_pkt_buf_list(PKT_BUF_GROUP_GENERAL) transmits the head of the list.
LowTxStart ==
    /\ lpc = "idle" /\ lmsgpc = "idle"
    /\ ready # <<>>
    /\ lpc' = "tx"
    /\ UNCHANGED <<bufState, owner, toLow, toHigh, highVars, lmsgpc, lmsg, ready>>

\* frame_transmit_general returns.
LowTxEnd ==
    /\ lpc = "tx" /\ lmsgpc = "idle"
    /\ lpc' = "finish"
    /\ UNCHANGED <<bufState, owner, toLow, toHigh, highVars, lmsgpc, lmsg, ready>>

\* wlan_mac_low_finish_frame_transmit on a buffer CPU_LOW controls and owns.
LowFinish ==
    /\ lpc = "finish"
    /\ bufState[Head(ready)] = "LOW_CTRL"
    /\ owner[Head(ready)] = "LOW"
    /\ SetState(Head(ready), "DONE")
    /\ lpc' = "unlock"
    /\ UNCHANGED <<owner, toLow, toHigh, highVars, lmsgpc, lmsg, ready>>

\* LOW_CTRL but not locked by CPU_LOW: given back without a DONE message.
LowFinishNotOwner ==
    /\ lpc = "finish"
    /\ bufState[Head(ready)] = "LOW_CTRL"
    /\ owner[Head(ready)] # "LOW"
    /\ SetState(Head(ready), "HIGH_CTRL")
    /\ ready' = Tail(ready) /\ lpc' = "idle"
    /\ UNCHANGED <<owner, toLow, toHigh, highVars, lmsgpc, lmsg>>

LowFinishReset ==
    /\ lpc = "finish"
    /\ bufState[Head(ready)] = "READY"
    /\ SetState(Head(ready), "HIGH_CTRL")
    /\ lpc' = "release"
    /\ UNCHANGED <<owner, toLow, toHigh, highVars, lmsgpc, lmsg, ready>>

\* "CPU High will handle it eventually": CPU_LOW only drops its lock.
LowFinishUnexpected ==
    /\ \/ lpc = "release"
       \/ lpc = "finish" /\ bufState[Head(ready)] \notin {"READY", "LOW_CTRL"}
    /\ owner' = Unlocked("LOW", Head(ready))
    /\ ready' = Tail(ready) /\ lpc' = "idle"
    /\ UNCHANGED <<bufState, toLow, toHigh, highVars, lmsgpc, lmsg>>

LowUnlock ==
    /\ lpc = "unlock"
    /\ owner[Head(ready)] = "LOW"
    /\ owner' = Unlocked("LOW", Head(ready))
    /\ lpc' = "send"
    /\ UNCHANGED <<bufState, toLow, toHigh, highVars, lmsgpc, lmsg, ready>>

\* The unlock fails (already unlocked, or taken by CPU_HIGH): CPU_LOW
\* reports an exception and enters an endless loop.
LowUnlockFail ==
    /\ lpc = "unlock"
    /\ owner[Head(ready)] # "LOW"
    /\ Len(toHigh) < MailboxDepth
    /\ toHigh' = Append(toHigh, Exception)
    /\ lpc' = "halted"
    /\ UNCHANGED <<bufState, owner, toLow, highVars, lmsgpc, lmsg, ready>>

\* Mutant: the finished buffer stays on the list.
LowSendDoneKept ==
    /\ lpc = "send"
    /\ toHigh' = Append(toHigh, Head(ready))
    /\ lpc' = "idle"
    /\ UNCHANGED <<bufState, owner, toLow, highVars, lmsgpc, lmsg, ready>>

LowSendDone ==
    /\ lpc = "send"
    /\ Len(toHigh) < MailboxDepth
    /\ toHigh' = Append(toHigh, Head(ready))
    /\ ready' = Tail(ready) /\ lpc' = "idle"
    /\ UNCHANGED <<bufState, owner, toLow, highVars, lmsgpc, lmsg>>

-----------------------------------------------------------------------------
\* wlan_mac_high_init force-locks every MPDU buffer; both CPUs have booted.
Init ==
    /\ bufState = [b \in Bufs |-> "HIGH_CTRL"]
    /\ owner = [b \in Bufs |-> "HIGH"]
    /\ toLow = <<>> /\ toHigh = <<>>
    /\ hpc = "idle" /\ hbuf = NoBuf /\ hdone = NoBuf /\ havail = 0
    /\ lpc = "idle" /\ lmsgpc = "idle" /\ lmsg = NoBuf /\ ready = <<>>
    /\ reboot = NoReboot

HighTransmit == HighFillStart \/ HighNoBuffer \/ HighSetReady \/ HighUnlock
                \/ HighUnlockFail \/ HighSendReady
HighDone == HighDoneLock \/ HighDoneLockFail \/ HighDoneStale
            \/ HighDoneLowOwned \/ HighRecycle

HighNext == HighPollRequest \/ HighPollStart \/ HighTransmit \/ HighPollEnd
            \/ HighRecvDone \/ HighRecvException \/ HighDone

LowMessage == LowRecvReady \/ LowLock \/ LowAccept \/ LowLockFail
              \/ LowUnexpectedReset \/ LowUnexpected
LowTransmit == LowTxStart \/ LowTxEnd \/ LowFinish \/ LowFinishNotOwner
               \/ LowFinishReset \/ LowFinishUnexpected \/ LowUnlock
               \/ LowUnlockFail \/ LowSendDone

LowNext == LowMessage \/ LowTransmit

Next == HighNext \/ LowNext

Spec == Init /\ [][Next]_vars

-----------------------------------------------------------------------------
(* Fairness.  Neither CPU stops inside a handler.  CPU_LOW's loop keeps    *)
(* polling the mailbox and its list, and a transmission ends (retry limits *)
(* bound it).  The mailbox interrupt is served whenever CPU_HIGH restores  *)
(* interrupts, however often the queues are polled: strong fairness.       *)
(* Nothing is assumed about when packets are queued.                       *)
Fairness ==
    /\ WF_vars(LowMessage)
    /\ WF_vars(LowTransmit)
    /\ WF_vars(HighPollStart \/ HighTransmit \/ HighPollEnd \/ HighDone)
    /\ SF_vars(HighRecvDone)

FairSpec == Spec /\ Fairness
=============================================================================

--------------------------- MODULE TxPktBufReboot ---------------------------
(***************************************************************************)
(* The transmit packet buffer hand-over when either CPU may reboot alone   *)
(* (soft reset) at any point between two shared accesses.  Packet buffers, *)
(* mutexes and mailboxes survive; everything else of the CPU is lost.  The *)
(* boot code walks over the buffers, one buffer per step here, while the   *)
(* other CPU keeps running.                                                *)
(*                                                                         *)
(* The CPU_STATUS messages exchanged after a boot only make CPU_HIGH poll  *)
(* its queues, which HighPollRequest may do at any time: they are left out.*)
(***************************************************************************)
EXTENDS TxPktBufProps

CONSTANTS NumLowInit,      \* MPDU buffers wlan_mac_low_init visits (3)
          MaxReboots       \* bound on reboots of either CPU

ASSUME RebootAssumption == NumLowInit \in Nat /\ MaxReboots \in Nat

highRegs == <<hpc, hbuf, hdone, havail>>
lowRegs == <<lpc, lmsgpc, lmsg, ready>>

RebootRecords == [hnext : 0 .. NumMpdu, lnext : 0 .. NumMpdu,
                  high : 0 .. MaxReboots, low : 0 .. MaxReboots,
                  abandoned : SUBSET Bufs]

RebootTypeOK == TypeOK /\ reboot \in RebootRecords

\* init_pkt_buf: unlock all mutexes this CPU might own at boot.
ReleaseAll(cpu) == owner' = [b \in Bufs |-> IF owner[b] = cpu THEN NoOwner
                                            ELSE owner[b]]

HighReboot ==
    /\ reboot.high + reboot.low < MaxReboots
    /\ ReleaseAll("HIGH")
    /\ hpc' = "boot"
    /\ hbuf' = NoBuf /\ hdone' = NoBuf /\ havail' = 0
    /\ reboot' = [reboot EXCEPT !.high = @ + 1, !.hnext = 0,
          !.abandoned = IF hpc \in {"unlock", "send"} THEN @ \cup {hbuf} ELSE @]
    /\ UNCHANGED <<bufState, toLow, toHigh, lowRegs>>

\* Mutant: the boot code takes every buffer.
HighBootBufAll ==
    /\ hpc = "boot" /\ reboot.hnext < NumMpdu
    /\ owner' = [owner EXCEPT ![reboot.hnext] = "HIGH"]
    /\ SetState(reboot.hnext, "HIGH_CTRL")
    /\ reboot' = [reboot EXCEPT !.hnext = @ + 1]
    /\ UNCHANGED <<toLow, toHigh, highRegs, lowRegs>>

\* Mutant: the boot code leaves DONE buffers to the DONE message.
HighBootBufNotDone ==
    /\ hpc = "boot" /\ reboot.hnext < NumMpdu
    /\ IF bufState[reboot.hnext] \in {"READY", "LOW_CTRL", "DONE"}
       THEN UNCHANGED <<bufState, owner>>
       ELSE /\ owner' = [owner EXCEPT ![reboot.hnext] = "HIGH"]
            /\ SetState(reboot.hnext, "HIGH_CTRL")
    /\ reboot' = [reboot EXCEPT !.hnext = @ + 1]
    /\ UNCHANGED <<toLow, toHigh, highRegs, lowRegs>>

\* Mutant: the boot code locks the buffer but does not reset its state.
HighBootBufNoReset ==
    /\ hpc = "boot" /\ reboot.hnext < NumMpdu
    /\ IF bufState[reboot.hnext] \in {"READY", "LOW_CTRL"} THEN UNCHANGED owner
       ELSE owner' = [owner EXCEPT ![reboot.hnext] = "HIGH"]
    /\ reboot' = [reboot EXCEPT !.hnext = @ + 1]
    /\ UNCHANGED <<bufState, toLow, toHigh, highRegs, lowRegs>>

\* READY and LOW_CTRL buffers are left to CPU_LOW, the others are taken.
HighBootBuf ==
    /\ hpc = "boot" /\ reboot.hnext < NumMpdu
    /\ IF bufState[reboot.hnext] \in {"READY", "LOW_CTRL"}
       THEN UNCHANGED <<bufState, owner>>
       ELSE /\ owner' = [owner EXCEPT ![reboot.hnext] = "HIGH"]
            /\ SetState(reboot.hnext, "HIGH_CTRL")
    /\ reboot' = [reboot EXCEPT !.hnext = @ + 1]
    /\ UNCHANGED <<toLow, toHigh, highRegs, lowRegs>>

HighBootDone ==
    /\ hpc = "boot" /\ reboot.hnext = NumMpdu
    /\ hpc' = "idle" /\ reboot' = [reboot EXCEPT !.hnext = 0]
    /\ UNCHANGED <<bufState, owner, toLow, toHigh, hbuf, hdone, havail, lowRegs>>

LowReboot ==
    /\ reboot.high + reboot.low < MaxReboots
    /\ ReleaseAll("LOW")
    /\ lpc' = "boot"
    /\ lmsgpc' = "idle" /\ lmsg' = NoBuf /\ ready' = <<>>
    /\ reboot' = [reboot EXCEPT !.low = @ + 1, !.lnext = 0]
    /\ UNCHANGED <<bufState, toLow, toHigh, highRegs>>

\* Only TX_PKT_BUF_MPDU_1 .. 3 are reset; the switch has no case for the rest.
LowBootBuf ==
    /\ lpc = "boot" /\ reboot.lnext < NumMpdu
    /\ IF /\ reboot.lnext < NumLowInit
          /\ bufState[reboot.lnext] \in {"READY", "LOW_CTRL", "DONE"}
       THEN /\ SetState(reboot.lnext, "HIGH_CTRL")
            /\ owner' = Unlocked("LOW", reboot.lnext)
       ELSE UNCHANGED <<bufState, owner>>
    /\ reboot' = [reboot EXCEPT !.lnext = @ + 1]
    /\ UNCHANGED <<toLow, toHigh, highRegs, lowRegs>>

LowBootDone ==
    /\ lpc = "boot" /\ reboot.lnext = NumMpdu
    /\ lpc' = "idle" /\ reboot' = [reboot EXCEPT !.lnext = 0]
    /\ UNCHANGED <<bufState, owner, toLow, toHigh, highRegs, lmsgpc, lmsg, ready>>

HighBoot == HighBootBuf \/ HighBootDone
LowBoot == LowBootBuf \/ LowBootDone

RebootNext == Next \/ HighReboot \/ HighBoot \/ LowReboot \/ LowBoot

RebootSpec == Init /\ [][RebootNext]_vars

\* A CPU that boots finishes booting, and then serves what it finds.
RebootFairness ==
    /\ WF_vars(HighBoot) /\ WF_vars(LowBoot)
    /\ WF_vars(LowMessage) /\ WF_vars(LowTransmit)
    /\ WF_vars(HighPollStart \/ HighTransmit \/ HighPollEnd \/ HighDone)
    /\ SF_vars(HighRecvDone \/ HighRecvException)

FairRebootSpec == RebootSpec /\ RebootFairness

-----------------------------------------------------------------------------
(* What survives a reboot of CPU_HIGH.                                     *)

\* Across a reboot of CPU_HIGH CPU_LOW still never owns more buffers than it
\* may, has no buffer twice on its list, and room for every announced one.
RebootLimits ==
    /\ RebootTypeOK
    /\ reboot.low = 0 =>
          /\ Cardinality(LowOwned) <= GeneralLimit
          /\ IsInjective(ready)
          /\ lmsgpc # "idle" => Len(ready) < MaxPending

\* A frame is transmitted and finished only from a buffer that CPU_LOW
\* controls and holds the mutex of, and CPU_HIGH never writes or recycles the
\* buffer meanwhile: the boot code leaves READY and LOW_CTRL buffers alone
\* (wlan_mac_high.c:303-308), and stale DONE messages are recognised.
RebootHandover ==
    /\ RebootLimits
    /\ reboot.low = 0 =>
          /\ lpc \in {"tx", "finish"} =>
                bufState[Head(ready)] = "LOW_CTRL" /\ owner[Head(ready)] = "LOW"
          /\ hpc = "fill" => bufState[hbuf] = "HIGH_CTRL"
          /\ hpc = "posttx" => bufState[hdone] = "DONE" /\ owner[hdone] = "HIGH"

Quiet == /\ hpc = "idle" /\ lpc = "idle" /\ lmsgpc = "idle"
         /\ toLow = <<>> /\ toHigh = <<>> /\ ready = <<>>

\* A reboot of CPU_HIGH loses no buffer other than those in the window that
\* the comment at wlan_mac_high.c:1169-1173 admits.
LeakOnlyInWindow ==
    reboot.low = 0 /\ Quiet =>
        \A b \in Bufs : bufState[b] = "HIGH_CTRL" \/ b \in reboot.abandoned

\* Whatever moment CPU_HIGH reboots at, every announced buffer comes back,
\* unless it is abandoned in that window or CPU_LOW halts.
BuffersReturnAfterReboot ==
    \A b \in Bufs : bufState[b] = "READY" ~>
        \/ bufState[b] = "HIGH_CTRL" \/ b \in reboot.abandoned
        \/ lpc = "halted" \/ reboot.low > 0

-----------------------------------------------------------------------------
(* A reboot of CPU_LOW.                                                    *)

\* Both mailboxes are full and each CPU waits to write (CPU_HIGH with its
\* interrupts stopped, wlan_mac_mailbox_util.c:97-117).
MailboxesDeadlocked ==
    /\ hpc = "send" /\ Len(toLow) = MailboxDepth
    /\ lpc = "send" /\ Len(toHigh) = MailboxDepth

\* CPU_HIGH always leaves its message handler and transmit loop again,
\* whatever a rebooting CPU_LOW does to the buffers meanwhile.  The stale
\* messages it leaves can multiply; CPU_HIGH hangs only if CPU_LOW halts and
\* no longer empties a full mailbox, or if both mailboxes are full.
HighNeverStuck ==
    hpc # "idle" ~> \/ hpc \in {"idle", "halted"}
                    \/ lpc = "halted"
                    \/ MailboxesDeadlocked

-----------------------------------------------------------------------------
(* What comments of the source say of a reboot, and the code does not do.  *)

\* wlan_mac_low.c, boot, DONE buffers: "If p.state set to TX_PKT_BUF_HIGH_CTRL
\* during tx_done_handler(p), CPU High will succeed normally".
DoneHandlerSucceeds == hpc = "posttx" => bufState[hdone] \in {"DONE", "HIGH_CTRL"}

\* wlan_mac_low.c, boot, LOW_CTRL buffers: "Release lock and reset state /
\* CPU High will find this TX_PKT_BUF_HIGH_CTRL buffer in next ping/pong update".
LowBootCleansUp ==
    lpc = "boot" /\ reboot.lnext = NumMpdu => \A b \in Bufs : bufState[b] # "LOW_CTRL"

-----------------------------------------------------------------------------
(* Reboots of CPU_HIGH.                                                    *)
(*                                                                         *)
(* The invariant behind RebootHandover and LeakOnlyInWindow.  A reboot of  *)
(* CPU_HIGH leaves DONE messages behind whose buffers the boot code has    *)
(* taken; they may be filled, announced and finished again before such a   *)
(* stale message is read, even while CPU_LOW is still about to unlock.     *)

\* Types that hold through any reboot.
RebootTypes ==
    /\ RebootTypeOK
    /\ hpc \in {"fill", "unlock", "send"} => hbuf \in Bufs /\ havail > 0
    /\ hpc \in {"done", "posttx"} => hdone \in Bufs
    /\ hpc \in {"idle", "halted", "boot"} => hdone = NoBuf
    /\ lmsgpc # "idle" => lmsg \in Bufs
    /\ lpc \notin {"idle", "halted", "boot"} => ready # <<>>

\* CPU_LOW has finished buffer b and has not yet released its mutex.
Unlocking(b) == lpc = "unlock" /\ Head(ready) = b

HighHolds ==
    /\ \A b \in Bufs :
          /\ bufState[b] # "UNINITIALIZED"
          /\ bufState[b] \in {"HIGH_CTRL", "DONE"} => owner[b] # "LOW" \/ Unlocking(b)
    /\ hpc = "fill" => bufState[hbuf] = "HIGH_CTRL"
    /\ hpc \in {"unlock", "send"} =>
          /\ bufState[hbuf] = "READY"
          /\ IF hpc = "send" THEN owner[hbuf] = NoOwner
             ELSE owner[hbuf] # "LOW" \/ Unlocking(hbuf)
          /\ hbuf \notin Range(toLow)
          /\ lmsgpc # "idle" => lmsg # hbuf
    /\ hpc # "done" /\ hdone # NoBuf => bufState[hdone] = "DONE" /\ owner[hdone] = "HIGH"

\* What CPU_LOW is told of is READY and free, what it has is LOW_CTRL and locked, each
\* once; only the buffer it gives back may have been taken from it.
LowHolds ==
    /\ \A b \in Range(toLow) :
          bufState[b] = "READY" /\ owner[b] = NoOwner /\ (lmsgpc # "idle" => lmsg # b)
    /\ IsInjective(toLow) /\ IsInjective(ready)
    /\ lmsgpc # "idle" => bufState[lmsg] = "READY" /\ lpc \in {"idle", "tx"}
                          /\ owner[lmsg] = IF lmsgpc = "lock" THEN NoOwner ELSE "LOW"
    /\ lmsgpc # "release" /\ lpc \notin {"release", "boot"}
    /\ \A b \in Range(ready) :
          \/ bufState[b] = "LOW_CTRL" /\ owner[b] = "LOW"
          \/ lpc \in {"unlock", "send", "halted"} /\ b = Head(ready)
    /\ lpc \in {"unlock", "send"} => bufState[Head(ready)] # "LOW_CTRL"
    /\ lpc = "unlock" /\ bufState[Head(ready)] = "DONE" => owner[Head(ready)] = "LOW"

\* A buffer that CPU_HIGH does not control is somewhere on its way, or was abandoned.
NoneLost ==
    \A b \in Bufs :
       /\ bufState[b] = "READY" =>
             \/ hpc \in {"unlock", "send"} /\ hbuf = b
             \/ lmsgpc # "idle" /\ lmsg = b
             \/ b \in Range(toLow) \/ b \in reboot.abandoned
       /\ bufState[b] = "LOW_CTRL" => b \in Range(ready)
       /\ bufState[b] = "DONE" =>
             \/ hdone = b
             \/ lpc \in {"unlock", "send"} /\ Head(ready) = b
             \/ b \in Range(toHigh)
             \/ hpc = "boot" /\ reboot.hnext <= b

RebootInv ==
    RebootTypes /\ (reboot.low = 0 => HighHolds /\ LowHolds /\ NoneLost /\ Reserved)
=============================================================================

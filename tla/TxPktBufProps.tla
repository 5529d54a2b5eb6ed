---------------------------- MODULE TxPktBufProps ----------------------------
(***************************************************************************)
(* Correctness of the transmit packet buffer hand-over of TxPktBuf while   *)
(* neither CPU reboots.                                                    *)
(***************************************************************************)
EXTENDS TxPktBuf, Functions

\* Buffers CPU_LOW has been told of, in the order it will transmit them.
LowHandling == IF lmsgpc = "idle" THEN <<>> ELSE <<lmsg>>
Submitted == ready \o LowHandling \o toLow

\* Buffers whose completion CPU_HIGH still has to process, oldest first.
HighCompleting == IF hdone = NoBuf THEN <<>> ELSE <<hdone>>
Completed == HighCompleting \o toHigh

\* No announcement is lost or duplicated: over both mailboxes, both CPUs'
\* registers and CPU_LOW's ready list each buffer occurs at most once, and one
\* that occurs nowhere is back under CPU_HIGH's control or about to be
\* announced (wlan_mac_high.c:1166-1188, wlan_mac_low.c:1001-1023).
OneTokenPerBuffer ==
    /\ IsInjective(Submitted \o Completed)
    /\ \A b \in Bufs \ Range(Submitted \o Completed) :
          bufState[b] = "HIGH_CTRL" \/ (hpc \in {"unlock", "send"} /\ b = hbuf)

\* The error branches of the two message handlers, of the finish routine and
\* of wlan_mac_high_mpdu_transmit are never needed: each CPU always finds the
\* state and the mutex the other one promised (wlan_mac_low.c:893, 969-970).
HandoverAsExpected ==
    /\ lmsgpc = "lock" => bufState[lmsg] = "READY" /\ CanLock("LOW", lmsg)
    /\ lpc \in {"tx", "finish"} => /\ bufState[Head(ready)] = "LOW_CTRL"
                                   /\ owner[Head(ready)] = "LOW"
    /\ lpc = "unlock" => owner[Head(ready)] = "LOW"
    /\ hpc = "unlock" => owner[hbuf] = "HIGH"
    /\ hpc = "done" => bufState[hdone] = "DONE" /\ CanLock("HIGH", hdone)
    /\ hpc # "halted" /\ lpc # "halted"

\* While CPU_HIGH copies a frame into a buffer, or post-processes a finished
\* one, it holds the buffer's mutex and CPU_LOW neither transmits from the
\* buffer nor has it announced or enlisted.
NoDataRace ==
    /\ hpc = "fill" => owner[hbuf] = "HIGH" /\ hbuf \notin Range(Submitted)
    /\ hpc = "posttx" => owner[hdone] = "HIGH" /\ hdone \notin Range(Submitted)

\* CPU_LOW never owns more buffers than poll_tx_queues allows, and its list
\* of MAX_NUM_PENDING_TX_PKT_BUFS entries never overflows.
WithinLimits ==
    /\ Cardinality(LowOwned) <= GeneralLimit
    /\ lmsgpc # "idle" => Len(ready) < MaxPending

\* The hand-over implements the abstract service: every announced buffer is
\* completed exactly once and in order, and only then used again.
Service == INSTANCE TxService WITH
    Buffers <- Bufs,
    submitted <- Submitted,
    completed <- Completed,
    free <- Bufs \ Range(Submitted \o Completed)
ImplementsService == Service!ServiceSpec

\* A buffer that was announced to CPU_LOW returns to CPU_HIGH.
EveryBufferReturns ==
    \A b \in Bufs : bufState[b] = "READY" ~> bufState[b] = "HIGH_CTRL"

-----------------------------------------------------------------------------
(* The inductive invariant behind these properties: state and mutex of a   *)
(* buffer are determined by the place its token is in.                     *)

TokenOfHigh ==
    /\ \A b \in Bufs : bufState[b] = "HIGH_CTRL" => owner[b] = "HIGH"
    /\ \A b \in Bufs : bufState[b] # "UNINITIALIZED"
    /\ hpc = "fill" => hbuf \in Bufs /\ bufState[hbuf] = "HIGH_CTRL"
    /\ hpc = "unlock" => /\ hbuf \in Bufs
                         /\ bufState[hbuf] = "READY" /\ owner[hbuf] = "HIGH"
    /\ hpc = "send" => /\ hbuf \in Bufs
                       /\ bufState[hbuf] = "READY" /\ owner[hbuf] = NoOwner
                       /\ \A i \in 1 .. Len(toLow) : toLow[i] # hbuf
                       /\ lmsgpc = "lock" => lmsg # hbuf
    /\ hpc = "done" => /\ hdone \in Bufs
                       /\ bufState[hdone] = "DONE" /\ owner[hdone] = NoOwner
    /\ hpc = "posttx" => hdone \in Bufs
    /\ hpc \in {"idle", "halted", "boot"} => hdone = NoBuf
    /\ hpc # "done" /\ hdone # NoBuf =>
          bufState[hdone] = "DONE" /\ owner[hdone] = "HIGH"
    /\ hpc \in {"fill", "unlock", "send"} => havail > 0
    /\ hpc \notin {"halted", "boot"}

TokenInMailbox ==
    /\ \A i \in 1 .. Len(toLow) :
          /\ bufState[toLow[i]] = "READY" /\ owner[toLow[i]] = NoOwner
          /\ lmsgpc = "lock" => toLow[i] # lmsg
          /\ \A j \in 1 .. Len(toLow) : toLow[i] = toLow[j] => i = j
    /\ \A i \in 1 .. Len(toHigh) :
          /\ toHigh[i] \in Bufs
          /\ bufState[toHigh[i]] = "DONE" /\ owner[toHigh[i]] = NoOwner
          /\ hpc = "done" => toHigh[i] # hdone
          /\ lpc = "send" => toHigh[i] # ready[1]
          /\ \A j \in 1 .. Len(toHigh) : toHigh[i] = toHigh[j] => i = j

TokenOfLow ==
    /\ lmsgpc = "lock" => /\ lmsg \in Bufs
                          /\ bufState[lmsg] = "READY" /\ owner[lmsg] = NoOwner
    /\ lmsgpc = "accept" => /\ lmsg \in Bufs
                            /\ bufState[lmsg] = "READY" /\ owner[lmsg] = "LOW"
    /\ lmsgpc # "idle" => lpc \in {"idle", "tx"}
    /\ lmsgpc # "release" /\ lpc \notin {"release", "halted", "boot"}
    /\ lpc # "idle" => ready # <<>>
    /\ \A i \in 1 .. Len(ready) :
          /\ IF i = 1 /\ lpc \in {"unlock", "send"}
             THEN /\ bufState[ready[i]] = "DONE"
                  /\ owner[ready[i]] = IF lpc = "unlock" THEN "LOW" ELSE NoOwner
             ELSE bufState[ready[i]] = "LOW_CTRL" /\ owner[ready[i]] = "LOW"
          /\ \A j \in 1 .. Len(ready) : ready[i] = ready[j] => i = j
    /\ lpc = "send" /\ hpc = "done" => hdone # ready[1]

\* Every buffer that is not under HIGH_CTRL has its token somewhere.
TokenExists ==
    \A b \in Bufs :
       /\ bufState[b] = "READY" =>
             \/ hpc \in {"unlock", "send"} /\ hbuf = b
             \/ lmsgpc # "idle" /\ lmsg = b
             \/ b \in Range(toLow)
       /\ bufState[b] = "LOW_CTRL" => b \in Range(ready)
       /\ bufState[b] = "DONE" =>
             \/ hdone = b
             \/ lpc \in {"unlock", "send"} /\ Head(ready) = b
             \/ b \in Range(toHigh)

\* What poll_tx_queues may still submit is reserved within the limit.
Reserved ==
    /\ hpc \in {"poll", "fill"} =>
          Cardinality(LowOwned) + havail <= GeneralLimit
    /\ hpc \in {"unlock", "send"} =>
          Cardinality(LowOwned) + havail <= GeneralLimit + 1
    /\ Cardinality(LowOwned) <= GeneralLimit

TokenInv == TypeOK /\ TokenOfHigh /\ TokenInMailbox /\ TokenOfLow
IInv == TokenInv /\ TokenExists /\ Reserved
=============================================================================

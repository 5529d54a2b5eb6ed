------------------------------ MODULE TxGroups ------------------------------
(***************************************************************************)
(* The two packet buffer groups of the access point.  CPU_HIGH fills       *)
(* GENERAL and DTIM_MCAST buffers from its queues (poll_tx_queues); CPU_LOW *)
(* keeps one list of pending buffers per group, transmits the GENERAL list *)
(* at any time and the DTIM_MCAST list only after a DTIM beacon, through a *)
(* transmit controller of its own that it pauses at a TBTT and resumes in  *)
(* the next window.  Multicast buffering can be switched, and beaconing    *)
(* stopped, while packets are pending: the two CPUs learn of it at         *)
(* different times.                                                        *)
(*                                                                         *)
(* That state, mutex and announcements of one buffer agree is the subject  *)
(* of module TxPktBuf; here a hand-over is one step.  A mailbox message is *)
(* handled in one step, since no other step of CPU_LOW interleaves with it.*)
(***************************************************************************)
EXTENDS Integers, Sequences, FiniteSets, Functions, Selection

CONSTANTS NumMpdu,        \* NUM_TX_PKT_BUF_MPDU (6)
          GeneralLimit,   \* GENERAL buffers CPU_LOW may own (2)
          DtimLimit,      \* DTIM_MCAST buffers CPU_LOW may own (3)
          MaxPending,     \* MAX_NUM_PENDING_TX_PKT_BUFS (5)
          MaxQueued,      \* bound: packets in the multicast queue
          MaxSwitches     \* bound: configuration changes

ASSUME GroupsAssumption ==
    /\ {NumMpdu, GeneralLimit, DtimLimit, MaxPending} \subseteq Nat \ {0}
    /\ {MaxQueued, MaxSwitches} \subseteq Nat

Bufs == 0 .. NumMpdu - 1
NoBuf == -1
Groups == {"GENERAL", "DTIM_MCAST"}
Limit(g) == IF g = "GENERAL" THEN GeneralLimit ELSE DtimLimit

VARIABLES
    frame,       \* tx_frame_info of every buffer
    toLow,       \* mailbox CPU_HIGH -> CPU_LOW
    toHigh,      \* mailbox CPU_LOW -> CPU_HIGH: buffers that are DONE
    hmcast,      \* gl_dtim_mcast_buffer_enable of CPU_HIGH
    hbeacon,     \* CPU_HIGH's beacon_tx_mode is not NO_BEACON_TX
    hunsent,     \* hmcast was assigned, CPU_LOW not told yet
    hpc, havail, hdone,
    mcastQueue,  \* packets in the queue MCAST_QID
    switches,    \* counts configuration changes
    lmcast,      \* gl_dtim_mcast_buffer_enable of CPU_LOW
    lbeacon,     \* CPU_LOW's beacon_tx_mode is not NO_BEACON_TX
    general,     \* gl_tx_pkt_buf_ready_list_general
    dtim,        \* gl_tx_pkt_buf_ready_list_dtim_mcast
    txGeneral,   \* frame_transmit_general is active
    bpc,         \* where poll_tbtt_and_send_beacon is
    latch,       \* the TU target has been reached
    mcret,       \* poll_tx_pkt_buf_list_return
    paused,      \* dtim_mcast_paused
    ctrlD        \* buffer submitted to MAC Tx controller D

highVars == <<hmcast, hbeacon, hunsent, hpc, havail, hdone, mcastQueue, switches>>
lowVars == <<lmcast, lbeacon, general, dtim, txGeneral, bpc, latch, mcret,
             paused, ctrlD>>
vars == <<frame, toLow, toHigh, highVars, lowVars>>

Frames == [state : {"HIGH_CTRL", "READY", "LOW_CTRL", "DONE"}, group : Groups,
           mcast : BOOLEAN,       \* the receiver address is multicast
           prepared : BOOLEAN]    \* TX_FRAME_INFO_FLAGS_PKT_BUF_PREPARED
NoFrame == [state |-> "HIGH_CTRL", group |-> "GENERAL", mcast |-> FALSE,
            prepared |-> FALSE]
Messages == ({"READY"} \X Bufs) \cup ({"MCAST", "BEACON"} \X {0, 1})

TypeOK ==
    /\ frame \in [Bufs -> Frames]
    /\ toLow \in Seq(Messages) /\ toHigh \in Seq(Bufs)
    /\ {hmcast, hbeacon, lmcast, lbeacon} \subseteq {0, 1}
    /\ {hunsent, txGeneral, latch, paused} \subseteq BOOLEAN
    /\ hpc \in {"idle", "general", "dtim"}
    /\ havail \in 0 .. GeneralLimit + DtimLimit
    /\ {hdone, ctrlD} \subseteq Bufs \cup {NoBuf}
    /\ mcastQueue \in 0 .. MaxQueued /\ switches \in 0 .. MaxSwitches
    /\ general \in Seq(Bufs) /\ dtim \in Seq(Bufs)
    /\ bpc \in {"out", "tbtt", "beacon", "window", "dtim", "sent", "check"}
    /\ mcret \in SUBSET {"TRANSMITTED", "MORE_DATA", "PAUSED"}

-----------------------------------------------------------------------------
(* CPU_HIGH                                                                *)

Empty == {b \in Bufs : frame[b].state = "HIGH_CTRL"}
LowOwned(g) == {b \in Bufs : /\ frame[b].group = g
                             /\ frame[b].state \in {"READY", "LOW_CTRL"}}

\* Mutant: the buffers CPU_LOW owns are not counted.
AvailableUncounted(g) == IF Empty = {} THEN 0 ELSE Limit(g)

\* wlan_mac_num_tx_pkt_buf_available
Available(g) ==
    IF Empty = {} \/ Cardinality(LowOwned(g)) > Limit(g) THEN 0
    ELSE Limit(g) - Cardinality(LowOwned(g))

StartPoll == hpc' = "general" /\ havail' = Available("GENERAL")

\* enqueue_after_tail(MCAST_QID) ends with tx_poll_callback().
HighEnqueueMcast ==
    /\ hpc = "idle" /\ mcastQueue < MaxQueued
    /\ mcastQueue' = mcastQueue + 1
    /\ StartPoll
    /\ UNCHANGED <<frame, toLow, toHigh, hmcast, hbeacon, hunsent, hdone,
                   switches, lowVars>>

\* A management or unicast packet is queued, or another event polls.
HighPollRequest ==
    /\ hpc = "idle"
    /\ StartPoll
    /\ UNCHANGED <<frame, toLow, toHigh, hmcast, hbeacon, hunsent, hdone,
                   mcastQueue, switches, lowVars>>

\* transmit_checkin and wlan_mac_high_mpdu_transmit: the first empty buffer
\* is filled and announced.
Submit(g, mcast) ==
    /\ havail > 0
    /\ \E b \in Empty :
          /\ \A c \in Empty : b <= c
          /\ frame' = [frame EXCEPT ![b] =
                [state |-> "READY", group |-> g, mcast |-> mcast, prepared |-> FALSE]]
          /\ toLow' = Append(toLow, <<"READY", b>>)
    /\ havail' = havail - 1

\* "no free Tx packet buffers. Packet was freed without being sent"
Discard == /\ havail > 0 /\ Empty = {}
           /\ havail' = havail - 1
           /\ UNCHANGED <<frame, toLow>>

\* From the management queue (the receiver may be multicast) or a station's.
HighFillGeneral ==
    /\ hpc = "general"
    /\ \E mcast \in BOOLEAN : Submit("GENERAL", mcast) \/ (Discard /\ ~ mcast)
    /\ UNCHANGED <<toHigh, hmcast, hbeacon, hunsent, hpc, hdone, mcastQueue,
                   switches, lowVars>>

\* With buffering disabled the multicast queue is one of the data queues.
HighFillUnbuffered ==
    /\ hpc = "general" /\ hmcast = 0 /\ mcastQueue > 0
    /\ Submit("GENERAL", TRUE) \/ Discard
    /\ mcastQueue' = mcastQueue - 1
    /\ UNCHANGED <<toHigh, hmcast, hbeacon, hunsent, hpc, hdone, switches, lowVars>>

HighGeneralEnd ==
    /\ hpc = "general"
    /\ IF hmcast = 1 /\ hbeacon = 1
       THEN hpc' = "dtim" /\ havail' = Available("DTIM_MCAST") /\ UNCHANGED <<frame, hdone>>
       ELSE /\ hpc' = "idle" /\ havail' = 0 /\ hdone' = NoBuf
            /\ frame' = IF hdone = NoBuf THEN frame
                        ELSE [frame EXCEPT ![hdone].state = "HIGH_CTRL"]
    /\ UNCHANGED <<toLow, toHigh, hmcast, hbeacon, hunsent, mcastQueue, switches,
                   lowVars>>

HighFillDtim ==
    /\ hpc = "dtim" /\ mcastQueue > 0
    /\ Submit("DTIM_MCAST", TRUE) \/ Discard
    /\ mcastQueue' = mcastQueue - 1
    /\ UNCHANGED <<toHigh, hmcast, hbeacon, hunsent, hpc, hdone, switches, lowVars>>

\* The end of the poll; inside the DONE handler the buffer is recycled now.
HighDtimEnd ==
    /\ hpc = "dtim" /\ (havail = 0 \/ mcastQueue = 0)
    /\ hpc' = "idle" /\ havail' = 0 /\ hdone' = NoBuf
    /\ frame' = IF hdone = NoBuf THEN frame
                ELSE [frame EXCEPT ![hdone].state = "HIGH_CTRL"]
    /\ UNCHANGED <<toLow, toHigh, hmcast, hbeacon, hunsent, mcastQueue, switches,
                   lowVars>>

\* Mutant: the buffer is recycled but the queues are not polled.
HighDoneNoPoll ==
    /\ hpc = "idle" /\ toHigh # <<>>
    /\ toHigh' = Tail(toHigh)
    /\ frame' = [frame EXCEPT ![Head(toHigh)].state = "HIGH_CTRL"]
    /\ UNCHANGED <<toLow, hmcast, hbeacon, hunsent, hpc, havail, hdone, mcastQueue,
                   switches, lowVars>>

\* IPC_MBOX_TX_PKT_BUF_DONE: the queues are polled first.
HighDone ==
    /\ hpc = "idle" /\ toHigh # <<>>
    /\ hdone' = Head(toHigh) /\ toHigh' = Tail(toHigh)
    /\ StartPoll
    /\ UNCHANGED <<frame, toLow, hmcast, hbeacon, hunsent, mcastQueue, switches,
                   lowVars>>

\* wlan_exp switches DTIM multicast buffering: interrupts are enabled between
\* the assignment and the message to CPU_LOW.
HighSetMcast ==
    /\ hpc = "idle" /\ ~ hunsent /\ switches < MaxSwitches
    /\ hmcast' = 1 - hmcast
    /\ hunsent' = TRUE /\ switches' = switches + 1
    /\ UNCHANGED <<frame, toLow, toHigh, hbeacon, hpc, havail, hdone, mcastQueue,
                   lowVars>>

HighSendMcast ==
    /\ hpc = "idle" /\ hunsent
    /\ toLow' = Append(toLow, <<"MCAST", hmcast>>)
    /\ hunsent' = FALSE
    /\ UNCHANGED <<frame, toHigh, hmcast, hbeacon, hpc, havail, hdone, mcastQueue,
                   switches, lowVars>>

\* configure_bss changes the beacon configuration, with interrupts stopped.
HighConfigBeacon ==
    /\ hpc = "idle" /\ ~ hunsent /\ switches < MaxSwitches
    /\ \E mode \in {0, 1} : /\ hbeacon' = mode
                            /\ toLow' = Append(toLow, <<"BEACON", mode>>)
    /\ switches' = switches + 1
    /\ UNCHANGED <<frame, toHigh, hmcast, hunsent, hpc, havail, hdone, mcastQueue,
                   lowVars>>

-----------------------------------------------------------------------------
(* CPU_LOW: mailbox messages                                               *)

\* handle_tx_pkt_buf_ready: no list entry is left when MAX_NUM_PENDING are used.
Enlist(b) ==
    IF Len(general) + Len(dtim) >= MaxPending THEN UNCHANGED <<general, dtim>>
    ELSE IF lmcast = 1 /\ lbeacon = 1 /\ frame[b].group = "DTIM_MCAST"
         THEN dtim' = Append(dtim, b) /\ UNCHANGED general
         ELSE general' = Append(general, b) /\ UNCHANGED dtim

\* Mutant: every frame is moved back, the one in the controller too.
UpdateListsAll(buffering) ==
    IF buffering
    THEN LET moves == {b \in Bufs : ~ frame[b].prepared /\ frame[b].mcast}
             moved == Selected(general, moves)
         IN  /\ dtim' = dtim \o moved
             /\ general' = Selected(general, Bufs \ moves)
             /\ frame' = [b \in Bufs |-> IF b \in Range(moved)
                             THEN [frame[b] EXCEPT !.group = "DTIM_MCAST"] ELSE frame[b]]
             /\ UNCHANGED ctrlD
    ELSE /\ general' = general \o dtim /\ dtim' = <<>>
         /\ frame' = [b \in Bufs |-> IF b \in Range(dtim)
                         THEN [frame[b] EXCEPT !.group = "GENERAL"] ELSE frame[b]]
         /\ ctrlD' = NoBuf

\* update_tx_pkt_buf_lists: multicast frames move to the DTIM list when
\* buffering starts; when it stops, controller D is reset and the DTIM list is
\* merged into the general list.  A frame that was prepared stays.
UpdateLists(buffering) ==
    LET from == IF buffering THEN general ELSE dtim
        to == IF buffering THEN dtim ELSE general
        group == IF buffering THEN "DTIM_MCAST" ELSE "GENERAL"
        moves == {b \in Bufs : ~ frame[b].prepared /\ (buffering => frame[b].mcast)}
        moved == Selected(from, moves)
        kept == Selected(from, Bufs \ moves)
    IN  /\ general' = IF buffering THEN kept ELSE to \o moved
        /\ dtim' = IF buffering THEN to \o moved ELSE kept
        /\ frame' = [b \in Bufs |-> IF b \in Range(moved)
                        THEN [frame[b] EXCEPT !.group = group] ELSE frame[b]]
        /\ ctrlD' = IF buffering THEN ctrlD ELSE NoBuf

\* wlan_mac_low_poll_ipc_rx reads one message.
Receive(kind) ==
    /\ bpc \in {"out", "beacon", "dtim", "sent"}
    /\ toLow # <<>> /\ Head(toLow)[1] = kind
    /\ toLow' = Tail(toLow)
    /\ bpc' = IF bpc = "sent" THEN "check" ELSE bpc
    /\ UNCHANGED <<toHigh, highVars, txGeneral, mcret, paused>>

LowReady ==
    /\ Receive("READY")
    /\ frame' = [frame EXCEPT ![Head(toLow)[2]].state = "LOW_CTRL"]
    /\ Enlist(Head(toLow)[2])
    /\ UNCHANGED <<lmcast, lbeacon, latch, ctrlD>>

\* Mutant: the lists are updated before the new mode is stored.
LowMcastEnableLate ==
    /\ Receive("MCAST")
    /\ lmcast' = Head(toLow)[2]
    /\ UpdateLists(lmcast = 1 /\ lbeacon = 1)
    /\ UNCHANGED <<lbeacon, latch>>

\* handle_mcast_buffer_enable
LowMcastEnable ==
    /\ Receive("MCAST")
    /\ lmcast' = Head(toLow)[2]
    /\ UpdateLists(lmcast' = 1 /\ lbeacon = 1)
    /\ UNCHANGED <<lbeacon, latch>>

\* configure_beacon_txrx
LowBeaconConfig ==
    /\ Receive("BEACON")
    /\ lbeacon' = Head(toLow)[2] /\ latch' = FALSE
    /\ UpdateLists(lmcast = 1 /\ lbeacon' = 1)
    /\ UNCHANGED lmcast

-----------------------------------------------------------------------------
(* CPU_LOW: transmissions                                                  *)

Prepare(b) == frame' = [frame EXCEPT ![b].prepared = TRUE]

\* wlan_mac_low_finish_frame_transmit.  The other fields are not read again
\* before the buffer is next filled.
Finish(b) == /\ frame' = [frame EXCEPT ![b] = [NoFrame EXCEPT !.state = "DONE"]]
             /\ toHigh' = Append(toHigh, b)

\* poll_tx_pkt_buf_list(PKT_BUF_GROUP_GENERAL)
LowTxStart ==
    /\ bpc = "out" /\ ~ txGeneral /\ general # <<>>
    /\ Prepare(Head(general))
    /\ txGeneral' = TRUE
    /\ UNCHANGED <<toLow, toHigh, highVars, lmcast, lbeacon, general, dtim, bpc,
                   latch, mcret, paused, ctrlD>>

LowTxEnd ==
    /\ bpc = "out" /\ txGeneral
    /\ Finish(Head(general))
    /\ general' = Tail(general) /\ txGeneral' = FALSE
    /\ UNCHANGED <<toLow, highVars, lmcast, lbeacon, dtim, bpc, latch, mcret,
                   paused, ctrlD>>

Tbtt ==
    /\ ~ latch /\ lbeacon = 1
    /\ latch' = TRUE
    /\ UNCHANGED <<frame, toLow, toHigh, highVars, lmcast, lbeacon, general, dtim,
                   txGeneral, bpc, mcret, paused, ctrlD>>

\* poll_tbtt_and_send_beacon, from the main loop or while controller A defers.
LowTbtt ==
    /\ bpc = "out" /\ lbeacon = 1 /\ latch
    /\ bpc' = "tbtt" /\ mcret' = {}
    /\ UNCHANGED <<frame, toLow, toHigh, highVars, lmcast, lbeacon, general, dtim,
                   txGeneral, latch, paused, ctrlD>>

\* CPU_HIGH has not processed the last beacon: skip this one, reset controller D.
LowBeaconSkip ==
    /\ bpc = "tbtt" /\ latch
    /\ latch' = FALSE /\ ctrlD' = NoBuf /\ bpc' = "out"
    /\ UNCHANGED <<frame, toLow, toHigh, highVars, lmcast, lbeacon, general, dtim,
                   txGeneral, mcret, paused>>

LowBeaconStart ==
    /\ bpc = "tbtt" /\ latch
    /\ bpc' = "beacon"
    /\ UNCHANGED <<frame, toLow, toHigh, highVars, lmcast, lbeacon, general, dtim,
                   txGeneral, latch, mcret, paused, ctrlD>>

\* A beacon was sent: may multicast frames follow?
BeaconSent(isDtim) ==
    /\ bpc = "beacon"
    /\ latch' = FALSE
    /\ bpc' = IF \/ isDtim /\ lmcast = 1
                 \/ {"TRANSMITTED", "MORE_DATA"} \subseteq mcret
                 \/ "PAUSED" \in mcret
              THEN "window" ELSE "tbtt"
    /\ UNCHANGED <<frame, toLow, toHigh, highVars, lmcast, lbeacon, general, dtim,
                   txGeneral, mcret, paused, ctrlD>>
LowDtimBeacon == BeaconSent(TRUE)
LowBeacon == BeaconSent(FALSE)

LowTbttEnd ==
    /\ bpc = "tbtt" /\ ~ latch
    /\ bpc' = "out"
    /\ UNCHANGED <<frame, toLow, toHigh, highVars, lmcast, lbeacon, general, dtim,
                   txGeneral, latch, mcret, paused, ctrlD>>

\* Mutant: the last frame of the list has the MORE_DATA bit too.
LowDtimStartMore ==
    /\ bpc = "window" /\ dtim # <<>>
    /\ mcret' = {"MORE_DATA"}
    /\ IF paused THEN UNCHANGED <<frame, ctrlD>>
       ELSE Prepare(Head(dtim)) /\ ctrlD' = Head(dtim)
    /\ bpc' = "dtim"
    /\ UNCHANGED <<toLow, toHigh, highVars, lmcast, lbeacon, general, dtim,
                   txGeneral, latch, paused>>

\* poll_tx_pkt_buf_list(PKT_BUF_GROUP_DTIM_MCAST): submit or resume the head.
LowDtimStart ==
    /\ bpc = "window" /\ dtim # <<>>
    /\ mcret' = IF Len(dtim) = 1 THEN {} ELSE {"MORE_DATA"}
    /\ IF paused THEN UNCHANGED <<frame, ctrlD>>
       ELSE Prepare(Head(dtim)) /\ ctrlD' = Head(dtim)
    /\ bpc' = "dtim"
    /\ UNCHANGED <<toLow, toHigh, highVars, lmcast, lbeacon, general, dtim,
                   txGeneral, latch, paused>>

\* A TBTT is crossed before the frame starts.
LowDtimPause ==
    /\ bpc = "dtim" /\ latch
    /\ paused' = TRUE /\ mcret' = mcret \cup {"PAUSED"}
    /\ bpc' = "tbtt"
    /\ UNCHANGED <<frame, toLow, toHigh, highVars, lmcast, lbeacon, general, dtim,
                   txGeneral, latch, ctrlD>>

\* Controller D is done with the frame (or was reset).
LowDtimFinish ==
    /\ bpc = "dtim"
    /\ Finish(Head(dtim))
    /\ dtim' = Tail(dtim) /\ paused' = FALSE /\ ctrlD' = NoBuf
    /\ mcret' = mcret \cup {"TRANSMITTED"}
    /\ bpc' = "sent"
    /\ UNCHANGED <<toLow, highVars, lmcast, lbeacon, general, txGeneral, latch>>

LowWindowNext ==
    /\ bpc = "check" \/ (bpc = "sent" /\ toLow = <<>>)
    /\ bpc' = IF latch THEN "tbtt"
              ELSE IF "MORE_DATA" \notin mcret THEN "out" ELSE "window"
    /\ UNCHANGED <<frame, toLow, toHigh, highVars, lmcast, lbeacon, general, dtim,
                   txGeneral, latch, mcret, paused, ctrlD>>

LowWindowEmpty ==
    /\ bpc = "window" /\ dtim = <<>>
    /\ bpc' = "tbtt"
    /\ UNCHANGED <<frame, toLow, toHigh, highVars, lmcast, lbeacon, general, dtim,
                   txGeneral, latch, mcret, paused, ctrlD>>

-----------------------------------------------------------------------------
\* Both CPUs have booted: CPU_HIGH has configured beacons and enabled multicast
\* buffering; CPU_LOW has yet to read these messages.
Init ==
    /\ frame = [b \in Bufs |-> NoFrame]
    /\ toLow = <<<<"BEACON", 1>>, <<"MCAST", 1>>>> /\ toHigh = <<>>
    /\ hmcast = 1 /\ hbeacon = 1 /\ hunsent = FALSE
    /\ hpc = "idle" /\ havail = 0 /\ hdone = NoBuf
    /\ mcastQueue = 0 /\ switches = 0
    /\ lmcast = 0 /\ lbeacon = 0
    /\ general = <<>> /\ dtim = <<>> /\ txGeneral = FALSE
    /\ bpc = "out" /\ latch = FALSE /\ mcret = {}
    /\ paused = FALSE /\ ctrlD = NoBuf

HighPoll == HighFillGeneral \/ HighFillUnbuffered \/ HighGeneralEnd \/ HighFillDtim
            \/ HighDtimEnd
HighNext == HighEnqueueMcast \/ HighPollRequest \/ HighPoll \/ HighDone
            \/ HighSetMcast \/ HighSendMcast \/ HighConfigBeacon
LowReceive == LowReady \/ LowMcastEnable \/ LowBeaconConfig
LowWindow == LowTbttEnd \/ LowDtimStart \/ LowWindowNext \/ LowWindowEmpty
LowNext == LowReceive \/ LowTxStart \/ LowTxEnd \/ Tbtt \/ LowTbtt \/ LowBeaconSkip
           \/ LowBeaconStart \/ LowDtimBeacon \/ LowBeacon \/ LowDtimPause
           \/ LowDtimFinish \/ LowWindow

Next == HighNext \/ LowNext

Spec == Init /\ [][Next]_vars

\* CPU_HIGH finishes a poll and serves its mailbox; CPU_LOW serves its own, and
\* the backoff between two frames lets it notice a TBTT.  A beacon is not skipped
\* every time, one in dtim_period beacons is a DTIM, and a multicast frame is not
\* interrupted by every TBTT.  Nothing is assumed of GENERAL transmissions.
Fairness ==
    /\ WF_vars(HighGeneralEnd \/ HighFillDtim \/ HighDtimEnd)
    /\ WF_vars(Tbtt) /\ WF_vars(LowBeacon \/ LowWindow)
    /\ SF_vars(HighDone) /\ SF_vars(LowReceive)
    /\ SF_vars(LowTbtt) /\ SF_vars(LowBeaconStart) /\ SF_vars(LowDtimBeacon)
    /\ SF_vars(LowDtimFinish)

FairSpec == Spec /\ Fairness

-----------------------------------------------------------------------------
\* While nobody changes the configuration, CPU_LOW never owns more buffers of a
\* group than its limit: the two WARNINGs "Should never happen" of
\* wlan_mac_num_tx_pkt_buf_available are never needed, and no buffer is left
\* without a list entry.
GroupLimits ==
    switches = 0 =>
      /\ \A g \in Groups : Cardinality(LowOwned(g)) <= Limit(g)
      /\ \A b \in Bufs : frame[b].state = "LOW_CTRL" =>
                            b \in Range(general) \/ b \in Range(dtim)

\* However the configuration changes, the lists hold distinct buffers, all of
\* them under CPU_LOW's control, and follow CPU_LOW's mode at every moment: while
\* it buffers, no DTIM frame waits in the general list; while it does not, only a
\* frame already in transmit controller D may be left in the DTIM list.
ListsConsistent ==
    /\ TypeOK
    /\ IsInjective(general \o dtim)
    /\ \A b \in Bufs : b \in Range(general \o dtim) => frame[b].state = "LOW_CTRL"
    /\ IF lmcast = 1 /\ lbeacon = 1
       THEN \A b \in Bufs : b \in Range(general) /\ ~ frame[b].prepared =>
                               frame[b].group = "GENERAL"
       ELSE \A b \in Bufs : b \in Range(dtim) => frame[b].prepared

\* A frame in transmission, and a paused one, stays the head of its list,
\* whatever messages are processed meanwhile: "gl_tx_pkt_buf_ready_list_dtim_
\* mcast.first may not be modified by any other context" (wlan_mac_dcf.c:1557).
HeadKept ==
    /\ txGeneral => general # <<>> /\ frame[Head(general)].prepared
    /\ paused \/ bpc = "dtim" => dtim # <<>> /\ frame[Head(dtim)].prepared
    /\ \A b \in Bufs : b \in Range(dtim) /\ frame[b].prepared => b = Head(dtim)

\* A multicast frame sent with the MORE_DATA bit is followed by another one: the
\* DTIM list is not empty, unless buffering has been stopped since the frame was
\* submitted (wlan_mac_dcf.c:1539-1542).
MoreDataHonest ==
    bpc \in {"sent", "check"} /\ "MORE_DATA" \in mcret =>
        dtim # <<>> \/ lmcast = 0 \/ lbeacon = 0

\* No wake-up is lost although the DONE handler polls the queues before it recycles
\* its buffer: when CPU_HIGH has finished a poll and multicast packets are waiting,
\* either a DONE message is on its way or CPU_LOW owns as many DTIM buffers as it
\* may, so that a DONE message will follow.
NoLostWakeup ==
    switches = 0 /\ hpc = "idle" /\ mcastQueue > 0 =>
        toHigh # <<>> \/ Cardinality(LowOwned("DTIM_MCAST")) = DtimLimit

\* A full multicast queue does not stay full: beacons, DTIM windows, pauses and
\* resumptions drain it, unless GENERAL frames are submitted for ever (they take
\* each recycled buffer first) or the configuration changes.
McastServed ==
    \/ []<>(mcastQueue < MaxQueued)
    \/ []<>(\E b \in Bufs : frame[b].state = "READY" /\ frame[b].group = "GENERAL")
    \/ <>(switches > 0)

\* wlan_mac_num_tx_pkt_buf_available: "Return 1 (if one buffer is already filled)
\* or 2 (if both can be filled)": there is an empty buffer for every one it
\* allows to fill, so that no packet is freed unsent.
AvailableCanBeFilled == hpc # "idle" => havail <= Cardinality(Empty)

\* frame_transmit_dtim_mcast: resume is "1 to indicate that this packet should
\* resume a packet already submitted".
ResumeSubmitted == bpc = "dtim" /\ paused => ctrlD = Head(dtim)
=============================================================================

-------------------------------- MODULE EthRx -------------------------------
(* Reception of the Ethernet portal (w3_eth.c) and the traffic generator     *)
(* (wlan_mac_ltg.c) as clients of the FINE scheduler of CPU_HIGH.            *)
(*                                                                           *)
(* Interrupts do not nest: the timer handler visits its schedules in several *)
(* steps, during which neither the main loop nor another interrupt runs.     *)
(* The main loop calls wlan_mac_schedule_event_repeated with interrupts      *)
(* enabled, so that one may come between the two steps of an insertion; torn *)
(* records that one has and that it changed what the scheduler holds.        *)
(*                                                                           *)
(* Callbacks: "eth" is _wlan_process_all_eth_pkts, "ltg" ltg_sched_check,    *)
(* "tim" the update_tim_tag_all of the AP, which runs once and may schedule  *)
(* itself again, "join" one of the polls of the STA, which remove each other *)
(* and themselves (what they decide is in ApTim and StaJoin).  Frames are    *)
(* counted; packets leave the transmit queues at any time.  DMA errors, for  *)
(* which the handler has a TODO, and failing allocations are left out.       *)
EXTENDS Schedule

CONSTANTS
    NumBds,       \* Rx buffer descriptors of the ring
    Spare,        \* Tx queue entries beyond those of the descriptors
    MaxEnqueued,  \* MAX_PACKETS_ENQUEUED
    MaxTotal,     \* MAX_PACKETS_TOTAL
    MaxJoin,      \* schedules of the join at a time
    Ltgs          \* traffic generators

ASSUME EthRxAssumption ==
    /\ {NumBds, MaxEnqueued, MaxTotal} \subseteq Nat \ {0} /\ {Spare, MaxJoin} \subseteq Nat
    /\ Kinds = {"eth", "ltg", "tim", "join"}
    /\ Cardinality(Blocks) >= 3 + MaxJoin

VARIABLES
    sched,    \* the scheduler
    isr,      \* the visit of the timer handler: [pc, curr, freed]
    ring,     \* descriptors: with the hardware, filled, taken, free
    irq,      \* the Rx interrupt is enabled
    pending,  \* its status
    rxEntry,  \* rx_schedule_dl_entry
    pool,     \* free_queue.length
    queued,   \* entries in the transmit queues
    tgs,      \* tg_list
    running,  \* schedule_running
    main,     \* the insertion of the main loop: [pc, new, first]
    torn      \* history: an interrupt has changed the lists under an insertion

ethVars == <<ring, irq, pending, rxEntry, pool, queued>>
ltgVars == <<tgs, running>>
ethRxVars == <<sched, isr, ethVars, ltgVars, main, torn>>

Quiet == [pc |-> "none", curr |-> Null, freed |-> FALSE]
Idle == [pc |-> "idle", new |-> Null, first |-> Null]
RingType == [hw : 0 .. NumBds, filled : 0 .. NumBds, taken : 0 .. NumBds, free : 0 .. NumBds]
EthTypeOK ==
    /\ sched \in SchedType
    /\ isr \in [pc : {"none", "walk", "after"}, curr : Pointers, freed : BOOLEAN]
    /\ ring \in RingType /\ ring.hw + ring.filled + ring.taken + ring.free = NumBds
    /\ irq \in BOOLEAN /\ pending \in BOOLEAN /\ rxEntry \in Pointers
    /\ pool \in Nat /\ queued \in Nat
    /\ pool + queued + NumBds - ring.free = NumBds + Spare
    /\ tgs \in [Ltgs -> {"none", "stopped", "started"}] /\ running \in BOOLEAN
    /\ main \in [pc : {"idle", "insert"}, new : Pointers, first : Pointers]

Delayed(kind) == kind \in {"tim", "join"}
Of(kind) == {b \in Blocks : sched.blk[b].live /\ sched.blk[b].kind = kind}
\* An interrupt is taken.
CanInterrupt == isr.pc = "none"
\* It has changed the scheduler, perhaps while the main loop inserts a schedule.
Tear(changed) == torn' = (torn \/ (main.pc = "insert" /\ changed))
MainRuns == isr.pc = "none" /\ main.pc = "idle"

-----------------------------------------------------------------------------
(* The ring                                                                 *)

Smaller(m, n) == IF m < n THEN m ELSE n
\* _wlan_eth_dma_update: free descriptors get the queue entries there are.
DmaUpdate(r, entries) ==
    LET n == Smaller(r.free, entries) IN
    /\ ring' = [r EXCEPT !.free = @ - n, !.hw = @ + n]
    /\ pool' = entries - n

\* The hardware receives a frame; between two visits of the timer handler nothing
\* looks at the ring, so that it may as well come afterwards.
Receive ==
    /\ isr.pc = "none" /\ ring.hw > 0
    /\ ring' = [ring EXCEPT !.hw = @ - 1, !.filled = @ + 1]
    /\ pending' = TRUE
    /\ UNCHANGED <<sched, isr, irq, rxEntry, pool, queued, ltgVars, main, torn>>

\* The while loop of _wlan_process_all_eth_pkts on r: k frames, of which j are
\* enqueued; the entries of the others are checked in.
Process(r, k, j) ==
    /\ j <= k /\ k <= r.taken /\ j <= MaxEnqueued /\ k <= MaxTotal
    /\ k < r.taken => j = MaxEnqueued \/ k = MaxTotal
    /\ DmaUpdate([r EXCEPT !.taken = @ - k, !.free = @ + k], pool + k - j)
    /\ queued' = queued + j

\* Its end: come back later, or let the hardware interrupt again.
ProcessEnd(s, left, entry) ==
    IF left = 0 THEN sched' = s /\ irq' = TRUE
    ELSE /\ irq' = FALSE
         /\ IF entry = Null
            THEN \E new \in Free(s) : sched' = Create(s, new, "eth", Forever, FALSE)
            ELSE sched' = Enable(s, entry)

\* A poll of the transmit queues may postpone the update of the TIM.
Polled(s) ==
    {s} \cup (IF Of("tim") = {} THEN {Create(s, new, "tim", 1, TRUE) : new \in Free(s)}
              ELSE {})

\* _eth_rx_interrupt_handler; frames may arrive between the acknowledgement and
\* the call that takes all descriptors that are filled.
EthInterrupt ==
    /\ CanInterrupt /\ irq /\ pending
    /\ \E more \in 0 .. ring.hw, k, j \in 0 .. NumBds :
          LET taken == ring.filled + more IN
          /\ pending' = (more > 0)
          /\ Process([ring EXCEPT !.hw = @ - more, !.filled = 0, !.taken = taken], k, j)
          /\ \E s \in Polled(sched) : ProcessEnd(Forgotten(s), taken - k, rxEntry)
    /\ Tear(sched' # Forgotten(sched) \/ ~irq')
    /\ UNCHANGED <<isr, rxEntry, ltgVars, main>>

\* A packet from elsewhere is queued; a packet has been sent, and its entry is
\* checked in (queue_checkin).
Enqueued == pool > 0 /\ pool' = pool - 1 /\ queued' = queued + 1 /\ UNCHANGED ring
Checkout ==
    /\ CanInterrupt /\ Enqueued
    /\ UNCHANGED <<isr, irq, pending, rxEntry, ltgVars, main>>
    /\ \E s \in Polled(sched) : sched' = Forgotten(s)
    /\ Tear(sched' # Forgotten(sched))
CheckinSilent ==
    /\ CanInterrupt /\ queued > 0
    /\ queued' = queued - 1 /\ pool' = pool + 1
    /\ \E s \in Polled(sched) : sched' = Forgotten(s)
    /\ Tear(sched' # Forgotten(sched))
    /\ UNCHANGED <<isr, ring, irq, pending, rxEntry, ltgVars, main>>
Checkin ==
    /\ CanInterrupt /\ queued > 0
    /\ queued' = queued - 1 /\ DmaUpdate(ring, pool + 1)
    /\ \E s \in Polled(sched) : sched' = Forgotten(s)
    /\ Tear(sched' # Forgotten(sched))
    /\ UNCHANGED <<isr, irq, pending, rxEntry, ltgVars, main>>

-----------------------------------------------------------------------------
(* The main loop and other interrupts                                       *)

\* wlan_mac_schedule_event_repeated up to the head of the list, and the rest.
BeginSchedule(kind) ==
    \E new \in Free(sched) :
        /\ sched' = Prepared(sched, new, kind, Forever, Delayed(kind))
        /\ main' = [pc |-> "insert", new |-> new, first |-> sched.on.first]
MainInsert ==
    /\ isr.pc = "none" /\ main.pc = "insert"
    /\ sched' = Forgotten(InsertBeginning(sched, "on", main.first, main.new))
    /\ main' = Idle
    /\ UNCHANGED <<isr, ethVars, ltgVars, torn>>

LtgCreate ==
    /\ MainRuns
    /\ \E g \in Ltgs : tgs[g] = "none" /\ tgs' = [tgs EXCEPT ![g] = "stopped"]
    /\ UNCHANGED <<sched, isr, ethVars, running, main, torn>>
\* ltg_sched_start_l: also for a generator that is started.
LtgStart ==
    /\ MainRuns
    /\ \E g \in Ltgs : tgs[g] # "none" /\ tgs' = [tgs EXCEPT ![g] = "started"]
    /\ running' = TRUE
    /\ IF running THEN UNCHANGED <<sched, main>> ELSE BeginSchedule("ltg")
    /\ UNCHANGED <<isr, ethVars, torn>>
\* ltg_sched_stop_l removes the schedule only if tg_list is empty, but it has the
\* generator it stops, also when ltg_sched_remove calls it.
LtgStop ==
    /\ MainRuns
    /\ \E g \in Ltgs : tgs[g] = "started" /\ tgs' = [tgs EXCEPT ![g] = "stopped"]
    /\ UNCHANGED <<sched, isr, ethVars, running, main, torn>>
LtgRemove ==
    /\ MainRuns
    /\ \E g \in Ltgs : tgs[g] # "none" /\ tgs' = [tgs EXCEPT ![g] = "none"]
    /\ UNCHANGED <<sched, isr, ethVars, running, main, torn>>

\* A join or a scan is started by a command.
Join ==
    /\ MainRuns /\ Cardinality(Of("join")) < MaxJoin
    /\ BeginSchedule("join")
    /\ UNCHANGED <<isr, ethVars, ltgVars, torn>>
\* wlan_mac_sta_join_return_to_idle, with interrupts stopped.
ReturnToIdle ==
    /\ MainRuns
    /\ \E b \in Of("join") : sched' = RemoveSchedule(sched, b)
    /\ UNCHANGED <<isr, ethVars, ltgVars, main, torn>>

-----------------------------------------------------------------------------
(* The timer                                                                *)

\* A schedule without a delay is due, another one may be.
TimerInterrupt ==
    /\ CanInterrupt /\ sched.timer
    /\ \E D \in SUBSET Blocks :
          /\ \A b \in D : sched.blk[b].enabled
          /\ \A b \in Blocks : sched.blk[b].enabled /\ ~Delayed(sched.blk[b].kind) => b \in D
          /\ sched' = Started(sched, D)
    /\ isr' = [Quiet EXCEPT !.pc = "walk"] /\ Tear(TRUE)
    /\ UNCHANGED <<ethVars, ltgVars, main>>

Visit(s) == sched' = s /\ isr' = [pc |-> "after", curr |-> sched.next, freed |-> FALSE]
Due(kind) ==
    /\ isr.pc = "walk" /\ sched.next # Null
    /\ sched.blk[sched.next].kind = kind /\ sched.blk[sched.next].due # "no"

\* The target has not been reached.
TimerSkip ==
    /\ isr.pc = "walk" /\ sched.next # Null /\ sched.blk[sched.next].due # "yes"
    /\ sched' = Stepped(sched)
    /\ UNCHANGED <<isr, ethVars, ltgVars, main, torn>>

\* ltg_sched_check: a generator may be due, and may have reached its stop_target.
TimerLtg ==
    /\ Due("ltg")
    /\ \E s \in Polled(Stepped(sched)) : Visit(s)
    /\ UNCHANGED <<ring, pool, queued>> \/ (Enqueued /\ \E g \in Ltgs : tgs[g] = "started")
    /\ \/ UNCHANGED tgs
       \/ \E g \in Ltgs : tgs[g] = "started" /\ tgs' = [tgs EXCEPT ![g] = "stopped"]
    /\ UNCHANGED <<irq, pending, rxEntry, running, main, torn>>

\* _wlan_process_all_eth_pkts disables its own schedule first.
TimerEth ==
    /\ Due("eth")
    /\ LET s == Stepped(sched)
           entry == IF CanDisable(s, sched.next) THEN sched.next ELSE Null
       IN  \E k, j \in 0 .. NumBds :
              /\ Process(ring, k, j)
              /\ \E t \in Polled(Disable(s, sched.next)) : ProcessEnd(t, ring.taken - k, entry)
              /\ rxEntry' = entry
    /\ isr' = [pc |-> "after", curr |-> sched.next, freed |-> FALSE]
    /\ UNCHANGED <<pending, ltgVars, main, torn>>

\* update_tim_tag_all succeeds, or cannot lock the beacon once more.
TimerTim ==
    /\ Due("tim")
    /\ LET s == Counted(Stepped(sched), sched.next) IN
       \/ Visit(s)
       \/ \E new \in Free(s) : Visit(Create(s, new, "tim", 1, TRUE))
    /\ UNCHANGED <<ethVars, ltgVars, main, torn>>

\* A poll of the join does nothing; or it removes polls, itself among them or not,
\* and may begin the next stage, perhaps in the memory it has just freed.
TimerJoin ==
    /\ Due("join")
    /\ LET s == Stepped(sched) IN
       \/ Visit(s)
       \/ \E b, c \in Of("join") :
             LET t == RemoveSchedule(RemoveSchedule(s, b), c) IN
             /\ isr' = [pc |-> "after", curr |-> sched.next, freed |-> sched.next \in {b, c}]
             /\ \/ sched' = t
                \/ \E new \in Free(t) : sched' = Create(t, new, "join", Forever, TRUE)
    /\ UNCHANGED <<ethVars, ltgVars, main, torn>>

\* After the callback the handler reads enabled and num_calls through
\* curr_sched_ptr.  If the callback freed the schedule, it finds what is there now:
\* another schedule, whose target it moves; or no schedule, and then it writes to
\* free memory or does nothing.
TimerAfter ==
    /\ isr.pc = "after"
    /\ sched' = IF isr.freed
                THEN IF sched.blk[isr.curr].live
                     THEN [sched EXCEPT !.blk[isr.curr].due = "no"] ELSE sched
                ELSE Finished(sched, isr.curr, Delayed(sched.blk[isr.curr].kind))
    /\ isr' = [Quiet EXCEPT !.pc = "walk"]
    /\ UNCHANGED <<ethVars, ltgVars, main, torn>>

TimerEnd ==
    /\ isr.pc = "walk" /\ sched.next = Null
    /\ sched' = Forgotten(sched) /\ isr' = Quiet
    /\ UNCHANGED <<ethVars, ltgVars, main, torn>>

-----------------------------------------------------------------------------
EthInit ==
    /\ sched = NoSchedules /\ isr = Quiet /\ main = Idle
    /\ ring = [hw |-> NumBds, filled |-> 0, taken |-> 0, free |-> 0]
    /\ irq = TRUE /\ pending = FALSE /\ rxEntry = Null
    /\ pool = Spare /\ queued = 0
    /\ tgs = [g \in Ltgs |-> "none"] /\ running = FALSE /\ torn = FALSE

Timer ==
    TimerInterrupt \/ TimerSkip \/ TimerLtg \/ TimerEth \/ TimerTim \/ TimerJoin
    \/ TimerAfter \/ TimerEnd
MainLoop ==
    LtgCreate \/ LtgStart \/ LtgStop \/ LtgRemove \/ Join \/ ReturnToIdle \/ MainInsert
EthNext == Receive \/ EthInterrupt \/ Checkout \/ Checkin \/ MainLoop \/ Timer

EthSpec == EthInit /\ [][EthNext]_ethRxVars

-----------------------------------------------------------------------------
\* The lists, the flags of their entries, the walk and the timer agree.
ListsIntact ==
    /\ EthTypeOK
    /\ Sound(sched, "on") /\ Sound(sched, "off")
    /\ \A b \in Blocks : sched.blk[b].live =>
          b = main.new \/ b \in Found(sched, "on") \cup Found(sched, "off")
    /\ sched.next = Null \/ sched.next \in Found(sched, "on")
    /\ main.pc = "idle" => sched.timer = (sched.on.length > 0)
    /\ isr.pc = "none" => \A b \in Blocks : sched.blk[b].live => sched.blk[b].calls > 0
\* Whatever callbacks do to the list that the handler walks through, both lists
\* stay what their links say: the entry to be visited next is a schedule, none
\* that is finished is left behind, and the timer runs if there is any ("so that
\* we do not break the execution of schedule_handler", wlan_mac_schedule.c:316).
\* Until an interrupt has changed them under an insertion (wlan_mac_dl_list.c:105).
ListsSound == ~torn => ListsIntact

\* Whatever waits has somebody to wake it: new frames the interrupt, free
\* descriptors a queue entry that comes back, whatever the lists are; outside the
\* timer handler, as long as they are sound, taken frames exactly one schedule
\* while the interrupt is off, a started generator its schedule.
ClientsServed ==
    /\ irq = (ring.taken = 0)
    /\ ring.filled > 0 => pending
    /\ ring.free > 0 => pool = 0
    /\ isr.pc = "none" /\ ~torn =>
          /\ Cardinality(Of("eth") \cap Found(sched, "on")) = (IF irq THEN 0 ELSE 1)
          /\ main.pc = "idle" /\ (\E g \in Ltgs : tgs[g] = "started") =>
                Of("ltg") \cap Found(sched, "on") # {}
=============================================================================

------------------------------- MODULE ApTim -------------------------------
(* The beacon template of the AP and the TIM element inside it.  CPU_HIGH   *)
(* keeps the element up to date with the occupancy of its transmit queues   *)
(* (queue_state_change, update_tim_tag_aid, update_tim_tag_all), rewrites   *)
(* the template when the BSS is configured (configure_bss), and shares the  *)
(* one packet buffer with CPU_LOW, which sends it at every TBTT and writes  *)
(* the DTIM fields at the offset it was last told (send_beacon).            *)
(*                                                                          *)
(* Abstractions: a queue is empty or not (module ApStations has the         *)
(* packets); the SSID stands for everything in front of the TIM, by its     *)
(* length; what CPU_HIGH does while it holds the mutex is one step, for     *)
(* CPU_LOW waits for the mutex (TX_FRAME_INFO_FLAGS_WAIT_FOR_LOCK).         *)
EXTENDS Integers, Sequences, FiniteSets, FiniteSetsExt, SequencesExt

CONSTANTS MaxAid,      \* association IDs are 1 .. MaxAid
          ByteBits,    \* bits of an octet of the partial virtual bitmap (8)
          SsidLengths, \* lengths an SSID may have
          Depth,       \* messages the mailbox to CPU_LOW holds
          MaxConfig    \* bound on the configure_bss calls

ASSUME ApTimAssumption ==
    /\ MaxAid \in Nat \ {0} /\ ByteBits \in Nat \ {0}
    /\ SsidLengths \subseteq Nat /\ Depth \in Nat \ {0} /\ MaxConfig \in Nat

Aids == 1 .. MaxAid
MCAST_QID == 0
MANAGEMENT_QID == 1
STATION_ID_TO_QUEUE_ID(x) == x + 1
Queues == {MCAST_QID, MANAGEMENT_QID} \cup {STATION_ID_TO_QUEUE_ID(a) : a \in Aids}
Octet(a) == a \div ByteBits
Bits == 0 .. ByteBits * (Octet(MaxAid) + 1) - 1

VARIABLES
    active,     \* active_network_info # NULL
    ssid,       \* length of the SSID in bss_config
    buffering,  \* gl_dtim_mcast_buffer_enable
    members,    \* AIDs of the associated stations
    occupied,   \* the queues that hold a packet
    tim,        \* the TIM as CPU_HIGH sees and writes it, see TimType
    buf,        \* tx_pkt_buf_state of the beacon buffer
    owner,      \* who holds its mutex between two steps: CPU_LOW or nobody
    mode,       \* CPU_HIGH's gl_beacon_txrx_config.beacon_tx_mode
    hpc,        \* where configure_bss is; "idle": interrupts are enabled
    send,       \* its local send_beacon_config_to_low
    toLow,      \* configurations in the mailbox
    done,       \* TX_BEACON_DONE messages in the other mailbox
    lpc, low,   \* CPU_LOW: sending or not; its copy of the configuration
    configs     \* calls of configure_bss so far, capped by MaxConfig

highVars == <<active, ssid, buffering, members, occupied, mode, hpc, send, configs>>
vars == <<highVars, tim, buf, owner, toLow, done, lpc, low>>

NoOffset == -1

\* present: mgmt_tag_tim_template # NULL; at: the length in front of the tag;
\* length: tx_frame_info->length; tag: header.tag_length; control, bits: data[2],
\* data[3..]; offset: dtim_tag_byte_offset; pending: an update has a schedule ID;
\* event: the scheduler still holds that event.
TimType == [present : BOOLEAN, at : SsidLengths, length : Nat, tag : Nat,
            control : BOOLEAN, bits : SUBSET Bits, offset : SsidLengths \cup {NoOffset},
            pending : BOOLEAN, event : BOOLEAN]
LowConfig == [mode : {"AP", "NONE"}, offset : SsidLengths \cup {NoOffset}]

TypeOK ==
    /\ active \in BOOLEAN /\ ssid \in SsidLengths /\ buffering \in BOOLEAN
    /\ members \subseteq Aids /\ occupied \subseteq Queues /\ tim \in TimType
    /\ buf \in {"HIGH_CTRL", "READY", "LOW_CTRL", "DONE"} /\ owner \in {"NONE", "LOW"}
    /\ mode \in {"AP", "NONE"} /\ send \in BOOLEAN /\ configs \in 0 .. MaxConfig
    /\ hpc \in {"idle", "purge", "template", "tim", "send"}
    /\ toLow \in BoundedSeq(LowConfig, Depth) /\ done \in 0 .. 2
    /\ lpc \in {"idle", "sending"} /\ low \in LowConfig

-----------------------------------------------------------------------------
\* The three functions that write the TIM, as operators on its record t.

CanWriteUnlocked == buf \in {"READY", "HIGH_CTRL", "LOW_CTRL"}
\* The state test comes first and the mutex second; both must succeed.
CanWrite == buf \in {"READY", "HIGH_CTRL"} /\ owner = "NONE"

PostponedNever(t) == t
\* CPU_LOW has the buffer: a full update a quarter of a beacon interval later.
Postponed(t) == [t EXCEPT !.pending = TRUE, !.event = TRUE]

LastAid(mem) == IF mem = {} THEN 0 ELSE Max(mem)

RewrittenFresh(t, mem, occ) ==
    LET queued == {a \in mem : STATION_ID_TO_QUEUE_ID(a) \in occ}
        zeroed == {b \in Bits : Octet(b) \in 1 .. Octet(LastAid(queued))}
        control == ~buffering /\ MCAST_QID \in occ
        tag == 4 + Octet(LastAid(mem))
        header == IF t.present THEN 0 ELSE 2
    IN [t EXCEPT !.present = TRUE, !.pending = FALSE, !.tag = tag, !.control = control,
                 !.bits = (t.bits \ zeroed) \cup queued \cup (IF control THEN {0} ELSE {}),
                 !.length = t.length + header + tag,
                 !.offset = IF t.present THEN t.offset ELSE t.at]
\* Octets 1 .. of the last occupied queue are zeroed on the way, octet 0 and
\* the ones behind are not: there bits are only ever raised.
Rewritten(t, mem, occ) ==
    LET queued == {a \in mem : STATION_ID_TO_QUEUE_ID(a) \in occ}
        zeroed == {b \in Bits : Octet(b) \in 1 .. Octet(LastAid(queued))}
        control == ~buffering /\ MCAST_QID \in occ
        tag == 4 + Octet(LastAid(mem))
        existing == IF t.present THEN t.tag ELSE 0
        header == IF t.present THEN 0 ELSE 2
    IN [t EXCEPT !.present = TRUE, !.pending = FALSE, !.tag = tag, !.control = control,
                 !.bits = (t.bits \ zeroed) \cup queued \cup (IF control THEN {0} ELSE {}),
                 !.length = t.length + header + tag - existing,
                 !.offset = IF t.present THEN t.offset ELSE t.at]

update_tim_tag_all(t, mem, occ, scheduled) ==
    CASE ~active -> t
      [] active /\ ~scheduled /\ t.pending -> t
      [] OTHER -> IF CanWrite THEN Rewritten(t, mem, occ) ELSE Postponed(t)

\* tim_bit_idx is never computed: it is bit 0 of the octet that changes.
update_tim_tag_aid(t, aid, val, mem, occ) ==
    LET bit == {ByteBits * Octet(aid)}
    IN CASE ~active \/ (aid = 0 /\ buffering) \/ t.pending -> t
         [] OTHER ->
              IF ~t.present \/ Octet(aid) + 4 > t.tag
              THEN update_tim_tag_all(t, mem, occ, FALSE)
              ELSE IF ~CanWrite THEN Postponed(t)
              ELSE IF aid = 0
                   THEN [t EXCEPT !.control = val,
                                  !.bits = IF val THEN @ \cup {0} ELSE @]
                   ELSE [t EXCEPT !.bits = IF val THEN @ \cup bit ELSE @ \ bit]

\* The AID is derived with STATION_ID_TO_QUEUE_ID, not with its inverse.
queue_state_change(t, q, val, mem, occ) ==
    IF t.pending THEN t
    ELSE IF ~t.present THEN update_tim_tag_all(t, mem, occ, FALSE)
    ELSE update_tim_tag_aid(t, IF q = MCAST_QID THEN 0 ELSE STATION_ID_TO_QUEUE_ID(q),
                            val, mem, occ)

\* The TIM after queue q, given what was occupied, has become occupied or empty.
Filled(t, q, mem, occ) ==
    IF q \in occ THEN t ELSE queue_state_change(t, q, TRUE, mem, occ \cup {q})
Emptied(t, q, mem, occ) ==
    IF q \in occ THEN queue_state_change(t, q, FALSE, mem, occ \ {q}) ELSE t

-----------------------------------------------------------------------------
\* CPU_HIGH: interrupt handlers, which run when configure_bss does not.

\* A packet is queued: for a member, for the multicast queue or as management.
HighEnqueue ==
    /\ hpc = "idle" /\ active
    /\ \E q \in {MCAST_QID, MANAGEMENT_QID} \cup {STATION_ID_TO_QUEUE_ID(a) : a \in members} :
         /\ q \notin occupied
         /\ occupied' = occupied \cup {q}
         /\ tim' = Filled(tim, q, members, occupied)
    /\ UNCHANGED <<active, ssid, buffering, members, mode, hpc, send, configs, buf, owner,
                   toLow, done, lpc, low>>

\* poll_tx_queues takes the last packet of a queue it polls.
HighDequeue ==
    /\ hpc = "idle" /\ active
    /\ \E q \in occupied \cap ({MCAST_QID, MANAGEMENT_QID}
                               \cup {STATION_ID_TO_QUEUE_ID(a) : a \in members}) :
         /\ tim' = Emptied(tim, q, members, occupied)
         /\ occupied' = occupied \ {q}
    /\ UNCHANGED <<active, ssid, buffering, members, mode, hpc, send, configs, buf, owner,
                   toLow, done, lpc, low>>

\* station_info_add, any ID: the top of the first gap, or one behind the last.
NewAid == LET aboveGap == {a \in members : a > 1 /\ a - 1 \notin members}
          IN IF aboveGap = {} THEN LastAid(members) + 1 ELSE Min(aboveGap) - 1

\* An association request: the station becomes a member, then its response is
\* queued.
HighAssociate ==
    /\ hpc = "idle" /\ active /\ members # Aids
    /\ LET a == NewAid
           q == STATION_ID_TO_QUEUE_ID(a)
       IN /\ members' = members \cup {a}
          /\ tim' = Filled(tim, q, members', occupied)
          /\ occupied' = occupied \cup {q}
    /\ UNCHANGED <<active, ssid, buffering, mode, hpc, send, configs, buf, owner,
                   toLow, done, lpc, low>>

\* A DISASSOC frame: the member goes, its packets stay in the queue.
HighDisassociate ==
    /\ hpc = "idle" /\ active
    /\ \E a \in members : members' = members \ {a}
    /\ UNCHANGED <<active, ssid, buffering, occupied, mode, hpc, send, configs, tim, buf,
                   owner, toLow, done, lpc, low>>

\* deauthenticate_station: a management packet, the queue purged, the member gone.
HighDeauthenticate ==
    /\ hpc = "idle" /\ active
    /\ \E a \in members :
         LET q == STATION_ID_TO_QUEUE_ID(a)
             t == Filled(tim, MANAGEMENT_QID, members, occupied)
         IN /\ tim' = Emptied(t, q, members, occupied \cup {MANAGEMENT_QID})
            /\ occupied' = (occupied \cup {MANAGEMENT_QID}) \ {q}
            /\ members' = members \ {a}
    /\ UNCHANGED <<active, ssid, buffering, mode, hpc, send, configs, buf, owner,
                   toLow, done, lpc, low>>

\* The scheduled update_tim_tag_all; without a BSS it returns before it
\* forgets the schedule ID.
HighScheduledUpdate ==
    /\ hpc = "idle" /\ tim.event
    /\ tim' = update_tim_tag_all([tim EXCEPT !.event = FALSE], members, occupied, TRUE)
    /\ UNCHANGED <<highVars, buf, owner, toLow, done, lpc, low>>

HighBeaconDoneIfOn ==
    /\ hpc = "idle" /\ done > 0
    /\ done' = done - 1
    /\ buf' = IF owner = "NONE" /\ mode = "AP" THEN "READY" ELSE buf
    /\ UNCHANGED <<highVars, tim, owner, toLow, lpc, low>>
\* TX_BEACON_DONE: the buffer becomes READY again, unless CPU_LOW has it.
HighBeaconDone ==
    /\ hpc = "idle" /\ done > 0
    /\ done' = done - 1
    /\ buf' = IF owner = "NONE" THEN "READY" ELSE buf
    /\ UNCHANGED <<highVars, tim, owner, toLow, lpc, low>>

-----------------------------------------------------------------------------
\* CPU_HIGH: configure_bss, with interrupts stopped.

Begin(pc) == /\ hpc = "idle" /\ configs < MaxConfig
             /\ configs' = configs + 1 /\ hpc' = pc

ConfigUnchanged == UNCHANGED <<buffering, occupied, tim, owner, toLow, done, lpc, low>>

\* A new BSS with a beacon interval: no members, then the template.
ConfigureStart ==
    /\ Begin("template") /\ ~active
    /\ active' = TRUE /\ ssid' \in SsidLengths /\ mode' = "AP" /\ send' = TRUE
    /\ UNCHANGED <<members, buf>> /\ ConfigUnchanged

\* BSS_FIELD_MASK_SSID alone: the template changes, CPU_LOW is not told.
ConfigureSsid ==
    /\ Begin("template") /\ active
    /\ ssid' \in SsidLengths /\ send' = FALSE
    /\ UNCHANGED <<active, members, mode, buf>> /\ ConfigUnchanged

\* BSS_FIELD_MASK_BEACON_INTERVAL: without one the state of the buffer is
\* overwritten, whoever holds it.
ConfigureInterval ==
    /\ Begin("template") /\ active
    /\ mode' \in {"AP", "NONE"} /\ send' = TRUE
    /\ buf' = IF mode' = "NONE" THEN "HIGH_CTRL" ELSE buf
    /\ UNCHANGED <<active, ssid, members>> /\ ConfigUnchanged

\* BSS_FIELD_MASK_DTIM_PERIOD alone.
ConfigureDtim ==
    /\ Begin("send") /\ active
    /\ UNCHANGED <<active, ssid, members, mode, send, buf>> /\ ConfigUnchanged

\* bss_config = NULL: the queues are purged first, while the BSS still exists.
ConfigureStop ==
    /\ Begin("purge") /\ active
    /\ UNCHANGED <<active, ssid, members, mode, send, buf>> /\ ConfigUnchanged

\* The queues purge_all_data_tx_queue empties; MANAGEMENT_QID is not one of them.
ToPurge == occupied \cap ({MCAST_QID} \cup {STATION_ID_TO_QUEUE_ID(a) : a \in members})

ConfigurePurge ==
    /\ hpc = "purge" /\ ToPurge # {}
    /\ LET q == Min(ToPurge)
       IN /\ tim' = Emptied(tim, q, members, occupied)
          /\ occupied' = occupied \ {q}
    /\ UNCHANGED <<active, ssid, buffering, members, mode, hpc, send, configs, buf, owner,
                   toLow, done, lpc, low>>

ConfigureTerminate ==
    /\ hpc = "purge" /\ ToPurge = {} /\ Len(toLow) < Depth
    /\ active' = FALSE /\ members' = {} /\ buf' = "HIGH_CTRL" /\ mode' = "NONE"
    /\ toLow' = Append(toLow, [mode |-> "NONE", offset |-> tim.offset])
    /\ hpc' = "idle"
    /\ UNCHANGED <<ssid, buffering, occupied, send, configs, tim, owner, done, lpc, low>>

\* while (wlan_mac_high_configure_beacon_tx_template(...) != 0) {}: what lies
\* behind the new template is what was in the buffer there before.
ConfigureTemplate ==
    /\ hpc = "template" /\ owner = "NONE"
    /\ \E leftover \in IF tim.at = ssid THEN {tim.bits} ELSE SUBSET Bits :
         tim' = [tim EXCEPT !.at = ssid, !.length = ssid, !.bits = leftover]
    /\ buf' = "READY" /\ hpc' = "tim"
    /\ UNCHANGED <<active, ssid, buffering, members, occupied, mode, send, configs, owner,
                   toLow, done, lpc, low>>

\* mgmt_tag_tim_template = NULL and the TIM is added; CPU_LOW may have taken the
\* buffer since.
ConfigureTim ==
    /\ hpc = "tim"
    /\ tim' = update_tim_tag_all([tim EXCEPT !.present = FALSE], members, occupied, FALSE)
    /\ hpc' = IF send THEN "send" ELSE "idle"
    /\ UNCHANGED <<active, ssid, buffering, members, occupied, mode, send, configs, buf,
                   owner, toLow, done, lpc, low>>

\* wlan_mac_high_config_txrx_beacon(&gl_beacon_txrx_config)
ConfigureSend ==
    /\ hpc = "send" /\ Len(toLow) < Depth
    /\ toLow' = Append(toLow, [mode |-> mode, offset |-> tim.offset])
    /\ hpc' = "idle"
    /\ UNCHANGED <<active, ssid, buffering, members, occupied, mode, send, configs, tim, buf,
                   owner, done, lpc, low>>

-----------------------------------------------------------------------------
\* CPU_LOW.

\* configure_beacon_txrx, from the main loop or from the loop in send_beacon.
LowConfigure ==
    /\ toLow # <<>>
    /\ low' = Head(toLow) /\ toLow' = Tail(toLow)
    /\ UNCHANGED <<highVars, tim, buf, owner, done, lpc>>

\* A TBTT: the lock succeeds (CPU_HIGH holds it only within a step), and the
\* buffer is READY: the DTIM fields are written and the controller is started.
LowBeacon ==
    /\ lpc = "idle" /\ low.mode = "AP" /\ buf = "READY"
    /\ owner' = "LOW" /\ buf' = "LOW_CTRL" /\ lpc' = "sending"
    /\ \E waiting \in IF buffering THEN BOOLEAN ELSE {FALSE} :
         tim' = IF low.offset # tim.at THEN tim
                ELSE [tim EXCEPT !.control = waiting,
                        !.bits = IF waiting THEN @ \cup {0} ELSE @ \ {0}]
    /\ UNCHANGED <<highVars, toLow, done, low>>

\* A TBTT with the buffer in CPU_HIGH's hands: the lock succeeded, the state is
\* not READY, and the error return leaves the mutex locked.
LowBeaconNotReady ==
    /\ lpc = "idle" /\ low.mode = "AP" /\ buf = "HIGH_CTRL"
    /\ owner' = "LOW"
    /\ UNCHANGED <<highVars, tim, buf, toLow, done, lpc, low>>

\* A reception reset the controller: this beacon is skipped.
LowBeaconCancelled ==
    /\ lpc = "sending"
    /\ buf' = "READY" /\ owner' = "NONE" /\ lpc' = "idle"
    /\ UNCHANGED <<highVars, tim, toLow, done, low>>

LowBeaconSent ==
    /\ lpc = "sending" /\ done < 2
    /\ buf' = "DONE" /\ owner' = "NONE" /\ lpc' = "idle" /\ done' = done + 1
    /\ UNCHANGED <<highVars, tim, toLow, low>>

-----------------------------------------------------------------------------
Init ==
    /\ active = FALSE /\ members = {} /\ occupied = {} /\ mode = "NONE"
    /\ ssid \in SsidLengths /\ buffering \in BOOLEAN
    /\ tim = [present |-> FALSE, at |-> ssid, length |-> ssid, tag |-> 0,
              control |-> FALSE, bits |-> {}, offset |-> NoOffset,
              pending |-> FALSE, event |-> FALSE]
    /\ buf = "HIGH_CTRL" /\ owner = "NONE" /\ hpc = "idle" /\ send = FALSE
    /\ toLow = <<>> /\ done = 0 /\ configs = 0
    /\ lpc = "idle" /\ low = [mode |-> "NONE", offset |-> NoOffset]

HighHandlers == HighEnqueue \/ HighDequeue \/ HighAssociate \/ HighDisassociate
                \/ HighDeauthenticate \/ HighScheduledUpdate \/ HighBeaconDone
ConfigureBegins == ConfigureStart \/ ConfigureSsid \/ ConfigureInterval \/ ConfigureDtim
                   \/ ConfigureStop
ConfigureRuns == ConfigurePurge \/ ConfigureTerminate \/ ConfigureTemplate \/ ConfigureTim
                 \/ ConfigureSend
LowSteps == LowConfigure \/ LowBeacon \/ LowBeaconNotReady \/ LowBeaconCancelled
            \/ LowBeaconSent

Next == HighHandlers \/ ConfigureBegins \/ ConfigureRuns \/ LowSteps

\* Neither CPU stops: configure_bss goes on (its spinning lock meets the buffer
\* free, for a beacon takes a fraction of the interval), CPU_HIGH takes its
\* interrupts, the scheduler fires, CPU_LOW polls its mailbox and a beacon ends.
Fairness ==
    /\ WF_vars(ConfigureRuns) /\ SF_vars(ConfigureTemplate) /\ WF_vars(HighBeaconDone) /\ WF_vars(HighScheduledUpdate)
    /\ WF_vars(LowConfigure) /\ WF_vars(LowBeaconCancelled \/ LowBeaconSent)

Spec == Init /\ [][Next]_vars /\ Fairness
-----------------------------------------------------------------------------
\* The length of the frame is that of the template and of the TIM in it, however
\* often the element was added, enlarged and shrunk (update_tim_tag_all).
FrameLengthCounted ==
    /\ TypeOK
    /\ tim.length = tim.at + (IF tim.present /\ hpc # "tim" THEN 2 + tim.tag ELSE 0)

\* An active BSS has a TIM in its beacon, or an update that will add it:
\* queue_state_change does nothing more than that while an update is pending.
TimOrPending == active /\ hpc = "idle" => tim.present \/ tim.pending

\* CPU_HIGH does not change the frame while CPU_LOW sends it: the update is
\* postponed instead (update_tim_tag_aid, lines 452-467).
SentUnchanged == [][lpc = "sending" /\ lpc' = "sending" =>
                      /\ tim'.bits = tim.bits /\ tim'.tag = tim.tag
                      /\ tim'.length = tim.length]_vars

\* A beacon that was sent is made READY again or given up by CPU_HIGH, across
\* reconfigurations and TX_BEACON_DONE messages that find the mutex taken.
BeaconComesBack == (buf = "DONE") ~> (buf # "DONE")

\* While an update is said to be scheduled, the scheduler has it: "let that
\* execution clean up any pending TIM state changes" (lines 525-527).
PendingIsScheduled == tim.pending => tim.event

\* "block for now until it unlocks.  This will guarantee that beacon are updated
\* before the function returns" (configure_bss, lines 2238-2240).
ConfigureReturns == (hpc = "template") ~> (hpc # "template")

\* With no update pending, the bit of an associated station says whether its
\* queue holds a packet (update_tim_tag_all, line 558; 802.11 TIM).
TimReflectsQueues ==
    active /\ hpc = "idle" /\ tim.present /\ ~tim.pending =>
        \A a \in members : a \in tim.bits <=> STATION_ID_TO_QUEUE_ID(a) \in occupied

\* CPU_LOW writes the DTIM fields into the TIM, whose place it was told.
LowKnowsTim ==
    lpc = "sending" /\ tim.present /\ hpc # "tim" /\ low.offset # NoOffset
        => low.offset = tim.at
=============================================================================

------------------------------ MODULE StaJoin ------------------------------
(* How a station finds, joins and leaves a BSS: the join state machine      *)
(* (wlan_mac_sta_join.c), the scan (wlan_mac_scan.c), the schedules both    *)
(* keep, the list of known networks (wlan_mac_network_info.c) and           *)
(* configure_bss of wlan_mac_sta.c.                                         *)
(*                                                                          *)
(* Timer, receive and UART handlers are interrupts: each is one step.  The  *)
(* wlan_exp commands run in the main loop with interrupts enabled: what one *)
(* of them that starts a scan or a join still has to do is kept in main, a  *)
(* step at a time, and the interrupts come in between.                      *)
(*                                                                          *)
(* Abstractions: a network is its BSSID, which has one channel (frames and  *)
(* commands give it rightly) and one SSID, which others may share; the age  *)
(* of an entry is a choice; of the data queue only whose data it holds; the *)
(* member list and the AID are left out (the AP is the only member).        *)
(*                                                                          *)
(* The last four variables are a history: they steer nothing.               *)
EXTENDS Integers, Sequences, FiniteSets, FiniteSetsExt, SequencesExt, Selection

CONSTANTS Nets,     \* the networks
          SsidOf,   \* the SSID of each
          Slots,    \* the network_info structs
          MaxId     \* schedules of one kind that are listed together

None == "none"
UserSsid == "user"      \* the SSID the user put in gl_scan_parameters

ASSUME StaJoinAssumption ==
    /\ IsFiniteSet(Nets) /\ IsFiniteSet(Slots) /\ MaxId \in Nat \ {0}
    /\ None \notin Nets \cup Slots
    /\ DOMAIN SsidOf = Nets

Kinds == {"search", "attempt", "scan", "probe"}
\* By SSID; by SSID with the BSSID given but no channel; with both given.
Target == [net : Nets, by : {"ssid", "bssid", "both"}]
NoTarget == [net |-> None, by |-> "none"]

VARIABLES
    join,     \* join_state
    auth,     \* authentication_state
    attempt,  \* attempt_network_info
    active,   \* active_network_info
    target,   \* gl_join_parameters
    pause,    \* pause_data_queue
    scan,     \* [state |-> scan_state, looped |-> num_full_scans >= 0]
    channel,  \* of the radio; None when no network of Nets is on it
    ssid,     \* gl_scan_parameters.ssid: a network stands for its SSID
    passive,  \* gl_scan_parameters.probe_tx_interval_usec = 0
    saved,    \* scan_ssid_save
    rec,      \* search_sched_id, attempt_sched_id, scan_sched_id, probe_sched_id; 0: none
    listed,   \* the schedules of each kind in the enabled list
    info,     \* the network_info structs: BSSID and NETWORK_FLAGS_KEEP
    list,     \* network_info_list
    free,     \* network_info_free
    asked,    \* has the AP of the attempt heard a request that it has yet to answer?
    data,     \* the BSS whose data is in the unicast queue
    main,     \* what is left of the command in the main loop
    sought,   \* the network the attempt was begun for; None once its entry is dropped
    scanned,  \* has a scan begun during the attempt?
    tuned,    \* was the BSS the node is in configured during the scan?
    divided   \* has an interrupt changed the join or the scan under a command?

vars == <<join, auth, attempt, active, target, pause, scan, channel, ssid, passive,
          saved, rec, listed, info, list, free, asked, data, main, sought, scanned,
          tuned, divided>>

\* The state as a record t, on which the functions of the code are operators.
Now == [join |-> join, auth |-> auth, attempt |-> attempt, active |-> active,
        target |-> target, pause |-> pause, scan |-> scan, channel |-> channel,
        ssid |-> ssid, passive |-> passive, saved |-> saved, rec |-> rec,
        listed |-> listed, info |-> info, list |-> list, free |-> free,
        asked |-> asked, data |-> data,
        sought |-> sought, scanned |-> scanned, tuned |-> tuned]

BssidOf(t, s) == IF s = None THEN None ELSE t.info[s].bssid
Settled(t) ==
    [t EXCEPT !.sought = IF BssidOf(t, t.attempt) = t.sought THEN t.sought ELSE None]

Become(t) ==
    \E u \in {Settled(t)} :
        /\ join' = u.join /\ auth' = u.auth /\ attempt' = u.attempt /\ active' = u.active
        /\ target' = u.target /\ pause' = u.pause /\ scan' = u.scan
        /\ channel' = u.channel /\ ssid' = u.ssid /\ passive' = u.passive
        /\ saved' = u.saved /\ rec' = u.rec /\ listed' = u.listed /\ info' = u.info
        /\ list' = u.list /\ free' = u.free /\ asked' = u.asked /\ data' = u.data
        /\ sought' = u.sought /\ scanned' = u.scanned /\ tuned' = u.tuned

Idle == [state |-> "IDLE", looped |-> FALSE]
Unused == [bssid |-> None, keep |-> FALSE]

Init ==
    /\ join = "IDLE" /\ auth = "UNAUTHENTICATED" /\ attempt = None /\ active = None
    /\ target = NoTarget /\ pause = TRUE /\ scan = Idle /\ channel = None
    /\ ssid = UserSsid /\ passive = FALSE /\ saved = None
    /\ rec = [k \in Kinds |-> 0] /\ listed = [k \in Kinds |-> {}]
    /\ info = [s \in Slots |-> Unused]
    /\ list = <<>> /\ free = SetToSeq(Slots)
    /\ asked = FALSE /\ data = None /\ main = <<>>
    /\ sought = None /\ scanned = FALSE /\ tuned = FALSE /\ divided = FALSE

-----------------------------------------------------------------------------
\* wlan_mac_schedule.c, with IDs counted per kind

Schedule(t, k) ==
    LET id == Min((1 .. MaxId + 1) \ t.listed[k])
    IN [t EXCEPT !.rec[k] = id, !.listed[k] = @ \cup {id}]
Unschedule(t, k) == [t EXCEPT !.listed[k] = @ \ {t.rec[k]}, !.rec[k] = 0]

-----------------------------------------------------------------------------
\* wlan_mac_network_info.c

Found(t, n) == {s \in Range(t.list) : t.info[s].bssid = n}
Droppable(t) == Selected(t.list, {s \in Slots : ~t.info[s].keep})
SlotFor(t, n) ==
    IF Found(t, n) # {} THEN CHOOSE s \in Found(t, n) : TRUE
    ELSE IF t.free # <<>> THEN Head(t.free)
    ELSE IF Droppable(t) # <<>> THEN Head(Droppable(t))
    ELSE None
\* The entry of a network, made or moved to the end of the list.
Enter(t, n) ==
    LET s == SlotFor(t, n)
        Without(l) == Selected(l, Slots \ {s})
    IN IF s = None THEN t
       ELSE [t EXCEPT !.list = Append(Without(@), s), !.free = Without(@),
                      !.info[s] = IF Found(t, n) # {} THEN @
                                  ELSE [bssid |-> n, keep |-> FALSE]]
Drop(t, s) ==
    [t EXCEPT !.info[s] = Unused, !.list = Selected(@, Slots \ {s}), !.free = Append(@, s)]
DropAll(t) ==
    LET dropped == Droppable(t)
    IN [t EXCEPT !.info = [s \in Slots |-> IF s \in Range(dropped) THEN Unused ELSE @[s]],
                 !.list = Selected(@, {s \in Slots : t.info[s].keep}),
                 !.free = @ \o dropped]

-----------------------------------------------------------------------------
\* wlan_mac_scan.c and process_scan_state_change

\* Mutant: the probe requests go on.
ScanStopProbing(t) ==
    IF t.scan.state = "IDLE" THEN t
    ELSE [Unschedule(t, "scan") EXCEPT !.scan = Idle, !.pause = FALSE, !.tuned = FALSE,
             !.channel = IF t.active = None THEN @ ELSE BssidOf(t, t.active)]
ScanStop(t) ==
    LET u == Unschedule(Unschedule(t, "scan"), "probe")
    IN IF t.scan.state = "IDLE" THEN t
       ELSE [u EXCEPT !.scan = Idle, !.pause = FALSE, !.tuned = FALSE,
                      !.channel = IF t.active = None THEN @ ELSE BssidOf(t, t.active)]
ScanBegin(t) ==
    [t EXCEPT !.scan.state = "RUNNING", !.pause = TRUE,
              !.scanned = @ \/ t.join = "ATTEMPTING"]
\* The first channel after a start is that of index 0.
Hop(t, c) == [Unschedule(t, "probe") EXCEPT !.channel = c, !.scan.looped = TRUE]
ScheduleProbe(t) == IF t.passive THEN t ELSE Schedule(t, "probe")
ScheduleScan(t) == IF t.rec["scan"] = 0 THEN Schedule(t, "scan") ELSE t
Transition(t, c) == ScheduleScan(ScheduleProbe(Hop(t, c)))
ScanStart(t, c) == IF t.scan.state = "IDLE" THEN Transition(ScanBegin(t), c) ELSE t

-----------------------------------------------------------------------------
\* configure_bss and the join state machine

ReturnToIdle(t) ==
    [Unschedule(Unschedule(ScanStop(t), "search"), "attempt") EXCEPT
        !.join = "IDLE", !.auth = "UNAUTHENTICATED", !.attempt = None,
        !.sought = None, !.scanned = FALSE, !.asked = FALSE,
        !.ssid = IF t.saved = None THEN @ ELSE t.saved, !.saved = None]
StopJoin(t) == IF t.join = "IDLE" THEN t ELSE ReturnToIdle(t)

\* Mutant: the KEEP flag of the network that is left stays up.
LeaveKept(t) == [t EXCEPT !.active = None, !.data = None, !.pause = TRUE]
\* Mutant: the queue is not purged.
LeaveUnpurged(t) ==
    IF t.active = None THEN [t EXCEPT !.pause = TRUE]
    ELSE [t EXCEPT !.info[t.active].keep = FALSE, !.active = None, !.pause = TRUE]
Leave(t) ==
    LET u == [t EXCEPT !.pause = TRUE]
    IN IF t.active = None THEN u
       ELSE [u EXCEPT !.info[t.active].keep = FALSE, !.active = None, !.data = None]

Tune(t) == [t EXCEPT !.channel = BssidOf(t, t.active), !.pause = FALSE,
                     !.tuned = t.scan.state = "RUNNING"]
\* configure_bss; without a BSSID it only leaves the BSS.
Adopt(t, n) ==
    LET u == ScanStop(StopJoin(Leave(t)))
        v == Enter(u, n)
        s == SlotFor(u, n)
    IN IF n = None THEN Leave(t)
       ELSE IF t.active # None /\ BssidOf(t, t.active) = n THEN Tune(t)
       ELSE IF s = None THEN u
       ELSE Tune([v EXCEPT !.active = s, !.info[s].keep = TRUE])

Disassociate(t) ==
    IF t.active = None THEN t
    ELSE Leave([t EXCEPT !.channel = BssidOf(t, t.active)])

\* transmit_join_auth_req, transmit_join_assoc_req: heard on the channel of the AP.
Ask(t) ==
    LET n == BssidOf(t, t.attempt)
    IN IF n # None /\ t.channel = n THEN [t EXCEPT !.asked = TRUE] ELSE t
Poll(t) ==
    IF t.attempt = None THEN ReturnToIdle(t)
    ELSE IF t.join # "ATTEMPTING" THEN t
    ELSE IF t.auth = "ASSOCIATED" THEN ReturnToIdle(Adopt(t, BssidOf(t, t.attempt)))
    ELSE Ask(t)

TargetBssid(t) == IF t.target.by = "ssid" THEN None ELSE t.target.net
\* Mutant: the radio stays where the scan has left it.
BeginAttemptUntuned(t) ==
    IF t.attempt = None THEN t
    ELSE [Disassociate(t) EXCEPT !.join = "ATTEMPTING", !.pause = TRUE]
\* start_join_attempt, up to its first poll.
BeginAttempt(t) ==
    LET u == [t EXCEPT !.join = "ATTEMPTING"]
        v == [Disassociate(u) EXCEPT !.pause = TRUE]
    IN IF t.attempt = None THEN t
       ELSE IF t.active # None /\ TargetBssid(t) = BssidOf(t, t.active) THEN ReturnToIdle(u)
       ELSE [v EXCEPT !.channel = BssidOf(v, v.attempt)]
StartAttempt(t) ==
    LET u == BeginAttempt(t)
    IN IF u.join = "ATTEMPTING" THEN Schedule(Poll(u), "attempt") ELSE u

BeginSearch(t) == [t EXCEPT !.join = "SEARCHING", !.saved = t.ssid, !.ssid = t.target.net]
\* wlan_mac_sta_join, as far as the first step that interrupts can divide.
Prepare(t) ==
    LET u == StopJoin(t)
        v == Enter(u, t.target.net)
        s == SlotFor(u, t.target.net)
    IN IF t.target.by # "both" THEN BeginSearch(u)
       ELSE ScanStop([v EXCEPT !.attempt = s, !.sought = BssidOf(v, s)])

-----------------------------------------------------------------------------
\* The main loop

\* Do step x of a command.
Do(x, t, c) ==
    CASE x = "begin scan" -> ScanBegin(t)
      [] x = "hop" -> Hop(t, c)
      [] x = "probe" -> ScheduleProbe(t)
      [] x \in {"search", "attempt"} -> Schedule(t, x)
      [] x = "scan" -> ScheduleScan(t)
      [] x = "begin attempt" -> BeginAttempt(t)
      [] x = "poll" -> Poll(t)

ScanSteps(t) ==
    IF t.scan.state = "IDLE" THEN <<"begin scan", "hop", "probe", "scan">> ELSE <<>>
AttemptSteps == <<"begin attempt", "poll", "attempt">>

MainStep ==
    /\ main # <<>>
    /\ \E c \in Nets \cup {None} : Become(Do(Head(main), Now, c))
    /\ main' = IF Head(main) = "begin attempt" /\ join' # "ATTEMPTING" THEN <<>>
               ELSE Tail(main)
    /\ UNCHANGED divided

Command(t, steps) == main = <<>> /\ Become(t) /\ main' = steps /\ UNCHANGED divided

HostJoin(p) ==
    LET t == Prepare([Now EXCEPT !.target = p])
    IN Command(t, IF p.by = "both" THEN AttemptSteps ELSE Append(ScanSteps(t), "search"))
HostJoinNone == Command(ReturnToIdle([Now EXCEPT !.target = NoTarget]), <<>>)
HostScan == active = None /\ Command(Now, ScanSteps(Now))
HostScanStop == Command(ScanStop(Now), <<>>)
\* A scan is stopped, the parameters are set, and it is started again.
HostScanParam ==
    \E p \in BOOLEAN, name \in {ssid, UserSsid} :
        LET t == [ScanStop(Now) EXCEPT !.ssid = name, !.passive = p]
        IN Command(t, IF scan.state = "IDLE" THEN <<>> ELSE ScanSteps(t))
HostDisassociate == Command(Disassociate(ScanStop(StopJoin(Now))), <<>>)
HostConfigure(n) == Command(Adopt(Now, n), <<>>)
HostConfigureNone == Command(Leave(Now), <<>>)
HostReset == Command(Leave(Disassociate(ReturnToIdle(Now))), <<>>)
HostResetNetworks == Command(DropAll(Now), <<>>)

-----------------------------------------------------------------------------
\* Interrupts

\* What the rest of a command relies on is changed by an interrupt that moves or
\* completes the join, and by the UART menu, which starts and stops joins and scans.
Interrupt(t) ==
    /\ Become(t) /\ UNCHANGED main
    /\ divided' = (divided \/ (main # <<>> /\ (t.join # join \/ t.auth = "ASSOCIATED")))
Menu(t) == Become(t) /\ UNCHANGED main /\ divided' = (divided \/ main # <<>>)

\* The UART menu: <Enter> after an SSID (its 'j' has stopped the scan), <Esc>, 's'.
UartJoin(n) ==
    \E c \in Nets \cup {None} :
        LET p == [net |-> n, by |-> "ssid"]
        IN Menu(Schedule(ScanStart(Prepare([ScanStop(Now) EXCEPT !.target = p]), c),
                         "search"))
UartEsc == join # "IDLE" /\ Menu(ReturnToIdle(Now))
UartScan ==
    IF scan.state # "IDLE" THEN Menu(ScanStop(Now))
    ELSE \E c \in Nets \cup {None} : Menu(ScanStart([Now EXCEPT !.ssid = UserSsid], c))

\* Mutant: any network will do.
MatchAny(t) == Range(t.list)
\* The network heard last of those with the SSID, whatever BSSID was given.
Match(t) ==
    LET same == Selected(t.list, {s \in Range(t.list) :
                                      SsidOf[t.info[s].bssid] = SsidOf[t.target.net]})
    IN IF same = <<>> THEN {} ELSE {Last(same)}
SearchPoll ==
    /\ listed["search"] # {}
    /\ join = "SEARCHING" /\ scan.looped
    /\ \E s \in Match(Now) :
           Interrupt(StartAttempt([ReturnToIdle(Now) EXCEPT
                                       !.attempt = s, !.sought = BssidOf(Now, s)]))
AttemptPoll == listed["attempt"] # {} /\ Interrupt(Poll(Now))
ScanTransition ==
    listed["scan"] # {} /\ \E c \in Nets \cup {None} : Interrupt(Transition(Now, c))

Beacon(n) == Interrupt(Enter(Now, n))

\* Answers may come late, twice or unasked.
Answered(n) == [Now EXCEPT !.asked = @ /\ BssidOf(Now, attempt) # n]

Advance(t, n, from, to) ==
    IF Found(t, n) # {} /\ t.attempt # None /\ BssidOf(t, t.attempt) = n /\ t.auth = from
    THEN Poll([t EXCEPT !.auth = to]) ELSE t
AuthResponse(n) ==
    Interrupt(Advance(Answered(n), n, "UNAUTHENTICATED", "AUTHENTICATED"))
AssocResponse(n) ==
    Interrupt(Advance(Enter(Answered(n), n), n, "AUTHENTICATED", "ASSOCIATED"))
\* A refused association, an unknown authentication algorithm.
Refuse(t, n) ==
    IF Found(t, n) # {} /\ t.join # "IDLE" /\ t.attempt # None /\ BssidOf(t, t.attempt) = n
    THEN ReturnToIdle(t) ELSE t
AuthRefused(n) == Interrupt(Refuse(Answered(n), n))
AssocRefused(n) == Interrupt(Refuse(Enter(Answered(n), n), n))
Lost == asked /\ Interrupt([Now EXCEPT !.asked = FALSE])

Deauth(n) ==
    /\ active # None /\ BssidOf(Now, active) = n
    /\ Interrupt(Leave(StopJoin(Now)))

\* network_info_timestamp_check ends with the first entry that it drops.
TimestampCheck ==
    /\ Droppable(Now) # <<>>
    /\ Interrupt(Drop(Now, Head(Droppable(Now))))

Enqueue == active # None /\ Interrupt([Now EXCEPT !.data = BssidOf(Now, active)])
Dequeue == data # None /\ ~pause /\ Interrupt([Now EXCEPT !.data = None])

-----------------------------------------------------------------------------

Host ==
    \/ HostJoinNone \/ HostScan \/ HostScanStop \/ HostScanParam \/ HostDisassociate
    \/ HostConfigureNone \/ HostReset \/ HostResetNetworks
    \/ \E p \in Target : HostJoin(p)
    \/ \E n \in Nets : HostConfigure(n)
Interrupts ==
    \/ UartEsc \/ UartScan \/ SearchPoll \/ AttemptPoll \/ ScanTransition
    \/ Lost \/ TimestampCheck \/ Enqueue \/ Dequeue
    \/ \E n \in Nets :
           \/ UartJoin(n) \/ Beacon(n) \/ Deauth(n)
           \/ AuthResponse(n) \/ AssocResponse(n) \/ AuthRefused(n) \/ AssocRefused(n)
Next == MainStep \/ Host \/ Interrupts

Spec == Init /\ [][Next]_vars
\* The main loop runs, the timer fires, and an AP that is asked again and again
\* is heard in the end.  WF_vars(MainStep) /\ WF_vars(AttemptPoll) is written out
\* (ENABLED costs TLC minutes here); an answer must come if it is due again and again.
PollDue == listed["attempt"] # {} /\ Poll(Now) # Now
AnswerDue(n, state) == asked /\ BssidOf(Now, attempt) = n /\ auth = state
FairSpec ==
    /\ Spec
    /\ []<>(main = <<>>) \/ []<><<MainStep>>_vars
    /\ []<>~PollDue \/ []<><<AttemptPoll>>_vars
    /\ \A n \in Nets :
           /\ <>[]~AnswerDue(n, "UNAUTHENTICATED") \/ []<><<AuthResponse(n)>>_vars
           /\ <>[]~AnswerDue(n, "AUTHENTICATED") \/ []<><<AssocResponse(n)>>_vars

-----------------------------------------------------------------------------

\* The variables stay in their domains, no kind has more than MaxId schedules,
\* and each struct is in one of the lists.
TypeOK ==
    /\ join \in {"IDLE", "SEARCHING", "ATTEMPTING"}
    /\ auth \in {"UNAUTHENTICATED", "AUTHENTICATED"}
    /\ {attempt, active} \subseteq Slots \cup {None}
    /\ target \in Target \cup {NoTarget} /\ pause \in BOOLEAN
    /\ scan \in [state : {"IDLE", "RUNNING"}, looped : BOOLEAN]
    /\ {channel, data} \subseteq Nets \cup {None}
    /\ {passive, asked, scanned, tuned, divided} \subseteq BOOLEAN
    /\ sought \in Nets \cup {None}
    /\ ssid \in Nets \cup {UserSsid} /\ saved \in Nets \cup {UserSsid, None}
    /\ \A k \in Kinds : rec[k] \in 0 .. MaxId /\ listed[k] \subseteq 1 .. MaxId
    /\ info \in [Slots -> [bssid : Nets \cup {None}, keep : BOOLEAN]]
    /\ IsInjective(list \o free) /\ Range(list \o free) = Slots

\* Between commands a poll or a scan step is scheduled exactly while the state it
\* serves lasts, once, and its ID is recorded, so that it can be stopped (a passive
\* scan sends no probe requests); the SSID that a search borrows from the scan is
\* given back however it ends.  The cores of this property and the next say it of
\* every state, which fails: MCStaJoinDivided.cfg, MCStaJoinTuned.cfg.
SchedulesExact ==
    main = <<>> =>
        /\ \A k \in Kinds : listed[k] = {rec[k]} \ {0}
        /\ (join = "SEARCHING") <=> (rec["search"] # 0)
        /\ (join = "ATTEMPTING") <=> (rec["attempt"] # 0)
        /\ (scan.state = "RUNNING") <=> (rec["scan"] # 0)
        /\ (scan.state = "RUNNING" /\ ~passive) <=> (rec["probe"] # 0)
        /\ saved = None => ssid = UserSsid
SchedulesOwned == ~divided => SchedulesExact

\* Data is dequeued only towards the BSS it was queued for and only while the
\* radio is on its channel, scans and joins included; left out is the rest of a
\* scan during which that BSS was configured.
DataHeard ==
    data # None =>
        /\ active # None /\ BssidOf(Now, active) = data
        /\ pause \/ channel = data
DataOnChannel == ~divided => DataHeard \/ (tuned /\ BssidOf(Now, active) = data)

\* The only entry that the framework may not reclaim is that of the BSS the
\* node is in, and it is in the list.
ActiveKept ==
    ~divided =>
        /\ TypeOK
        /\ {s \in Slots : info[s].keep} = {active} \ {None}
        /\ {active} \ {None} \subseteq Range(list)

\* A join ends in a network with the SSID that was asked for, and in the very
\* network if its channel was given too; left out are attempts whose entry was
\* dropped or reused meanwhile.
JoinsRequested ==
    [][/\ ~divided' /\ active' # active /\ active' # None
       /\ attempt # None /\ info'[attempt].bssid = sought
       /\ \E n \in Nets : AssocResponse(n)
       => /\ SsidOf[info'[active'].bssid] = SsidOf[target.net]
          /\ target.by = "both" => info'[active'].bssid = target.net]_vars

\* With an AP that answers, an attempt ends although frames are lost, unless a
\* scan takes the radio away or its entry is dropped.
JoinEnds ==
    join = "ATTEMPTING"
    ~> join # "ATTEMPTING" \/ scanned \/ sought = None \/ divided

-----------------------------------------------------------------------------
(* The invariant behind the safety properties.  Its parts speak of a state  *)
(* t and of the kinds P whose schedule the command in the main loop has yet *)
(* to start; so they say of each function of the code what it may be called *)
(* with and what it leaves.                                                 *)

JoinStates == {"IDLE", "SEARCHING", "ATTEMPTING"}
AuthStates == {"UNAUTHENTICATED", "AUTHENTICATED", "ASSOCIATED"}
ScanType == [state : {"IDLE", "RUNNING"}, looped : BOOLEAN]
RecType == [Kinds -> 0 .. MaxId]
ListedType == [Kinds -> SUBSET (1 .. MaxId)]
InfoType == [Slots -> [bssid : Nets \cup {None}, keep : BOOLEAN]]
StateType ==
    [join : JoinStates, auth : AuthStates, attempt : Slots \cup {None},
     active : Slots \cup {None}, target : Target \cup {NoTarget}, pause : BOOLEAN,
     scan : ScanType, channel : Nets \cup {None}, ssid : Nets \cup {UserSsid},
     passive : BOOLEAN, saved : {UserSsid, None}, rec : RecType, listed : ListedType,
     info : InfoType, list : Seq(Slots), free : Seq(Slots), asked : BOOLEAN,
     data : Nets \cup {None}, sought : Nets \cup {None}, scanned : BOOLEAN,
     tuned : BOOLEAN]

\* The schedules of a scan: a passive one has no probe.
ScanKinds == {"scan", "probe"}
Scanning(t) == {k \in ScanKinds : k = "probe" => ~t.passive}
Due(t, k, P) == t.rec[k] # 0 \/ k \in P

\* Each schedule is listed once, under the recorded ID, while the scan lasts.
Scheduled(t, P) ==
    /\ \A k \in Kinds : t.listed[k] = {t.rec[k]} \ {0}
    /\ \A k \in P : t.rec[k] = 0
    /\ \A k \in ScanKinds :
           (t.scan.state = "RUNNING" /\ k \in Scanning(t)) <=> Due(t, k, P)

\* Each struct is in one list; no two entries are of one network; the BSS the node
\* is in is the only one that is kept.
Kept(t) ==
    /\ IsInjective(t.list) /\ IsInjective(t.free)
    /\ Range(t.list) \cap Range(t.free) = {} /\ Range(t.list) \cup Range(t.free) = Slots
    /\ \A r \in Range(t.list) : t.info[r].bssid \in Nets
    /\ \A r, s \in Range(t.list) : t.info[r].bssid = t.info[s].bssid => r = s
    /\ \A s \in Slots : t.info[s].keep <=> s = t.active
    /\ t.active # None => t.active \in Range(t.list)

Connected(t) ==
    /\ t.data # None => t.active # None /\ t.info[t.active].bssid = t.data
    /\ t.active # None /\ ~t.pause => t.channel = t.info[t.active].bssid \/ t.tuned
    /\ t.scan.state = "RUNNING" => t.pause \/ t.tuned
    /\ t.tuned => t.scan.state = "RUNNING"

\* What holds whatever the state of the join.
Base(t, P) ==
    /\ t \in StateType /\ P \subseteq Kinds
    /\ Scheduled(t, P) /\ Kept(t) /\ Connected(t)
    /\ t.saved = None => t.ssid = UserSsid

\* The polls, the borrowed SSID and the attempt last as long as the state.
Joining(t, P) ==
    /\ (t.join = "SEARCHING") <=> Due(t, "search", P)
    /\ (t.join = "SEARCHING") <=> t.saved # None
    /\ (t.join = "ATTEMPTING") <=> Due(t, "attempt", P)
    /\ (t.join = "ATTEMPTING") <=> t.attempt # None
    /\ t.join = "ATTEMPTING" => t.active = None
    /\ t.auth # "UNAUTHENTICATED" => t.join = "ATTEMPTING"
    /\ t.attempt = None => t.sought = None
    /\ t.join = "SEARCHING" => t.target \in Target /\ t.target.by # "both"

\* The attempt was begun for a network that was asked for.
Wanted(t) ==
    t.sought # None =>
        /\ t.target \in Target
        /\ SsidOf[t.sought] = SsidOf[t.target.net]
        /\ t.target.by = "both" => t.sought = t.target.net

Sound(t, P) == Base(t, P) /\ Joining(t, P) /\ Wanted(t)

\* A network is chosen and start_join_attempt has not begun.
Poised(t) ==
    /\ Base(t, {}) /\ Wanted(t)
    /\ t.join = "IDLE" /\ t.saved = None
    /\ t.attempt = None => t.auth = "UNAUTHENTICATED" /\ t.sought = None
    /\ t.scan.state = "IDLE"
    /\ t.rec["search"] = 0 /\ t.rec["attempt"] = 0

\* Where a command may be: in a scan, which a search may follow, or in an attempt.
ScanPrograms ==
    {<<"begin scan", "hop", "probe", "scan">>, <<"hop", "probe", "scan">>,
     <<"probe", "scan">>, <<"scan">>}
SearchPrograms == {Append(p, "search") : p \in ScanPrograms} \cup {<<"search">>}
AttemptPrograms == {<<"poll", "attempt">>, <<"attempt">>}
Owed(t, x) == CASE x = "search" -> {}
                [] x = "begin scan" -> {}
                [] x = "scan" -> {"scan"}
                [] x \in {"hop", "probe"} -> Scanning(t)

Programs ==
    \/ main = <<>> /\ Sound(Now, {})
    \/ main = AttemptSteps /\ Poised(Now)
    \/ main \in AttemptPrograms /\ Sound(Now, {"attempt"})
    \/ /\ main \in ScanPrograms /\ Sound(Now, Owed(Now, Head(main)))
       /\ Head(main) = "begin scan" => scan.state = "IDLE"
    \/ /\ main \in SearchPrograms /\ Sound(Now, Owed(Now, Head(main)) \cup {"search"})
       /\ Head(main) = "begin scan" => scan.state = "IDLE"

StaInv == divided \in BOOLEAN /\ (~divided => auth # "ASSOCIATED" /\ Programs)
=============================================================================

----------------------------- MODULE ApStations -----------------------------
(* The stations of the AP and the packets queued for them: the flat list of *)
(* station_info structs with its KEEP flags and counts of queued packets    *)
(* (wlan_mac_station_info.c), the lists of authenticated and of associated  *)
(* stations, the transmit queues (wlan_mac_queue.c) and the round robin     *)
(* that empties them (poll_tx_queues of wlan_mac_ap.c).                     *)
(*                                                                          *)
(* Every handler runs to its end with interrupts stopped or inside an       *)
(* interrupt, so each is one step.  The BSS is up; multicast buffering is   *)
(* off (module TxGroups has it), no scan pauses the data queues.            *)
(*                                                                          *)
(* Abstractions: a packet is its station_info; time is a choice of who has  *)
(* timed out; a free struct with a stale pointer to it is reused first, no  *)
(* matter when it was freed.  Assumed: a struct                             *)
(* is found whenever one is asked for (with none to spare the code goes on  *)
(* to write through a null pointer), and so is an empty packet buffer when  *)
(* fewer than Buffers are in use (module TxPktBuf has the other case).      *)
(*                                                                          *)
(* wlan_exp may associate a station that is still in the list of the        *)
(* authenticated ones.  When such a station is deauthenticated, its entry   *)
(* there stays behind without the KEEP flag, and points to whatever its     *)
(* struct becomes.  severed records that this has happened.                 *)
EXTENDS Integers, Sequences, FiniteSets, FiniteSetsExt, SequencesExt, Functions, Selection

CONSTANTS Stations,  \* addresses of stations
          Mcast,     \* the multicast address
          Infos,     \* the station_info structs
          Pool,      \* queue entries
          Buffers,   \* packet buffers of the general group
          MaxQueue,  \* max_queue_size
          MaxAssoc,  \* MAX_NUM_ASSOC
          MaxAuth    \* MAX_NUM_AUTH

NoAddr == "none"
ASSUME ApStationsAssumption ==
    /\ IsFiniteSet(Stations) /\ Mcast \notin Stations /\ NoAddr \notin Stations \cup {Mcast}
    /\ IsFiniteSet(Infos) /\ Pool \in Nat
    /\ Buffers \in Nat \ {0} /\ MaxQueue \in Nat /\ MaxAssoc \in Nat
    /\ MaxAuth \in Nat

MCAST_QID == 0
MANAGEMENT_QID == 1
STATION_ID_TO_QUEUE_ID(x) == x + 1
\* IDs of one list exceed its length only by the holes in front of an entry.
MaxId == Cardinality(Stations)
Queues == 0 .. STATION_ID_TO_QUEUE_ID(MaxId)

VARIABLES
    list,     \* station_info_list, least recently used first
    info,     \* the structs: see InfoType
    members,  \* active_network_info->members: records [addr, id, info]
    auth,     \* authenticated_unassociated_stations
    queue,    \* tx_queues: sequences of structs
    group,    \* next_queue_group
    next,     \* next_station_info_entry, see NextType
    flight,   \* destinations of the packets CPU_LOW has, oldest first
    last,     \* of the packet just sent: its MORE_DATA, and was more queued?
    severed   \* history: a station in both lists has lost its association only

vars == <<list, info, members, auth, queue, group, next, flight, last, severed>>

InfoType == [addr : Stations \cup {Mcast, NoAddr}, keep : BOOLEAN,
             queued : 0 .. Pool, doze : BOOLEAN, id : 0 .. MaxId]
Cleared(a) == [addr |-> a, keep |-> FALSE, queued |-> 0, doze |-> FALSE, id |-> 0]
EntryType == [addr : Stations, id : 1 .. MaxId, info : Infos]
\* "freed": the entry was freed while the pointer was kept, its contents are
\* still there; "garbage": they are not, or it is a link read from a freed one.
NextType == [kind : {"null", "garbage"}]
            \cup [kind : {"entry", "freed"}, addr : Stations, id : 1 .. MaxId, info : Infos]
Nothing == [more |-> FALSE, waiting |-> FALSE]
Null == [kind |-> "null"]
Garbage == [kind |-> "garbage"]
Pointer(kind, e) == [kind |-> kind, addr |-> e.addr, id |-> e.id, info |-> e.info]

\* The state as a record t, on which the functions of the code are operators;
\* avail and found are locals of poll_tx_queues.
Now ==
    [list |-> list, info |-> info, members |-> members, auth |-> auth,
     queue |-> queue, group |-> group, next |-> next, flight |-> flight,
     last |-> Nothing, avail |-> 0, found |-> FALSE]

\* The freed entry of the round robin may be handed out again by malloc, to the
\* entry of a new member or to something else.
Reused(t) ==
    {t.next} \cup
    IF t.next.kind # "freed" THEN {}
    ELSE {Garbage} \cup {Pointer("entry", e) : e \in Range(t.members) \ Range(members)}

Assign(t) ==
    /\ list' = t.list /\ info' = t.info /\ members' = t.members /\ auth' = t.auth
    /\ queue' = t.queue /\ group' = t.group /\ next' \in Reused(t)
    /\ flight' = t.flight /\ last' = t.last
Become(t) == Assign(t) /\ UNCHANGED severed

-----------------------------------------------------------------------------
\* station_info.c

Without(l, x) ==
    IF x \in Range(l) THEN RemoveAt(l, CHOOSE i \in DOMAIN l : l[i] = x) ELSE l

HasAddr(l, a) == \E e \in Range(l) : e.addr = a
IsMember(l, s) == \E e \in Range(l) : e.info = s
EntryOf(l, a) == CHOOSE e \in Range(l) : e.addr = a

RemovableUnkept(t, s) == ~t.info[s].keep
Removable(t, s) == ~t.info[s].keep /\ t.info[s].queued = 0
Known(t, a) == {s \in Range(t.list) : t.info[s].addr = a}
Free(t) == Infos \ Range(t.list)
\* The free ones that a stale pointer still names.
Named(t) ==
    {s \in Free(t) : IsMember(t.auth, s) \/ (t.next.kind = "freed" /\ t.next.info = s)}
Oldest(t, k) == {i \in 1 .. k : Removable(t, t.list[i])}

CanCreate(t, a) ==
    Known(t, a) \cup Free(t) = {} => Oldest(t, Len(t.list)) # {}
SlotOf(t, a) ==
    LET known == Known(t, a)
    IN IF known # {} THEN CHOOSE s \in known : TRUE
       ELSE IF Named(t) # {} THEN CHOOSE s \in Named(t) : TRUE
       ELSE IF Free(t) # {} THEN CHOOSE s \in Free(t) : TRUE
       ELSE t.list[Min(Oldest(t, Len(t.list)))]
Create(t, a) ==
    LET s == SlotOf(t, a)
    IN [t EXCEPT !.list = Append(Without(@, s), s),
                 !.info[s] = IF Known(t, a) # {} THEN @ ELSE Cleared(a)]

PlaceAtEnd(t, l) == [at |-> Len(l) + 1, id |-> Len(l) + 1]
\* The smallest ID above a hole: the entry goes in front of that one.
Place(t, l) ==
    LET Id(i) == IF i = 0 THEN 0 ELSE t.info[l[i].info].id
        holes == {i \in DOMAIN l : Id(i) - Id(i - 1) > 1}
    IN IF holes = {} THEN [at |-> Len(l) + 1, id |-> Id(Len(l)) + 1]
       ELSE [at |-> Min(holes), id |-> Id(Min(holes)) - 1]
\* station_info_add for any ID: the struct, its place in the list, the entry.
Added(t, l, a) ==
    LET s == SlotOf(t, a)
        made == Create(t, a)
        place == Place([made EXCEPT !.info[s].id = 0], l)
    IN [state |-> [made EXCEPT !.info[s].id = place.id],
        list |-> InsertAt(l, place.at, [addr |-> a, id |-> place.id, info |-> s])]
AddMember(t, a) ==
    LET add == Added(t, t.members, a)
    IN IF HasAddr(t.members, a) THEN t ELSE [add.state EXCEPT !.members = add.list]
AddAuth(t, a) ==
    LET add == Added(t, t.auth, a)
    IN IF HasAddr(t.auth, a) THEN t ELSE [add.state EXCEPT !.auth = add.list]

\* Two of the callers raise the KEEP flag of what it returns.
Keep(t, l, a) == [t EXCEPT !.info[EntryOf(l, a).info].keep = TRUE]

NotOf(l, A) ==
    LET out == {e \in Range(l) : e.addr \in A}
    IN IF out = {} THEN l ELSE Selected(l, Range(l) \ out)
RemoveAuth(t, a) == [t EXCEPT !.auth = NotOf(@, {a})]
RemoveMember(t, a) ==
    [t EXCEPT !.members = NotOf(@, {a}),
              !.next = IF @.kind = "entry" /\ @.addr = a THEN Pointer("freed", @) ELSE @]

-----------------------------------------------------------------------------
\* queue.c and poll_tx_queues

Entries(t) == UNION {{q} \X DOMAIN t.queue[q] : q \in Queues}
Waits(t, s) == \E q \in Queues : s \in Range(t.queue[q])
HasEntry(t) == Cardinality(Entries(t)) < Pool

\* transmit_checkin of the head of queue q: MORE_DATA is set from the count before
\* the packet is taken off it.
Transmit(t, q) ==
    LET s == Head(t.queue[q])
        taken == [t EXCEPT !.queue[q] = Tail(@), !.avail = @ - 1, !.found = TRUE]
    IN [taken EXCEPT !.info[s].queued = @ - 1, !.flight = Append(@, t.info[s].addr),
                     !.last = [more |-> t.info[s].queued > 0,
                               waiting |-> Waits(taken, s)]]

Serve(t, q) == IF t.queue[q] = <<>> THEN t ELSE Transmit(t, q)
ServeStation(t, e) ==
    IF t.info[e.info].doze THEN t ELSE Serve(t, STATION_ID_TO_QUEUE_ID(e.id))

AfterMember(t, e) ==
    LET i == CHOOSE i \in DOMAIN t.members : t.members[i].addr = e.addr
    IN IF i = Len(t.members) THEN Null ELSE Pointer("entry", t.members[i + 1])
First(t) == IF t.members = <<>> THEN Null ELSE Pointer("entry", Head(t.members))

\* One turn of the loop over the members' queues and the multicast queue.
DataTurn(t) ==
    IF t.found THEN t
    ELSE CASE t.next.kind = "null" -> Serve([t EXCEPT !.next = First(t)], MCAST_QID)
           [] t.next.kind = "entry" ->
                ServeStation([t EXCEPT !.next = AfterMember(t, t.next)], t.next)
           [] t.next.kind = "freed" /\ IsMember(t.members, t.next.info) ->
                ServeStation([t EXCEPT !.next = Garbage], t.next)
           [] OTHER -> [t EXCEPT !.next = Null]
PollData(t) ==
    LET turn[i \in 0 .. Len(t.members) + 1] == IF i = 0 THEN t ELSE DataTurn(turn[i - 1])
    IN turn[Len(t.members) + 1]

PollGroup(t) ==
    IF t.avail = 0 THEN t
    ELSE IF t.group = "MGMT" THEN Serve([t EXCEPT !.group = "DATA"], MANAGEMENT_QID)
    ELSE PollData([t EXCEPT !.group = "MGMT", !.found = FALSE])
Offer(t) == [t EXCEPT !.avail = Buffers - Len(t.flight)]
PollOnce(t) == PollGroup(PollGroup(Offer(t)))
\* Each group is polled twice.
Poll(t) == PollGroup(PollGroup(PollGroup(PollGroup(Offer(t)))))

Enqueue(t, q, s) ==
    Poll([t EXCEPT !.queue[q] = Append(@, s), !.info[s].queued = @ + 1])
\* queue_checkout, and nothing without a free entry.
EnqueueNew(t, q, s) == IF HasEntry(t) THEN Enqueue(t, q, s) ELSE t

\* The packets of station s in the queues of Q.
Purged(t, Q, s) ==
    UNION {{q} \X {i \in DOMAIN t.queue[q] : t.queue[q][i] = s} : q \in Q}
Purge(t, Q) ==
    [t EXCEPT !.queue = [q \in Queues |-> IF q \in Q THEN <<>> ELSE t.queue[q]],
              !.info = [s \in Infos |-> [t.info[s] EXCEPT !.queued =
                            @ - Cardinality(Purged(t, Q, s))]]]

\* The inactivity time-out, wlan_exp and the user's menu; only a purge with the
\* deauthentication queued.
Deauthenticate(t, s) ==
    LET q == STATION_ID_TO_QUEUE_ID(t.info[s].id)
        told == IF HasEntry(t) THEN Purge(Enqueue(t, MANAGEMENT_QID, s), {q}) ELSE t
    IN [RemoveMember(told, told.info[s].addr) EXCEPT !.info[s].keep = FALSE]
\* One entry of l after the other.
DeauthenticateEach(t, l) ==
    LET out[i \in 0 .. Len(l)] ==
            IF i = 0 THEN t ELSE Deauthenticate(out[i - 1], l[i].info)
    IN out[Len(l)]

-----------------------------------------------------------------------------
\* Frames from the wired network, from the traffic generator and from stations.

\* station_info_postrx_process, and the power save state of mpdu_rx_process.
Received(t, a, doze) ==
    LET made == Create(t, a)
        s == SlotOf(t, a)
        known == [made EXCEPT !.info[s].doze = doze]
    IN IF ~IsMember(made.members, s) THEN made
       ELSE IF doze THEN known ELSE Poll(known)

\* A null frame, or data for the wired network only.
RxNull(a, doze) == CanCreate(Now, a) /\ Become(Received(Now, a, doze))

\* Any other reception goes on to do what its kind does.  A change of the power save
\* state is left to RxNull: one step for the two would lead to no other state than
\* the two do.
Heard(a) == Received(Now, a, \E s \in Known(Now, a) : info[s].doze)

\* ethernet_receive and ltg_event: a queue takes no more than max_queue_size.
HighUnicast(a) ==
    /\ HasAddr(members, a)
    /\ LET e == EntryOf(members, a)
           q == STATION_ID_TO_QUEUE_ID(e.id)
       IN /\ Len(queue[q]) < MaxQueue /\ HasEntry(Now)
          /\ Become(Enqueue(Now, q, e.info))
HighMulticast ==
    /\ CanCreate(Now, Mcast) /\ Len(queue[MCAST_QID]) < MaxQueue /\ HasEntry(Now)
    /\ Become(Enqueue(Create(Now, Mcast), MCAST_QID, SlotOf(Now, Mcast)))

\* Answered by a management frame and nothing else: a probe request, a refused
\* authentication, data from a station that is not associated, an association
\* request when there are too many.
RxAnswered(a) ==
    /\ CanCreate(Now, a)
    /\ Become(EnqueueNew(Heard(a), MANAGEMENT_QID, SlotOf(Now, a)))

\* Data of a member for the stations: sent on without a look at max_queue_size.
Forwarded(t, b) ==
    IF b # Mcast
    THEN LET e == EntryOf(t.members, b)
         IN EnqueueNew(t, STATION_ID_TO_QUEUE_ID(e.id), e.info)
    ELSE IF HasEntry(t) /\ CanCreate(t, b)
    THEN Enqueue(Create(t, b), MCAST_QID, SlotOf(t, b)) ELSE t
RxData(a, b) ==
    /\ HasAddr(members, a) /\ b \in {Mcast} \cup {e.addr : e \in Range(members)}
    /\ CanCreate(Now, a) /\ Become(Forwarded(Heard(a), b))

\* An accepted authentication.
Authenticated(t, a, s) ==
    LET member == IsMember(t.members, s)
        others == Len(t.auth) - IF ~member /\ IsMember(t.auth, s) THEN 1 ELSE 0
        u == AddAuth(t, a)
    IN IF member \/ others >= MaxAuth THEN t ELSE Keep(u, u.auth, a)
RxAuth(a) ==
    /\ CanCreate(Now, a)
    /\ LET s == SlotOf(Now, a)
       IN Become(EnqueueNew(Authenticated(Heard(a), a, s), MANAGEMENT_QID, s))

\* The KEEP flag is still up from the authentication.  A station that never
\* authenticated is answered with success too, in the queue of the ID its struct
\* still has.
Associated(t, a, s) ==
    LET reject == ~IsMember(t.members, s) /\ Len(t.members) >= MaxAssoc
        u == IF IsMember(t.auth, s) THEN AddMember(RemoveAuth(t, a), a) ELSE t
    IN IF reject THEN EnqueueNew(t, MANAGEMENT_QID, s)
       ELSE EnqueueNew(u, STATION_ID_TO_QUEUE_ID(u.info[s].id), s)
RxAssoc(a) ==
    /\ CanCreate(Now, a)
    /\ Become(Associated(Heard(a), a, SlotOf(Now, a)))

\* The packets queued for the station stay queued.
Disassoc(t, a) ==
    [RemoveAuth(RemoveMember(t, a), a) EXCEPT !.info[SlotOf(t, a)].keep = FALSE]
RxDisassoc(a) == CanCreate(Now, a) /\ Become(Disassoc(Heard(a), a))

\* IPC_MBOX_TX_PKT_BUF_DONE: poll first, then station_info_posttx_process.
TxDone ==
    /\ flight # <<>>
    /\ LET polled == Poll([Now EXCEPT !.flight = Tail(@)])
       IN CanCreate(polled, Head(flight)) /\ Become(Create(polled, Head(flight)))

-----------------------------------------------------------------------------
\* The timers and the commands of wlan_exp.

\* The stations of S were silent for too long: members are deauthenticated, which
\* does not look at the entries of auth; those are taken out first here.
Quiet(l, S) == {e \in Range(l) : e.info \in S}
Dropped(t, S) == [t EXCEPT !.auth = NotOf(@, {t.info[e.info].addr : e \in Quiet(@, S)})]
Unkept(t, T) ==
    [t EXCEPT !.info = [s \in Infos |-> [t.info[s] EXCEPT !.keep = @ /\ s \notin T]]]
RemoveInactive(S) ==
    LET t == DeauthenticateEach(Dropped(Now, S), Selected(members, Quiet(members, S)))
    IN /\ Quiet(members, S) \cup Quiet(auth, S) # {}
       /\ Become(Unkept(t, {e.info : e \in Quiet(auth, S)}))

\* The first k structs are older than the time-out.  The entry removed heads the
\* end of the free list, so that the loop ends with it.
TimestampCheck(k) ==
    LET t == Now
        s == list[Min(Oldest(t, k))]
    IN /\ k <= Len(list) /\ Oldest(t, k) # {}
       /\ Become([t EXCEPT !.list = Without(@, s),
                           !.info[s] = Cleared(NoAddr)])

\* NODE_DISASSOCIATE: one station, or all of them; the list of the authenticated
\* ones is left alone.
InBoth(e) == HasAddr(auth, e.addr)
DeauthenticateStation(a) ==
    /\ HasAddr(members, a)
    /\ Assign(Deauthenticate(Now, EntryOf(members, a).info))
    /\ severed' = (severed \/ InBoth(EntryOf(members, a)))
DeauthenticateAll ==
    /\ members # <<>>
    /\ Assign(DeauthenticateEach(Now, members))
    /\ severed' = (severed \/ \E e \in Range(members) : InBoth(e))

\* NODE_ADD_ASSOCIATION: associated whether it has authenticated or not, unannounced.
AddAssociation(a) ==
    /\ ~HasAddr(members, a) => Len(members) < MaxAssoc /\ CanCreate(Now, a)
    /\ LET t == AddMember(Now, a) IN Become(Keep(t, t.members, a))

PurgeAll ==
    Become(Purge(Now, {MCAST_QID} \cup {STATION_ID_TO_QUEUE_ID(e.id) : e \in Range(members)}))

Init ==
    /\ list = <<>> /\ info = [s \in Infos |-> Cleared(NoAddr)]
    /\ members = <<>> /\ auth = <<>> /\ queue = [q \in Queues |-> <<>>]
    /\ group = "MGMT" /\ next = Null /\ flight = <<>>
    /\ last = Nothing /\ severed = FALSE

Reception ==
    \E a \in Stations :
        \/ \E doze \in BOOLEAN : RxNull(a, doze)
        \/ RxAnswered(a) \/ RxAuth(a) \/ RxAssoc(a) \/ RxDisassoc(a)
        \/ \E b \in Stations \cup {Mcast} : RxData(a, b)

Next ==
    \/ Reception
    \/ \E a \in Stations : HighUnicast(a)
    \/ HighMulticast \/ TxDone
    \/ \E S \in SUBSET Infos : RemoveInactive(S)
    \/ \E k \in 1 .. Cardinality(Infos) : TimestampCheck(k)
    \/ \E a \in Stations : DeauthenticateStation(a)
    \/ DeauthenticateAll
    \/ \E a \in Stations : AddAssociation(a)
    \/ PurgeAll

Spec == Init /\ [][Next]_vars

-----------------------------------------------------------------------------
TypeOK ==
    /\ list \in Seq(Infos) /\ Len(list) <= Cardinality(Infos) /\ info \in [Infos -> InfoType]
    /\ members \in Seq(EntryType) /\ Len(members) <= MaxAssoc /\ auth \in Seq(EntryType)
    /\ queue \in [Queues -> Seq(Infos)] /\ Cardinality(Entries(Now)) <= Pool
    /\ group \in {"MGMT", "DATA"} /\ next \in NextType
    /\ flight \in Seq(Stations \cup {Mcast}) /\ Len(flight) <= Buffers
    /\ last \in [more : BOOLEAN, waiting : BOOLEAN]

\* A packet keeps its station_info: the struct stays in the list for as long as
\* a packet in any queue points to it, whatever becomes of the association,
\* and no queued packet goes uncounted (num_tx_queued, "prevent the framework
\* from removing the station_info_t out from underneath us").  It may leave only
\* once a station in both lists was deauthenticated.
PacketsPinned ==
    ~severed =>
      /\ TypeOK
      /\ \A s \in Infos :
             LET n == Cardinality({p \in Entries(Now) : queue[p[1]][p[2]] = s})
             IN n = info[s].queued /\ (n > 0 => s \in Range(list))

\* Every entry of either list has its struct, in the list of structs, kept and with
\* its address; a member's has its ID, and IDs rise along the list of members.
EntriesKept ==
    /\ \A e \in Range(members) \cup Range(auth) :
           e.info \in Range(list) /\ info[e.info].keep /\ info[e.info].addr = e.addr
    /\ \A e \in Range(members) : info[e.info].id = e.id
    /\ \A i, j \in DOMAIN members : i < j => members[i].id < members[j].id

\* MembersKept: an associated station keeps its station_info, whose ID is the one
\* of the association; no ID is given twice.  A station that has authenticated
\* keeps its own too, and so does one that wlan_exp has associated meanwhile,
\* through its time-out, its disassociation, an association of its own and every
\* other change of the lists but one: when it is deauthenticated, the entry of its
\* authentication loses the struct.
MembersKept == ~severed => EntriesKept

\* "If the is more data (in addition to this packet) queued for this station, we
\* can let it know": MORE_DATA says that another packet waits.
MoreDataTruthful == last.more => last.waiting

\* Every packet buffer is idle and a packet waits that a poll would send.
IdleBacklog ==
    /\ flight = <<>>
    /\ \/ queue[MANAGEMENT_QID] # <<>> \/ queue[MCAST_QID] # <<>>
       \/ \E e \in Range(members) :
              ~info[e.info].doze /\ queue[STATION_ID_TO_QUEUE_ID(e.id)] # <<>>

\* Polling loses no wake-up: no handler leaves every buffer idle and a packet
\* waiting (nothing but the next event would send it), unless a new station just
\* got a queue with old packets in it, or the lists of stations are severed.
NoLostWakeup ==
    [][~severed' /\ IdleBacklog' =>
          IdleBacklog \/ ~(Range(members') \subseteq Range(members))]_vars
=============================================================================

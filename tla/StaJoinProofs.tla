---------------------------- MODULE StaJoinProofs ----------------------------
(* The safety of StaJoin: schedules, the queue of data, the entry that is    *)
(* kept and the network that is joined, for any number of networks, structs  *)
(* and schedule IDs, as long as no interrupt has divided a command.          *)
(*                                                                           *)
(* First what each function of the code does to the fields of the state,     *)
(* then the contract of each (StaInv's parts before and after), then the     *)
(* actions.                                                                  *)
EXTENDS StaJoin, QueueLemmas, FiniteSetTheorems

-----------------------------------------------------------------------------
(* Fields.  The groups of fields that the parts of the invariant speak of.  *)

SameJoin(t, u) ==
    /\ u.join = t.join /\ u.auth = t.auth /\ u.attempt = t.attempt
    /\ u.target = t.target /\ u.saved = t.saved /\ u.ssid = t.ssid
    /\ u.sought = t.sought /\ u.passive = t.passive
SameNets(t, u) == u.info = t.info /\ u.list = t.list /\ u.free = t.free
SameLink(t, u) ==
    /\ u.active = t.active /\ u.data = t.data /\ u.tuned = t.tuned
    /\ u.pause = t.pause /\ u.channel = t.channel
SameSchedules(t, u) == u.rec = t.rec /\ u.listed = t.listed /\ u.scan = t.scan

\* The schedules of a kind before and after their end.
Ended(t, u, k) == u.rec[k] = 0 /\ u.listed[k] = t.listed[k] \ {t.rec[k]}

LEMMA UnscheduleFields ==
    ASSUME NEW t \in StateType, NEW k \in Kinds, NEW u, u = Unschedule(t, k)
    PROVE  /\ u \in StateType /\ u.scan = t.scan
           /\ u.rec = [t.rec EXCEPT ![k] = 0]
           /\ u.listed = [t.listed EXCEPT ![k] = @ \ {t.rec[k]}]
           /\ SameJoin(t, u) /\ SameNets(t, u) /\ SameLink(t, u)
<1> DEFINE R == [t.rec EXCEPT ![k] = 0]
           L == [t.listed EXCEPT ![k] = @ \ {t.rec[k]}]
<1>1. R \in RecType /\ L \in ListedType
  <2>1. t.rec \in RecType /\ t.listed \in ListedType
    BY DEF StateType
  <2>2. 0 \in 0 .. MaxId
    BY StaJoinAssumption
  <2> QED
    BY <2>1, <2>2 DEF RecType, ListedType
<1>2. R = [t.rec EXCEPT ![k] = 0] /\ L = [t.listed EXCEPT ![k] = @ \ {t.rec[k]}]
  OBVIOUS
<1> HIDE DEF R, L
<1>3. u = [t EXCEPT !.rec = R, !.listed = L]
  BY <1>1, <1>2 DEF StateType, Unschedule
<1> QED
  BY <1>1, <1>2, <1>3, ZenonT(40) DEF StateType, SameJoin, SameNets, SameLink

LEMMA ScheduleFields ==
    ASSUME NEW t \in StateType, NEW k \in Kinds, t.listed[k] = {}, NEW u, u = Schedule(t, k)
    PROVE  /\ u \in StateType /\ u.scan = t.scan
           /\ u.rec = [t.rec EXCEPT ![k] = 1] /\ u.listed = [t.listed EXCEPT ![k] = {1}]
           /\ SameJoin(t, u) /\ SameNets(t, u) /\ SameLink(t, u)
<1>1. /\ MaxId \in Nat /\ MaxId > 0
      /\ t.rec \in RecType /\ t.listed \in ListedType
  BY StaJoinAssumption DEF StateType
<1>2. Min((1 .. MaxId + 1) \ t.listed[k]) = 1
  <2>1. (1 .. MaxId + 1) \ t.listed[k] = 1 .. MaxId + 1
    OBVIOUS
  <2>2. 1 \in 1 .. MaxId + 1 /\ \A n \in 1 .. MaxId + 1 : 1 <= n
    BY <1>1
  <2>3. \A m \in 1 .. MaxId + 1 : m <= 1 => m = 1
    BY <1>1
  <2> QED
    BY <2>1, <2>2, <2>3 DEF Min
<1> DEFINE R == [t.rec EXCEPT ![k] = 1]
           L == [t.listed EXCEPT ![k] = @ \cup {1}]
<1>3. R \in RecType /\ L \in ListedType
  BY <1>1 DEF RecType, ListedType
<1>4. /\ R = [t.rec EXCEPT ![k] = 1] /\ L = [t.listed EXCEPT ![k] = @ \cup {1}]
      /\ L = [t.listed EXCEPT ![k] = {1}]
  BY <1>1 DEF ListedType
<1> HIDE DEF R, L
<1>5. u = [t EXCEPT !.rec[k] = 1, !.listed[k] = @ \cup {1}]
  BY <1>2 DEF Schedule
<1>6. u = [t EXCEPT !.rec = R, !.listed = L]
  BY <1>3, <1>4, <1>5 DEF StateType
<1> QED
  BY <1>3, <1>4, <1>6, ZenonT(40) DEF StateType, SameJoin, SameNets, SameLink

LEMMA BssidType ==
    ASSUME NEW t \in StateType, NEW s \in Slots \cup {None}
    PROVE  BssidOf(t, s) \in Nets \cup {None}
<1>1. t.info \in InfoType
  BY DEF StateType
<1> QED
  BY <1>1 DEF BssidOf, InfoType

LEMMA ScanBeginFields ==
    ASSUME NEW t \in StateType, NEW u, u = ScanBegin(t)
    PROVE  /\ u \in StateType /\ u.scan.state = "RUNNING" /\ u.pause = TRUE
           /\ u.rec = t.rec /\ u.listed = t.listed
           /\ SameJoin(t, u) /\ SameNets(t, u) /\ u.tuned = t.tuned
           /\ u.active = t.active /\ u.data = t.data /\ u.channel = t.channel
<1> DEFINE b == t.scanned \/ t.join = "ATTEMPTING"
           s == [t.scan EXCEPT !.state = "RUNNING"]
<1>1. t.scan \in ScanType /\ b \in BOOLEAN
  BY DEF StateType
<1>2. s \in ScanType /\ s.state = "RUNNING"
  BY <1>1 DEF ScanType
<1>3. s = [t.scan EXCEPT !.state = "RUNNING"]
  OBVIOUS
<1>4. b = (t.scanned \/ t.join = "ATTEMPTING")
  OBVIOUS
<1> DEFINE yes == TRUE
<1> HIDE DEF s, b, yes
<1>5. u = [t EXCEPT !.scan = s, !.pause = yes, !.scanned = b]
  BY <1>1, <1>2, <1>3, <1>4 DEF StateType, ScanBegin, yes
<1>6. yes \in BOOLEAN /\ yes
  BY DEF yes
<1>7. u \in StateType
  BY <1>1, <1>2, <1>5, <1>6, ZenonT(40) DEF StateType
<1> QED
  BY <1>1, <1>2, <1>5, <1>6, <1>7 DEF StateType, SameJoin, SameNets

LEMMA HopFields ==
    ASSUME NEW t \in StateType, NEW c \in Nets \cup {None}, NEW u, u = Hop(t, c)
    PROVE  /\ u \in StateType /\ u.scan.state = t.scan.state
           /\ u.rec = [t.rec EXCEPT !["probe"] = 0]
           /\ u.listed = [t.listed EXCEPT !["probe"] = @ \ {t.rec["probe"]}]
           /\ SameJoin(t, u) /\ SameNets(t, u) /\ u.tuned = t.tuned
           /\ u.active = t.active /\ u.data = t.data /\ u.pause = t.pause
<1> DEFINE v == Unschedule(t, "probe")
           s == [v.scan EXCEPT !.looped = TRUE]
<1>1. /\ v \in StateType /\ v.scan = t.scan
      /\ v.rec = [t.rec EXCEPT !["probe"] = 0]
      /\ v.listed = [t.listed EXCEPT !["probe"] = @ \ {t.rec["probe"]}]
      /\ SameJoin(t, v) /\ SameNets(t, v) /\ SameLink(t, v)
  BY UnscheduleFields DEF Kinds
<1>2. u = [v EXCEPT !.channel = c, !.scan.looped = TRUE]
  BY DEF Hop
<1> HIDE DEF v
<1>3. v.scan \in ScanType /\ v.pause \in BOOLEAN
  BY <1>1 DEF StateType
<1>4. s \in ScanType /\ s.state = v.scan.state
  BY <1>3 DEF ScanType
<1>5. s = [v.scan EXCEPT !.looped = TRUE]
  OBVIOUS
<1> HIDE DEF s
<1>6. u = [v EXCEPT !.scan = s, !.pause = v.pause, !.channel = c]
  BY <1>1, <1>2, <1>3, <1>4, <1>5 DEF StateType
<1>7. /\ u \in StateType /\ u.scan = s /\ u.pause = v.pause
      /\ u.rec = v.rec /\ u.listed = v.listed
      /\ SameJoin(v, u) /\ SameNets(v, u) /\ u.active = v.active /\ u.data = v.data
      /\ u.tuned = v.tuned
  BY <1>1, <1>3, <1>4, <1>6, ZenonT(40) DEF StateType, SameJoin, SameNets
<1> QED
  BY <1>1, <1>4, <1>7 DEF SameJoin, SameNets, SameLink

LEMMA ScanStopFields ==
    ASSUME NEW t \in StateType, NEW u, u = ScanStop(t)
    PROVE  /\ u \in StateType /\ u.scan.state = "IDLE"
           /\ SameJoin(t, u) /\ SameNets(t, u) /\ u.active = t.active /\ u.data = t.data
           /\ t.scan.state = "IDLE" => u = t
           /\ t.scan.state # "IDLE" =>
                 /\ u.pause = FALSE /\ u.tuned = FALSE
                 /\ t.active # None => u.channel = t.info[t.active].bssid
           /\ \A k \in {"search", "attempt"} :
                 u.rec[k] = t.rec[k] /\ u.listed[k] = t.listed[k]
           /\ t.scan.state # "IDLE" => \A k \in ScanKinds :
                 Ended(t, u, k)
<1> DEFINE v == Unschedule(t, "scan")
           w == Unschedule(v, "probe")
           c == IF t.active = None THEN w.channel ELSE BssidOf(t, t.active)
<1>1. /\ v \in StateType /\ v.scan = t.scan
      /\ v.rec = [t.rec EXCEPT !["scan"] = 0]
      /\ v.listed = [t.listed EXCEPT !["scan"] = @ \ {t.rec["scan"]}]
      /\ SameJoin(t, v) /\ SameNets(t, v) /\ SameLink(t, v)
  BY UnscheduleFields DEF Kinds
<1> HIDE DEF v
<1>2. /\ w \in StateType /\ w.scan = v.scan
      /\ w.rec = [v.rec EXCEPT !["probe"] = 0]
      /\ w.listed = [v.listed EXCEPT !["probe"] = @ \ {v.rec["probe"]}]
      /\ SameJoin(v, w) /\ SameNets(v, w) /\ SameLink(v, w)
  BY <1>1, UnscheduleFields DEF Kinds
<1>3. u = IF t.scan.state = "IDLE" THEN t
          ELSE [w EXCEPT !.scan = Idle, !.pause = FALSE, !.tuned = FALSE,
                         !.channel = IF t.active = None THEN @ ELSE BssidOf(t, t.active)]
  BY DEF ScanStop, v
<1> HIDE DEF w
<1>4. c \in Nets \cup {None} /\ Idle \in ScanType /\ Idle.state = "IDLE"
  <2>1. t.active \in Slots \cup {None} /\ w.channel \in Nets \cup {None}
    BY <1>2 DEF StateType
  <2> QED
    BY <2>1, BssidType DEF Idle, ScanType
<1>5. CASE t.scan.state = "IDLE"
  BY <1>3, <1>5 DEF SameJoin, SameNets
<1>6. CASE t.scan.state # "IDLE"
  <2>1. u = [w EXCEPT !.scan = Idle, !.pause = FALSE, !.tuned = FALSE, !.channel = c]
    BY <1>2, <1>3, <1>6 DEF StateType
  <2>2. t.active # None => c = t.info[t.active].bssid
    BY DEF BssidOf
  <2> HIDE DEF c
  <2>3. /\ u \in StateType /\ u.scan = Idle /\ u.pause = FALSE /\ u.channel = c
        /\ u.rec = w.rec /\ u.listed = w.listed /\ u.tuned = FALSE
        /\ SameJoin(w, u) /\ SameNets(w, u) /\ u.active = w.active /\ u.data = w.data
    BY <1>2, <1>4, <2>1, ZenonT(40) DEF StateType, SameJoin, SameNets
  <2>4. /\ SameJoin(t, u) /\ SameNets(t, u) /\ u.active = t.active /\ u.data = t.data
    BY <1>1, <1>2, <2>3 DEF SameJoin, SameNets, SameLink
  <2>5. /\ t.rec \in RecType /\ v.rec \in RecType
        /\ t.listed \in ListedType /\ v.listed \in ListedType
    BY <1>1 DEF StateType
  <2>6. \A k \in {"search", "attempt"} :
                 u.rec[k] = t.rec[k] /\ u.listed[k] = t.listed[k]
    BY <1>1, <1>2, <2>3, <2>5 DEF RecType, ListedType, Kinds
  <2>7. \A k \in ScanKinds :
                 Ended(t, u, k)
    BY <1>1, <1>2, <2>3, <2>5 DEF Ended, RecType, ListedType, Kinds, ScanKinds
  <2> QED
    BY <1>4, <1>6, <2>2, <2>3, <2>4, <2>6, <2>7
<1> QED
  BY <1>5, <1>6

LEMMA ReturnToIdleFields ==
    ASSUME NEW t \in StateType, NEW u, u = ReturnToIdle(t)
    PROVE  /\ u \in StateType /\ SameNets(t, u) /\ u.target = t.target
           /\ u.join = "IDLE" /\ u.auth = "UNAUTHENTICATED" /\ u.attempt = None
           /\ u.sought = None /\ u.passive = t.passive
           /\ u.saved = None /\ u.ssid = IF t.saved = None THEN t.ssid ELSE t.saved
           /\ u.scan = ScanStop(t).scan /\ SameLink(ScanStop(t), u)
           /\ \A k \in {"search", "attempt"} :
                 Ended(t, u, k)
           /\ \A k \in ScanKinds :
                 u.rec[k] = ScanStop(t).rec[k] /\ u.listed[k] = ScanStop(t).listed[k]
<1> DEFINE s == ScanStop(t)
           v == Unschedule(s, "search")
           w == Unschedule(v, "attempt")
           i == IF t.saved = None THEN w.ssid ELSE t.saved
<1>1. /\ s \in StateType /\ SameJoin(t, s) /\ SameNets(t, s)
      /\ \A k \in {"search", "attempt"} :
            s.rec[k] = t.rec[k] /\ s.listed[k] = t.listed[k]
  BY ScanStopFields
<1>2. u = [w EXCEPT !.join = "IDLE", !.auth = "UNAUTHENTICATED", !.attempt = None,
                    !.sought = None, !.scanned = FALSE, !.asked = FALSE,
                    !.ssid = IF t.saved = None THEN @ ELSE t.saved, !.saved = None]
  BY DEF ReturnToIdle
<1> HIDE DEF s
<1>3. /\ v \in StateType /\ v.scan = s.scan
      /\ v.rec = [s.rec EXCEPT !["search"] = 0]
      /\ v.listed = [s.listed EXCEPT !["search"] = @ \ {s.rec["search"]}]
      /\ SameJoin(s, v) /\ SameNets(s, v) /\ SameLink(s, v)
  BY <1>1, UnscheduleFields DEF Kinds
<1> HIDE DEF v
<1>4. /\ w \in StateType /\ w.scan = v.scan
      /\ w.rec = [v.rec EXCEPT !["attempt"] = 0]
      /\ w.listed = [v.listed EXCEPT !["attempt"] = @ \ {v.rec["attempt"]}]
      /\ SameJoin(v, w) /\ SameNets(v, w) /\ SameLink(v, w)
  BY <1>3, UnscheduleFields DEF Kinds
<1> HIDE DEF w
<1>5. i \in Nets \cup {UserSsid}
  BY <1>4 DEF StateType
<1>6. u = [w EXCEPT !.join = "IDLE", !.auth = "UNAUTHENTICATED", !.attempt = None,
                    !.sought = None, !.scanned = FALSE, !.asked = FALSE,
                    !.ssid = i, !.saved = None]
  BY <1>2, <1>4 DEF StateType
<1>7. i = IF t.saved = None THEN t.ssid ELSE t.saved
  BY <1>1, <1>3, <1>4 DEF SameJoin
<1> HIDE DEF i
<1>8. "IDLE" \in JoinStates /\ "UNAUTHENTICATED" \in AuthStates
  BY DEF JoinStates, AuthStates
<1>9. /\ u \in StateType /\ SameNets(w, u) /\ u.target = w.target
      /\ u.join = "IDLE" /\ u.auth = "UNAUTHENTICATED" /\ u.attempt = None
      /\ u.sought = None /\ u.passive = w.passive
      /\ u.saved = None /\ u.ssid = i /\ SameSchedules(w, u) /\ SameLink(w, u)
  BY <1>4, <1>5, <1>6, <1>8, ZenonT(40) DEF StateType, SameNets, SameSchedules, SameLink
<1>10. /\ s.rec \in RecType /\ v.rec \in RecType
       /\ s.listed \in ListedType /\ v.listed \in ListedType
  BY <1>1, <1>3 DEF StateType
<1>11. /\ \A k \in {"search", "attempt"} :
                 Ended(t, u, k)
       /\ \A k \in ScanKinds : u.rec[k] = s.rec[k] /\ u.listed[k] = s.listed[k]
  BY <1>1, <1>3, <1>4, <1>9, <1>10
     DEF Ended, RecType, ListedType, Kinds, ScanKinds, SameSchedules
<1>12. /\ SameNets(t, u) /\ u.target = t.target /\ u.passive = t.passive
       /\ u.scan = s.scan /\ SameLink(s, u)
  BY <1>1, <1>3, <1>4, <1>9 DEF SameJoin, SameNets, SameLink, SameSchedules
<1> QED
  BY <1>7, <1>9, <1>11, <1>12 DEF s

-----------------------------------------------------------------------------
(* The list of networks.                                                    *)

LEMMA ListTypes ==
    ASSUME NEW t \in StateType
    PROVE  /\ t.list \in Seq(Slots) /\ t.free \in Seq(Slots) /\ t.info \in InfoType
           /\ Range(t.list) \subseteq Slots /\ Range(t.free) \subseteq Slots
           /\ \A s \in Slots : t.info[s].bssid \in Nets \cup {None}
           /\ t.active \in Slots \cup {None} /\ None \notin Nets /\ None \notin Slots
<1>1. t.list \in Seq(Slots) /\ t.free \in Seq(Slots) /\ t.info \in InfoType
      /\ t.active \in Slots \cup {None}
  BY DEF StateType
<1>2. Range(t.list) \subseteq Slots /\ Range(t.free) \subseteq Slots
  BY <1>1, RangeSubset
<1>3. \A s \in Slots : t.info[s].bssid \in Nets \cup {None}
  BY <1>1 DEF InfoType
<1> QED
  BY <1>1, <1>2, <1>3, StaJoinAssumption

LEMMA SlotFacts ==
    ASSUME NEW t \in StateType, Kept(t), NEW n \in Nets
    PROVE  \/ SlotFor(t, n) = None /\ Found(t, n) = {}
           \/ /\ Found(t, n) # {} /\ SlotFor(t, n) \in Range(t.list)
              /\ t.info[SlotFor(t, n)].bssid = n
           \/ /\ Found(t, n) = {} /\ SlotFor(t, n) \in Range(t.free)
           \/ /\ Found(t, n) = {} /\ SlotFor(t, n) \in Range(t.list)
              /\ t.active # SlotFor(t, n)
<1>1. /\ t.list \in Seq(Slots) /\ t.free \in Seq(Slots) /\ Range(t.list) \subseteq Slots
  BY ListTypes
<1>2. CASE Found(t, n) # {}
  <2>1. SlotFor(t, n) \in Found(t, n)
    BY <1>2 DEF SlotFor
  <2> QED
    BY <1>2, <2>1 DEF Found
<1>3. CASE Found(t, n) = {} /\ t.free # <<>>
  <2>1. SlotFor(t, n) = Head(t.free)
    BY <1>3 DEF SlotFor
  <2> QED
    BY <1>1, <1>3, <2>1, HeadInRange
<1>4. CASE Found(t, n) = {} /\ t.free = <<>> /\ Droppable(t) # <<>>
  <2> DEFINE unkept == {s \in Slots : ~t.info[s].keep}
             d == Selected(t.list, unkept)
  <2>1. SlotFor(t, n) = Head(d) /\ d # <<>>
    BY <1>4 DEF SlotFor, Droppable
  <2>2. d \in Seq(Slots) /\ Range(d) = Range(t.list) \cap unkept
    BY <1>1, SelectedFacts
  <2> HIDE DEF d
  <2>3. Head(d) \in Range(d)
    BY <2>1, <2>2, HeadInRange
  <2> QED
    BY <1>4, <2>1, <2>2, <2>3 DEF Kept
<1>5. CASE Found(t, n) = {} /\ t.free = <<>> /\ Droppable(t) = <<>>
  BY <1>5 DEF SlotFor
<1> QED
  BY <1>2, <1>3, <1>4, <1>5

Without(l, s) == Selected(l, Slots \ {s})

LEMMA EnterFields ==
    ASSUME NEW t \in StateType, NEW n \in Nets, NEW s, NEW u,
           s \in Slots /\ s = SlotFor(t, n) /\ u = Enter(t, n)
    PROVE  /\ u \in StateType /\ SameJoin(t, u) /\ SameLink(t, u) /\ SameSchedules(t, u)
           /\ u.list = Append(Without(t.list, s), s) /\ u.free = Without(t.free, s)
           /\ \A r \in Slots : r # s => u.info[r] = t.info[r]
           /\ Found(t, n) # {} => u.info[s] = t.info[s]
           /\ Found(t, n) = {} => u.info[s].bssid = n /\ ~u.info[s].keep
<1> DEFINE i == IF Found(t, n) # {} THEN t.info[s] ELSE [bssid |-> n, keep |-> FALSE]
           I == [t.info EXCEPT ![s] = i]
           L == Append(Selected(t.list, Slots \ {s}), s)
           F == Selected(t.free, Slots \ {s})
<1>1. /\ t.list \in Seq(Slots) /\ t.free \in Seq(Slots) /\ t.info \in InfoType /\ s # None
  BY ListTypes
<1>2. L \in Seq(Slots) /\ F \in Seq(Slots)
  BY <1>1, SelectedFacts, RangeAppend
<1>3. u = [t EXCEPT !.list = Append(Selected(@, Slots \ {s}), s),
                    !.free = Selected(@, Slots \ {s}),
                    !.info[s] = IF Found(t, n) # {} THEN @
                                ELSE [bssid |-> n, keep |-> FALSE]]
  BY <1>1 DEF Enter
<1>4. I \in InfoType /\ I[s] = i /\ \A r \in Slots \ {s} : I[r] = t.info[r]
  <2>1. i \in [bssid : Nets \cup {None}, keep : BOOLEAN]
    BY <1>1 DEF InfoType
  <2> HIDE DEF i
  <2> QED
    BY <1>1, <2>1 DEF InfoType
<1>5. u = [t EXCEPT !.list = L, !.free = F, !.info = I]
  BY <1>1, <1>3 DEF StateType
<1>6. /\ L = Append(Without(t.list, s), s) /\ F = Without(t.free, s)
      /\ Found(t, n) # {} => i = t.info[s]
      /\ Found(t, n) = {} => i.bssid = n /\ ~i.keep
  BY DEF Without
<1> HIDE DEF L, F, I, i
<1>7. /\ u \in StateType /\ SameJoin(t, u) /\ SameLink(t, u) /\ SameSchedules(t, u)
      /\ u.list = L /\ u.free = F /\ u.info = I
  BY <1>2, <1>4, <1>5, ZenonT(40) DEF StateType, SameJoin, SameLink, SameSchedules
<1> QED
  BY <1>4, <1>6, <1>7

LEMMA EnterKept ==
    ASSUME NEW t \in StateType, Kept(t), NEW n \in Nets, NEW s, s = SlotFor(t, n),
           NEW u, u = Enter(t, n)
    PROVE  /\ u \in StateType /\ Kept(u)
           /\ SameJoin(t, u) /\ SameLink(t, u) /\ SameSchedules(t, u)
           /\ t.active # None => u.info[t.active].bssid = t.info[t.active].bssid
           /\ s = None => u = t
           /\ s # None => s \in Range(u.list) /\ u.info[s].bssid = n
<1>1. \/ s = None /\ Found(t, n) = {}
      \/ Found(t, n) # {} /\ s \in Range(t.list) /\ t.info[s].bssid = n
      \/ Found(t, n) = {} /\ s \in Range(t.free)
      \/ Found(t, n) = {} /\ s \in Range(t.list) /\ t.active # s
  BY SlotFacts
<1>2. /\ t.list \in Seq(Slots) /\ t.free \in Seq(Slots)
      /\ Range(t.list) \subseteq Slots /\ Range(t.free) \subseteq Slots
      /\ t.active \in Slots \cup {None} /\ None \notin Slots /\ None \notin Nets
  BY ListTypes
<1>3. CASE s = None
  <2>1. u = t
    BY <1>3 DEF Enter
  <2> QED
    BY <1>3, <2>1 DEF SameJoin, SameLink, SameSchedules
<1>4. CASE s # None
  <2>1. s \in Slots
    BY <1>1, <1>2, <1>4
  <2>3. /\ u \in StateType /\ SameJoin(t, u) /\ SameLink(t, u) /\ SameSchedules(t, u)
        /\ u.list = Append(Without(t.list, s), s) /\ u.free = Without(t.free, s)
        /\ \A r \in Slots : r # s => u.info[r] = t.info[r]
        /\ Found(t, n) # {} => u.info[s] = t.info[s]
        /\ Found(t, n) = {} => u.info[s].bssid = n /\ ~u.info[s].keep
    BY <2>1, EnterFields
  <2> DEFINE rest == Without(t.list, s)
  <2>4. /\ rest \in Seq(Slots) /\ Range(rest) = Range(t.list) \ {s} /\ IsInjective(rest)
    BY <1>2, SelectedFacts DEF Kept, Without
  <2>14. u.list = Append(rest, s)
    BY <2>3
  <2> HIDE DEF rest
  <2>5. Range(u.list) = Range(t.list) \cup {s} /\ IsInjective(u.list)
    BY <2>1, <2>4, <2>14, RangeAppend, InjectiveAppend
  <2>6. Range(u.free) = Range(t.free) \ {s} /\ IsInjective(u.free)
    BY <1>2, <2>3, SelectedFacts DEF Kept, Without
  <2>7. u.active = t.active
    BY <2>3 DEF SameLink
  <2>8. u.info[s].bssid = n
    BY <1>1, <1>4, <2>3
  <2>9. \A r \in Slots : u.info[r].keep <=> r = u.active
    <3>1. CASE Found(t, n) # {}
      BY <2>3, <2>7, <3>1 DEF Kept
    <3>2. CASE Found(t, n) = {}
      <4>1. s # t.active
        BY <1>1, <1>2, <1>4, <2>1, <3>2 DEF Kept
      <4> QED
        BY <2>3, <2>7, <3>2, <4>1 DEF Kept
    <3> QED
      BY <3>1, <3>2
  <2>10. ASSUME NEW r \in Range(t.list), r # s
         PROVE  u.info[r].bssid = t.info[r].bssid /\ t.info[r].bssid # n
    <3>1. u.info[r] = t.info[r]
      BY <1>2, <2>3, <2>10
    <3>2. Found(t, n) = {} => t.info[r].bssid # n
      BY DEF Found
    <3>3. Found(t, n) # {} => t.info[r].bssid # n
      BY <1>1, <1>4, <2>10 DEF Kept
    <3> QED
      BY <3>1, <3>2, <3>3
  <2>11. Kept(u)
    <3>1. Range(u.list) \cap Range(u.free) = {} /\ Range(u.list) \cup Range(u.free) = Slots
      BY <2>1, <2>5, <2>6 DEF Kept
    <3>2. \A r \in Range(u.list) : u.info[r].bssid \in Nets
      BY <2>5, <2>8, <2>10 DEF Kept
    <3>3. \A r, q \in Range(u.list) : u.info[r].bssid = u.info[q].bssid => r = q
      BY <2>5, <2>8, <2>10 DEF Kept
    <3>4. u.active # None => u.active \in Range(u.list)
      BY <2>5, <2>7 DEF Kept
    <3> QED
      BY <2>5, <2>6, <2>9, <3>1, <3>2, <3>3, <3>4 DEF Kept
  <2>12. t.active # None => u.info[t.active].bssid = t.info[t.active].bssid
    <3>1. t.active # None => t.active \in Range(t.list)
      BY DEF Kept
    <3>2. t.active = s => Found(t, n) # {}
      BY <1>1, <1>2, <1>4, <3>1 DEF Kept
    <3> QED
      BY <2>3, <2>10, <3>1, <3>2
  <2> QED
    BY <1>4, <2>3, <2>5, <2>8, <2>11, <2>12
<1> QED
  BY <1>3, <1>4

LEMMA DropKept ==
    ASSUME NEW t \in StateType, Kept(t), NEW s \in Range(t.list), ~t.info[s].keep,
           NEW u, u = Drop(t, s)
    PROVE  /\ u \in StateType /\ Kept(u)
           /\ SameJoin(t, u) /\ SameLink(t, u) /\ SameSchedules(t, u)
           /\ t.active # None => u.info[t.active] = t.info[t.active]
<1>1. /\ t.list \in Seq(Slots) /\ t.free \in Seq(Slots) /\ t.info \in InfoType
      /\ Range(t.list) \subseteq Slots /\ Range(t.free) \subseteq Slots
      /\ t.active \in Slots \cup {None} /\ None \notin Slots /\ s \in Slots
  BY ListTypes
<1> DEFINE L == Selected(t.list, Slots \ {s})
           F == Append(t.free, s)
           I == [t.info EXCEPT ![s] = Unused]
<1>2. L \in Seq(Slots) /\ Range(L) = Range(t.list) \ {s} /\ IsInjective(L)
  BY <1>1, SelectedFacts DEF Kept
<1>3. F \in Seq(Slots) /\ Range(F) = Range(t.free) \cup {s} /\ IsInjective(F)
  BY <1>1, RangeAppend, InjectiveAppend DEF Kept
<1>4. I \in InfoType /\ ~I[s].keep /\ \A r \in Slots \ {s} : I[r] = t.info[r]
  BY <1>1 DEF InfoType, Unused
<1>5. u = [t EXCEPT !.info = I, !.list = L, !.free = F]
  BY <1>1 DEF Drop, StateType
<1> HIDE DEF L, F, I
<1>6. /\ u \in StateType /\ SameJoin(t, u) /\ SameLink(t, u) /\ SameSchedules(t, u)
      /\ u.list = L /\ u.free = F /\ u.info = I
  BY <1>2, <1>3, <1>4, <1>5, ZenonT(40) DEF StateType, SameJoin, SameLink, SameSchedules
<1>7. u.active = t.active /\ s # t.active
  BY <1>1, <1>6 DEF SameLink, Kept
<1>8. Kept(u)
  BY <1>1, <1>2, <1>3, <1>4, <1>6, <1>7, SMTT(20) DEF Kept
<1> QED
  BY <1>1, <1>4, <1>6, <1>7, <1>8

LEMMA DroppableFacts ==
    ASSUME NEW t \in StateType
    PROVE  /\ Droppable(t) \in Seq(Slots)
           /\ Range(Droppable(t)) = {s \in Range(t.list) : ~t.info[s].keep}
           /\ IsInjective(t.list) => IsInjective(Droppable(t))
           /\ Droppable(t) # <<>> => /\ Head(Droppable(t)) \in Range(t.list)
                                     /\ ~t.info[Head(Droppable(t))].keep
<1> DEFINE unkept == {s \in Slots : ~t.info[s].keep}
           d == Selected(t.list, unkept)
<1>1. t.list \in Seq(Slots) /\ Range(t.list) \subseteq Slots
  BY ListTypes
<1>2. /\ d \in Seq(Slots) /\ Range(d) = Range(t.list) \cap unkept
      /\ IsInjective(t.list) => IsInjective(d)
  BY <1>1, SelectedFacts
<1>3. Droppable(t) = d
  BY DEF Droppable
<1>4. Range(t.list) \cap unkept = {s \in Range(t.list) : ~t.info[s].keep}
  BY <1>1
<1> HIDE DEF d, unkept
<1>5. d # <<>> => Head(d) \in Range(d)
  BY <1>2, HeadInRange
<1> QED
  BY <1>2, <1>3, <1>4, <1>5

LEMMA DropAllKept ==
    ASSUME NEW t \in StateType, Kept(t), NEW u, u = DropAll(t)
    PROVE  /\ u \in StateType /\ Kept(u)
           /\ SameJoin(t, u) /\ SameLink(t, u) /\ SameSchedules(t, u)
           /\ t.active # None => u.info[t.active] = t.info[t.active]
<1>1. /\ t.list \in Seq(Slots) /\ t.free \in Seq(Slots) /\ t.info \in InfoType
      /\ Range(t.list) \subseteq Slots /\ Range(t.free) \subseteq Slots
      /\ t.active \in Slots \cup {None} /\ None \notin Slots
  BY ListTypes
<1> DEFINE kept == {s \in Slots : t.info[s].keep}
           D == Droppable(t)
           L == Selected(t.list, kept)
           F == t.free \o D
           I == [s \in Slots |-> IF s \in Range(D) THEN Unused ELSE t.info[s]]
<1>2. /\ D \in Seq(Slots) /\ Range(D) = {s \in Range(t.list) : ~t.info[s].keep}
      /\ IsInjective(D)
  BY DroppableFacts DEF Kept
<1>3. L \in Seq(Slots) /\ Range(L) = Range(t.list) \cap kept /\ IsInjective(L)
  BY <1>1, SelectedFacts DEF Kept
<1>4. u = [t EXCEPT !.info = [s \in Slots |-> IF s \in Range(D) THEN Unused ELSE @[s]],
                    !.list = Selected(@, {s \in Slots : t.info[s].keep}),
                    !.free = @ \o D]
  BY DEF DropAll
<1> HIDE DEF D
<1>5. F \in Seq(Slots) /\ Range(F) = Range(t.free) \cup Range(D) /\ IsInjective(F)
  <2>1. Range(t.free) \cap Range(D) = {} /\ IsInjective(t.free)
    BY <1>2 DEF Kept
  <2> QED
    BY <1>1, <1>2, <2>1, ConcatFacts
<1>6. /\ I \in InfoType /\ \A s \in Range(D) : ~I[s].keep
      /\ \A s \in Slots \ Range(D) : I[s] = t.info[s]
  BY <1>1, <1>2 DEF InfoType, Unused
<1>7. u = [t EXCEPT !.info = I, !.list = L, !.free = F]
  BY <1>1, <1>4 DEF StateType
<1>8. \A s \in Slots : s \in kept <=> t.info[s].keep
  OBVIOUS
<1> HIDE DEF kept, L, F, I
<1>9. /\ u \in StateType /\ SameJoin(t, u) /\ SameLink(t, u) /\ SameSchedules(t, u)
      /\ u.list = L /\ u.free = F /\ u.info = I
  BY <1>3, <1>5, <1>6, <1>7, ZenonT(40) DEF StateType, SameJoin, SameLink, SameSchedules
<1>10. u.active = t.active /\ t.active \notin Range(D)
  BY <1>1, <1>2, <1>9 DEF SameLink, Kept
<1>11. Kept(u)
  <2>1. Range(u.list) \cap Range(u.free) = {} /\ Range(u.list) \cup Range(u.free) = Slots
    BY <1>1, <1>2, <1>3, <1>5, <1>8, <1>9 DEF Kept
  <2>2. \A s \in Range(u.list) : s \in Range(t.list) /\ s \in Slots \ Range(D)
    BY <1>1, <1>2, <1>3, <1>8, <1>9
  <2>3. /\ \A r \in Range(u.list) : u.info[r].bssid \in Nets
        /\ \A r, s \in Range(u.list) : u.info[r].bssid = u.info[s].bssid => r = s
    BY <1>6, <1>9, <2>2 DEF Kept
  <2>4. \A s \in Slots : u.info[s].keep <=> s = u.active
    BY <1>2, <1>6, <1>9, <1>10 DEF Kept
  <2>5. u.active # None => u.active \in Range(u.list)
    BY <1>1, <1>3, <1>8, <1>9, <1>10 DEF Kept
  <2> QED
    BY <1>3, <1>5, <1>9, <2>1, <2>3, <2>4, <2>5 DEF Kept
<1> QED
  BY <1>1, <1>6, <1>9, <1>10, <1>11

-----------------------------------------------------------------------------
(* What a step that leaves the join machine alone keeps of it.              *)

Frame(t, u) ==
    /\ SameJoin(t, u)
    /\ t.active = None => u.active = None
    /\ u.rec["search"] = t.rec["search"] /\ u.rec["attempt"] = t.rec["attempt"]

LEMMA FrameKeeps ==
    ASSUME NEW t, NEW u, Frame(t, u)
    PROVE  /\ \A P : Joining(t, P) => Joining(u, P)
           /\ Wanted(t) => Wanted(u)
           /\ u.join = t.join /\ u.target = t.target /\ u.attempt = t.attempt
           /\ u.auth = t.auth /\ u.saved = t.saved
<1>1. \A P : Joining(t, P) => Joining(u, P)
  BY DEF Frame, SameJoin, Joining, Due
<1>2. Wanted(t) => Wanted(u)
  BY DEF Frame, SameJoin, Wanted
<1> QED
  BY <1>1, <1>2 DEF Frame, SameJoin

LEMMA FrameTrans ==
    ASSUME NEW t, NEW u, NEW v, Frame(t, u), Frame(u, v)
    PROVE  Frame(t, v)
  BY DEF Frame, SameJoin

\* A step that leaves the join machine and the scan alone.
Mild(t, u) ==
    /\ Frame(t, u) /\ u.scan = t.scan
    /\ \A P : Base(t, P) => Base(u, P)

LEMMA MildKeeps ==
    ASSUME NEW t, NEW u, Mild(t, u)
    PROVE  /\ \A P : Sound(t, P) => Sound(u, P)
           /\ Poised(t) => Poised(u)
           /\ SameJoin(t, u) /\ u.scan = t.scan
<1>1. \A P : Sound(t, P) => Sound(u, P)
  BY FrameKeeps DEF Mild, Sound
<1>2. Poised(t) => Poised(u)
  <2> SUFFICES ASSUME Poised(t) PROVE Poised(u)
    OBVIOUS
  <2>1. /\ Base(t, {}) /\ Wanted(t) /\ t.join = "IDLE" /\ t.saved = None
        /\ t.attempt = None => t.auth = "UNAUTHENTICATED" /\ t.sought = None
        /\ t.scan.state = "IDLE" /\ t.rec["search"] = 0 /\ t.rec["attempt"] = 0
    BY DEF Poised
  <2>2. Frame(t, u) /\ u.scan = t.scan /\ Base(u, {})
    BY <2>1 DEF Mild
  <2>3. Wanted(u)
    BY <2>1, <2>2, FrameKeeps
  <2>4. SameJoin(t, u) /\ u.rec["search"] = 0 /\ u.rec["attempt"] = 0
    BY <2>1, <2>2 DEF Frame
  <2> QED
    BY <2>1, <2>2, <2>3, <2>4 DEF Poised, SameJoin
<1> QED
  BY <1>1, <1>2 DEF Mild, Frame

LEMMA MildTrans ==
    ASSUME NEW t, NEW u, NEW v, Mild(t, u), Mild(u, v)
    PROVE  Mild(t, v)
<1>1. Frame(t, v)
  BY FrameTrans DEF Mild
<1> QED
  BY <1>1 DEF Mild

SameBssids(t, u) == \A s \in Slots : u.info[s].bssid = t.info[s].bssid

LEMMA LeaveFields ==
    ASSUME NEW t \in StateType, NEW u, u = Leave(t)
    PROVE  /\ u \in StateType /\ SameJoin(t, u) /\ SameSchedules(t, u)
           /\ u.list = t.list /\ u.free = t.free /\ u.channel = t.channel
           /\ u.active = None /\ u.pause = TRUE /\ u.tuned = t.tuned
           /\ t.active = None => u.data = t.data
           /\ t.active # None => u.data = None
           /\ SameBssids(t, u)
           /\ \A s \in Slots : s # t.active => (u.info[s].keep <=> t.info[s].keep)
           /\ t.active # None => ~u.info[t.active].keep
<1> DEFINE v == [t EXCEPT !.pause = TRUE]
<1>1. /\ v \in StateType /\ SameJoin(t, v) /\ SameSchedules(t, v) /\ SameNets(t, v)
      /\ v.channel = t.channel /\ v.active = t.active /\ v.pause = TRUE /\ v.data = t.data
      /\ v.tuned = t.tuned
  BY ZenonT(40) DEF StateType, SameJoin, SameSchedules, SameNets
<1>2. u = IF t.active = None THEN v
          ELSE [v EXCEPT !.info[t.active].keep = FALSE, !.active = None, !.data = None]
  BY DEF Leave
<1> HIDE DEF v
<1>3. v.info \in InfoType /\ t.active \in Slots \cup {None} /\ None \notin Slots
  BY <1>1, ListTypes
<1>4. CASE t.active = None
  BY <1>1, <1>2, <1>3, <1>4 DEF SameBssids, SameJoin, SameSchedules, SameNets
<1>5. CASE t.active # None
  <2> DEFINE I == [v.info EXCEPT ![t.active].keep = FALSE]
  <2>1. /\ I \in InfoType /\ ~I[t.active].keep
        /\ \A s \in Slots : I[s].bssid = v.info[s].bssid
        /\ \A s \in Slots : s # t.active => (I[s].keep <=> v.info[s].keep)
    BY <1>3, <1>5 DEF InfoType
  <2>2. u = [v EXCEPT !.info = I, !.active = None, !.data = None]
    BY <1>1, <1>2, <1>5 DEF StateType
  <2> HIDE DEF I
  <2>3. /\ u \in StateType /\ SameJoin(v, u) /\ SameSchedules(v, u) /\ u.info = I
        /\ u.list = v.list /\ u.free = v.free /\ u.channel = v.channel
        /\ u.active = None /\ u.pause = v.pause /\ u.data = None /\ u.tuned = v.tuned
    <3>1. v \in StateType /\ I \in InfoType
      BY <1>1, <2>1
    <3> QED
      BY <3>1, <2>2, ZenonT(40) DEF StateType, SameJoin, SameSchedules
  <2> QED
    BY <1>1, <1>5, <2>1, <2>3 DEF SameBssids, SameJoin, SameSchedules, SameNets
<1> QED
  BY <1>4, <1>5

LEMMA LeaveBase ==
    ASSUME NEW t, NEW P, Base(t, P), NEW u, u = Leave(t)
    PROVE  /\ Base(u, P) /\ Frame(t, u) /\ u.scan = t.scan
           /\ u.active = None /\ u.data = None
           /\ \A s \in Slots : ~u.info[s].keep
           /\ SameBssids(t, u)
<1>1. /\ u \in StateType /\ SameJoin(t, u) /\ SameSchedules(t, u)
      /\ u.list = t.list /\ u.free = t.free /\ u.channel = t.channel
      /\ u.active = None /\ u.pause = TRUE /\ u.tuned = t.tuned
      /\ t.active = None => u.data = t.data
      /\ t.active # None => u.data = None
      /\ SameBssids(t, u)
      /\ \A s \in Slots : s # t.active => (u.info[s].keep <=> t.info[s].keep)
      /\ t.active # None => ~u.info[t.active].keep
  <2>1. t \in StateType
    BY DEF Base
  <2> QED
    BY <2>1, LeaveFields
<1>2. Range(t.list) \subseteq Slots /\ None \notin Slots
  BY ListTypes DEF Base
<1>3. Kept(t) /\ Connected(t) /\ Scheduled(t, P)
  BY DEF Base
<1>4. \A s \in Slots : ~u.info[s].keep
  BY <1>1, <1>2, <1>3 DEF Kept
<1>5. Kept(u)
  BY <1>1, <1>2, <1>3, <1>4 DEF Kept, SameBssids
<1>6. u.data = None /\ Connected(u)
  BY <1>1, <1>3 DEF Connected, SameSchedules
<1>7. Scheduled(u, P)
  BY <1>1, <1>3 DEF Scheduled, Due, Scanning, SameJoin, SameSchedules
<1>8. Base(u, P)
  BY <1>1, <1>5, <1>6, <1>7 DEF Base, SameJoin
<1>9. Frame(t, u)
  BY <1>1, <1>2 DEF Frame, SameSchedules, SameBssids
<1> QED
  BY <1>1, <1>4, <1>6, <1>8, <1>9 DEF SameSchedules

LEMMA ScanStopBase ==
    ASSUME NEW t, NEW P, Base(t, P), NEW u, u = ScanStop(t)
    PROVE  /\ Base(u, P \ ScanKinds) /\ Frame(t, u) /\ u.scan.state = "IDLE"
           /\ SameNets(t, u) /\ u.active = t.active /\ u.data = t.data
<1>1. /\ u \in StateType /\ u.scan.state = "IDLE"
      /\ SameJoin(t, u) /\ SameNets(t, u) /\ u.active = t.active /\ u.data = t.data
      /\ t.scan.state = "IDLE" => u = t
      /\ t.scan.state # "IDLE" =>
            /\ u.pause = FALSE /\ u.tuned = FALSE
            /\ t.active # None => u.channel = t.info[t.active].bssid
      /\ \A k \in {"search", "attempt"} :
            u.rec[k] = t.rec[k] /\ u.listed[k] = t.listed[k]
      /\ t.scan.state # "IDLE" => \A k \in ScanKinds :
            Ended(t, u, k)
  BY ScanStopFields DEF Base
<1>2. Kept(t) /\ Connected(t) /\ Scheduled(t, P) /\ P \subseteq Kinds
  BY DEF Base
<1>3. Frame(t, u)
  BY <1>1 DEF Frame, SameNets
<1>4. CASE t.scan.state = "IDLE"
  <2>1. P \ ScanKinds = P
    BY <1>2, <1>4 DEF Scheduled, Due
  <2> QED
    BY <1>1, <1>3, <1>4, <2>1
<1>5. CASE t.scan.state # "IDLE"
  <2>1. Kept(u)
    BY <1>1, <1>2 DEF Kept, SameNets
  <2>2. Connected(u)
    BY <1>1, <1>2, <1>5 DEF Connected, SameNets
  <2>3. Scheduled(u, P \ ScanKinds)
    <3>1. \A k \in Kinds : k \in ScanKinds \/ k \in {"search", "attempt"}
      BY DEF Kinds, ScanKinds
    <3>2. \A k \in Kinds : u.listed[k] = {u.rec[k]} \ {0}
      BY <1>1, <1>2, <1>5, <3>1 DEF Scheduled, Ended
    <3>3. \A k \in P \ ScanKinds : u.rec[k] = 0
      BY <1>1, <1>2, <3>1 DEF Scheduled
    <3>4. \A k \in ScanKinds : ~Due(u, k, P \ ScanKinds)
      BY <1>1, <1>5 DEF Due, Ended
    <3> QED
      BY <1>1, <3>2, <3>3, <3>4 DEF Scheduled, Scanning
  <2>4. Base(u, P \ ScanKinds)
    BY <1>1, <1>2, <2>1, <2>2, <2>3 DEF Base, SameJoin
  <2> QED
    BY <1>1, <1>3, <2>4
<1> QED
  BY <1>4, <1>5

LEMMA ReturnToIdleSound ==
    ASSUME NEW t, NEW P, Base(t, P), NEW u, u = ReturnToIdle(t)
    PROVE  /\ Sound(u, {}) /\ u.join = "IDLE" /\ u.scan.state = "IDLE"
           /\ u.auth = "UNAUTHENTICATED" /\ u.attempt = None /\ u.target = t.target
           /\ SameNets(t, u) /\ u.active = t.active /\ u.data = t.data
<1> DEFINE s == ScanStop(t)
<1>1. /\ u \in StateType /\ SameNets(t, u) /\ u.target = t.target
      /\ u.join = "IDLE" /\ u.auth = "UNAUTHENTICATED" /\ u.attempt = None
      /\ u.sought = None /\ u.passive = t.passive
      /\ u.saved = None /\ u.ssid = IF t.saved = None THEN t.ssid ELSE t.saved
      /\ u.scan = s.scan /\ SameLink(s, u)
      /\ \A k \in {"search", "attempt"} :
            Ended(t, u, k)
      /\ \A k \in ScanKinds : u.rec[k] = s.rec[k] /\ u.listed[k] = s.listed[k]
  BY ReturnToIdleFields DEF Base
<1>2. /\ Base(s, P \ ScanKinds) /\ s.scan.state = "IDLE" /\ SameNets(t, s)
      /\ s.active = t.active /\ s.data = t.data
  BY ScanStopBase
<1> HIDE DEF s
<1>3. /\ Kept(s) /\ Connected(s) /\ Scheduled(s, P \ ScanKinds)
      /\ Scheduled(t, P) /\ (t.saved = None => t.ssid = UserSsid)
      /\ t.saved \in {UserSsid, None}
  BY <1>2 DEF Base, StateType
<1>4. Kept(u)
  BY <1>1, <1>2, <1>3 DEF Kept, SameNets, SameLink
<1>5. Connected(u)
  BY <1>1, <1>2, <1>3 DEF Connected, SameNets, SameLink
<1>6. Scheduled(u, {})
  <2>1. \A k \in Kinds : k \in ScanKinds \/ k \in {"search", "attempt"}
    BY DEF Kinds, ScanKinds
  <2>2. \A k \in Kinds : u.listed[k] = {u.rec[k]} \ {0}
    BY <1>1, <1>3, <2>1 DEF Scheduled, Ended
  <2> QED
    BY <1>1, <1>2, <1>3, <2>2 DEF Scheduled, Due, Ended, Scanning
<1>7. Base(u, {})
  BY <1>1, <1>3, <1>4, <1>5, <1>6 DEF Base
<1>8. Joining(u, {}) /\ Wanted(u)
  BY <1>1 DEF Ended, Joining, Wanted, Due
<1> QED
  BY <1>1, <1>2, <1>7, <1>8 DEF Sound, SameLink

LEMMA EnterBase ==
    ASSUME NEW t, NEW P, Base(t, P), NEW n \in Nets, NEW s, s = SlotFor(t, n),
           NEW u, u = Enter(t, n)
    PROVE  /\ Base(u, P) /\ Frame(t, u) /\ SameLink(t, u) /\ SameSchedules(t, u)
           /\ t.active # None => u.info[t.active].bssid = t.info[t.active].bssid
           /\ s = None => u = t
           /\ s # None => s \in Range(u.list) /\ u.info[s].bssid = n
<1>1. t \in StateType /\ Kept(t) /\ Connected(t) /\ Scheduled(t, P) /\ P \subseteq Kinds
  BY DEF Base
<1>2. /\ u \in StateType /\ Kept(u)
      /\ SameJoin(t, u) /\ SameLink(t, u) /\ SameSchedules(t, u)
      /\ t.active # None => u.info[t.active].bssid = t.info[t.active].bssid
      /\ s = None => u = t
      /\ s # None => s \in Range(u.list) /\ u.info[s].bssid = n
  BY <1>1, EnterKept
<1>3. Connected(u)
  BY <1>1, <1>2 DEF Connected, SameLink, SameSchedules
<1>4. Scheduled(u, P)
  BY <1>1, <1>2 DEF Scheduled, Due, Scanning, SameJoin, SameSchedules
<1>5. Base(u, P)
  BY <1>1, <1>2, <1>3, <1>4 DEF Base, SameJoin
<1>6. Frame(t, u)
  BY <1>2 DEF Frame, SameLink, SameSchedules
<1> QED
  BY <1>2, <1>5, <1>6

\* Entries are dropped.
LEMMA DroppedMild ==
    ASSUME NEW t, NEW u, u \in StateType, Kept(u),
           SameJoin(t, u), SameLink(t, u), SameSchedules(t, u),
           t.active # None => u.info[t.active] = t.info[t.active]
    PROVE  Mild(t, u)
<1>1. ASSUME NEW P, Base(t, P)
      PROVE  Base(u, P)
  <2>1. Connected(t) /\ Scheduled(t, P) /\ P \subseteq Kinds
        /\ (t.saved = None => t.ssid = UserSsid)
    BY <1>1 DEF Base
  <2>2. Connected(u)
    BY <2>1 DEF Connected, SameLink, SameSchedules
  <2>3. Scheduled(u, P)
    BY <2>1 DEF Scheduled, Due, Scanning, SameJoin, SameSchedules
  <2> QED
    BY <2>1, <2>2, <2>3 DEF Base, SameJoin
<1>2. Frame(t, u) /\ u.scan = t.scan
  BY DEF Frame, SameLink, SameSchedules
<1> QED
  BY <1>1, <1>2 DEF Mild

LEMMA EnterMild ==
    ASSUME NEW t, NEW Q, Base(t, Q), NEW n \in Nets, NEW u, u = Enter(t, n)
    PROVE  Mild(t, u) /\ u.active = t.active
<1>1. Frame(t, u) /\ SameSchedules(t, u) /\ SameLink(t, u)
  BY EnterBase
<1>2. \A P : Base(t, P) => Base(u, P)
  BY EnterBase
<1> QED
  BY <1>1, <1>2 DEF Mild, SameSchedules, SameLink

LEMMA StopJoinSound ==
    ASSUME NEW t, Base(t, {}), t.join = "IDLE" => Joining(t, {}), NEW u, u = StopJoin(t)
    PROVE  /\ Sound(u, {}) /\ u.join = "IDLE" /\ u.target = t.target
           /\ u.auth = "UNAUTHENTICATED" /\ u.attempt = None
           /\ SameNets(t, u) /\ u.active = t.active /\ u.data = t.data
           /\ t.scan.state = "IDLE" => u.scan.state = "IDLE"
<1>1. CASE t.join = "IDLE"
  <2>1. u = t
    BY <1>1 DEF StopJoin
  <2>2. t.attempt = None /\ t.auth = "UNAUTHENTICATED" /\ t.sought = None
    BY <1>1 DEF Joining
  <2>3. Wanted(t)
    BY <2>2 DEF Wanted
  <2> QED
    BY <1>1, <2>1, <2>2, <2>3 DEF Sound, SameNets
<1>2. CASE t.join # "IDLE"
  <2>1. u = ReturnToIdle(t)
    BY <1>2 DEF StopJoin
  <2> QED
    BY <2>1, ReturnToIdleSound
<1> QED
  BY <1>1, <1>2

\* The radio is on the channel of the BSS.
Tuned(t, p, q) == [t EXCEPT !.channel = BssidOf(t, t.active), !.pause = p, !.tuned = q]

LEMMA TunedBase ==
    ASSUME NEW t, NEW P, Base(t, P), t.active # None, NEW p \in BOOLEAN, NEW q \in BOOLEAN,
           q => t.scan.state = "RUNNING", t.scan.state = "RUNNING" => p \/ q,
           NEW u, u = Tuned(t, p, q)
    PROVE  /\ Base(u, P) /\ Frame(t, u) /\ SameNets(t, u)
           /\ u.scan = t.scan /\ u.active = t.active /\ u.data = t.data
<1>1. /\ t \in StateType /\ Kept(t) /\ Connected(t) /\ Scheduled(t, P) /\ P \subseteq Kinds
      /\ t.active \in Slots \cup {None}
  BY DEF Base, StateType
<1> DEFINE c == BssidOf(t, t.active)
<1>2. c = t.info[t.active].bssid /\ c \in Nets \cup {None}
  BY <1>1, BssidType DEF BssidOf
<1> HIDE DEF c
<1>3. u = [t EXCEPT !.channel = c, !.pause = p, !.tuned = q]
  BY DEF c, Tuned
<1>4. /\ u \in StateType /\ SameJoin(t, u) /\ SameSchedules(t, u) /\ SameNets(t, u)
      /\ u.active = t.active /\ u.data = t.data /\ u.channel = c /\ u.pause = p
      /\ u.tuned = q
  <2>1. u \in StateType
    BY <1>1, <1>2, <1>3, ZenonT(40) DEF StateType
  <2>2. SameJoin(t, u) /\ SameSchedules(t, u) /\ SameNets(t, u)
    BY <1>1, <1>3 DEF StateType, SameJoin, SameSchedules, SameNets
  <2>3. /\ u.active = t.active /\ u.data = t.data /\ u.channel = c /\ u.pause = p
        /\ u.tuned = q
    BY <1>1, <1>3 DEF StateType
  <2> QED
    BY <2>1, <2>2, <2>3
<1>5. Kept(u)
  BY <1>1, <1>4 DEF Kept, SameNets
<1>6. Connected(u)
  BY <1>1, <1>2, <1>4 DEF Connected, SameNets, SameSchedules
<1>7. Scheduled(u, P)
  BY <1>1, <1>4 DEF Scheduled, Due, Scanning, SameJoin, SameSchedules
<1>8. Base(u, P)
  BY <1>1, <1>4, <1>5, <1>6, <1>7 DEF Base, SameJoin
<1>9. Frame(t, u)
  BY <1>4 DEF Frame, SameNets, SameSchedules
<1> QED
  BY <1>4, <1>8, <1>9 DEF SameSchedules

LEMMA DisassociateBase ==
    ASSUME NEW t, NEW P, Base(t, P), NEW u, u = Disassociate(t)
    PROVE  /\ Base(u, P) /\ Frame(t, u) /\ u.scan = t.scan /\ u.active = None
<1>1. CASE t.active = None
  BY <1>1 DEF Disassociate, Frame, SameJoin
<1>2. CASE t.active # None
  <2> DEFINE v == [t EXCEPT !.channel = BssidOf(t, t.active)]
             w == Tuned(t, t.pause, t.tuned)
  <2>1. v = w /\ t.pause \in BOOLEAN /\ t.tuned \in BOOLEAN
    BY DEF Base, StateType, Tuned
  <2>2. /\ t.tuned => t.scan.state = "RUNNING"
        /\ t.scan.state = "RUNNING" => t.pause \/ t.tuned
    BY DEF Base, Connected
  <2>3. Base(w, P) /\ Frame(t, w) /\ w.scan = t.scan
    BY <1>2, <2>1, <2>2, TunedBase
  <2>4. u = Leave(v)
    BY <1>2 DEF Disassociate
  <2> HIDE DEF v, w
  <2>5. Base(u, P) /\ Frame(v, u) /\ u.scan = v.scan /\ u.active = None
    BY <2>1, <2>3, <2>4, LeaveBase
  <2> QED
    BY <2>1, <2>3, <2>5, FrameTrans
<1> QED
  BY <1>1, <1>2

\* configure_bss.
LEMMA AdoptSound ==
    ASSUME NEW t, Sound(t, {}), NEW n \in Nets \cup {None},
           NEW u, u = Adopt(t, n)
    PROVE  /\ Sound(u, {}) /\ u.target = t.target
           /\ u.auth = t.auth \/ u.auth = "UNAUTHENTICATED"
           /\ u.active = t.active \/ u.active = None \/ u.info[u.active].bssid = n
<1> DEFINE no == FALSE
<1>1. CASE n # None /\ t.active # None /\ BssidOf(t, t.active) = n
  <2> DEFINE q == t.scan.state = "RUNNING"
  <2>1. u = Tuned(t, no, q) /\ no \in BOOLEAN /\ q \in BOOLEAN
    BY <1>1 DEF Adopt, Tune, Tuned
  <2>2. q => t.scan.state = "RUNNING"
    OBVIOUS
  <2>3. t.scan.state = "RUNNING" => no \/ q
    OBVIOUS
  <2> HIDE DEF q, no
  <2>4. Base(u, {}) /\ Frame(t, u) /\ u.active = t.active
    <3>1. Base(t, {})
      BY DEF Sound
    <3> QED
      BY <1>1, <2>1, <2>2, <2>3, <3>1, TunedBase
  <2> QED
    BY <2>4, FrameKeeps DEF Sound
<1>3. CASE n = None
  <2>1. u = Leave(t)
    BY <1>3 DEF Adopt
  <2>2. Base(u, {}) /\ Frame(t, u) /\ u.active = None
    BY <2>1, LeaveBase DEF Sound
  <2> QED
    BY <2>2, FrameKeeps DEF Sound
<1>2. CASE n # None /\ ~(t.active # None /\ BssidOf(t, t.active) = n)
  <2> DEFINE a == Leave(t)
             b == StopJoin(a)
             c == ScanStop(b)
             v == Enter(c, n)
             s == SlotFor(c, n)
  <2>1. Base(a, {}) /\ Frame(t, a) /\ a.active = None
    BY LeaveBase DEF Sound
  <2>2. Joining(a, {}) /\ a.target = t.target
    BY <2>1, FrameKeeps DEF Sound
  <2>3. u = IF s = None THEN c ELSE Tune([v EXCEPT !.active = s, !.info[s].keep = TRUE])
    BY <1>2 DEF Adopt
  <2> HIDE DEF a
  <2>4. /\ Sound(b, {}) /\ b.join = "IDLE" /\ b.target = a.target
        /\ b.auth = "UNAUTHENTICATED" /\ b.active = a.active
    BY <2>1, <2>2, StopJoinSound
  <2> HIDE DEF b
  <2>5. Base(c, {}) /\ Frame(b, c) /\ c.scan.state = "IDLE" /\ c.active = b.active
    <3>1. {} \ ScanKinds = {}
      OBVIOUS
    <3> QED
      BY <2>4, <3>1, ScanStopBase DEF Sound
  <2>6. Sound(c, {}) /\ c.join = "IDLE" /\ c.target = b.target
        /\ c.auth = "UNAUTHENTICATED"
    BY <2>4, <2>5, FrameKeeps DEF Sound
  <2> HIDE DEF c
  <2>7. CASE s = None
    BY <2>1, <2>2, <2>3, <2>4, <2>5, <2>6, <2>7
  <2>8. CASE s # None
    <3>1. /\ Base(v, {}) /\ Frame(c, v) /\ SameLink(c, v) /\ SameSchedules(c, v)
          /\ s \in Range(v.list) /\ v.info[s].bssid = n
      BY <1>2, <2>6, <2>8, EnterBase DEF Sound
    <3>2. v.join = "IDLE" /\ v.target = c.target /\ v.auth = "UNAUTHENTICATED"
          /\ Joining(v, {}) /\ Wanted(v) /\ v.scan = c.scan /\ v.active = None
      BY <2>1, <2>4, <2>5, <2>6, <3>1, FrameKeeps
         DEF Sound, SameLink, SameSchedules
    <3> HIDE DEF v, s
    <3>3. /\ v \in StateType /\ Kept(v) /\ Connected(v) /\ Scheduled(v, {})
          /\ v.info \in InfoType /\ Range(v.list) \subseteq Slots /\ None \notin Slots
          /\ (v.saved = None => v.ssid = UserSsid)
      BY <3>1, ListTypes DEF Base
    <3> DEFINE I == [v.info EXCEPT ![s].keep = TRUE]
               d == [v EXCEPT !.active = s, !.info[s].keep = TRUE]
               q == d.scan.state = "RUNNING"
    <3>4. /\ I \in InfoType /\ \A r \in Slots : I[r].bssid = v.info[r].bssid
          /\ \A r \in Slots : I[r].keep <=> r = s
      <4>1. s \in Slots /\ v.info \in InfoType
        BY <3>1, <3>3
      <4>2. \A r \in Slots : ~v.info[r].keep
        BY <3>2, <3>3 DEF Kept
      <4>3. I \in InfoType /\ I[s].keep /\ I[s].bssid = v.info[s].bssid
        BY <4>1 DEF InfoType
      <4>4. \A r \in Slots : r # s => I[r] = v.info[r]
        BY <4>1 DEF InfoType
      <4> HIDE DEF I
      <4> QED
        BY <4>2, <4>3, <4>4
    <3>5. d = [v EXCEPT !.active = s, !.info = I]
      BY <3>3 DEF StateType
    <3>6. u = Tuned(d, no, q) /\ no \in BOOLEAN /\ q \in BOOLEAN /\ ~no
      BY <2>3, <2>8 DEF Tune, Tuned
    <3>18. q <=> d.scan.state = "RUNNING"
      OBVIOUS
    <3> HIDE DEF I, d, q, no
    <3>7. /\ d \in StateType /\ SameJoin(v, d) /\ SameSchedules(v, d) /\ d.active = s
          /\ d.info = I /\ d.list = v.list /\ d.free = v.free
          /\ d.data = v.data /\ d.pause = v.pause
      <4>1. v \in StateType /\ I \in InfoType /\ s \in Slots
        BY <3>1, <3>3, <3>4
      <4> QED
        BY <3>5, <4>1 DEF StateType, SameJoin, SameSchedules
    <3>8. Kept(d)
      BY <3>1, <3>3, <3>4, <3>7 DEF Kept
    <3>9. /\ u \in StateType /\ SameJoin(d, u) /\ SameSchedules(d, u) /\ SameNets(d, u)
          /\ u.active = d.active /\ u.data = d.data /\ u.pause = no /\ u.tuned = q
          /\ u.channel = d.info[d.active].bssid
      <4> DEFINE k == BssidOf(d, d.active)
      <4>1. d.active \in Slots \cup {None}
        BY <3>7 DEF StateType
      <4>2. k \in Nets \cup {None} /\ k = d.info[d.active].bssid
        BY <2>8, <3>7, <4>1, BssidType DEF BssidOf
      <4>3. u = [d EXCEPT !.channel = k, !.pause = no, !.tuned = q]
        BY <3>6 DEF Tuned
      <4> HIDE DEF k
      <4> QED
        BY <3>6, <3>7, <4>2, <4>3, ZenonT(40) DEF StateType, SameJoin, SameSchedules, SameNets
    <3>10. Kept(u)
      BY <3>8, <3>9 DEF Kept, SameNets
    <3>11. Connected(u)
      BY <2>5, <3>2, <3>3, <3>7, <3>9, <3>18 DEF Connected, SameNets, SameSchedules
    <3>12. Scheduled(u, {})
      BY <3>3, <3>7, <3>9 DEF Scheduled, Due, Scanning, SameJoin, SameSchedules
    <3>13. Base(u, {})
      BY <3>3, <3>7, <3>9, <3>10, <3>11, <3>12 DEF Base, SameJoin
    <3>14. Joining(u, {})
      BY <3>2, <3>7, <3>9 DEF Joining, Due, SameJoin, SameSchedules
    <3>15. Wanted(u)
      BY <3>2, <3>7, <3>9 DEF Joining, Wanted, SameJoin
    <3>16. u.info[u.active].bssid = n
      BY <3>1, <3>3, <3>4, <3>7, <3>9 DEF SameNets
    <3>17. u.target = t.target /\ u.auth = "UNAUTHENTICATED"
      BY <2>2, <2>4, <2>6, <3>2, <3>7, <3>9 DEF SameJoin
    <3> QED
      BY <3>13, <3>14, <3>15, <3>16, <3>17 DEF Sound
  <2> QED
    BY <2>7, <2>8
<1> QED
  BY <1>1, <1>2, <1>3

\* configure_bss with a network in the list leaves every entry its network.
LEMMA AdoptBssids ==
    ASSUME NEW t, Sound(t, {}), NEW n \in Nets, Found(t, n) # {}, NEW u, u = Adopt(t, n)
    PROVE  SameBssids(t, u)
<1>0. t \in StateType /\ n # None
  BY StaJoinAssumption DEF Sound, Base
<1>1. CASE t.active # None /\ BssidOf(t, t.active) = n
  <2>1. u = Tune(t)
    BY <1>0, <1>1 DEF Adopt
  <2> QED
    BY <1>0, <2>1 DEF Tune, SameBssids, StateType
<1>2. CASE ~(t.active # None /\ BssidOf(t, t.active) = n)
  <2> DEFINE a == Leave(t)
             b == StopJoin(a)
             c == ScanStop(b)
             v == Enter(c, n)
             s == SlotFor(c, n)
  <2>1. u = IF s = None THEN c ELSE Tune([v EXCEPT !.active = s, !.info[s].keep = TRUE])
    BY <1>0, <1>2 DEF Adopt
  <2>2. Base(a, {}) /\ Frame(t, a) /\ SameBssids(t, a) /\ a.list = t.list
    BY <1>0, LeaveBase, LeaveFields DEF Sound
  <2>3. Joining(a, {})
    BY <2>2, FrameKeeps DEF Sound
  <2> HIDE DEF a
  <2>4. Sound(b, {}) /\ SameNets(a, b)
    BY <2>2, <2>3, StopJoinSound
  <2> HIDE DEF b
  <2>5. c \in StateType /\ SameNets(b, c)
    BY <2>4, ScanStopFields DEF Sound, Base
  <2> HIDE DEF c
  <2>6. c.list = t.list /\ SameBssids(t, c)
    BY <2>2, <2>4, <2>5 DEF SameNets, SameBssids
  <2>7. Range(t.list) \subseteq Slots /\ None \notin Slots
    BY <1>0, ListTypes
  <2>8. Found(c, n) # {}
    BY <2>6, <2>7 DEF Found, SameBssids
  <2>9. s \in Found(c, n) /\ s \in Slots
    <3>1. s \in Found(c, n)
      BY <2>8 DEF SlotFor
    <3> QED
      BY <2>6, <2>7, <3>1 DEF Found
  <2>10. v \in StateType /\ \A r \in Slots : v.info[r] = c.info[r]
    <3> HIDE DEF s
    <3>1. s = SlotFor(c, n)
      BY DEF s
    <3> QED
      BY <2>5, <2>8, <2>9, <3>1, EnterFields
  <2> HIDE DEF v, s
  <2>11. SameBssids(c, u)
    <3> DEFINE I == [v.info EXCEPT ![s].keep = TRUE]
               d == [v EXCEPT !.active = s, !.info[s].keep = TRUE]
    <3>1. v.info \in InfoType
      BY <2>10 DEF StateType
    <3>2. I \in InfoType /\ \A r \in Slots : I[r].bssid = v.info[r].bssid
      BY <2>9, <3>1 DEF InfoType
    <3>3. d = [v EXCEPT !.active = s, !.info = I]
      BY <2>10 DEF StateType
    <3>4. u = Tune(d)
      BY <2>1, <2>7, <2>9
    <3> HIDE DEF I, d
    <3>5. d \in StateType /\ d.info = I
      BY <2>9, <2>10, <3>2, <3>3 DEF StateType
    <3>6. u.info = d.info
      BY <3>4, <3>5 DEF Tune, StateType
    <3> QED
      BY <2>10, <3>2, <3>5, <3>6 DEF SameBssids
  <2> QED
    BY <2>6, <2>11 DEF SameBssids
<1> QED
  BY <1>1, <1>2

-----------------------------------------------------------------------------
(* The scan.                                                                *)

\* A schedule that was owed is paid.
Paid(P, k) == P \ {k}

LEMMA ScheduleSound ==
    ASSUME NEW t, NEW P, Sound(t, P), NEW k \in P, NEW u, u = Schedule(t, k)
    PROVE  /\ Sound(u, Paid(P, k)) /\ SameJoin(t, u) /\ u.scan = t.scan /\ u.rec[k] # 0
<1>1. /\ t \in StateType /\ Kept(t) /\ Connected(t) /\ Scheduled(t, P) /\ P \subseteq Kinds
      /\ k \in Kinds /\ Joining(t, P) /\ Wanted(t) /\ (t.saved = None => t.ssid = UserSsid)
  BY DEF Base, Sound
<1>2. t.listed[k] = {}
  BY <1>1 DEF Scheduled
<1>3. /\ u \in StateType /\ u.scan = t.scan
      /\ u.rec = [t.rec EXCEPT ![k] = 1] /\ u.listed = [t.listed EXCEPT ![k] = {1}]
      /\ SameJoin(t, u) /\ SameNets(t, u) /\ SameLink(t, u)
  BY <1>1, <1>2, ScheduleFields
<1>4. /\ u.rec[k] = 1 /\ u.listed[k] = {1}
      /\ \A l \in Kinds : l # k => u.rec[l] = t.rec[l] /\ u.listed[l] = t.listed[l]
  <2>1. t.rec \in RecType /\ t.listed \in ListedType
    BY <1>1 DEF StateType
  <2> QED
    BY <1>1, <1>3, <2>1 DEF RecType, ListedType
<1>5. \A l \in Kinds : Due(u, l, Paid(P, k)) <=> Due(t, l, P)
  BY <1>4 DEF Due, Paid
<1>6. Scheduled(u, Paid(P, k))
  <2>1. \A l \in Kinds : u.listed[l] = {u.rec[l]} \ {0}
    BY <1>1, <1>4 DEF Scheduled
  <2>2. \A l \in Paid(P, k) : u.rec[l] = 0
    BY <1>1, <1>4 DEF Scheduled, Paid
  <2>3. ScanKinds \subseteq Kinds /\ Scanning(u) = Scanning(t)
    BY <1>3 DEF ScanKinds, Kinds, Scanning, SameJoin
  <2> QED
    BY <1>1, <1>3, <1>5, <2>1, <2>2, <2>3 DEF Scheduled
<1>7. Kept(u) /\ Connected(u)
  BY <1>1, <1>3 DEF Kept, Connected, SameNets, SameLink
<1>8. Base(u, Paid(P, k))
  BY <1>1, <1>3, <1>6, <1>7 DEF Base, Paid, SameJoin
<1>9. Joining(u, Paid(P, k))
  <2>1. "search" \in Kinds /\ "attempt" \in Kinds
    BY DEF Kinds
  <2> QED
    BY <1>1, <1>3, <1>5, <2>1 DEF Joining, Paid, SameJoin, SameLink
<1>10. Wanted(u)
  BY <1>1, <1>3 DEF Wanted, SameJoin, SameNets
<1> QED
  BY <1>3, <1>4, <1>8, <1>9, <1>10 DEF Sound

\* The state of the scan with no schedule of its own is running.
LEMMA ScanBeginSound ==
    ASSUME NEW t, NEW P, Sound(t, P), t.scan.state = "IDLE", P \cap ScanKinds = {},
           NEW u, u = ScanBegin(t)
    PROVE  /\ Sound(u, P \cup Scanning(t)) /\ SameJoin(t, u) /\ u.scan.state = "RUNNING"
<1>1. /\ t \in StateType /\ Kept(t) /\ Connected(t) /\ Scheduled(t, P) /\ P \subseteq Kinds
      /\ Joining(t, P) /\ Wanted(t) /\ (t.saved = None => t.ssid = UserSsid)
  BY DEF Base, Sound
<1>2. /\ u \in StateType /\ u.scan.state = "RUNNING" /\ u.pause = TRUE
      /\ u.rec = t.rec /\ u.listed = t.listed
      /\ SameJoin(t, u) /\ SameNets(t, u) /\ u.tuned = t.tuned
      /\ u.active = t.active /\ u.data = t.data /\ u.channel = t.channel
  BY <1>1, ScanBeginFields
<1>3. /\ Scanning(t) \subseteq ScanKinds /\ Scanning(u) = Scanning(t)
      /\ ScanKinds \subseteq Kinds /\ "search" \notin ScanKinds /\ "attempt" \notin ScanKinds
  BY <1>2 DEF Scanning, ScanKinds, Kinds, SameJoin
<1>4. Scheduled(u, P \cup Scanning(t))
  <2>1. \A k \in ScanKinds : t.rec[k] = 0
    BY <1>1 DEF Scheduled, Due
  <2> QED
    BY <1>1, <1>2, <1>3, <2>1 DEF Scheduled, Due
<1>5. Kept(u) /\ Connected(u)
  BY <1>1, <1>2 DEF Kept, Connected, SameNets
<1>6. Base(u, P \cup Scanning(t))
  BY <1>1, <1>2, <1>3, <1>4, <1>5 DEF Base, SameJoin
<1>7. Joining(u, P \cup Scanning(t))
  BY <1>1, <1>2, <1>3 DEF Joining, Due, SameJoin
<1>8. Wanted(u)
  BY <1>1, <1>2 DEF Wanted, SameJoin, SameNets
<1> QED
  BY <1>2, <1>6, <1>7, <1>8 DEF Sound

\* What changing channel leaves owing: the probe, unless the scan is passive.
Hopped(t, P) == IF t.passive THEN P ELSE P \cup {"probe"}

LEMMA HopSound ==
    ASSUME NEW t, NEW P, Sound(t, P), t.scan.state = "RUNNING",
           NEW c \in Nets \cup {None}, NEW u, u = Hop(t, c)
    PROVE  /\ Sound(u, Hopped(t, P)) /\ SameJoin(t, u) /\ u.scan.state = "RUNNING"
<1>1. /\ t \in StateType /\ Kept(t) /\ Connected(t) /\ Scheduled(t, P) /\ P \subseteq Kinds
      /\ Joining(t, P) /\ Wanted(t) /\ (t.saved = None => t.ssid = UserSsid)
  BY DEF Base, Sound
<1>2. /\ u \in StateType /\ u.scan.state = t.scan.state
      /\ u.rec = [t.rec EXCEPT !["probe"] = 0]
      /\ u.listed = [t.listed EXCEPT !["probe"] = @ \ {t.rec["probe"]}]
      /\ SameJoin(t, u) /\ SameNets(t, u) /\ u.tuned = t.tuned
      /\ u.active = t.active /\ u.data = t.data /\ u.pause = t.pause
  BY <1>1, HopFields
<1>3. /\ u.rec["probe"] = 0 /\ u.listed["probe"] = t.listed["probe"] \ {t.rec["probe"]}
      /\ \A l \in Kinds : l # "probe" => u.rec[l] = t.rec[l] /\ u.listed[l] = t.listed[l]
  <2>1. t.rec \in RecType /\ t.listed \in ListedType /\ "probe" \in Kinds
    BY <1>1 DEF StateType, Kinds
  <2> QED
    BY <1>2, <2>1 DEF RecType, ListedType
<1>4. /\ {"scan", "probe"} \subseteq Kinds /\ {"scan", "probe"} \subseteq ScanKinds /\ "search" \in Kinds /\ "attempt" \in Kinds
      /\ ScanKinds \subseteq Kinds
  BY DEF ScanKinds, Kinds
<1>10. /\ Scanning(u) = Scanning(t) /\ Hopped(t, P) \subseteq Kinds
       /\ "scan" \in Scanning(t) /\ ("probe" \in Scanning(t) <=> ~t.passive)
  BY <1>1, <1>2, <1>4 DEF Scanning, ScanKinds, SameJoin, Hopped
<1>5. Scheduled(u, Hopped(t, P))
  <2>1. \A l \in Kinds : u.listed[l] = {u.rec[l]} \ {0}
    BY <1>1, <1>3, <1>4 DEF Scheduled
  <2>2. \A l \in Hopped(t, P) : u.rec[l] = 0
    BY <1>1, <1>3 DEF Scheduled, Hopped
  <2>3. \A l \in ScanKinds : l \in Scanning(u) <=> Due(u, l, Hopped(t, P))
    <3>1. Due(u, "scan", Hopped(t, P)) <=> Due(t, "scan", P)
      BY <1>3, <1>4 DEF Due, Hopped
    <3>2. Due(t, "scan", P) /\ (t.passive => ~Due(t, "probe", P))
      BY <1>1, <1>4, <1>10 DEF Scheduled
    <3>3. Due(u, "probe", Hopped(t, P)) <=> ~t.passive
      BY <1>3, <3>2 DEF Due, Hopped
    <3> QED
      BY <1>10, <3>1, <3>2, <3>3 DEF ScanKinds
  <2> QED
    BY <1>2, <2>1, <2>2, <2>3 DEF Scheduled
<1>6. Kept(u) /\ Connected(u)
  BY <1>1, <1>2 DEF Kept, Connected, SameNets
<1>7. Base(u, Hopped(t, P))
  BY <1>1, <1>2, <1>5, <1>6, <1>10 DEF Base, SameJoin
<1>8. Joining(u, Hopped(t, P))
  BY <1>1, <1>2, <1>3, <1>4 DEF Joining, Due, SameJoin, Hopped
<1>9. Wanted(u)
  BY <1>1, <1>2 DEF Wanted, SameJoin, SameNets
<1> QED
  BY <1>2, <1>7, <1>8, <1>9 DEF Sound

LEMMA ScheduleProbeSound ==
    ASSUME NEW t, NEW P, Sound(t, P), t.scan.state = "RUNNING",
           t.passive \/ "probe" \in P, NEW u, u = ScheduleProbe(t)
    PROVE  Sound(u, Paid(P, "probe")) /\ SameJoin(t, u) /\ u.scan = t.scan
<1>1. CASE t.passive
  <2>1. Scheduled(t, P) /\ "probe" \in ScanKinds /\ "probe" \notin Scanning(t)
    BY <1>1 DEF Base, Sound, Scanning, ScanKinds
  <2>2. Paid(P, "probe") = P
    BY <2>1 DEF Scheduled, Due, Paid
  <2> QED
    BY <1>1, <2>2 DEF ScheduleProbe, SameJoin
<1>2. CASE ~t.passive
  BY <1>2, ScheduleSound DEF ScheduleProbe
<1> QED
  BY <1>1, <1>2

LEMMA ScheduleScanSound ==
    ASSUME NEW t, NEW P, Sound(t, P), t.scan.state = "RUNNING", NEW u, u = ScheduleScan(t)
    PROVE  Sound(u, Paid(P, "scan")) /\ SameJoin(t, u) /\ u.scan = t.scan
<1>1. Scheduled(t, P) /\ "scan" \in ScanKinds /\ "scan" \in Scanning(t)
  BY DEF Base, Sound, ScanKinds, Scanning
<1>2. CASE t.rec["scan"] = 0
  <2>1. "scan" \in P
    BY <1>1, <1>2 DEF Scheduled, Due
  <2>2. u = Schedule(t, "scan")
    BY <1>2 DEF ScheduleScan
  <2> QED
    BY <2>1, <2>2, ScheduleSound
<1>3. CASE t.rec["scan"] # 0
  <2>1. Paid(P, "scan") = P
    BY <1>1, <1>3 DEF Scheduled, Paid
  <2> QED
    BY <1>3, <2>1 DEF ScheduleScan, SameJoin
<1> QED
  BY <1>2, <1>3

\* A channel change ends with both schedules listed.
LEMMA TransitionSound ==
    ASSUME NEW t, NEW P, Sound(t, P), t.scan.state = "RUNNING",
           NEW c \in Nets \cup {None}, NEW u, u = Transition(t, c)
    PROVE  Sound(u, P \ ScanKinds) /\ SameJoin(t, u)
<1> DEFINE v == Hop(t, c)
           w == ScheduleProbe(v)
           Q == Hopped(t, P)
<1>1. Sound(v, Q) /\ SameJoin(t, v) /\ v.scan.state = "RUNNING"
  BY HopSound
<1>2. u = ScheduleScan(w)
  BY DEF Transition
<1>3. v.passive \/ "probe" \in Q
  BY <1>1 DEF Hopped, SameJoin
<1>4. Paid(Paid(Q, "probe"), "scan") = P \ ScanKinds
  BY DEF Paid, ScanKinds, Hopped
<1> HIDE DEF v, Q
<1>5. Sound(w, Paid(Q, "probe")) /\ SameJoin(v, w) /\ w.scan = v.scan
  BY <1>1, <1>3, ScheduleProbeSound
<1> HIDE DEF w
<1>6. Sound(u, Paid(Paid(Q, "probe"), "scan")) /\ SameJoin(w, u)
  BY <1>1, <1>2, <1>5, ScheduleScanSound
<1> QED
  BY <1>1, <1>4, <1>5, <1>6 DEF SameJoin

LEMMA ScanStartSound ==
    ASSUME NEW t, NEW P, Sound(t, P), P \cap ScanKinds = {},
           NEW c \in Nets \cup {None}, NEW u, u = ScanStart(t, c)
    PROVE  Sound(u, P) /\ SameJoin(t, u)
<1>1. CASE t.scan.state = "IDLE"
  <2> DEFINE v == ScanBegin(t)
             Q == P \cup Scanning(t)
  <2>1. Sound(v, Q) /\ SameJoin(t, v) /\ v.scan.state = "RUNNING"
    BY <1>1, ScanBeginSound
  <2>2. u = Transition(v, c)
    BY <1>1 DEF ScanStart
  <2>3. Q \ ScanKinds = P
    BY DEF Scanning
  <2> HIDE DEF v, Q
  <2>4. Sound(u, Q \ ScanKinds) /\ SameJoin(v, u)
    BY <2>1, <2>2, TransitionSound
  <2> QED
    BY <2>1, <2>3, <2>4 DEF SameJoin
<1>2. CASE t.scan.state # "IDLE"
  BY <1>2 DEF ScanStart, SameJoin
<1> QED
  BY <1>1, <1>2

-----------------------------------------------------------------------------
(* The join state machine.                                                  *)

LEMMA AskedMild ==
    ASSUME NEW t, t \in StateType, NEW A \in BOOLEAN, NEW u, u = [t EXCEPT !.asked = A]
    PROVE  Mild(t, u) /\ u.active = t.active /\ SameNets(t, u)
<1>1. /\ u \in StateType /\ SameJoin(t, u) /\ SameNets(t, u) /\ SameLink(t, u)
      /\ SameSchedules(t, u)
  BY DEF StateType, SameJoin, SameNets, SameLink, SameSchedules
<1>2. Kept(t) => Kept(u)
  BY <1>1 DEF Kept, SameNets, SameLink
<1>3. ASSUME NEW P, Base(t, P)
      PROVE  Base(u, P)
  <2>1. /\ Kept(t) /\ Connected(t) /\ Scheduled(t, P) /\ P \subseteq Kinds
        /\ (t.saved = None => t.ssid = UserSsid)
    BY <1>3 DEF Base
  <2>2. Connected(u)
    BY <1>1, <2>1 DEF Connected, SameNets, SameLink, SameSchedules
  <2>3. Scheduled(u, P)
    BY <1>1, <2>1 DEF Scheduled, Due, Scanning, SameJoin, SameSchedules
  <2> QED
    BY <1>1, <1>2, <2>1, <2>2, <2>3 DEF Base, SameJoin
<1>4. Frame(t, u) /\ u.scan = t.scan /\ u.active = t.active
  BY <1>1 DEF Frame, SameLink, SameSchedules
<1> QED
  BY <1>1, <1>3, <1>4 DEF Mild

LEMMA AskSound ==
    ASSUME NEW t, NEW P, Sound(t, P), NEW u, u = Ask(t)
    PROVE  /\ Sound(u, P) /\ SameJoin(t, u) /\ SameNets(t, u)
           /\ u.active = t.active /\ u.scan = t.scan
<1> DEFINE n == BssidOf(t, t.attempt)
           yes == TRUE
<1>1. CASE n # None /\ t.channel = n
  <2>1. u = [t EXCEPT !.asked = yes] /\ yes \in BOOLEAN
    BY <1>1 DEF Ask
  <2>2. t \in StateType
    BY DEF Sound, Base
  <2> HIDE DEF yes
  <2>3. Mild(t, u) /\ u.active = t.active /\ SameNets(t, u)
    BY <2>1, <2>2, AskedMild
  <2> QED
    BY <2>3, MildKeeps
<1>2. CASE ~(n # None /\ t.channel = n)
  BY <1>2 DEF Ask, SameJoin, SameNets
<1> QED
  BY <1>1, <1>2

LEMMA PollSound ==
    ASSUME NEW t, NEW P, Sound(t, P), t.attempt # None,
           t.auth = "ASSOCIATED" => P = {}, NEW u, u = Poll(t)
    PROVE  /\ Sound(u, P) /\ u.auth # "ASSOCIATED"
           /\ t.auth # "ASSOCIATED" =>
                 SameJoin(t, u) /\ u.scan = t.scan /\ u.active = t.active
           /\ t.auth = "ASSOCIATED" => u.join = "IDLE"
           /\ \/ u.active = t.active \/ u.active = None
              \/ u.info[u.active].bssid = BssidOf(t, t.attempt)
<1>1. Base(t, P) /\ Joining(t, P) /\ t.join = "ATTEMPTING"
  BY DEF Sound, Joining
<1>2. CASE t.auth # "ASSOCIATED"
  <2>1. u = Ask(t)
    BY <1>1, <1>2 DEF Poll
  <2> QED
    BY <1>2, <2>1, AskSound DEF SameJoin
<1>3. CASE t.auth = "ASSOCIATED"
  <2> DEFINE n == BssidOf(t, t.attempt)
             v == Adopt(t, n)
  <2>1. P = {} /\ n \in Nets \cup {None}
    <3>1. t \in StateType /\ t.attempt \in Slots \cup {None}
      BY <1>1 DEF Base, StateType
    <3> QED
      BY <1>3, <3>1, BssidType
  <2>2. u = ReturnToIdle(v)
    BY <1>1, <1>3 DEF Poll
  <2> HIDE DEF n
  <2>3. /\ Sound(v, {})
        /\ v.active = t.active \/ v.active = None \/ v.info[v.active].bssid = n
    BY <2>1, AdoptSound
  <2> HIDE DEF v
  <2>4. /\ Sound(u, {}) /\ u.auth = "UNAUTHENTICATED" /\ u.join = "IDLE"
        /\ SameNets(v, u) /\ u.active = v.active
    BY <2>2, <2>3, ReturnToIdleSound DEF Sound
  <2> QED
    BY <1>3, <2>1, <2>3, <2>4 DEF n, SameNets
<1> QED
  BY <1>2, <1>3

\* start_join_attempt up to its first poll: the attempt begins with its poll owed,
\* or there is none.
LEMMA BeginAttemptSound ==
    ASSUME NEW t, Poised(t), NEW u, u = BeginAttempt(t)
    PROVE  /\ u.auth = t.auth \/ u.auth = "UNAUTHENTICATED"
           /\ u.join # "SEARCHING"
           /\ u.join = "ATTEMPTING" => Sound(u, {"attempt"})
           /\ u.join # "ATTEMPTING" => Sound(u, {})
<1>1. /\ Base(t, {}) /\ Wanted(t)
      /\ t.join = "IDLE" /\ t.saved = None
      /\ t.attempt = None => t.auth = "UNAUTHENTICATED" /\ t.sought = None
      /\ t.scan.state = "IDLE" /\ t.rec["search"] = 0 /\ t.rec["attempt"] = 0
  BY DEF Poised
<1>2. CASE t.attempt = None
  <2>1. u = t
    BY <1>2 DEF BeginAttempt
  <2>2. Joining(t, {})
    BY <1>1, <1>2 DEF Joining, Due
  <2> QED
    BY <1>1, <2>1, <2>2 DEF Sound
<1>3. CASE t.attempt # None
  <2> DEFINE v == [t EXCEPT !.join = "ATTEMPTING"]
  <2>1. /\ v \in StateType /\ v.join = "ATTEMPTING" /\ v.auth = t.auth
        /\ v.attempt = t.attempt /\ v.target = t.target /\ v.saved = t.saved
        /\ v.ssid = t.ssid /\ v.sought = t.sought /\ v.passive = t.passive
        /\ SameNets(t, v) /\ SameLink(t, v) /\ SameSchedules(t, v)
    <3>1. t \in StateType /\ "ATTEMPTING" \in JoinStates
      BY <1>1 DEF Base, JoinStates
    <3> QED
      BY <3>1 DEF StateType, SameNets, SameLink, SameSchedules
  <2>2. u = IF t.active # None /\ TargetBssid(t) = BssidOf(t, t.active)
            THEN ReturnToIdle(v)
            ELSE LET w == [Disassociate(v) EXCEPT !.pause = TRUE]
                 IN  [w EXCEPT !.channel = BssidOf(w, w.attempt)]
    BY <1>3 DEF BeginAttempt
  <2> HIDE DEF v
  <2>3. Base(v, {})
    <3>1. Kept(v) /\ Connected(v) /\ Scheduled(v, {})
      BY <1>1, <2>1 DEF Base, Kept, Connected, Scheduled, Due, Scanning, SameNets,
                        SameLink, SameSchedules
    <3> QED
      BY <1>1, <2>1, <3>1 DEF Base
  <2>4. CASE t.active # None /\ TargetBssid(t) = BssidOf(t, t.active)
    <3>1. u = ReturnToIdle(v)
      BY <2>2, <2>4
    <3> QED
      BY <2>3, <3>1, ReturnToIdleSound
  <2>5. CASE ~(t.active # None /\ TargetBssid(t) = BssidOf(t, t.active))
    <3> DEFINE d == Disassociate(v)
               yes == TRUE
               w == [d EXCEPT !.pause = yes]
               c == BssidOf(w, w.attempt)
    <3>1. Base(d, {}) /\ Frame(v, d) /\ d.scan = v.scan /\ d.active = None
      BY <2>3, DisassociateBase
    <3>2. u = [w EXCEPT !.channel = c]
      BY <2>2, <2>5
    <3> HIDE DEF d, yes
    <3>15. yes \in BOOLEAN
      BY DEF yes
    <3>3. d \in StateType
      BY <3>1 DEF Base
    <3>4. w \in StateType
      BY <3>3, <3>15 DEF StateType
    <3>5. c \in Nets \cup {None}
      <4>1. w.attempt \in Slots \cup {None}
        BY <3>4 DEF StateType
      <4> QED
        BY <3>4, <4>1, BssidType
    <3> HIDE DEF c
    <3>6. u = [d EXCEPT !.pause = yes, !.channel = c]
      BY <3>2, <3>3 DEF StateType
    <3> HIDE DEF w
    <3>7. /\ u \in StateType /\ SameJoin(d, u) /\ SameNets(d, u) /\ SameSchedules(d, u)
          /\ u.active = d.active /\ u.data = d.data /\ u.tuned = d.tuned
      BY <3>3, <3>5, <3>6, <3>15, ZenonT(40) DEF StateType, SameJoin, SameNets, SameSchedules
    <3>8. Kept(u)
      BY <3>1, <3>7 DEF Base, Kept, SameNets
    <3>9. u.active = None /\ u.data = None /\ Connected(u)
      BY <1>1, <2>1, <3>1, <3>7 DEF Base, Connected, SameNets, SameSchedules
    <3>10. /\ SameJoin(v, d) /\ d.rec["search"] = 0 /\ d.rec["attempt"] = 0
           /\ u.rec["search"] = 0 /\ u.rec["attempt"] = 0
      BY <1>1, <2>1, <3>1, <3>7 DEF Frame, SameSchedules
    <3>11. Scheduled(u, {"attempt"})
      <4>1. Scheduled(d, {}) /\ "attempt" \notin ScanKinds
        BY <3>1 DEF Base, ScanKinds
      <4> QED
        BY <3>7, <3>10, <4>1 DEF Scheduled, Due, Scanning, SameJoin, SameSchedules
    <3>12. Base(u, {"attempt"})
      <4>1. {"attempt"} \subseteq Kinds
        BY DEF Kinds
      <4> QED
        BY <3>1, <3>7, <3>8, <3>9, <3>11, <4>1 DEF Base, SameJoin
    <3>13. Joining(u, {"attempt"})
      BY <1>1, <1>3, <2>1, <3>7, <3>9, <3>10 DEF Joining, Due, SameJoin
    <3>14. Wanted(u)
      <4>1. Wanted(v)
        BY <1>1, <2>1 DEF Wanted
      <4>2. Wanted(d)
        BY <3>1, <4>1, FrameKeeps
      <4> QED
        BY <3>7, <4>2 DEF Wanted, SameJoin, SameNets
    <3> QED
      BY <1>1, <2>1, <3>7, <3>10, <3>12, <3>13, <3>14 DEF Sound, SameJoin
  <2> QED
    BY <2>4, <2>5
<1> QED
  BY <1>2, <1>3

LEMMA StartAttemptSound ==
    ASSUME NEW t, Poised(t), t.auth # "ASSOCIATED", NEW u, u = StartAttempt(t)
    PROVE  Sound(u, {}) /\ u.auth # "ASSOCIATED" /\ u.join # "SEARCHING"
<1> DEFINE v == BeginAttempt(t)
           w == Poll(v)
<1>1. /\ v.auth # "ASSOCIATED" /\ v.join # "SEARCHING"
      /\ v.join = "ATTEMPTING" => Sound(v, {"attempt"})
      /\ v.join # "ATTEMPTING" => Sound(v, {})
  BY BeginAttemptSound
<1>2. u = IF v.join = "ATTEMPTING" THEN Schedule(w, "attempt") ELSE v
  BY DEF StartAttempt
<1> HIDE DEF v
<1>3. CASE v.join = "ATTEMPTING"
  <2> DEFINE P == {"attempt"}
  <2>1. Sound(v, P) /\ v.attempt # None
    BY <1>1, <1>3 DEF Sound, Joining
  <2>2. Paid(P, "attempt") = {} /\ "attempt" \in P
    BY DEF Paid
  <2> HIDE DEF P
  <2>3. Sound(w, P) /\ w.auth = v.auth /\ w.join = v.join
    BY <1>1, <2>1, PollSound DEF SameJoin
  <2>4. u = Schedule(w, "attempt")
    BY <1>2, <1>3
  <2> HIDE DEF w
  <2>5. Sound(u, Paid(P, "attempt")) /\ SameJoin(w, u)
    BY <2>2, <2>3, <2>4, ScheduleSound
  <2> QED
    BY <1>1, <2>2, <2>3, <2>5 DEF SameJoin
<1>4. CASE v.join # "ATTEMPTING"
  BY <1>1, <1>2, <1>4
<1> QED
  BY <1>3, <1>4

\* A target that the user has set.
Aimed(t, p) == [t EXCEPT !.target = p]

LEMMA TargetBase ==
    ASSUME NEW t, NEW P, Base(t, P), NEW p, p \in Target \/ p = NoTarget,
           NEW u, u = Aimed(t, p)
    PROVE  /\ Base(u, P)
           /\ t.join = "IDLE" /\ Joining(t, P) => Joining(u, P)
           /\ u.target = p /\ u.scan = t.scan /\ u.join = t.join
           /\ SameNets(t, u) /\ SameLink(t, u)
<1>1. /\ t \in StateType /\ Kept(t) /\ Connected(t) /\ Scheduled(t, P) /\ P \subseteq Kinds
      /\ (t.saved = None => t.ssid = UserSsid)
  BY DEF Base
<1>2. /\ u \in StateType /\ u.target = p
      /\ SameNets(t, u) /\ SameLink(t, u) /\ SameSchedules(t, u)
      /\ u.join = t.join /\ u.auth = t.auth /\ u.attempt = t.attempt
      /\ u.saved = t.saved /\ u.ssid = t.ssid
      /\ u.sought = t.sought /\ u.passive = t.passive
  BY <1>1 DEF Aimed, StateType, SameNets, SameLink, SameSchedules
<1>3. Kept(u) /\ Connected(u) /\ Scheduled(u, P)
  BY <1>1, <1>2 DEF Kept, Connected, Scheduled, Due, Scanning, SameNets, SameLink,
                    SameSchedules
<1>4. Base(u, P)
  BY <1>1, <1>2, <1>3 DEF Base
<1>5. t.join = "IDLE" /\ Joining(t, P) => Joining(u, P)
  BY <1>2 DEF Joining, Due, SameLink, SameSchedules
<1> QED
  BY <1>2, <1>4, <1>5 DEF SameSchedules

\* The parameters of the scan, set while there is none.
Scanned(t, n, p) == [t EXCEPT !.ssid = n, !.passive = p]

LEMMA ScannedSound ==
    ASSUME NEW t, Sound(t, {}), t.scan.state = "IDLE",
           NEW n \in {t.ssid, UserSsid}, NEW p \in BOOLEAN, NEW u, u = Scanned(t, n, p)
    PROVE  Sound(u, {}) /\ u.auth = t.auth /\ u.scan = t.scan
<1>1. /\ t \in StateType /\ Kept(t) /\ Connected(t) /\ Scheduled(t, {})
      /\ Joining(t, {}) /\ Wanted(t) /\ (t.saved = None => t.ssid = UserSsid)
  BY DEF Base, Sound
<1>2. /\ u \in StateType /\ u.ssid = n /\ u.target = t.target
      /\ SameNets(t, u) /\ SameLink(t, u) /\ SameSchedules(t, u)
      /\ u.join = t.join /\ u.auth = t.auth /\ u.attempt = t.attempt
      /\ u.saved = t.saved /\ u.sought = t.sought
  <2>1. n \in Nets \cup {UserSsid}
    BY <1>1 DEF StateType
  <2>2. u \in StateType
    BY <1>1, <2>1 DEF Scanned, StateType
  <2> QED
    BY <1>1, <2>2 DEF Scanned, StateType, SameNets, SameLink, SameSchedules
<1>3. Kept(u) /\ Connected(u)
  BY <1>1, <1>2 DEF Kept, Connected, SameNets, SameLink, SameSchedules
<1>4. Scheduled(u, {})
  BY <1>1, <1>2 DEF Scheduled, Due, SameSchedules
<1>5. Base(u, {})
  BY <1>1, <1>2, <1>3, <1>4 DEF Base
<1>6. Joining(u, {})
  BY <1>1, <1>2 DEF Joining, Due, SameLink, SameSchedules
<1>7. Wanted(u)
  BY <1>1, <1>2 DEF Wanted
<1> QED
  BY <1>2, <1>5, <1>6, <1>7 DEF Sound, SameSchedules

Searching(t, j, i, n) == [t EXCEPT !.join = j, !.saved = i, !.ssid = n]

LEMMA SearchFields ==
    ASSUME NEW t \in StateType, NEW j \in JoinStates, NEW i \in {UserSsid, None},
           NEW n \in Nets \cup {UserSsid},
           NEW u, u = Searching(t, j, i, n)
    PROVE  /\ u \in StateType /\ u.join = j /\ u.saved = i
           /\ u.auth = t.auth /\ u.attempt = t.attempt /\ u.target = t.target
           /\ u.sought = t.sought /\ u.passive = t.passive
           /\ SameNets(t, u) /\ SameLink(t, u) /\ SameSchedules(t, u)
  BY DEF Searching, StateType, SameNets, SameLink, SameSchedules

\* A search borrows the SSID and owes its poll.
LEMMA BeginSearchSound ==
    ASSUME NEW t, Sound(t, {}), t.join = "IDLE",
           t.target \in Target, t.target.by # "both",
           NEW u, u = BeginSearch(t)
    PROVE  Sound(u, {"search"}) /\ u.auth = "UNAUTHENTICATED" /\ u.scan = t.scan
<1>1. /\ t \in StateType /\ Kept(t) /\ Connected(t) /\ Scheduled(t, {})
      /\ Joining(t, {}) /\ (t.saved = None => t.ssid = UserSsid)
  BY DEF Base, Sound
<1>2. t.saved = None /\ t.ssid = UserSsid /\ t.auth = "UNAUTHENTICATED"
  BY <1>1 DEF Joining
<1>3. t.target.net \in Nets /\ "SEARCHING" \in JoinStates
  BY DEF Target, JoinStates
<1> DEFINE n == t.target.net
           j == "SEARCHING"
           i == UserSsid
<1>4. /\ u = Searching(t, j, i, n)
      /\ j \in JoinStates /\ n \in Nets \cup {UserSsid} /\ i \in {UserSsid, None}
  BY <1>2, <1>3 DEF BeginSearch, Searching
<1> HIDE DEF n, j, i
<1>5. /\ u \in StateType /\ u.join = "SEARCHING" /\ u.saved = UserSsid
      /\ u.auth = t.auth /\ u.attempt = t.attempt /\ u.target = t.target
      /\ u.sought = t.sought /\ u.passive = t.passive
      /\ SameNets(t, u) /\ SameLink(t, u) /\ SameSchedules(t, u)
  <2>1. /\ u \in StateType /\ u.join = j /\ u.saved = i
        /\ u.auth = t.auth /\ u.attempt = t.attempt /\ u.target = t.target
        /\ u.sought = t.sought /\ u.passive = t.passive
        /\ SameNets(t, u) /\ SameLink(t, u) /\ SameSchedules(t, u)
    BY <1>1, <1>4, SearchFields
  <2> QED
    BY <2>1 DEF i, j
<1>6. /\ t.rec["search"] = 0 /\ t.rec["attempt"] = 0 /\ t.attempt = None
      /\ t.sought = None
  BY <1>1 DEF Joining, Due
<1>7. Kept(u) /\ Connected(u)
  BY <1>1, <1>5 DEF Kept, Connected, SameNets, SameLink, SameSchedules
<1>8. Scheduled(u, {"search"})
  <2>1. "search" \notin ScanKinds
    BY DEF ScanKinds
  <2> QED
    BY <1>1, <1>5, <1>6, <2>1 DEF Scheduled, Due, Scanning, SameSchedules
<1>9. Base(u, {"search"})
  <2>1. {"search"} \subseteq Kinds /\ UserSsid # None
    BY DEF Kinds, UserSsid, None
  <2> QED
    BY <1>5, <1>7, <1>8, <2>1 DEF Base
<1>10. Joining(u, {"search"})
  BY <1>2, <1>5, <1>6 DEF Joining, Due, SameSchedules, UserSsid, None
<1>11. Wanted(u)
  BY <1>5, <1>6 DEF Wanted
<1> QED
  BY <1>2, <1>5, <1>9, <1>10, <1>11 DEF Sound, SameSchedules

\* A network is chosen, and it is one that was asked for.
Chosen(t, s, n) == [t EXCEPT !.attempt = s, !.sought = n]

LEMMA ChosenType ==
    ASSUME NEW t \in StateType, NEW s \in Slots \cup {None}, NEW n \in Nets \cup {None}
    PROVE  Chosen(t, s, n) \in StateType
  BY DEF Chosen, StateType

LEMMA ChosenPoised ==
    ASSUME NEW t, Base(t, {}), NEW s \in Slots \cup {None},
           NEW n \in Nets \cup {None},
           n # None => /\ t.target \in Target /\ SsidOf[n] = SsidOf[t.target.net]
                       /\ t.target.by = "both" => n = t.target.net,
           s = None => n = None,
           t.join = "IDLE", t.auth = "UNAUTHENTICATED", t.saved = None,
           t.rec["search"] = 0, t.rec["attempt"] = 0,
           NEW u, u = Chosen(t, s, n)
    PROVE  /\ t.scan.state = "IDLE" => Poised(u)
           /\ Poised(ScanStop(u))
           /\ u.auth = t.auth
<1>1. /\ t \in StateType /\ Kept(t) /\ Connected(t) /\ Scheduled(t, {})
      /\ (t.saved = None => t.ssid = UserSsid)
  BY DEF Base
<1>2. /\ u \in StateType /\ u.attempt = s /\ u.sought = n /\ u.target = t.target
      /\ SameNets(t, u) /\ SameLink(t, u) /\ SameSchedules(t, u)
      /\ u.join = t.join /\ u.auth = t.auth /\ u.saved = t.saved /\ u.ssid = t.ssid
      /\ u.passive = t.passive
  <2>1. u \in StateType
    BY <1>1, ChosenType
  <2>2. /\ u.attempt = s /\ u.sought = n /\ u.target = t.target
        /\ u.join = t.join /\ u.auth = t.auth /\ u.saved = t.saved
        /\ u.ssid = t.ssid /\ u.passive = t.passive
    BY <1>1 DEF Chosen, StateType
  <2>3. SameNets(t, u) /\ SameLink(t, u) /\ SameSchedules(t, u)
    BY <1>1 DEF Chosen, StateType, SameNets, SameLink, SameSchedules
  <2> QED
    BY <2>1, <2>2, <2>3
<1>3. Kept(u) /\ Connected(u) /\ Scheduled(u, {})
  BY <1>1, <1>2 DEF Kept, Connected, Scheduled, Due, Scanning, SameNets, SameLink,
                    SameSchedules
<1>4. Base(u, {})
  BY <1>1, <1>2, <1>3 DEF Base
<1>5. Wanted(u)
  BY <1>2 DEF Wanted
<1>6. t.scan.state = "IDLE" => Poised(u)
  BY <1>2, <1>4, <1>5 DEF Poised, SameSchedules
<1> DEFINE v == ScanStop(u)
<1>7. Base(v, {}) /\ Frame(u, v) /\ v.scan.state = "IDLE"
  <2>1. {} \ ScanKinds = {}
    OBVIOUS
  <2> QED
    BY <1>4, <2>1, ScanStopBase
<1> HIDE DEF v
<1>8. Wanted(v) /\ SameJoin(u, v)
  BY <1>5, <1>7, FrameKeeps DEF Frame
<1>9. Poised(v)
  BY <1>2, <1>7, <1>8 DEF Poised, Frame, SameJoin, SameSchedules
<1> QED
  BY <1>2, <1>6, <1>9 DEF v

LEMMA PrepareSound ==
    ASSUME NEW t, Base(t, {}), t.join = "IDLE" => Joining(t, {}), t.target \in Target,
           NEW u, u = Prepare(t)
    PROVE  /\ u.auth = "UNAUTHENTICATED"
           /\ t.target.by = "both" => Poised(u)
           /\ t.target.by # "both" => Sound(u, {"search"})
           /\ t.target.by # "both" /\ t.scan.state = "IDLE" => u.scan.state = "IDLE"
<1> DEFINE v == StopJoin(t)
           n == t.target.net
           w == Enter(v, n)
           s == SlotFor(v, n)
           m == BssidOf(w, s)
           x == [w EXCEPT !.attempt = s, !.sought = m]
<1>1. /\ Sound(v, {}) /\ v.join = "IDLE" /\ v.target = t.target
      /\ v.auth = "UNAUTHENTICATED" /\ v.attempt = None
      /\ t.scan.state = "IDLE" => v.scan.state = "IDLE"
  BY StopJoinSound
<1>2. u = IF t.target.by # "both" THEN BeginSearch(v) ELSE ScanStop(x)
  BY DEF Prepare
<1> HIDE DEF v
<1>3. CASE t.target.by # "both"
  <2>1. u = BeginSearch(v)
    BY <1>2, <1>3
  <2> QED
    BY <1>1, <1>3, <2>1, BeginSearchSound
<1>4. CASE t.target.by = "both"
  <2>1. Base(v, {}) /\ Joining(v, {}) /\ v \in StateType /\ Kept(v) /\ n \in Nets
    BY <1>1 DEF Sound, Base, Target
  <2>2. v.saved = None /\ v.rec["search"] = 0 /\ v.rec["attempt"] = 0
    BY <1>1, <2>1 DEF Joining, Due
  <2> HIDE DEF n
  <2>3. s \in Slots \cup {None}
    BY <2>1, SlotFacts, ListTypes
  <2> HIDE DEF s
  <2>4. s = SlotFor(v, n)
    BY DEF s
  <2>5. /\ Base(w, {}) /\ Frame(v, w) /\ SameLink(v, w) /\ SameSchedules(v, w)
        /\ s # None => s \in Range(w.list) /\ w.info[s].bssid = n
    BY <2>1, <2>4, EnterBase
  <2> HIDE DEF w
  <2>6. /\ w.join = "IDLE" /\ w.target = t.target /\ w.auth = "UNAUTHENTICATED"
        /\ w.saved = None /\ w.rec["search"] = 0 /\ w.rec["attempt"] = 0
    BY <1>1, <2>2, <2>5, FrameKeeps DEF SameSchedules
  <2>7. /\ m \in Nets \cup {None} /\ (m # None => m = w.target.net)
        /\ (s = None => m = None)
    BY <2>3, <2>5, <2>6 DEF n, BssidOf, Target
  <2> HIDE DEF m
  <2>8. x = Chosen(w, s, m)
    BY DEF Chosen
  <2> HIDE DEF x
  <2>9. Poised(ScanStop(x)) /\ x.auth = w.auth
    BY <2>3, <2>5, <2>6, <2>7, <2>8, ChosenPoised
  <2>10. ScanStop(x).auth = x.auth
    <3>1. w \in StateType
      BY <2>5 DEF Base
    <3>2. x \in StateType
      BY <2>3, <2>7, <2>8, <3>1 DEF Chosen, StateType
    <3> QED
      BY <3>2, ScanStopFields DEF SameJoin
  <2> QED
    BY <1>2, <1>4, <2>6, <2>9, <2>10
<1> QED
  BY <1>3, <1>4

-----------------------------------------------------------------------------
(* What comes from the air, and the data.                                   *)

\* What an interrupt must not do: between commands it keeps the state sound; under
\* a command also what the command owes, unless it moves or completes the join.
Debts == {P \in SUBSET Kinds : P \cap ScanKinds # {} => "scan" \in P}
Safe(t, u) ==
    /\ Sound(t, {}) /\ t.auth # "ASSOCIATED" => Sound(u, {}) /\ u.auth # "ASSOCIATED"
    /\ u.join = t.join /\ u.auth # "ASSOCIATED" =>
          /\ Poised(t) => Poised(u)
          /\ \A P \in Debts :
                 Sound(t, P) => /\ Sound(u, P) /\ u.passive = t.passive
                                /\ t.scan.state = "IDLE" => u.scan.state = "IDLE"

LEMMA MildSafe ==
    ASSUME NEW t, NEW u, Mild(t, u) PROVE Safe(t, u)
  BY MildKeeps DEF Safe, SameJoin

LEMMA MildThenSafe ==
    ASSUME NEW t, NEW u, NEW v, Mild(t, u), Safe(u, v) PROVE Safe(t, v)
<1>1. /\ \A P : Sound(t, P) => Sound(u, P)
      /\ Poised(t) => Poised(u)
      /\ u.join = t.join /\ u.auth = t.auth /\ u.passive = t.passive /\ u.scan = t.scan
  BY MildKeeps DEF SameJoin
<1> QED
  BY <1>1 DEF Safe

\* The answer to the last step of the attempt has come.
LEMMA AuthBase ==
    ASSUME NEW t, NEW P, Base(t, P), NEW a \in AuthStates, NEW u, u = [t EXCEPT !.auth = a]
    PROVE  /\ Base(u, P) /\ u.auth = a /\ u.attempt = t.attempt /\ u.join = t.join
           /\ u.target = t.target /\ u.sought = t.sought /\ u.passive = t.passive
           /\ u.saved = t.saved
           /\ SameNets(t, u) /\ SameLink(t, u) /\ SameSchedules(t, u)
<1>1. /\ t \in StateType /\ Kept(t) /\ Connected(t) /\ Scheduled(t, P) /\ P \subseteq Kinds
      /\ (t.saved = None => t.ssid = UserSsid)
  BY DEF Base
<1>2. /\ u \in StateType /\ u.auth = a /\ u.target = t.target
      /\ SameNets(t, u) /\ SameLink(t, u) /\ SameSchedules(t, u)
      /\ u.join = t.join /\ u.ssid = t.ssid /\ u.attempt = t.attempt /\ u.saved = t.saved
      /\ u.sought = t.sought /\ u.passive = t.passive
  BY <1>1 DEF StateType, SameNets, SameLink, SameSchedules
<1>3. Kept(u) /\ Connected(u) /\ Scheduled(u, P)
  BY <1>1, <1>2 DEF Kept, Connected, Scheduled, Due, Scanning, SameNets, SameLink,
                    SameSchedules
<1>4. Base(u, P)
  BY <1>1, <1>2, <1>3 DEF Base
<1> QED
  BY <1>2, <1>4

LEMMA AuthSound ==
    ASSUME NEW t, NEW P, Sound(t, P), t.attempt # None, NEW a \in AuthStates,
           NEW u, u = [t EXCEPT !.auth = a]
    PROVE  Sound(u, P)
<1>1. Base(t, P) /\ Joining(t, P) /\ Wanted(t)
  BY DEF Sound
<1>2. /\ Base(u, P) /\ u.auth = a /\ u.attempt = t.attempt /\ u.join = t.join
      /\ u.target = t.target /\ u.sought = t.sought /\ u.saved = t.saved
      /\ SameLink(t, u) /\ SameSchedules(t, u)
  BY <1>1, AuthBase
<1>3. Joining(u, P)
  BY <1>1, <1>2 DEF Joining, Due, SameLink, SameSchedules
<1>4. Wanted(u)
  BY <1>1, <1>2 DEF Wanted
<1> QED
  BY <1>2, <1>3, <1>4 DEF Sound

LEMMA AuthPoised ==
    ASSUME NEW t, Poised(t), t.attempt # None, NEW a \in AuthStates,
           NEW u, u = [t EXCEPT !.auth = a]
    PROVE  Poised(u)
<1>1. /\ Base(u, {}) /\ u.auth = a /\ u.attempt = t.attempt /\ u.join = t.join
      /\ u.target = t.target /\ u.sought = t.sought /\ u.saved = t.saved
      /\ SameSchedules(t, u)
  BY AuthBase DEF Poised
<1> QED
  BY <1>1 DEF Poised, Wanted, SameSchedules

\* An answer that advances the attempt, and its poll: a BSS that the node comes
\* into is that of the attempt.
LEMMA AdvanceSound ==
    ASSUME NEW t, Sound(t, {}), t.auth # "ASSOCIATED", NEW n \in Nets,
           NEW f, NEW a \in AuthStates, NEW u, u = Advance(t, n, f, a)
    PROVE  /\ Sound(u, {}) /\ u.auth # "ASSOCIATED"
           /\ \/ u.active = t.active \/ u.active = None
              \/ /\ t.attempt # None /\ t.info[t.attempt].bssid = n
                 /\ u.info[u.active].bssid = n
<1> DEFINE v == [t EXCEPT !.auth = a]
           go == /\ Found(t, n) # {} /\ t.attempt # None
                 /\ BssidOf(t, t.attempt) = n /\ t.auth = f
<1>1. CASE go
  <2>1. Sound(v, {})
    BY <1>1, AuthSound
  <2>2. v.auth = a /\ v.attempt = t.attempt /\ SameNets(t, v) /\ SameLink(t, v)
    BY AuthBase DEF Sound
  <2>3. u = Poll(v)
    BY <1>1 DEF Advance
  <2>4. BssidOf(v, v.attempt) = n /\ t.info[t.attempt].bssid = n
    BY <1>1, <2>2 DEF BssidOf, SameNets
  <2> HIDE DEF v
  <2> DEFINE P == {}
  <2>5. Sound(v, P) /\ P = {} /\ v.attempt # None
    BY <1>1, <2>1, <2>2
  <2> HIDE DEF P
  <2>6. /\ Sound(u, P) /\ u.auth # "ASSOCIATED"
        /\ u.active = v.active \/ u.active = None
           \/ u.info[u.active].bssid = BssidOf(v, v.attempt)
    BY <2>3, <2>5, PollSound
  <2> QED
    BY <1>1, <2>2, <2>4, <2>5, <2>6 DEF SameLink
<1>2. CASE ~go
  BY <1>2 DEF Advance
<1> QED
  BY <1>1, <1>2

LEMMA AdvanceSafe ==
    ASSUME NEW t, NEW n \in Nets, NEW f, NEW a \in AuthStates,
           NEW u, u = Advance(t, n, f, a)
    PROVE  Safe(t, u)
<1> DEFINE v == [t EXCEPT !.auth = a]
           go == /\ Found(t, n) # {} /\ t.attempt # None
                 /\ BssidOf(t, t.attempt) = n /\ t.auth = f
<1>1. Sound(t, {}) /\ t.auth # "ASSOCIATED" => Sound(u, {}) /\ u.auth # "ASSOCIATED"
  BY AdvanceSound
<1>2. CASE ~go
  <2>1. u = t
    BY <1>2 DEF Advance
  <2> QED
    BY <2>1 DEF Safe
<1>3. CASE go
  <2>1. u = Poll(v)
    BY <1>3 DEF Advance
  <2>2. ASSUME u.join = t.join, u.auth # "ASSOCIATED", Poised(t)
        PROVE  Poised(u)
    <3>1. Poised(v)
      BY <1>3, <2>2, AuthPoised
    <3>2. v.join # "ATTEMPTING" /\ v.attempt # None
      <4>1. Base(t, {})
        BY <2>2 DEF Poised
      <4>2. v.join = t.join /\ v.attempt = t.attempt
        BY <4>1, AuthBase
      <4> QED
        BY <1>3, <2>2, <4>2 DEF Poised
    <3> HIDE DEF v
    <3> QED
      BY <2>1, <3>1, <3>2 DEF Poll
  <2>3. ASSUME u.join = t.join, u.auth # "ASSOCIATED", NEW P \in Debts, Sound(t, P)
        PROVE  Sound(u, P) /\ u.passive = t.passive /\ u.scan = t.scan
    <3>1. Sound(v, P)
      BY <1>3, <2>3, AuthSound
    <3>2. /\ v.join = t.join /\ v.attempt = t.attempt /\ v.auth = a
          /\ v.passive = t.passive /\ v.scan = t.scan
      BY <2>3, AuthBase DEF Sound, SameSchedules
    <3>3. t.join = "ATTEMPTING"
      BY <1>3, <2>3 DEF Sound, Joining
    <3>4. u = IF a = "ASSOCIATED" THEN ReturnToIdle(Adopt(v, BssidOf(v, v.attempt)))
              ELSE Ask(v)
      BY <1>3, <2>1, <3>2, <3>3 DEF Poll
    <3> HIDE DEF v
    <3>5. CASE a = "ASSOCIATED"
      <4>1. u.join = "IDLE"
        BY <3>4, <3>5 DEF ReturnToIdle
      <4> QED
        BY <2>3, <3>3, <4>1
    <3>6. CASE a # "ASSOCIATED"
      <4>1. u = Ask(v)
        BY <3>4, <3>6
      <4>2. Sound(u, P) /\ SameJoin(v, u) /\ u.scan = v.scan
        BY <3>1, <4>1, AskSound
      <4> QED
        BY <3>2, <4>2 DEF SameJoin
    <3> QED
      BY <3>5, <3>6
  <2> QED
    BY <1>1, <2>2, <2>3 DEF Safe
<1> QED
  BY <1>2, <1>3

\* An answer that leaves the state of the join leaves the BSS.
LEMMA AdvanceStays ==
    ASSUME NEW t, t \in StateType, NEW n \in Nets, NEW f, NEW a \in AuthStates,
           NEW u, u = Advance(t, n, f, a), u.join = t.join, u.auth # "ASSOCIATED"
    PROVE  u.active = t.active
<1> DEFINE v == [t EXCEPT !.auth = a]
           go == /\ Found(t, n) # {} /\ t.attempt # None
                 /\ BssidOf(t, t.attempt) = n /\ t.auth = f
<1>1. CASE ~go
  BY <1>1 DEF Advance
<1>2. CASE go
  <2>1. u = Poll(v)
    BY <1>2 DEF Advance
  <2>2. /\ v \in StateType /\ v.join = t.join /\ v.attempt # None /\ v.auth = a
        /\ v.active = t.active
    BY <1>2 DEF StateType
  <2> HIDE DEF v
  <2>3. CASE v.join # "ATTEMPTING"
    BY <2>1, <2>2, <2>3 DEF Poll
  <2>4. CASE v.join = "ATTEMPTING" /\ a = "ASSOCIATED"
    <3>1. u = ReturnToIdle(Adopt(v, BssidOf(v, v.attempt)))
      BY <2>1, <2>2, <2>4 DEF Poll
    <3>2. u.join = "IDLE"
      BY <3>1 DEF ReturnToIdle
    <3> QED
      BY <2>2, <2>4, <3>2
  <2>5. CASE v.join = "ATTEMPTING" /\ a # "ASSOCIATED"
    <3>1. u = Ask(v)
      BY <2>1, <2>2, <2>5 DEF Poll
    <3> QED
      BY <2>2, <3>1 DEF Ask, StateType
  <2> QED
    BY <2>3, <2>4, <2>5
<1> QED
  BY <1>1, <1>2

\* An answer leaves every entry its network.
LEMMA AdvanceBssids ==
    ASSUME NEW t, Sound(t, {}), NEW n \in Nets, NEW f, NEW a \in AuthStates,
           NEW u, u = Advance(t, n, f, a)
    PROVE  SameBssids(t, u)
<1> DEFINE v == [t EXCEPT !.auth = a]
           go == /\ Found(t, n) # {} /\ t.attempt # None
                 /\ BssidOf(t, t.attempt) = n /\ t.auth = f
<1>1. CASE ~go
  BY <1>1 DEF Advance, SameBssids
<1>2. CASE go
  <2>1. u = Poll(v)
    BY <1>2 DEF Advance
  <2>2. Sound(v, {})
    BY <1>2, AuthSound
  <2>3. v.auth = a /\ v.attempt = t.attempt /\ v.join = t.join /\ SameNets(t, v)
    BY AuthBase DEF Sound
  <2>4. v.join = "ATTEMPTING"
    BY <1>2, <2>2, <2>3 DEF Sound, Joining
  <2>5. BssidOf(v, v.attempt) = n /\ Found(v, n) # {}
    BY <1>2, <2>3 DEF BssidOf, Found, SameNets
  <2> HIDE DEF v
  <2>6. CASE a # "ASSOCIATED"
    <3>1. u = Ask(v)
      BY <1>2, <2>1, <2>3, <2>4, <2>6 DEF Poll
    <3>2. SameNets(v, u)
      BY <2>2, <3>1, AskSound
    <3> QED
      BY <2>3, <3>2 DEF SameNets, SameBssids
  <2>7. CASE a = "ASSOCIATED"
    <3> DEFINE x == Adopt(v, n)
    <3>1. u = ReturnToIdle(x)
      BY <1>2, <2>1, <2>3, <2>4, <2>5, <2>7 DEF Poll
    <3>2. SameBssids(v, x)
      BY <2>2, <2>5, AdoptBssids
    <3>3. x \in StateType
      BY <2>2, AdoptSound DEF Sound, Base
    <3> HIDE DEF x
    <3>4. SameNets(x, u)
      BY <3>1, <3>3, ReturnToIdleFields
    <3> QED
      BY <2>3, <3>2, <3>4 DEF SameNets, SameBssids
  <2> QED
    BY <2>6, <2>7
<1> QED
  BY <1>1, <1>2

LEMMA RefuseSafe ==
    ASSUME NEW t, NEW Q, Base(t, Q), NEW n, NEW u, u = Refuse(t, n)
    PROVE  Safe(t, u)
<1>1. u = t \/ (t.join # "IDLE" /\ u = ReturnToIdle(t))
  BY DEF Refuse
<1>2. CASE u = t
  BY <1>2 DEF Safe
<1>3. CASE t.join # "IDLE" /\ u = ReturnToIdle(t)
  <2>1. Sound(u, {}) /\ u.join = "IDLE" /\ u.auth = "UNAUTHENTICATED"
    BY <1>3, ReturnToIdleSound
  <2> QED
    BY <1>3, <2>1 DEF Safe
<1> QED
  BY <1>1, <1>2, <1>3

\* The poll of an attempt.
LEMMA PollSafe ==
    ASSUME NEW t, t.listed["attempt"] # {}, t.auth # "ASSOCIATED", NEW u, u = Poll(t)
    PROVE  Safe(t, u)
<1>1. ASSUME NEW P, Sound(t, P)
      PROVE  Sound(u, P) /\ SameJoin(t, u) /\ u.scan = t.scan
  <2>1. t.rec["attempt"] # 0
    BY <1>1 DEF Sound, Base, Scheduled, Kinds
  <2>2. t.attempt # None
    BY <1>1, <2>1 DEF Sound, Joining, Due
  <2> QED
    BY <1>1, <2>2, PollSound
<1>2. ~Poised(t)
  BY DEF Poised, Base, Scheduled, Kinds
<1> QED
  BY <1>1, <1>2 DEF Safe, SameJoin

\* A scan that goes on.
LEMMA TransitionSafe ==
    ASSUME NEW t, t.listed["scan"] # {}, NEW c \in Nets \cup {None},
           NEW u, u = Transition(t, c)
    PROVE  Safe(t, u)
<1>1. ASSUME NEW P \in Debts, Sound(t, P)
      PROVE  Sound(u, P) /\ SameJoin(t, u) /\ t.scan.state = "RUNNING"
  <2>1. Scheduled(t, P) /\ "scan" \in ScanKinds /\ "scan" \in Kinds
    BY <1>1 DEF Sound, Base, ScanKinds, Kinds
  <2>2. t.rec["scan"] # 0
    BY <2>1 DEF Scheduled
  <2>3. t.scan.state = "RUNNING" /\ "scan" \notin P
    BY <2>1, <2>2 DEF Scheduled, Due
  <2>4. P \ ScanKinds = P
    BY <1>1, <2>3 DEF Debts
  <2> QED
    BY <1>1, <2>3, <2>4, TransitionSound
<1>2. ~Poised(t)
  <2> SUFFICES ASSUME Poised(t) PROVE FALSE
    OBVIOUS
  <2>1. Scheduled(t, {}) /\ "scan" \in ScanKinds /\ "scan" \in Kinds
        /\ t.scan.state = "IDLE"
    BY DEF Poised, Base, ScanKinds, Kinds
  <2>2. t.rec["scan"] # 0
    BY <2>1 DEF Scheduled
  <2> QED
    BY <2>1, <2>2 DEF Scheduled, Due
<1>3. {} \in Debts
  BY DEF Debts
<1> QED
  BY <1>1, <1>2, <1>3 DEF Safe, SameJoin

\* Data of the BSS the node is in is queued; data is sent.
LEMMA DataMild ==
    ASSUME NEW t, t \in StateType, NEW d,
           d = None \/ (t.active # None /\ d = BssidOf(t, t.active)),
           NEW u, u = [t EXCEPT !.data = d]
    PROVE  Mild(t, u)
<1>1. d \in Nets \cup {None}
  <2>1. t.active \in Slots \cup {None}
    BY DEF StateType
  <2> QED
    BY <2>1, BssidType
<1>2. /\ u \in StateType /\ SameJoin(t, u) /\ SameNets(t, u) /\ SameSchedules(t, u)
      /\ u.active = t.active /\ u.pause = t.pause /\ u.channel = t.channel /\ u.data = d
      /\ u.tuned = t.tuned
  BY <1>1 DEF StateType, SameJoin, SameNets, SameSchedules
<1>3. ASSUME NEW P, Base(t, P)
      PROVE  Base(u, P)
  <2>1. /\ Kept(t) /\ Connected(t) /\ Scheduled(t, P) /\ P \subseteq Kinds
        /\ (t.saved = None => t.ssid = UserSsid)
    BY <1>3 DEF Base
  <2>2. Kept(u)
    BY <1>2, <2>1 DEF Kept, SameNets
  <2>3. Connected(u)
    BY <1>2, <2>1 DEF Connected, BssidOf, SameNets, SameSchedules
  <2>4. Scheduled(u, P)
    BY <1>2, <2>1 DEF Scheduled, Due, Scanning, SameJoin, SameSchedules
  <2> QED
    BY <1>2, <2>1, <2>2, <2>3, <2>4 DEF Base, SameJoin
<1>4. Frame(t, u) /\ u.scan = t.scan
  BY <1>2 DEF Frame, SameSchedules
<1> QED
  BY <1>3, <1>4 DEF Mild

-----------------------------------------------------------------------------
(* The actions.                                                             *)

LEMMA SettledFields ==
    ASSUME NEW t \in StateType, NEW u, u = Settled(t)
    PROVE  /\ u \in StateType /\ SameNets(t, u) /\ SameLink(t, u) /\ SameSchedules(t, u)
           /\ u.join = t.join /\ u.auth = t.auth /\ u.attempt = t.attempt
           /\ u.target = t.target /\ u.saved = t.saved /\ u.ssid = t.ssid
           /\ u.passive = t.passive /\ (u.sought = t.sought \/ u.sought = None)
<1> DEFINE n == IF BssidOf(t, t.attempt) = t.sought THEN t.sought ELSE None
<1>1. n \in Nets \cup {None} /\ (n = t.sought \/ n = None)
  BY DEF StateType
<1>2. u = [t EXCEPT !.sought = n]
  BY DEF Settled
<1> HIDE DEF n
<1> QED
  BY <1>1, <1>2, SMTT(20) DEF StateType, SameNets, SameLink, SameSchedules

LEMMA SettledSound ==
    ASSUME NEW t, NEW u, u = Settled(t)
    PROVE  /\ \A P : Sound(t, P) => Sound(u, P)
           /\ Poised(t) => Poised(u)
<1>1. ASSUME NEW P, Base(t, P)
      PROVE  /\ Base(u, P) /\ SameLink(t, u) /\ SameSchedules(t, u)
             /\ u.join = t.join /\ u.auth = t.auth /\ u.attempt = t.attempt
             /\ u.target = t.target /\ u.saved = t.saved
             /\ u.sought = t.sought \/ u.sought = None
  <2>1. /\ t \in StateType /\ Kept(t) /\ Connected(t) /\ Scheduled(t, P)
        /\ P \subseteq Kinds /\ (t.saved = None => t.ssid = UserSsid)
    BY <1>1 DEF Base
  <2>2. /\ u \in StateType /\ SameNets(t, u) /\ SameLink(t, u) /\ SameSchedules(t, u)
        /\ u.join = t.join /\ u.auth = t.auth /\ u.attempt = t.attempt
        /\ u.target = t.target /\ u.saved = t.saved /\ u.ssid = t.ssid
        /\ u.passive = t.passive /\ (u.sought = t.sought \/ u.sought = None)
    BY <2>1, SettledFields
  <2>3. Kept(u) /\ Connected(u) /\ Scheduled(u, P)
    BY <2>1, <2>2 DEF Kept, Connected, Scheduled, Due, Scanning, SameNets, SameLink,
                      SameSchedules
  <2> QED
    BY <2>1, <2>2, <2>3 DEF Base
<1>2. ASSUME NEW P, Sound(t, P)
      PROVE  Sound(u, P)
  <2>1. Base(t, P) /\ Joining(t, P) /\ Wanted(t)
    BY <1>2 DEF Sound
  <2>2. Joining(u, P) /\ Wanted(u)
    BY <1>1, <2>1 DEF Joining, Wanted, Due, SameLink, SameSchedules
  <2> QED
    BY <1>1, <2>1, <2>2 DEF Sound
<1>3. ASSUME Poised(t)
      PROVE  Poised(u)
  <2>1. Base(t, {}) /\ Wanted(t)
    BY <1>3 DEF Poised
  <2>2. Wanted(u)
    BY <1>1, <2>1 DEF Wanted
  <2> QED
    BY <1>1, <1>3, <2>1, <2>2 DEF Poised, SameSchedules
<1> QED
  BY <1>2, <1>3

LEMMA BecomeNow ==
    ASSUME NEW t \in StateType, Become(t)
    PROVE  /\ Now' = Settled(t)
           /\ auth' = t.auth /\ join' = t.join /\ scan' = t.scan /\ passive' = t.passive
           /\ active' = t.active /\ info' = t.info
<1> DEFINE u == Settled(t)
<1>1. /\ u \in StateType /\ u.scan = t.scan /\ u.active = t.active /\ u.info = t.info
      /\ u.auth = t.auth /\ u.join = t.join /\ u.passive = t.passive
  BY SettledFields DEF SameNets, SameLink, SameSchedules
<1> HIDE DEF u
<1>2. /\ join' = u.join /\ auth' = u.auth /\ attempt' = u.attempt /\ active' = u.active
      /\ target' = u.target /\ pause' = u.pause /\ scan' = u.scan
      /\ channel' = u.channel /\ ssid' = u.ssid /\ passive' = u.passive
      /\ saved' = u.saved /\ rec' = u.rec /\ listed' = u.listed /\ info' = u.info
      /\ list' = u.list /\ free' = u.free /\ asked' = u.asked /\ data' = u.data
      /\ sought' = u.sought /\ scanned' = u.scanned /\ tuned' = u.tuned
  BY DEF Become, u
<1>3. Now' = u
  BY <1>1, <1>2 DEF Now, StateType
<1> QED
  BY <1>1, <1>2, <1>3 DEF u

\* A state in which no command is under way.
LEMMA Rests ==
    ASSUME NEW t, Sound(t, {}), t.auth # "ASSOCIATED", Become(t), main' = <<>>,
           divided' \in BOOLEAN
    PROVE  StaInv'
<1>1. t \in StateType
  BY DEF Sound, Base
<1>2. Now' = Settled(t) /\ auth' = t.auth
  BY <1>1, BecomeNow
<1>3. Sound(Now', {})
  BY <1>2, SettledSound
<1> QED
  BY <1>2, <1>3 DEF StaInv, Programs

Steps == {"begin scan", "hop", "probe", "scan", "search"}

LEMMA TailOfFour ==
    ASSUME NEW S, NEW a \in S, NEW b \in S, NEW c \in S, NEW d \in S
    PROVE  Tail(<<a, b, c, d>>) = <<b, c, d>>
<1> DEFINE q == <<a, b, c, d>>
           r == <<b, c, d>>
           w == Tail(q)
<1>1. /\ q \in Seq(S) /\ Len(q) = 4 /\ q # <<>> /\ q[2] = b /\ q[3] = c /\ q[4] = d
  OBVIOUS
<1>2. /\ r \in Seq(S) /\ Len(r) = 3 /\ r[1] = b /\ r[2] = c /\ r[3] = d
  OBVIOUS
<1> HIDE DEF q, r
<1>3. /\ w \in Seq(S) /\ Len(w) = 3
      /\ \A i \in 1 .. 3 : w[i] = q[i + 1]
  <2>1. /\ w \in Seq(S) /\ Len(w) = Len(q) - 1
        /\ \A i \in 1 .. Len(w) : w[i] = q[i + 1]
    BY <1>1, TailFacts
  <2>2. Len(w) = 3
    BY <1>1, <2>1
  <2> HIDE DEF w
  <2> QED
    BY <2>1, <2>2
<1> HIDE DEF w
<1>4. \A i \in 1 .. 3 : w[i] = r[i]
  <2>1. w[1] = b /\ w[2] = c /\ w[3] = d
    BY <1>1, <1>3
  <2> QED
    BY <1>2, <2>1
<1>5. w = r
  BY <1>2, <1>3, <1>4, SeqEqual
<1> QED
  BY <1>5 DEF w, q, r

\* The steps of a scan, one after the other.
LEMMA ScanProgram ==
    ASSUME NEW q \in ScanPrograms
    PROVE  /\ q \in Seq(Steps) /\ q # <<>>
           /\ \/ Head(q) = "begin scan" /\ Tail(q) \in ScanPrograms /\ Head(Tail(q)) = "hop"
              \/ Head(q) = "hop" /\ Tail(q) \in ScanPrograms /\ Head(Tail(q)) = "probe"
              \/ Head(q) = "probe" /\ Tail(q) \in ScanPrograms /\ Head(Tail(q)) = "scan"
              \/ Head(q) = "scan" /\ Tail(q) = <<>>
<1> DEFINE B == "begin scan"
           H == "hop"
           R == "probe"
           C == "scan"
<1>1. B \in Steps /\ H \in Steps /\ R \in Steps /\ C \in Steps
  BY DEF Steps
<1>2. ScanPrograms = {<<B, H, R, C>>, <<H, R, C>>, <<R, C>>, <<C>>}
  BY DEF ScanPrograms
<1> HIDE DEF B, H, R, C, ScanPrograms
<1>3. CASE q = <<B, H, R, C>>
  <2>1. q \in Seq(Steps) /\ q # <<>> /\ Head(q) = B
    BY <1>1, <1>3
  <2>2. Tail(q) = <<H, R, C>>
    BY <1>1, <1>3, TailOfFour
  <2>3. Head(<<H, R, C>>) = H
    OBVIOUS
  <2> QED
    BY <1>2, <2>1, <2>2, <2>3 DEF B, H
<1>4. CASE q = <<H, R, C>>
  <2>1. q \in Seq(Steps) /\ q # <<>> /\ Head(q) = H /\ Tail(q) = <<R, C>>
    BY <1>1, <1>4
  <2>2. Head(<<R, C>>) = R
    OBVIOUS
  <2> QED
    BY <1>2, <2>1, <2>2 DEF H, R
<1>5. CASE q = <<R, C>>
  <2>1. q \in Seq(Steps) /\ q # <<>> /\ Head(q) = R /\ Tail(q) = <<C>>
    BY <1>1, <1>5
  <2>2. Head(<<C>>) = C
    OBVIOUS
  <2> QED
    BY <1>2, <2>1, <2>2 DEF R, C
<1>6. CASE q = <<C>>
  <2>1. q \in Seq(Steps) /\ q # <<>> /\ Head(q) = C /\ Tail(q) = <<>>
    BY <1>1, <1>6
  <2> QED
    BY <2>1 DEF C
<1> QED
  BY <1>2, <1>3, <1>4, <1>5, <1>6

\* The same before a search.
LEMMA SearchProgram ==
    ASSUME NEW p \in SearchPrograms
    PROVE  /\ p # <<>>
           /\ \/ Head(p) = "search" /\ Tail(p) = <<>>
              \/ \E q \in ScanPrograms :
                    /\ Head(p) = Head(q) /\ Tail(p) = Append(Tail(q), "search")
<1>1. CASE p = <<"search">>
  BY <1>1
<1>2. CASE p # <<"search">>
  <2>1. PICK q \in ScanPrograms : p = Append(q, "search")
    BY <1>2 DEF SearchPrograms
  <2>2. q \in Seq(Steps) /\ q # <<>>
    BY ScanProgram
  <2>3. "search" \in Steps /\ <<"search">> \in Seq(Steps)
    BY DEF Steps
  <2>4. p = q \o <<"search">>
    BY <2>1, <2>2, <2>3, AppendIsConcat
  <2>5. p # <<>> /\ Head(p) = Head(q) /\ Tail(p) = Tail(q) \o <<"search">>
    BY <2>2, <2>3, <2>4, ConcatTail
  <2>6. Tail(q) \in Seq(Steps)
    BY <2>2
  <2>7. Tail(q) \o <<"search">> = Append(Tail(q), "search")
    BY <2>3, <2>6, AppendIsConcat
  <2> QED
    BY <2>5, <2>7
<1> QED
  BY <1>1, <1>2

LEMMA Resting ==
    ASSUME StaInv, ~divided, main = <<>>
    PROVE  Sound(Now, {}) /\ Now.auth = auth /\ auth # "ASSOCIATED"
<1>1. /\ main # AttemptSteps /\ main \notin AttemptPrograms
      /\ main \notin ScanPrograms /\ main \notin SearchPrograms
  <2>1. main # AttemptSteps /\ main \notin AttemptPrograms
    BY DEF AttemptSteps, AttemptPrograms
  <2> QED
    BY <2>1, ScanProgram, SearchProgram
<1>2. Sound(Now, {})
  BY <1>1 DEF StaInv, Programs
<1> QED
  BY <1>2 DEF StaInv, Now

\* What is owed is never the probe of a scan alone.
LEMMA OwedDebt ==
    ASSUME NEW t, NEW x \in Steps
    PROVE  Owed(t, x) \in Debts /\ Owed(t, x) \cup {"search"} \in Debts
  BY DEF Owed, Debts, Scanning, ScanKinds, Kinds, Steps

LEMMA ProgramHeads ==
    /\ \A q \in ScanPrograms : Head(q) \in Steps
    /\ \A q \in SearchPrograms : Head(q) \in Steps
<1>1. \A q \in ScanPrograms : Head(q) \in Steps
  BY ScanProgram DEF Steps
<1>2. "search" \in Steps
  BY DEF Steps
<1> QED
  BY <1>1, <1>2, SearchProgram

\* Every interrupt but those of the menu.
LEMMA InterruptKeeps ==
    ASSUME StaInv, ~divided, NEW t, Interrupt(t), Safe(Now, t)
    PROVE  StaInv'
<1>1. /\ Become(t) /\ main' = main /\ divided' \in BOOLEAN
      /\ ~divided' => main = <<>> \/ (t.join = join /\ t.auth # "ASSOCIATED")
  BY DEF Interrupt, StaInv
<1>2. CASE divided'
  BY <1>1, <1>2 DEF StaInv
<1>3. CASE main = <<>>
  <2>1. Sound(t, {}) /\ t.auth # "ASSOCIATED"
    BY <1>3, Resting DEF Safe
  <2> QED
    BY <1>1, <1>3, <2>1, Rests
<1>4. CASE main # <<>> /\ ~divided'
  <2>0. Now.join = join /\ Now.auth = auth /\ Now.passive = passive /\ Now.scan = scan
    BY DEF Now
  <2>1. t.join = Now.join /\ t.auth # "ASSOCIATED"
    BY <1>1, <1>4, <2>0
  <2>2. /\ Poised(Now) => Poised(t)
        /\ \A P \in Debts :
               Sound(Now, P) => /\ Sound(t, P) /\ t.passive = Now.passive
                                /\ Now.scan.state = "IDLE" => t.scan.state = "IDLE"
    BY <2>1 DEF Safe
  <2>3. CASE main = AttemptSteps /\ Poised(Now)
    <3>1. Poised(t) /\ t \in StateType
      BY <2>2, <2>3 DEF Poised, Base
    <3>2. Now' = Settled(t) /\ auth' = t.auth
      BY <1>1, <3>1, BecomeNow
    <3>3. Poised(Now')
      BY <3>1, <3>2, SettledSound
    <3>4. main' = AttemptSteps /\ auth' # "ASSOCIATED"
      BY <1>1, <2>1, <2>3, <3>2
    <3> QED
      BY <1>1, <3>3, <3>4 DEF StaInv, Programs
  <2>4. ASSUME NEW P \in Debts, Sound(Now, P)
        PROVE  /\ Sound(Now', P) /\ auth' # "ASSOCIATED" /\ passive' = passive
               /\ scan.state = "IDLE" => scan'.state = "IDLE"
    <3>1. /\ Sound(t, P) /\ t.passive = Now.passive
          /\ Now.scan.state = "IDLE" => t.scan.state = "IDLE"
      BY <2>2, <2>4
    <3>2. t \in StateType
      BY <3>1 DEF Sound, Base
    <3>3. Now' = Settled(t) /\ auth' = t.auth /\ passive' = t.passive /\ scan' = t.scan
      BY <1>1, <3>2, BecomeNow
    <3>4. Sound(Now', P)
      BY <3>1, <3>3, SettledSound
    <3> QED
      BY <2>0, <2>1, <3>1, <3>3, <3>4
  <2>5. CASE main \in AttemptPrograms /\ Sound(Now, {"attempt"})
    <3>1. {"attempt"} \in Debts
      BY DEF Debts, Kinds, ScanKinds
    <3> QED
      BY <1>1, <2>4, <2>5, <3>1 DEF StaInv, Programs
  <2>6. CASE /\ main \in ScanPrograms /\ Sound(Now, Owed(Now, Head(main)))
             /\ Head(main) = "begin scan" => scan.state = "IDLE"
    <3> DEFINE P == Owed(Now, Head(main))
    <3>1. P \in Debts
      BY <2>6, OwedDebt, ProgramHeads
    <3>2. passive' = passive => Owed(Now, Head(main))' = P
      BY <1>1 DEF Owed, Scanning, Now, Steps
    <3> HIDE DEF P
    <3>3. Sound(Now, P)
      BY <2>6 DEF P
    <3>4. /\ Sound(Now', P) /\ auth' # "ASSOCIATED" /\ passive' = passive
          /\ scan.state = "IDLE" => scan'.state = "IDLE"
      BY <2>4, <3>1, <3>3
    <3> QED
      BY <1>1, <2>6, <3>2, <3>4 DEF StaInv, Programs
  <2>7. CASE /\ main \in SearchPrograms
             /\ Sound(Now, Owed(Now, Head(main)) \cup {"search"})
             /\ Head(main) = "begin scan" => scan.state = "IDLE"
    <3> DEFINE P == Owed(Now, Head(main)) \cup {"search"}
    <3>1. P \in Debts
      BY <2>7, OwedDebt, ProgramHeads
    <3>2. passive' = passive => (Owed(Now, Head(main)) \cup {"search"})' = P
      BY <1>1 DEF Owed, Scanning, Now
    <3> HIDE DEF P
    <3>3. Sound(Now, P)
      BY <2>7 DEF P
    <3>4. /\ Sound(Now', P) /\ auth' # "ASSOCIATED" /\ passive' = passive
          /\ scan.state = "IDLE" => scan'.state = "IDLE"
      BY <2>4, <3>1, <3>3
    <3> QED
      BY <1>1, <2>7, <3>2, <3>4 DEF StaInv, Programs
  <2> QED
    BY <1>4, <2>3, <2>5, <2>6, <2>7 DEF StaInv, Programs
<1> QED
  BY <1>2, <1>3, <1>4

LEMMA MildInterrupt ==
    ASSUME StaInv, ~divided, NEW t, Interrupt(t), Mild(Now, t)
    PROVE  StaInv'
  BY MildSafe, InterruptKeeps

\* The menu, which divides every command.
LEMMA MenuKeeps ==
    ASSUME StaInv, ~divided, NEW t, Menu(t),
           main = <<>> => Sound(t, {}) /\ t.auth # "ASSOCIATED"
    PROVE  StaInv'
<1>1. Become(t) /\ main' = main /\ divided' \in BOOLEAN /\ (~divided' => main = <<>>)
  BY DEF Menu, StaInv
<1>2. CASE divided'
  BY <1>1, <1>2 DEF StaInv
<1>3. CASE main = <<>>
  BY <1>1, <1>3, Rests
<1> QED
  BY <1>1, <1>2, <1>3

\* What is true while a command is under way, too.
LEMMA Underway ==
    ASSUME StaInv, ~divided
    PROVE  Now \in StateType /\ Kept(Now) /\ \E Q : Base(Now, Q)
<1>1. \E Q : Base(Now, Q)
  BY DEF StaInv, Programs, Poised, Sound
<1> QED
  BY <1>1 DEF Base

LEMMA CommandRests ==
    ASSUME StaInv, ~divided, NEW t, Command(t, <<>>), Sound(t, {}), t.auth # "ASSOCIATED"
    PROVE  StaInv'
<1>1. Become(t) /\ main' = <<>> /\ divided' \in BOOLEAN
  BY DEF Command, StaInv
<1> QED
  BY <1>1, Rests

\* Every struct once.
LEMMA AllSlots ==
    ASSUME NEW f, f = SetToSeq(Slots)
    PROVE  f \in Seq(Slots) /\ IsInjective(f) /\ Range(f) = Slots
<1> DEFINE m == Cardinality(Slots)
<1>1. IsFiniteSet(Slots) /\ m \in Nat /\ Bijection(1 .. m, Slots) # {}
  BY StaJoinAssumption, FS_CardinalityType DEF ExistsBijection
<1>2. \E g \in [1 .. m -> Slots] : IsInjective(g)
  BY <1>1 DEF Bijection, Injection
<1>3. f = CHOOSE g \in [1 .. m -> Slots] : IsInjective(g)
  BY DEF SetToSeq
<1>4. IsFiniteSet(1 .. m) /\ Cardinality(1 .. m) = m
  BY <1>1, FS_Interval
<1> HIDE DEF m
<1>5. f \in [1 .. m -> Slots] /\ IsInjective(f)
  BY <1>2, <1>3
<1>6. f \in Injection(1 .. m, Slots)
  BY <1>5 DEF Injection
<1>7. f \in Surjection(1 .. m, Slots)
  <2>1. Cardinality(1 .. m) = Cardinality(Slots)
    BY <1>4 DEF m
  <2> QED
    BY <1>1, <1>6, <2>1, FS_Injection
<1>8. Range(f) = Slots
  BY <1>5, <1>7 DEF Surjection, Range
<1>9. f \in Seq(Slots)
  BY <1>1, <1>5 DEF m
<1> QED
  BY <1>5, <1>8, <1>9

LEMMA InitStaInv == ASSUME Init PROVE StaInv
<1> DEFINE t == Now
<1>1. /\ t.list = <<>> /\ t.free \in Seq(Slots)
      /\ IsInjective(t.free) /\ Range(t.free) = Slots
  <2>1. t.list = <<>> /\ t.free = SetToSeq(Slots)
    BY DEF Init, Now
  <2> HIDE DEF t
  <2> QED
    BY <2>1, AllSlots
<1>2. /\ t.info = [s \in Slots |-> Unused] /\ t.active = None /\ t.attempt = None
      /\ t.rec = [k \in Kinds |-> 0] /\ t.listed = [k \in Kinds |-> {}] /\ t.scan = Idle
      /\ t.data = None /\ t.saved = None /\ t.ssid = UserSsid
      /\ t.join = "IDLE" /\ t.auth = "UNAUTHENTICATED"
      /\ t.sought = None /\ t.tuned = FALSE
  BY DEF Init, Now
<1>3. t \in StateType
  <2>1. rec \in RecType /\ listed \in ListedType
    BY StaJoinAssumption DEF Init, RecType, ListedType
  <2>2. scan \in ScanType /\ info \in InfoType
    BY DEF Init, ScanType, Idle, InfoType, Unused
  <2>3. join \in JoinStates /\ auth \in AuthStates
    BY DEF Init, JoinStates, AuthStates
  <2>4. list \in Seq(Slots) /\ free \in Seq(Slots)
    BY <1>1 DEF Init, Now
  <2>5. /\ attempt \in Slots \cup {None} /\ active \in Slots \cup {None}
        /\ target \in Target \cup {NoTarget} /\ pause \in BOOLEAN
        /\ channel \in Nets \cup {None} /\ data \in Nets \cup {None}
        /\ ssid \in Nets \cup {UserSsid} /\ saved \in {UserSsid, None}
        /\ asked \in BOOLEAN /\ passive \in BOOLEAN
        /\ sought \in Nets \cup {None} /\ scanned \in BOOLEAN /\ tuned \in BOOLEAN
    BY DEF Init
  <2> QED
    BY <2>1, <2>2, <2>3, <2>4, <2>5 DEF Now, StateType
<1> HIDE DEF t
<1>4. Scheduled(t, {})
  BY <1>2 DEF Scheduled, Due, Idle, Kinds, ScanKinds
<1>5. Kept(t)
  <2>1. Range(t.list) = {} /\ IsInjective(t.list)
    BY <1>1 DEF Range, IsInjective
  <2>2. \A s \in Slots : ~t.info[s].keep /\ s # None
    BY <1>2, StaJoinAssumption DEF Unused
  <2> QED
    BY <1>1, <1>2, <2>1, <2>2 DEF Kept
<1>6. Connected(t)
  BY <1>2 DEF Connected, Idle
<1>7. Joining(t, {}) /\ Wanted(t)
  BY <1>2 DEF Joining, Due, Wanted, Kinds
<1>8. Sound(t, {})
  BY <1>2, <1>3, <1>4, <1>5, <1>6, <1>7 DEF Sound, Base
<1> QED
  BY <1>8 DEF t, StaInv, Programs, Init

\* What the steps of the menu find between commands.
LEMMA Unhurried ==
    ASSUME StaInv, ~divided, main = <<>>
    PROVE  Sound(Now, {}) /\ Base(Now, {}) /\ Joining(Now, {}) /\ Now.auth # "ASSOCIATED"
  BY Resting DEF Sound

LEMMA UartJoinStep ==
    ASSUME StaInv, ~divided, NEW n \in Nets, UartJoin(n) PROVE StaInv'
<1> DEFINE p == [net |-> n, by |-> "ssid"]
           r == ScanStop(Now)
           s == [r EXCEPT !.target = p]
           v == Prepare(s)
           W(c) == ScanStart(v, c)
<1>1. PICK c \in Nets \cup {None} : Menu(Schedule(W(c), "search"))
  BY DEF UartJoin
<1>3. p \in Target /\ p \in Target \cup {NoTarget} /\ p.by # "both"
  BY DEF Target
<1> DEFINE w == W(c)
           u == Schedule(w, "search")
<1>4. Menu(u)
  BY <1>1
<1> HIDE DEF p
<1>2. ASSUME main = <<>>
      PROVE  Sound(u, {}) /\ u.auth # "ASSOCIATED"
  <2>1. Base(Now, {}) /\ Joining(Now, {})
    BY <1>2, Unhurried
  <2>2. Base(r, {}) /\ Joining(r, {})
    <3> DEFINE none == {}
    <3>1. Base(Now, none) /\ none \ ScanKinds = none
      BY <2>1
    <3> HIDE DEF none
    <3>2. Base(r, none) /\ Frame(Now, r)
      BY <3>1, ScanStopBase
    <3> QED
      BY <2>1, <3>2, FrameKeeps DEF none
  <2> HIDE DEF r
  <2>3. Base(s, {}) /\ (s.join = "IDLE" => Joining(s, {})) /\ s.target = p
    <3>1. s = Aimed(r, p)
      BY DEF Aimed
    <3> HIDE DEF s
    <3> QED
      BY <1>3, <2>2, <3>1, TargetBase
  <2> HIDE DEF s
  <2> DEFINE Q == {"search"}
  <2>4. Sound(v, Q) /\ v.auth = "UNAUTHENTICATED" /\ Q \cap ScanKinds = {}
    <3>1. Q \cap ScanKinds = {}
      BY DEF ScanKinds
    <3>2. Sound(v, {"search"}) /\ v.auth = "UNAUTHENTICATED"
      BY <1>3, <2>3, PrepareSound
    <3> QED
      BY <3>1, <3>2
  <2>5. Paid(Q, "search") = {} /\ "search" \in Q
    BY DEF Paid
  <2> HIDE DEF v, Q
  <2>6. Sound(w, Q) /\ SameJoin(v, w)
    BY <2>4, ScanStartSound
  <2> HIDE DEF W, w
  <2>7. Sound(u, Paid(Q, "search")) /\ SameJoin(w, u)
    BY <2>5, <2>6, ScheduleSound
  <2> QED
    BY <2>4, <2>5, <2>6, <2>7 DEF SameJoin
<1> HIDE DEF u
<1> QED
  BY <1>2, <1>4, MenuKeeps

LEMMA UartEscStep ==
    ASSUME StaInv, ~divided, UartEsc PROVE StaInv'
<1> DEFINE u == ReturnToIdle(Now)
<1>1. Menu(u)
  BY DEF UartEsc
<1>2. main = <<>> => Sound(u, {}) /\ u.auth = "UNAUTHENTICATED"
  BY Unhurried, ReturnToIdleSound
<1> HIDE DEF u
<1> QED
  BY <1>1, <1>2, MenuKeeps

LEMMA UartScanStep ==
    ASSUME StaInv, ~divided, UartScan PROVE StaInv'
<1> DEFINE none == {}
<1>0. none = {} /\ none \ ScanKinds = none /\ none \cap ScanKinds = {}
  OBVIOUS
<1> HIDE DEF none
<1>1. CASE scan.state # "IDLE"
  <2> DEFINE u == ScanStop(Now)
  <2>1. Menu(u)
    BY <1>1 DEF UartScan
  <2>2. ASSUME main = <<>>
        PROVE  Sound(u, {}) /\ u.auth # "ASSOCIATED"
    <3>1. Sound(Now, none) /\ Now.auth # "ASSOCIATED"
      BY <1>0, <2>2, Unhurried
    <3>2. Base(u, none) /\ Frame(Now, u)
      BY <1>0, <3>1, ScanStopBase DEF Sound
    <3> HIDE DEF u
    <3> QED
      BY <1>0, <3>1, <3>2, FrameKeeps DEF Sound
  <2> HIDE DEF u
  <2> QED
    BY <2>1, <2>2, MenuKeeps
<1>2. CASE scan.state = "IDLE"
  <2> DEFINE v == [Now EXCEPT !.ssid = UserSsid]
             U(c) == ScanStart(v, c)
  <2>1. PICK c \in Nets \cup {None} : Menu(U(c))
    BY <1>2 DEF UartScan
  <2> DEFINE u == U(c)
  <2>2. Menu(u)
    BY <2>1
  <2>3. ASSUME main = <<>>
        PROVE  Sound(u, {}) /\ u.auth # "ASSOCIATED"
    <3>1. Sound(Now, {}) /\ Now.auth # "ASSOCIATED" /\ Now.scan.state = "IDLE"
      BY <1>2, <2>3, Unhurried DEF Now
    <3>2. v = Scanned(Now, UserSsid, Now.passive) /\ Now.passive \in BOOLEAN
      BY <3>1 DEF Scanned, Sound, Base, StateType
    <3> HIDE DEF v
    <3>3. Sound(v, {}) /\ v.auth = Now.auth
      BY <3>1, <3>2, ScannedSound
    <3>4. Sound(v, none)
      BY <1>0, <3>3
    <3>5. Sound(u, none) /\ SameJoin(v, u)
      BY <1>0, <3>4, ScanStartSound
    <3> HIDE DEF u
    <3> QED
      BY <1>0, <3>1, <3>3, <3>5 DEF SameJoin
  <2> HIDE DEF u
  <2> QED
    BY <2>2, <2>3, MenuKeeps
<1> QED
  BY <1>1, <1>2

\* The attempt that a search begins is for a network with the SSID.
LEMMA SearchPollStep ==
    ASSUME StaInv, ~divided, SearchPoll PROVE StaInv'
<1> DEFINE v == ReturnToIdle(Now)
           n(s) == BssidOf(Now, s)
           W(s) == [v EXCEPT !.attempt = s, !.sought = n(s)]
<1>1. PICK s \in Match(Now) : Interrupt(StartAttempt(W(s)))
  BY DEF SearchPoll
<1>2. Now.listed["search"] # {} /\ Now.join = "SEARCHING"
  BY DEF SearchPoll, Now
<1> DEFINE m == n(s)
           x == W(s)
           u == StartAttempt(x)
<1>3. Interrupt(u) /\ x = Chosen(v, s, m) /\ m = BssidOf(Now, s)
  BY <1>1 DEF Chosen
<1>4. ASSUME NEW Q, Base(Now, Q), Q = {} \/ Joining(Now, Q)
      PROVE  Joining(Now, Q) => Sound(u, {}) /\ u.auth # "ASSOCIATED" /\ u.join # "SEARCHING"
  <2> SUFFICES ASSUME Joining(Now, Q)
               PROVE  Sound(u, {}) /\ u.auth # "ASSOCIATED" /\ u.join # "SEARCHING"
    OBVIOUS
  <2>1. /\ Sound(v, {}) /\ v.join = "IDLE" /\ v.scan.state = "IDLE"
        /\ v.auth = "UNAUTHENTICATED" /\ v.attempt = None /\ v.target = Now.target
        /\ SameNets(Now, v)
    BY <1>4, ReturnToIdleSound
  <2>2. Base(v, {}) /\ v.saved = None /\ v.rec["search"] = 0 /\ v.rec["attempt"] = 0
    BY <2>1 DEF Sound, Joining, Due
  <2>3. /\ Now \in StateType /\ Kept(Now)
        /\ Now.target \in Target /\ Now.target.by # "both"
    BY <1>2, <1>4 DEF Base, Joining
  <2>4. /\ s \in Range(Now.list) /\ s \in Slots
        /\ SsidOf[Now.info[s].bssid] = SsidOf[Now.target.net]
    <3> DEFINE S == {r \in Range(Now.list) :
                         SsidOf[Now.info[r].bssid] = SsidOf[Now.target.net]}
               q == Selected(Now.list, S)
    <3>1. q # <<>> /\ s = Last(q)
      BY <1>1 DEF Match
    <3>2. Now.list \in Seq(Slots) /\ Range(Now.list) \subseteq Slots
      BY <2>3, ListTypes
    <3>3. q \in Seq(Slots) /\ Range(q) = Range(Now.list) \cap S
      BY <3>2, SelectedFacts
    <3> HIDE DEF q
    <3>4. s \in Range(q)
      BY <3>1, <3>3 DEF Last, Range
    <3>5. s \in S
      BY <3>3, <3>4
    <3> QED
      BY <3>2, <3>5
  <2>5. m = Now.info[s].bssid /\ m \in Nets /\ s # None
    <3>1. None \notin Slots
      BY <2>3, ListTypes
    <3> QED
      BY <1>3, <2>3, <2>4, <3>1 DEF BssidOf, Kept
  <2>6. s \in Slots \cup {None} /\ m \in Nets \cup {None}
    BY <2>4, <2>5
  <2>7. /\ v.target \in Target /\ SsidOf[m] = SsidOf[v.target.net]
        /\ v.target.by = "both" => m = v.target.net
    BY <2>1, <2>3, <2>4, <2>5
  <2> HIDE DEF v, W, n, m, x
  <2>8. Poised(x) /\ x.auth = v.auth
    BY <1>3, <2>1, <2>2, <2>5, <2>6, <2>7, ChosenPoised
  <2>9. x.auth # "ASSOCIATED"
    BY <2>1, <2>8
  <2> QED
    BY <2>8, <2>9, StartAttemptSound
<1> HIDE DEF v, W, n, m, x, u
<1>5. Safe(Now, u)
  <2>1. ASSUME NEW P, Sound(Now, P)
        PROVE  Sound(u, {}) /\ u.auth # "ASSOCIATED" /\ u.join # "SEARCHING"
    BY <1>4, <2>1 DEF Sound
  <2>2. ~Poised(Now)
    BY <1>2 DEF Poised
  <2> QED
    BY <1>2, <2>1, <2>2 DEF Safe
<1> QED
  BY <1>3, <1>5, InterruptKeeps

LEMMA AttemptPollStep ==
    ASSUME StaInv, ~divided, AttemptPoll PROVE StaInv'
<1> DEFINE u == Poll(Now)
<1>1. Interrupt(u) /\ Now.listed["attempt"] # {} /\ Now.auth # "ASSOCIATED"
  BY DEF AttemptPoll, Now, StaInv
<1>2. Safe(Now, u)
  BY <1>1, PollSafe
<1> HIDE DEF u
<1> QED
  BY <1>1, <1>2, InterruptKeeps

LEMMA ScanTransitionStep ==
    ASSUME StaInv, ~divided, ScanTransition PROVE StaInv'
<1> DEFINE U(c) == Transition(Now, c)
<1>1. PICK c \in Nets \cup {None} : Interrupt(U(c))
  BY DEF ScanTransition
<1> DEFINE u == U(c)
<1>2. Interrupt(u) /\ Now.listed["scan"] # {}
  BY <1>1 DEF ScanTransition, Now
<1>3. Safe(Now, u)
  BY <1>2, TransitionSafe
<1> HIDE DEF U, u
<1> QED
  BY <1>2, <1>3, InterruptKeeps

LEMMA BeaconStep ==
    ASSUME StaInv, ~divided, NEW n \in Nets, Beacon(n) PROVE StaInv'
<1> DEFINE u == Enter(Now, n)
<1>1. Interrupt(u) /\ \E Q : Base(Now, Q)
  BY Underway DEF Beacon
<1>2. Mild(Now, u)
  BY <1>1, EnterMild
<1> HIDE DEF u
<1> QED
  BY <1>1, <1>2, MildInterrupt

LEMMA AnsweredMild ==
    ASSUME StaInv, ~divided, NEW n, NEW u, u = Answered(n)
    PROVE  /\ Mild(Now, u) /\ u.active = Now.active /\ SameNets(Now, u)
           /\ SameJoin(Now, u) /\ \E Q : Base(u, Q)
<1> DEFINE A == Now.asked /\ BssidOf(Now, attempt) # n
<1>1. u = [Now EXCEPT !.asked = A] /\ A \in BOOLEAN
  BY DEF Answered, Now
<1>2. Now \in StateType /\ \E Q : Base(Now, Q)
  BY Underway
<1> HIDE DEF A
<1>3. Mild(Now, u) /\ u.active = Now.active /\ SameNets(Now, u)
  BY <1>1, <1>2, AskedMild
<1> QED
  BY <1>2, <1>3 DEF Mild, Frame

LEMMA AuthResponseStep ==
    ASSUME StaInv, ~divided, NEW n \in Nets, AuthResponse(n) PROVE StaInv'
<1> DEFINE w == Answered(n)
           f == "UNAUTHENTICATED"
           a == "AUTHENTICATED"
           u == Advance(w, n, f, a)
<1>1. Interrupt(u)
  BY DEF AuthResponse
<1>2. a \in AuthStates
  BY DEF AuthStates
<1>3. Mild(Now, w)
  BY AnsweredMild
<1> HIDE DEF w, f, a
<1>4. Safe(w, u)
  BY <1>2, AdvanceSafe
<1> HIDE DEF u
<1>5. Safe(Now, u)
  BY <1>3, <1>4, MildThenSafe
<1> QED
  BY <1>1, <1>5, InterruptKeeps

\* A BSS that the node comes into is that of the attempt, if its entry is still there.
LEMMA AssocResponseStep ==
    ASSUME StaInv, ~divided, NEW n \in Nets, AssocResponse(n)
    PROVE  /\ StaInv'
           /\ /\ ~divided' /\ active' # active /\ active' # None
              /\ attempt # None /\ info'[attempt].bssid = sought
              => /\ SsidOf[info'[active'].bssid] = SsidOf[target.net]
                 /\ target.by = "both" => info'[active'].bssid = target.net
<1> DEFINE w == Answered(n)
           v == Enter(w, n)
           f == "AUTHENTICATED"
           a == "ASSOCIATED"
           u == Advance(v, n, f, a)
<1>1. Interrupt(u)
  BY DEF AssocResponse
<1>2. a \in AuthStates
  BY DEF AuthStates
<1>3. /\ Mild(Now, w) /\ w.active = Now.active /\ SameJoin(Now, w)
      /\ \E Q : Base(w, Q)
  BY AnsweredMild
<1> HIDE DEF w
<1>4. Mild(w, v) /\ v.active = w.active
  BY <1>3, EnterMild
<1> HIDE DEF v, f, a
<1>5. Mild(Now, v) /\ SameJoin(Now, v)
  BY <1>3, <1>4, MildTrans, MildKeeps
<1>6. Safe(Now, u)
  BY <1>2, <1>5, AdvanceSafe, MildThenSafe
<1>7. StaInv'
  <2> HIDE DEF u
  <2> QED
    BY <1>1, <1>6, InterruptKeeps
<1>8. ASSUME ~divided', active' # active, active' # None,
             attempt # None, info'[attempt].bssid = sought
      PROVE  /\ SsidOf[info'[active'].bssid] = SsidOf[target.net]
             /\ target.by = "both" => info'[active'].bssid = target.net
  <2>1. /\ Now.active = active /\ Now.attempt = attempt /\ Now.sought = sought
        /\ Now.target = target /\ Now.join = join
    BY DEF Now
  <2>2. v \in StateType /\ \E Q : Base(v, Q)
    BY <1>3, <1>4 DEF Mild, Base
  <2>3. Become(u) /\ (main = <<>> \/ (u.join = join /\ u.auth # "ASSOCIATED"))
    <3> HIDE DEF u
    <3> QED
      BY <1>1, <1>8 DEF Interrupt
  <2>4. active' = u.active /\ info' = u.info
    <3>1. active' = Settled(u).active /\ info' = Settled(u).info
      BY <2>3 DEF Become
    <3> QED
      BY <3>1 DEF Settled
  <2>5. main = <<>>
    <3> SUFFICES ASSUME u.join = join, u.auth # "ASSOCIATED" PROVE FALSE
      BY <2>3
    <3>1. v.join = u.join
      BY <1>5, <2>1 DEF SameJoin
    <3>2. u.active = v.active
      BY <1>2, <2>2, <3>1, AdvanceStays
    <3> QED
      BY <1>3, <1>4, <1>8, <2>1, <2>4, <3>2
  <2>6. Sound(v, {}) /\ v.auth # "ASSOCIATED"
    <3>1. Sound(Now, {}) /\ Now.auth # "ASSOCIATED"
      BY <2>5, Unhurried
    <3> QED
      BY <1>5, <3>1, MildKeeps DEF SameJoin
  <2>7. /\ v.attempt # None /\ v.info[v.attempt].bssid = n
        /\ u.info[u.active].bssid = n
    BY <1>2, <1>3, <1>4, <1>8, <2>1, <2>4, <2>6, AdvanceSound
  <2>8. SameBssids(v, u)
    BY <1>2, <2>6, AdvanceBssids
  <2>9. v.attempt = attempt /\ v.sought = sought /\ v.target = target /\ attempt \in Slots
    BY <1>5, <1>8, <2>1, <2>2 DEF SameJoin, StateType
  <2>10. v.sought = n
    BY <1>8, <2>4, <2>7, <2>8, <2>9 DEF SameBssids
  <2>11. Wanted(v) /\ n # None
    BY <2>6, StaJoinAssumption DEF Sound
  <2> QED
    BY <2>4, <2>7, <2>9, <2>10, <2>11 DEF Wanted
<1> QED
  BY <1>7, <1>8

LEMMA AuthRefusedStep ==
    ASSUME StaInv, ~divided, NEW n \in Nets, AuthRefused(n) PROVE StaInv'
<1> DEFINE w == Answered(n)
           u == Refuse(w, n)
<1>1. Interrupt(u)
  BY DEF AuthRefused
<1>2. Mild(Now, w) /\ \E Q : Base(w, Q)
  BY AnsweredMild
<1> HIDE DEF w
<1>3. Safe(w, u)
  BY <1>2, RefuseSafe
<1> HIDE DEF u
<1>4. Safe(Now, u)
  BY <1>2, <1>3, MildThenSafe
<1> QED
  BY <1>1, <1>4, InterruptKeeps

LEMMA AssocRefusedStep ==
    ASSUME StaInv, ~divided, NEW n \in Nets, AssocRefused(n) PROVE StaInv'
<1> DEFINE w == Answered(n)
           v == Enter(w, n)
           u == Refuse(v, n)
<1>1. Interrupt(u)
  BY DEF AssocRefused
<1>2. Mild(Now, w) /\ \E Q : Base(w, Q)
  BY AnsweredMild
<1> HIDE DEF w
<1>3. Mild(w, v)
  BY <1>2, EnterMild
<1>4. \E Q : Base(v, Q)
  BY <1>2, <1>3 DEF Mild
<1> HIDE DEF v
<1>5. Safe(v, u)
  BY <1>4, RefuseSafe
<1> HIDE DEF u
<1>6. Safe(Now, u)
  BY <1>2, <1>3, <1>5, MildThenSafe, MildTrans
<1> QED
  BY <1>1, <1>6, InterruptKeeps

LEMMA LostStep ==
    ASSUME StaInv, ~divided, Lost PROVE StaInv'
<1> DEFINE no == FALSE
           u == [Now EXCEPT !.asked = no]
<1>1. Interrupt(u) /\ no \in BOOLEAN /\ Now \in StateType
  BY Underway DEF Lost
<1> HIDE DEF no
<1>2. Mild(Now, u)
  BY <1>1, AskedMild
<1> HIDE DEF u
<1> QED
  BY <1>1, <1>2, MildInterrupt

\* The BSS is left, and a join stopped.
LEMMA DeauthStep ==
    ASSUME StaInv, ~divided, NEW n \in Nets, Deauth(n) PROVE StaInv'
<1> DEFINE v == StopJoin(Now)
           u == Leave(v)
<1>1. Interrupt(u)
  BY DEF Deauth
<1>2. \E Q : Base(Now, Q)
  BY Underway
<1>3. CASE Now.join = "IDLE"
  <2>1. v = Now
    BY <1>3 DEF StopJoin
  <2>2. Frame(v, u) /\ u.scan = v.scan
    <3>1. \A Q : Base(Now, Q) => Frame(v, u) /\ u.scan = v.scan
      BY <2>1, LeaveBase
    <3> QED
      BY <1>2, <3>1
  <2>3. \A P : Base(v, P) => Base(u, P)
    BY LeaveBase
  <2>4. Mild(Now, u)
    BY <2>1, <2>2, <2>3 DEF Mild
  <2> HIDE DEF u
  <2> QED
    BY <1>1, <2>4, MildInterrupt
<1>4. CASE Now.join # "IDLE"
  <2>1. v = ReturnToIdle(Now)
    BY <1>4 DEF StopJoin
  <2>2. Sound(v, {}) /\ v.join = "IDLE" /\ v.auth = "UNAUTHENTICATED"
    BY <1>2, <2>1, ReturnToIdleSound
  <2> HIDE DEF v
  <2>3. Base(u, {}) /\ Frame(v, u)
    BY <2>2, LeaveBase DEF Sound
  <2>4. Sound(u, {}) /\ u.join = "IDLE" /\ u.auth = "UNAUTHENTICATED"
    BY <2>2, <2>3, FrameKeeps DEF Sound
  <2>5. Safe(Now, u)
    BY <1>4, <2>4 DEF Safe
  <2> HIDE DEF u
  <2> QED
    BY <1>1, <2>5, InterruptKeeps
<1> QED
  BY <1>3, <1>4

LEMMA TimestampCheckStep ==
    ASSUME StaInv, ~divided, TimestampCheck PROVE StaInv'
<1> DEFINE s == Head(Droppable(Now))
           u == Drop(Now, s)
<1>1. Interrupt(u) /\ Droppable(Now) # <<>>
  BY DEF TimestampCheck
<1>2. Now \in StateType /\ Kept(Now)
  BY Underway
<1>3. s \in Range(Now.list) /\ ~Now.info[s].keep
  BY <1>1, <1>2, DroppableFacts
<1> HIDE DEF s
<1>4. /\ u \in StateType /\ Kept(u)
      /\ SameJoin(Now, u) /\ SameLink(Now, u) /\ SameSchedules(Now, u)
      /\ Now.active # None => u.info[Now.active] = Now.info[Now.active]
  BY <1>2, <1>3, DropKept
<1> HIDE DEF u
<1>5. Mild(Now, u)
  BY <1>4, DroppedMild
<1> QED
  BY <1>1, <1>5, MildInterrupt

LEMMA EnqueueStep ==
    ASSUME StaInv, ~divided, Enqueue PROVE StaInv'
<1> DEFINE d == BssidOf(Now, active)
           u == [Now EXCEPT !.data = d]
<1>1. Interrupt(u) /\ Now.active # None /\ d = BssidOf(Now, Now.active)
  BY DEF Enqueue, Now
<1> HIDE DEF d
<1>2. Mild(Now, u)
  BY <1>1, Underway, DataMild
<1> HIDE DEF u
<1> QED
  BY <1>1, <1>2, MildInterrupt

LEMMA DequeueStep ==
    ASSUME StaInv, ~divided, Dequeue PROVE StaInv'
<1> DEFINE u == [Now EXCEPT !.data = None]
<1>1. Interrupt(u)
  BY DEF Dequeue
<1>2. Mild(Now, u)
  BY Underway, DataMild
<1> HIDE DEF u
<1> QED
  BY <1>1, <1>2, MildInterrupt

-----------------------------------------------------------------------------
(* The commands.                                                            *)

LEMMA OwedSame ==
    ASSUME NEW t, NEW u, u.passive = t.passive, NEW x \in Steps
    PROVE  Owed(u, x) = Owed(t, x)
  BY DEF Owed, Scanning

\* A step of a command, which divides nothing.
LEMMA Lands ==
    ASSUME NEW t, t \in StateType, Become(t), StaInv, ~divided, UNCHANGED divided
    PROVE  /\ Now' = Settled(t) /\ auth' = t.auth /\ join' = t.join /\ scan' = t.scan
           /\ Now'.passive = t.passive /\ divided' \in BOOLEAN
           /\ \A P : Sound(t, P) => Sound(Now', P)
           /\ Poised(t) => Poised(Now')
<1>1. Now' = Settled(t) /\ auth' = t.auth /\ join' = t.join /\ scan' = t.scan
  BY BecomeNow
<1>2. Settled(t).passive = t.passive
  BY SettledFields
<1> QED
  BY <1>1, <1>2, SettledSound DEF StaInv

LEMMA CommandScans ==
    ASSUME StaInv, ~divided,
           NEW t, Command(t, ScanSteps(t)), Sound(t, {}), t.auth # "ASSOCIATED"
    PROVE  StaInv'
<1>1. t \in StateType /\ Become(t) /\ main' = ScanSteps(t) /\ UNCHANGED divided
  BY DEF Command, Sound, Base
<1>2. /\ Now' = Settled(t) /\ auth' = t.auth /\ scan' = t.scan
      /\ divided' \in BOOLEAN /\ Sound(Now', {})
  BY <1>1, Lands
<1>3. CASE t.scan.state # "IDLE"
  BY <1>1, <1>2, <1>3, Rests DEF ScanSteps
<1>4. CASE t.scan.state = "IDLE"
  <2>1. main' \in ScanPrograms /\ Head(main') = "begin scan"
    <3> DEFINE q == <<"begin scan", "hop", "probe", "scan">>
    <3>1. main' = q /\ q \in ScanPrograms
      BY <1>1, <1>4 DEF ScanSteps, ScanPrograms
    <3>2. Head(q) = "begin scan"
      OBVIOUS
    <3> HIDE DEF q
    <3> QED
      BY <3>1, <3>2
  <2>2. Owed(Now', "begin scan") = {}
    BY DEF Owed
  <2>3. Sound(Now', Owed(Now', Head(main'))) /\ scan'.state = "IDLE"
    BY <1>2, <1>4, <2>1, <2>2
  <2> QED
    BY <1>2, <2>1, <2>3 DEF StaInv, Programs
<1> QED
  BY <1>3, <1>4

LEMMA CommandSearches ==
    ASSUME StaInv, ~divided, NEW t, Command(t, Append(ScanSteps(t), "search")),
           Sound(t, {"search"}), t.auth # "ASSOCIATED"
    PROVE  StaInv'
<1>1. /\ t \in StateType /\ Become(t) /\ main' = Append(ScanSteps(t), "search")
      /\ UNCHANGED divided
  BY DEF Command, Sound, Base
<1>2. /\ Now' = Settled(t) /\ auth' = t.auth /\ scan' = t.scan
      /\ divided' \in BOOLEAN /\ Sound(Now', {"search"})
  BY <1>1, Lands
<1>3. CASE t.scan.state # "IDLE"
  <2>1. main' = <<"search">>
    BY <1>1, <1>3 DEF ScanSteps
  <2>2. main' \in SearchPrograms /\ Head(main') = "search"
    BY <2>1 DEF SearchPrograms
  <2>3. Owed(Now', "search") \cup {"search"} = {"search"}
    BY DEF Owed
  <2>4. Sound(Now', Owed(Now', Head(main')) \cup {"search"})
    BY <1>2, <2>2, <2>3
  <2> QED
    BY <1>2, <2>2, <2>4 DEF StaInv, Programs
<1>4. CASE t.scan.state = "IDLE"
  <2> DEFINE q == <<"begin scan", "hop", "probe", "scan">>
  <2>1. q \in ScanPrograms /\ main' = Append(q, "search")
    BY <1>1, <1>4 DEF ScanSteps, ScanPrograms
  <2>2. Head(q) = "begin scan"
    OBVIOUS
  <2> HIDE DEF q
  <2>3. main' \in SearchPrograms
    BY <2>1 DEF SearchPrograms
  <2>4. Head(main') = "begin scan"
    <3>1. q \in Seq(Steps) /\ q # <<>>
      BY <2>1, ScanProgram
    <3>2. "search" \in Steps
      BY DEF Steps
    <3> QED
      BY <2>1, <2>2, <3>1, <3>2, HeadAppend
  <2>5. Owed(Now', "begin scan") \cup {"search"} = {"search"}
    BY DEF Owed
  <2>6. Sound(Now', Owed(Now', Head(main')) \cup {"search"}) /\ scan'.state = "IDLE"
    BY <1>2, <1>4, <2>4, <2>5
  <2> QED
    BY <1>2, <2>3, <2>6 DEF StaInv, Programs
<1> QED
  BY <1>3, <1>4

LEMMA CommandAttempts ==
    ASSUME StaInv, ~divided, NEW t, Command(t, AttemptSteps), Poised(t),
           t.auth # "ASSOCIATED"
    PROVE  StaInv'
<1>1. t \in StateType /\ Become(t) /\ main' = AttemptSteps /\ UNCHANGED divided
  BY DEF Command, Poised, Base
<1>2. auth' = t.auth /\ divided' \in BOOLEAN /\ Poised(Now')
  BY <1>1, Lands
<1> QED
  BY <1>1, <1>2 DEF StaInv, Programs

LEMMA Commanded ==
    ASSUME StaInv, ~divided, NEW t, NEW steps, Command(t, steps)
    PROVE  Sound(Now, {}) /\ Base(Now, {}) /\ Joining(Now, {}) /\ Now.auth # "ASSOCIATED"
<1>1. main = <<>>
  BY DEF Command
<1> QED
  BY <1>1, Unhurried

LEMMA HostJoinStep ==
    ASSUME StaInv, ~divided, NEW p \in Target, HostJoin(p) PROVE StaInv'
<1> DEFINE s == Aimed(Now, p)
           u == Prepare(s)
           steps == IF p.by = "both" THEN AttemptSteps ELSE Append(ScanSteps(u), "search")
<1>1. Command(u, steps)
  BY DEF HostJoin, Aimed
<1>2. Base(Now, {}) /\ Joining(Now, {})
  BY <1>1, Commanded
<1>3. Base(s, {}) /\ (s.join = "IDLE" => Joining(s, {})) /\ s.target = p
  BY <1>2, TargetBase
<1> HIDE DEF s
<1>4. /\ u.auth = "UNAUTHENTICATED"
      /\ p.by = "both" => Poised(u)
      /\ p.by # "both" => Sound(u, {"search"})
  BY <1>3, PrepareSound
<1> HIDE DEF u
<1>5. CASE p.by = "both"
  BY <1>1, <1>4, <1>5, CommandAttempts
<1>6. CASE p.by # "both"
  BY <1>1, <1>4, <1>6, CommandSearches
<1> QED
  BY <1>5, <1>6

LEMMA HostJoinNoneStep ==
    ASSUME StaInv, ~divided, HostJoinNone PROVE StaInv'
<1> DEFINE s == Aimed(Now, NoTarget)
           u == ReturnToIdle(s)
<1>1. Command(u, <<>>)
  BY DEF HostJoinNone, Aimed
<1>2. Base(Now, {})
  BY <1>1, Commanded
<1>3. Base(s, {})
  BY <1>2, TargetBase
<1> HIDE DEF s
<1>4. Sound(u, {}) /\ u.auth = "UNAUTHENTICATED"
  BY <1>3, ReturnToIdleSound
<1> HIDE DEF u
<1> QED
  BY <1>1, <1>4, CommandRests

LEMMA HostScanStep ==
    ASSUME StaInv, ~divided, HostScan PROVE StaInv'
<1>1. Command(Now, ScanSteps(Now))
  BY DEF HostScan
<1>2. Sound(Now, {}) /\ Now.auth # "ASSOCIATED"
  BY <1>1, Commanded
<1> QED
  BY <1>1, <1>2, CommandScans

\* The scan stops and the join goes on.
LEMMA StoppedSound ==
    ASSUME NEW t, Sound(t, {}), NEW u, u = ScanStop(t)
    PROVE  Sound(u, {}) /\ u.auth = t.auth /\ u.ssid = t.ssid /\ u.scan.state = "IDLE"
<1> DEFINE none == {}
<1>1. none = {} /\ none \ ScanKinds = none
  OBVIOUS
<1> HIDE DEF none
<1>2. Base(t, none) /\ Joining(t, none) /\ Wanted(t)
  BY <1>1 DEF Sound
<1>3. Base(u, none) /\ Frame(t, u) /\ u.scan.state = "IDLE"
  BY <1>1, <1>2, ScanStopBase
<1>4. Joining(u, none) /\ Wanted(u) /\ u.auth = t.auth
  BY <1>2, <1>3, FrameKeeps
<1> QED
  BY <1>1, <1>3, <1>4 DEF Sound, Frame, SameJoin

LEMMA HostScanStopStep ==
    ASSUME StaInv, ~divided, HostScanStop PROVE StaInv'
<1> DEFINE u == ScanStop(Now)
<1>1. Command(u, <<>>)
  BY DEF HostScanStop
<1>2. Sound(Now, {}) /\ Now.auth # "ASSOCIATED"
  BY <1>1, Commanded
<1>3. Sound(u, {}) /\ u.auth # "ASSOCIATED"
  BY <1>2, StoppedSound
<1> HIDE DEF u
<1> QED
  BY <1>1, <1>3, CommandRests

LEMMA HostScanParamStep ==
    ASSUME StaInv, ~divided, HostScanParam PROVE StaInv'
<1> DEFINE v == ScanStop(Now)
           U(n, p) == [v EXCEPT !.ssid = n, !.passive = p]
<1>1. PICK p \in BOOLEAN, n \in {ssid, UserSsid} :
          Command(U(n, p), IF scan.state = "IDLE" THEN <<>> ELSE ScanSteps(U(n, p)))
  BY DEF HostScanParam
<1> DEFINE u == U(n, p)
<1>2. u = Scanned(v, n, p)
  BY DEF Scanned
<1>3. Sound(Now, {}) /\ Now.auth # "ASSOCIATED" /\ Now.ssid = ssid
  BY <1>1, Commanded DEF Now
<1>4. /\ Sound(v, {}) /\ v.auth # "ASSOCIATED" /\ v.scan.state = "IDLE"
      /\ n \in {v.ssid, UserSsid}
  BY <1>1, <1>3, StoppedSound
<1> HIDE DEF v
<1>5. Sound(u, {}) /\ u.auth # "ASSOCIATED"
  BY <1>1, <1>2, <1>4, ScannedSound
<1>6. Command(u, <<>>) \/ Command(u, ScanSteps(u))
  BY <1>1
<1> HIDE DEF u
<1> QED
  BY <1>5, <1>6, CommandRests, CommandScans

LEMMA HostDisassociateStep ==
    ASSUME StaInv, ~divided, HostDisassociate PROVE StaInv'
<1> DEFINE v == StopJoin(Now)
           w == ScanStop(v)
           u == Disassociate(w)
<1>1. Command(u, <<>>)
  BY DEF HostDisassociate
<1>2. Base(Now, {}) /\ Joining(Now, {})
  BY <1>1, Commanded
<1>3. Sound(v, {}) /\ v.auth = "UNAUTHENTICATED"
  BY <1>2, StopJoinSound
<1> HIDE DEF v
<1>4. Sound(w, {}) /\ w.auth = "UNAUTHENTICATED"
  BY <1>3, StoppedSound
<1> HIDE DEF w
<1>5. Base(u, {}) /\ Frame(w, u)
  BY <1>4, DisassociateBase DEF Sound
<1> HIDE DEF u
<1>6. Sound(u, {}) /\ u.auth # "ASSOCIATED"
  BY <1>4, <1>5, FrameKeeps DEF Sound
<1> QED
  BY <1>1, <1>6, CommandRests

LEMMA HostConfigureStep ==
    ASSUME StaInv, ~divided, NEW n \in Nets, HostConfigure(n) PROVE StaInv'
<1> DEFINE u == Adopt(Now, n)
<1>1. Command(u, <<>>)
  BY DEF HostConfigure
<1>2. Sound(Now, {}) /\ Now.auth # "ASSOCIATED"
  BY <1>1, Commanded
<1>3. Sound(u, {}) /\ (u.auth = Now.auth \/ u.auth = "UNAUTHENTICATED")
  BY <1>2, AdoptSound
<1> HIDE DEF u
<1> QED
  BY <1>1, <1>2, <1>3, CommandRests

LEMMA HostConfigureNoneStep ==
    ASSUME StaInv, ~divided, HostConfigureNone PROVE StaInv'
<1> DEFINE u == Leave(Now)
<1>1. Command(u, <<>>)
  BY DEF HostConfigureNone
<1>2. Sound(Now, {}) /\ Now.auth # "ASSOCIATED"
  BY <1>1, Commanded
<1>3. Base(u, {}) /\ Frame(Now, u)
  BY <1>2, LeaveBase DEF Sound
<1> HIDE DEF u
<1>4. Sound(u, {}) /\ u.auth # "ASSOCIATED"
  BY <1>2, <1>3, FrameKeeps DEF Sound
<1> QED
  BY <1>1, <1>4, CommandRests

LEMMA HostResetStep ==
    ASSUME StaInv, ~divided, HostReset PROVE StaInv'
<1> DEFINE v == ReturnToIdle(Now)
           w == Disassociate(v)
           u == Leave(w)
<1>1. Command(u, <<>>)
  BY DEF HostReset
<1>2. Base(Now, {})
  BY <1>1, Commanded
<1>3. Sound(v, {}) /\ v.auth = "UNAUTHENTICATED"
  BY <1>2, ReturnToIdleSound
<1> HIDE DEF v
<1>4. Base(w, {}) /\ Frame(v, w)
  BY <1>3, DisassociateBase DEF Sound
<1> HIDE DEF w
<1>5. Base(u, {}) /\ Frame(w, u)
  BY <1>4, LeaveBase
<1> HIDE DEF u
<1>6. Frame(v, u)
  BY <1>4, <1>5, FrameTrans
<1>7. Sound(u, {}) /\ u.auth # "ASSOCIATED"
  BY <1>3, <1>5, <1>6, FrameKeeps DEF Sound
<1> QED
  BY <1>1, <1>7, CommandRests

LEMMA HostResetNetworksStep ==
    ASSUME StaInv, ~divided, HostResetNetworks PROVE StaInv'
<1> DEFINE u == DropAll(Now)
<1>1. Command(u, <<>>)
  BY DEF HostResetNetworks
<1>2. Sound(Now, {}) /\ Now.auth # "ASSOCIATED"
  BY <1>1, Commanded
<1>3. Now \in StateType /\ Kept(Now)
  BY <1>2 DEF Sound, Base
<1>4. /\ u \in StateType /\ Kept(u)
      /\ SameJoin(Now, u) /\ SameLink(Now, u) /\ SameSchedules(Now, u)
      /\ Now.active # None => u.info[Now.active] = Now.info[Now.active]
  BY <1>3, DropAllKept
<1> HIDE DEF u
<1>5. Sound(u, {}) /\ u.auth # "ASSOCIATED"
  BY <1>2, <1>4, DroppedMild, MildKeeps DEF SameJoin
<1> QED
  BY <1>1, <1>5, CommandRests

\* What is owed after a step of a scan.
OwedAfter(t, x) == CASE x \in {"begin scan", "hop"} -> Scanning(t)
                     [] x = "probe" -> {"scan"}
                     [] x = "scan" -> {}

LEMMA ScanStepSound ==
    ASSUME NEW x \in {"begin scan", "hop", "probe", "scan"},
           NEW R, R = {} \/ R = {"search"},
           NEW t, Sound(t, Owed(t, x) \cup R), x = "begin scan" => t.scan.state = "IDLE",
           NEW c \in Nets \cup {None}, NEW u, u = Do(x, t, c)
    PROVE  Sound(u, OwedAfter(t, x) \cup R) /\ SameJoin(t, u)
<1> DEFINE P == Owed(t, x) \cup R
<1>1. R \cap ScanKinds = {} /\ Sound(t, P)
  BY DEF ScanKinds
<1>2. "scan" \in P => t.scan.state = "RUNNING"
  <2>1. Scheduled(t, P) /\ "scan" \in ScanKinds
    BY <1>1 DEF Sound, Base, ScanKinds
  <2> HIDE DEF P
  <2> QED
    BY <2>1 DEF Scheduled, Due
<1>3. CASE x = "begin scan"
  <2>1. P \cap ScanKinds = {} /\ P \cup Scanning(t) = OwedAfter(t, x) \cup R
    BY <1>1, <1>3 DEF Owed, OwedAfter
  <2>2. u = ScanBegin(t)
    BY <1>3 DEF Do
  <2> HIDE DEF P
  <2>3. Sound(u, P \cup Scanning(t)) /\ SameJoin(t, u)
    BY <1>1, <1>3, <2>1, <2>2, ScanBeginSound
  <2> QED
    BY <2>1, <2>3
<1>4. CASE x = "hop"
  <2>1. P = Scanning(t) \cup R /\ OwedAfter(t, x) \cup R = P
    BY <1>4 DEF Owed, OwedAfter
  <2>2. Hopped(t, P) = P /\ t.scan.state = "RUNNING"
    BY <1>2, <2>1 DEF Hopped, Scanning, ScanKinds
  <2>3. u = Hop(t, c)
    BY <1>4 DEF Do
  <2> HIDE DEF P
  <2>4. Sound(u, Hopped(t, P)) /\ SameJoin(t, u)
    BY <1>1, <2>2, <2>3, HopSound
  <2> QED
    BY <2>1, <2>2, <2>4
<1>5. CASE x = "probe"
  <2>1. P = Scanning(t) \cup R /\ OwedAfter(t, x) = {"scan"}
    BY <1>5 DEF Owed, OwedAfter
  <2>2. /\ t.passive \/ "probe" \in P
        /\ Paid(P, "probe") = {"scan"} \cup R /\ t.scan.state = "RUNNING"
    BY <1>1, <1>2, <2>1 DEF ScanKinds, Scanning, Paid
  <2>3. u = ScheduleProbe(t)
    BY <1>5 DEF Do
  <2> HIDE DEF P
  <2>4. Sound(u, Paid(P, "probe")) /\ SameJoin(t, u)
    BY <1>1, <2>2, <2>3, ScheduleProbeSound
  <2> QED
    BY <2>1, <2>2, <2>4
<1>6. CASE x = "scan"
  <2>1. P = {"scan"} \cup R /\ OwedAfter(t, x) \cup R = R
    BY <1>6 DEF Owed, OwedAfter
  <2>2. Paid(P, "scan") = R /\ t.scan.state = "RUNNING"
    BY <1>1, <1>2, <2>1 DEF ScanKinds, Paid
  <2>3. u = ScheduleScan(t)
    BY <1>6 DEF Do
  <2> HIDE DEF P
  <2>4. Sound(u, Paid(P, "scan")) /\ SameJoin(t, u)
    BY <1>1, <2>2, <2>3, ScheduleScanSound
  <2> QED
    BY <2>1, <2>2, <2>4
<1> QED
  BY <1>3, <1>4, <1>5, <1>6

\* Where a step of a scan leaves its command.
LEMMA ScanProgramStep ==
    ASSUME NEW q \in ScanPrograms, NEW t
    PROVE  /\ Head(q) \in {"begin scan", "hop", "probe", "scan"}
           /\ \/ Tail(q) = <<>> /\ OwedAfter(t, Head(q)) = {}
              \/ /\ Tail(q) \in ScanPrograms /\ Head(Tail(q)) # "begin scan"
                 /\ Head(Tail(q)) \in Steps
                 /\ Owed(t, Head(Tail(q))) = OwedAfter(t, Head(q))
<1>1. CASE Head(q) = "begin scan" /\ Tail(q) \in ScanPrograms /\ Head(Tail(q)) = "hop"
  BY <1>1 DEF Owed, OwedAfter, Steps
<1>2. CASE Head(q) = "hop" /\ Tail(q) \in ScanPrograms /\ Head(Tail(q)) = "probe"
  BY <1>2 DEF Owed, OwedAfter, Steps
<1>3. CASE Head(q) = "probe" /\ Tail(q) \in ScanPrograms /\ Head(Tail(q)) = "scan"
  BY <1>3 DEF Owed, OwedAfter, Steps
<1>4. CASE Head(q) = "scan" /\ Tail(q) = <<>>
  BY <1>4 DEF OwedAfter
<1> QED
  BY <1>1, <1>2, <1>3, <1>4, ScanProgram

LEMMA AppendEmpty ==
    ASSUME NEW e
    PROVE  Append(<<>>, e) = <<e>> /\ Head(<<e>>) = e
<1> DEFINE S == {e}
<1>1. e \in S
  OBVIOUS
<1> HIDE DEF S
<1>2. <<>> \in Seq(S) /\ <<e>> \in Seq(S) /\ Head(<<e>>) = e
  BY <1>1
<1>3. Append(<<>>, e) = <<>> \o <<e>>
  BY <1>1, <1>2, AppendIsConcat
<1>4. <<>> \o <<e>> = <<e>>
  BY <1>2, ConcatEmptySeq
<1> QED
  BY <1>2, <1>3, <1>4

\* The main loop does a step and goes on to the next one.
LEMMA MainDoes ==
    ASSUME MainStep, Head(main) # "begin attempt"
    PROVE  \E u : \E c \in Nets \cup {None} :
              /\ u = Do(Head(main), Now, c) /\ Become(u) /\ main' = Tail(main)
              /\ UNCHANGED divided
  BY DEF MainStep

LEMMA AttemptMainStep ==
    ASSUME StaInv, ~divided, MainStep, main = AttemptSteps, Poised(Now)
    PROVE  StaInv'
<1> DEFINE u == BeginAttempt(Now)
<1>1. /\ Head(main) = "begin attempt" /\ Tail(main) = <<"poll", "attempt">>
  <2> DEFINE b == "begin attempt"
             p == "poll"
             a == "attempt"
  <2>1. main = <<b, p, a>>
    BY DEF AttemptSteps
  <2> HIDE DEF b, p, a
  <2>2. Head(main) = b /\ Tail(main) = <<p, a>>
    BY <2>1
  <2> QED
    BY <2>2 DEF b, p, a
<1>2. /\ Become(u) /\ UNCHANGED divided
      /\ main' = IF join' # "ATTEMPTING" THEN <<>> ELSE <<"poll", "attempt">>
  BY <1>1 DEF MainStep, Do
<1>3. /\ u.auth = Now.auth \/ u.auth = "UNAUTHENTICATED"
      /\ u.join = "ATTEMPTING" => Sound(u, {"attempt"})
      /\ u.join # "ATTEMPTING" => Sound(u, {})
  BY BeginAttemptSound
<1>4. u.auth # "ASSOCIATED"
  BY <1>3 DEF StaInv, Now
<1> HIDE DEF u
<1>5. u \in StateType
  BY <1>3 DEF Sound, Base
<1>6. /\ auth' = u.auth /\ join' = u.join /\ divided' \in BOOLEAN
      /\ \A P : Sound(u, P) => Sound(Now', P)
  BY <1>2, <1>5, Lands
<1>7. CASE u.join # "ATTEMPTING"
  BY <1>2, <1>3, <1>4, <1>6, <1>7, Rests
<1>8. CASE u.join = "ATTEMPTING"
  <2>1. main' \in AttemptPrograms /\ Sound(Now', {"attempt"})
    BY <1>2, <1>3, <1>6, <1>8 DEF AttemptPrograms
  <2> QED
    BY <1>4, <1>6, <2>1 DEF StaInv, Programs
<1> QED
  BY <1>7, <1>8

LEMMA PollMainStep ==
    ASSUME StaInv, ~divided, MainStep, main \in AttemptPrograms, Sound(Now, {"attempt"})
    PROVE  StaInv'
<1> DEFINE P == {"attempt"}
<1>1. Now.auth # "ASSOCIATED" /\ Sound(Now, P) /\ Now.attempt # None
  <2>1. Joining(Now, P) /\ "attempt" \in P
    BY DEF Sound
  <2> HIDE DEF P
  <2>2. Now.attempt # None
    BY <2>1 DEF Joining, Due
  <2> QED
    BY <2>2 DEF StaInv, Now, P
<1>2. "attempt" \in P /\ Paid(P, "attempt") = {}
  BY DEF Paid
<1> HIDE DEF P
<1>3. CASE main = <<"poll", "attempt">>
  <2> DEFINE u == Poll(Now)
  <2>1. Head(main) = "poll" /\ Tail(main) = <<"attempt">>
    BY <1>3
  <2>2. Become(u) /\ main' = <<"attempt">> /\ UNCHANGED divided
    BY <2>1 DEF MainStep, Do
  <2>3. Sound(u, P) /\ u.auth # "ASSOCIATED"
    BY <1>1, <1>2, PollSound
  <2> HIDE DEF u
  <2>4. u \in StateType
    BY <2>3 DEF Sound, Base
  <2>5. auth' = u.auth /\ divided' \in BOOLEAN /\ Sound(Now', P)
    BY <2>2, <2>3, <2>4, Lands
  <2>6. main' \in AttemptPrograms /\ Sound(Now', {"attempt"})
    BY <2>2, <2>5 DEF AttemptPrograms, P
  <2> QED
    BY <2>3, <2>5, <2>6 DEF StaInv, Programs
<1>4. CASE main = <<"attempt">>
  <2> DEFINE u == Schedule(Now, "attempt")
  <2>1. Head(main) = "attempt" /\ Tail(main) = <<>>
    BY <1>4
  <2>2. Become(u) /\ main' = <<>> /\ divided' \in BOOLEAN
    BY <2>1 DEF MainStep, Do, StaInv
  <2>3. Sound(u, Paid(P, "attempt")) /\ SameJoin(Now, u)
    BY <1>1, <1>2, ScheduleSound
  <2> HIDE DEF u
  <2>4. Sound(u, {}) /\ u.auth # "ASSOCIATED"
    BY <1>1, <1>2, <2>3 DEF SameJoin
  <2> QED
    BY <2>2, <2>4, Rests
<1> QED
  BY <1>3, <1>4 DEF AttemptPrograms

\* A step of a scan, alone or before a search.
LEMMA ScanStepLands ==
    ASSUME StaInv, ~divided, MainStep, NEW q \in ScanPrograms, Head(main) = Head(q),
           NEW R, R = {} \/ R = {"search"},
           Sound(Now, Owed(Now, Head(main)) \cup R),
           Head(main) = "begin scan" => scan.state = "IDLE"
    PROVE  /\ main' = Tail(main) /\ auth' # "ASSOCIATED" /\ divided' \in BOOLEAN
           /\ \/ Tail(q) = <<>> /\ Sound(Now', R)
              \/ /\ Tail(q) \in ScanPrograms /\ Head(Tail(q)) # "begin scan"
                 /\ Sound(Now', Owed(Now', Head(Tail(q))) \cup R)
<1> DEFINE x == Head(q)
<1>1. /\ x \in {"begin scan", "hop", "probe", "scan"}
      /\ \/ Tail(q) = <<>> /\ OwedAfter(Now, x) = {}
         \/ /\ Tail(q) \in ScanPrograms /\ Head(Tail(q)) # "begin scan"
            /\ Head(Tail(q)) \in Steps
            /\ Owed(Now, Head(Tail(q))) = OwedAfter(Now, x)
  BY ScanProgramStep
<1>2. auth # "ASSOCIATED" /\ Now.auth = auth /\ Now.scan = scan
  BY DEF StaInv, Now
<1>3. PICK u : \E c \in Nets \cup {None} :
          /\ u = Do(Head(main), Now, c) /\ Become(u) /\ main' = Tail(main)
          /\ UNCHANGED divided
  BY <1>1, MainDoes
<1>4. PICK c \in Nets \cup {None} : u = Do(x, Now, c)
  BY <1>3
<1>5. Sound(Now, Owed(Now, x) \cup R) /\ (x = "begin scan" => Now.scan.state = "IDLE")
  BY <1>2
<1> HIDE DEF x
<1>6. Sound(u, OwedAfter(Now, x) \cup R) /\ SameJoin(Now, u)
  BY <1>1, <1>4, <1>5, ScanStepSound
<1>7. u.auth # "ASSOCIATED" /\ u \in StateType /\ u.passive = Now.passive
  BY <1>2, <1>6 DEF SameJoin, Sound, Base
<1>8. /\ auth' = u.auth /\ divided' \in BOOLEAN /\ Now'.passive = Now.passive
      /\ Sound(Now', OwedAfter(Now, x) \cup R)
  <2>1. /\ auth' = u.auth /\ divided' \in BOOLEAN /\ Now'.passive = u.passive
        /\ \A P : Sound(u, P) => Sound(Now', P)
    BY <1>3, <1>7, Lands
  <2> QED
    BY <1>6, <1>7, <2>1
<1>9. CASE Tail(q) = <<>> /\ OwedAfter(Now, x) = {}
  <2>1. OwedAfter(Now, x) \cup R = R
    BY <1>9
  <2> QED
    BY <1>3, <1>7, <1>8, <1>9, <2>1
<1>10. CASE /\ Tail(q) \in ScanPrograms /\ Head(Tail(q)) # "begin scan"
            /\ Head(Tail(q)) \in Steps
            /\ Owed(Now, Head(Tail(q))) = OwedAfter(Now, x)
  <2>1. Owed(Now', Head(Tail(q))) = OwedAfter(Now, x)
    BY <1>8, <1>10, OwedSame
  <2> QED
    BY <1>3, <1>7, <1>8, <1>10, <2>1
<1> QED
  BY <1>1, <1>9, <1>10

LEMMA ScanMainStep ==
    ASSUME StaInv, ~divided, MainStep, main \in ScanPrograms,
           Sound(Now, Owed(Now, Head(main))),
           Head(main) = "begin scan" => scan.state = "IDLE"
    PROVE  StaInv'
<1> DEFINE none == {}
<1>1. none = {} /\ \A P : P \cup none = P
  OBVIOUS
<1> HIDE DEF none
<1>2. /\ main' = Tail(main) /\ auth' # "ASSOCIATED" /\ divided' \in BOOLEAN
      /\ \/ Tail(main) = <<>> /\ Sound(Now', none)
         \/ /\ Tail(main) \in ScanPrograms /\ Head(Tail(main)) # "begin scan"
            /\ Sound(Now', Owed(Now', Head(Tail(main))) \cup none)
  <2>1. Sound(Now, Owed(Now, Head(main)) \cup none)
    BY <1>1
  <2> QED
    BY <1>1, <2>1, ScanStepLands
<1>3. CASE Tail(main) = <<>> /\ Sound(Now', none)
  BY <1>1, <1>2, <1>3 DEF StaInv, Programs
<1>4. CASE /\ Tail(main) \in ScanPrograms /\ Head(Tail(main)) # "begin scan"
           /\ Sound(Now', Owed(Now', Head(Tail(main))) \cup none)
  <2>1. /\ main' \in ScanPrograms /\ Head(main') # "begin scan"
        /\ Sound(Now', Owed(Now', Head(main')))
    BY <1>1, <1>2, <1>4
  <2> QED
    BY <1>2, <2>1 DEF StaInv, Programs
<1> QED
  BY <1>2, <1>3, <1>4

LEMMA SearchMainStep ==
    ASSUME StaInv, ~divided, MainStep, main \in SearchPrograms,
           Sound(Now, Owed(Now, Head(main)) \cup {"search"}),
           Head(main) = "begin scan" => scan.state = "IDLE"
    PROVE  StaInv'
<1> DEFINE R == {"search"}
<1>1. auth # "ASSOCIATED" /\ Now.auth = auth
  BY DEF StaInv, Now
<1>2. (R = {} \/ R = {"search"}) /\ "search" \in R /\ Paid(R, "search") = {}
  BY DEF Paid
<1>3. Sound(Now, Owed(Now, Head(main)) \cup R)
  OBVIOUS
<1> HIDE DEF R
<1>4. CASE Head(main) = "search" /\ Tail(main) = <<>>
  <2> DEFINE u == Schedule(Now, "search")
  <2>1. Become(u) /\ main' = <<>> /\ divided' \in BOOLEAN
    BY <1>4 DEF MainStep, Do, StaInv
  <2>2. Owed(Now, Head(main)) \cup R = R
    BY <1>4 DEF Owed
  <2>3. Sound(Now, R)
    BY <1>3, <2>2
  <2>4. Sound(u, Paid(R, "search")) /\ SameJoin(Now, u)
    BY <1>2, <2>3, ScheduleSound
  <2> HIDE DEF u
  <2>5. Sound(u, {}) /\ u.auth # "ASSOCIATED"
    BY <1>1, <1>2, <2>4 DEF SameJoin
  <2> QED
    BY <2>1, <2>5, Rests
<1>5. ASSUME NEW q \in ScanPrograms,
             Head(main) = Head(q), Tail(main) = Append(Tail(q), "search")
      PROVE  StaInv'
  <2>1. /\ main' = Tail(main) /\ auth' # "ASSOCIATED" /\ divided' \in BOOLEAN
        /\ \/ Tail(q) = <<>> /\ Sound(Now', R)
           \/ /\ Tail(q) \in ScanPrograms /\ Head(Tail(q)) # "begin scan"
              /\ Sound(Now', Owed(Now', Head(Tail(q))) \cup R)
    BY <1>2, <1>3, <1>5, ScanStepLands
  <2>2. CASE Tail(q) = <<>> /\ Sound(Now', R)
    <3> DEFINE e == "search"
    <3>1. main' = Append(<<>>, e)
      BY <1>5, <2>1, <2>2
    <3> HIDE DEF e
    <3>2. main' = <<e>> /\ Head(<<e>>) = e
      BY <3>1, AppendEmpty
    <3>3. main' \in SearchPrograms /\ Head(main') = "search"
      BY <3>2 DEF SearchPrograms, e
    <3>4. Owed(Now', "search") \cup {"search"} = R
      BY DEF Owed, R
    <3>5. Sound(Now', Owed(Now', Head(main')) \cup {"search"})
      BY <2>2, <3>3, <3>4
    <3> QED
      BY <2>1, <3>3, <3>5 DEF StaInv, Programs
  <2>3. CASE /\ Tail(q) \in ScanPrograms /\ Head(Tail(q)) # "begin scan"
             /\ Sound(Now', Owed(Now', Head(Tail(q))) \cup R)
    <3> DEFINE w == Tail(q)
    <3>1. /\ w \in ScanPrograms /\ Head(w) # "begin scan"
          /\ Sound(Now', Owed(Now', Head(w)) \cup {"search"})
          /\ main' = Append(w, "search")
      BY <1>5, <2>1, <2>3 DEF R
    <3> HIDE DEF w
    <3>2. main' \in SearchPrograms
      BY <3>1 DEF SearchPrograms
    <3>3. Head(main') = Head(w)
      <4>1. w \in Seq(Steps) /\ w # <<>>
        BY <3>1, ScanProgram
      <4>2. "search" \in Steps
        BY DEF Steps
      <4> QED
        BY <3>1, <4>1, <4>2, HeadAppend
    <3>4. Sound(Now', Owed(Now', Head(main')) \cup {"search"})
      BY <3>1, <3>3
    <3> QED
      BY <2>1, <3>1, <3>2, <3>3, <3>4 DEF StaInv, Programs
  <2> QED
    BY <2>1, <2>2, <2>3
<1> QED
  BY <1>4, <1>5, SearchProgram

LEMMA MainStepKeeps == ASSUME StaInv, ~divided, MainStep PROVE StaInv'
<1>1. main # <<>>
  BY DEF MainStep
<1>2. CASE main = AttemptSteps /\ Poised(Now)
  BY <1>2, AttemptMainStep
<1>3. CASE main \in AttemptPrograms /\ Sound(Now, {"attempt"})
  BY <1>3, PollMainStep
<1>4. CASE /\ main \in ScanPrograms /\ Sound(Now, Owed(Now, Head(main)))
           /\ Head(main) = "begin scan" => scan.state = "IDLE"
  BY <1>4, ScanMainStep
<1>5. CASE /\ main \in SearchPrograms /\ Sound(Now, Owed(Now, Head(main)) \cup {"search"})
           /\ Head(main) = "begin scan" => scan.state = "IDLE"
  BY <1>5, SearchMainStep
<1> QED
  BY <1>1, <1>2, <1>3, <1>4, <1>5 DEF StaInv, Programs

\* A command once divided stays so.
LEMMA DividedForever ==
    ASSUME divided = TRUE, Next
    PROVE  divided' = TRUE
<1>1. ASSUME NEW t, Interrupt(t) \/ Menu(t)
      PROVE  divided' = TRUE
  BY <1>1 DEF Interrupt, Menu
<1>2. ASSUME NEW t, NEW steps, Command(t, steps)
      PROVE  divided' = TRUE
  BY <1>2 DEF Command
<1>3. CASE MainStep
  BY <1>3 DEF MainStep
<1>4. CASE Host
  <2>1. CASE HostJoinNone \/ HostScan \/ HostScanStop \/ HostScanParam \/ HostDisassociate
             \/ HostConfigureNone \/ HostReset \/ HostResetNetworks
    <3>1. CASE HostScanParam
      BY <1>2, <3>1 DEF HostScanParam
    <3> QED
      BY <1>2, <2>1, <3>1 DEF HostJoinNone, HostScan, HostScanStop, HostDisassociate,
         HostConfigureNone, HostReset, HostResetNetworks
  <2>2. ASSUME NEW p \in Target, HostJoin(p)
        PROVE  divided' = TRUE
    BY <1>2, <2>2 DEF HostJoin
  <2>3. ASSUME NEW n \in Nets, HostConfigure(n)
        PROVE  divided' = TRUE
    BY <1>2, <2>3 DEF HostConfigure
  <2> QED
    BY <1>4, <2>1, <2>2, <2>3 DEF Host
<1>5. CASE Interrupts
  <2>1. CASE UartEsc
    BY <1>1, <2>1 DEF UartEsc
  <2>2. CASE UartScan
    <3>1. CASE scan.state # "IDLE"
      BY <1>1, <2>2, <3>1 DEF UartScan
    <3>2. CASE scan.state = "IDLE"
      <4>1. PICK c \in Nets \cup {None} :
                Menu(ScanStart([Now EXCEPT !.ssid = UserSsid], c))
        BY <2>2, <3>2 DEF UartScan
      <4> QED
        BY <1>1, <4>1
    <3> QED
      BY <3>1, <3>2
  <2>3. CASE SearchPoll
    BY <1>1, <2>3 DEF SearchPoll
  <2>4. CASE AttemptPoll
    BY <1>1, <2>4 DEF AttemptPoll
  <2>5. CASE ScanTransition
    BY <1>1, <2>5 DEF ScanTransition
  <2>6. CASE Lost \/ TimestampCheck \/ Enqueue \/ Dequeue
    BY <1>1, <2>6 DEF Lost, TimestampCheck, Enqueue, Dequeue
  <2>7. ASSUME NEW n \in Nets, UartJoin(n)
        PROVE  divided' = TRUE
    BY <1>1, <2>7 DEF UartJoin
  <2>8. ASSUME NEW n \in Nets,
               \/ Beacon(n) \/ Deauth(n)
               \/ AuthResponse(n) \/ AssocResponse(n) \/ AuthRefused(n) \/ AssocRefused(n)
        PROVE  divided' = TRUE
    BY <1>1, <2>8 DEF Beacon, Deauth, AuthResponse, AssocResponse, AuthRefused, AssocRefused
  <2> QED
    BY <1>5, <2>1, <2>2, <2>3, <2>4, <2>5, <2>6, <2>7, <2>8 DEF Interrupts
<1> QED
  BY <1>3, <1>4, <1>5 DEF Next

LEMMA NextStaInv == ASSUME StaInv, [Next]_vars PROVE StaInv'
<1>1. CASE divided /\ Next
  <2>1. divided' = TRUE
    BY <1>1, DividedForever DEF StaInv
  <2> QED
    BY <2>1 DEF StaInv
<1>2. CASE ~divided /\ MainStep
  BY <1>2, MainStepKeeps
<1>3. CASE ~divided /\ Host
  BY <1>3, HostJoinNoneStep, HostScanStep, HostScanStopStep, HostScanParamStep,
     HostDisassociateStep, HostConfigureNoneStep, HostResetStep, HostResetNetworksStep,
     HostJoinStep, HostConfigureStep DEF Host
<1>4. CASE ~divided /\ Interrupts
  <2>1. CASE UartEsc \/ UartScan \/ SearchPoll \/ AttemptPoll \/ ScanTransition
             \/ Lost \/ TimestampCheck \/ Enqueue \/ Dequeue
    BY <1>4, <2>1, UartEscStep, UartScanStep, SearchPollStep, AttemptPollStep,
       ScanTransitionStep, LostStep, TimestampCheckStep, EnqueueStep, DequeueStep
  <2>2. ASSUME NEW n \in Nets,
               UartJoin(n) \/ Beacon(n) \/ Deauth(n)
                 \/ AuthResponse(n) \/ AssocResponse(n) \/ AuthRefused(n) \/ AssocRefused(n)
        PROVE  StaInv'
    BY <1>4, <2>2, UartJoinStep, BeaconStep, DeauthStep, AuthResponseStep,
       AssocResponseStep, AuthRefusedStep, AssocRefusedStep
  <2> QED
    BY <1>4, <2>1, <2>2 DEF Interrupts
<1>5. CASE UNCHANGED vars
  <2>1. Now' = Now /\ main' = main /\ auth' = auth /\ scan' = scan /\ divided' = divided
    BY <1>5 DEF vars, Now
  <2>2. \A x : Owed(Now', x) = Owed(Now, x)
    BY <2>1
  <2> QED
    BY <2>1, <2>2 DEF StaInv, Programs
<1> QED
  BY <1>1, <1>2, <1>3, <1>4, <1>5 DEF Next

-----------------------------------------------------------------------------
(* The theorems.                                                            *)

\* As long as no interrupt has changed the join or the scan under a command that was
\* to go on with it, the parts of the invariant hold, in the middle of the commands
\* too: of the join machine and its polls (wlan_mac_sta_join.c), of the scan and its
\* schedules (wlan_mac_scan.c), of the list of networks (wlan_mac_network_info.c) and
\* of the BSS, the channel and the queue (configure_bss).
THEOREM StaInvariance == Spec => []StaInv
<1>1. Init => StaInv
  BY InitStaInv
<1>2. StaInv /\ [Next]_vars => StaInv'
  BY NextStaInv
<1> QED
  BY <1>1, <1>2, PTL DEF Spec

\* Between commands a poll or a scan step is scheduled exactly while the state it
\* serves lasts, once, under the recorded ID, and the borrowed SSID is given back
\* (schedule_ID checks of wlan_mac_sta_join.c and wlan_mac_scan.c).
THEOREM SchedulesOwnedAlways == Spec => []SchedulesOwned
<1>1. StaInv => SchedulesOwned
  <2> SUFFICES ASSUME StaInv, ~divided, main = <<>> PROVE SchedulesOwned
    BY DEF SchedulesOwned, SchedulesExact
  <2> DEFINE t == Now
             none == {}
  <2>1. /\ Scheduled(t, none) /\ Joining(t, none) /\ (t.saved = None => t.ssid = UserSsid)
        /\ none = {}
    BY Resting DEF Sound, Base
  <2>2. /\ t.listed = listed /\ t.rec = rec /\ t.join = join /\ t.scan = scan
        /\ t.saved = saved /\ t.ssid = ssid /\ t.passive = passive
    BY DEF Now
  <2>3. \A k : k \notin none
    OBVIOUS
  <2> HIDE DEF t, none
  <2>4. \A k \in Kinds : listed[k] = {rec[k]} \ {0}
    BY <2>1, <2>2 DEF Scheduled
  <2>5. /\ (scan.state = "RUNNING") <=> (rec["scan"] # 0)
        /\ (scan.state = "RUNNING" /\ ~passive) <=> (rec["probe"] # 0)
    BY <2>1, <2>2, <2>3 DEF Scheduled, Due, ScanKinds, Scanning
  <2>6. /\ (join = "SEARCHING") <=> (rec["search"] # 0)
        /\ (join = "ATTEMPTING") <=> (rec["attempt"] # 0)
    BY <2>1, <2>2, <2>3 DEF Joining, Due
  <2> QED
    BY <2>1, <2>2, <2>4, <2>5, <2>6 DEF SchedulesOwned, SchedulesExact
<1> QED
  BY <1>1, StaInvariance, PTL

\* Data goes out only towards the BSS it was queued for and on its channel, the
\* channel changes of scans and joins included (pause_data_queue against
\* set_mac_cfg of wlan_mac_scan.c and configure_bss); left out are the rest of a scan
\* during which that BSS was configured and what follows a divided command.
THEOREM DataOnChannelAlways == Spec => []DataOnChannel
<1>1. StaInv => DataOnChannel
  <2> SUFFICES ASSUME StaInv, ~divided PROVE DataOnChannel
    BY DEF DataOnChannel
  <2> DEFINE t == Now
  <2>1. Connected(t)
    BY Underway DEF Base
  <2>2. /\ t.data = data /\ t.active = active /\ t.pause = pause /\ t.channel = channel
        /\ t.tuned = tuned
    BY DEF Now
  <2> HIDE DEF t
  <2>3. data # None => /\ active # None /\ t.info[t.active].bssid = data
                       /\ pause \/ channel = data \/ tuned
    BY <2>1, <2>2 DEF Connected
  <2> QED
    BY <2>2, <2>3 DEF DataOnChannel, DataHeard, BssidOf, t
<1> QED
  BY <1>1, StaInvariance, PTL

\* The lists hold each struct once, and the only entry the framework may not
\* reclaim is that of the BSS the node is in (NETWORK_FLAGS_KEEP of configure_bss
\* against network_info_checkout and wlan_mac_high_reset_network_list).
THEOREM ActiveKeptAlways == Spec => []ActiveKept
<1>1. StaInv => ActiveKept
  <2> SUFFICES ASSUME StaInv, ~divided PROVE ActiveKept
    BY DEF ActiveKept
  <2> DEFINE t == Now
  <2>1. t \in StateType /\ Kept(t)
    BY Underway
  <2>2. /\ join = t.join /\ auth = t.auth /\ attempt = t.attempt /\ active = t.active
        /\ target = t.target /\ pause = t.pause /\ scan = t.scan /\ channel = t.channel
        /\ ssid = t.ssid /\ passive = t.passive /\ saved = t.saved /\ rec = t.rec
        /\ listed = t.listed /\ info = t.info /\ list = t.list /\ free = t.free
        /\ asked = t.asked /\ data = t.data
        /\ sought = t.sought /\ scanned = t.scanned /\ tuned = t.tuned
    BY DEF Now
  <2> HIDE DEF t
  <2>3. /\ IsInjective(list \o free) /\ Range(list \o free) = Slots
    <3>1. /\ list \in Seq(Slots) /\ free \in Seq(Slots)
          /\ IsInjective(list) /\ IsInjective(free)
          /\ Range(list) \cap Range(free) = {} /\ Range(list) \cup Range(free) = Slots
      BY <2>1, <2>2 DEF Kept, StateType
    <3>2. Range(list \o free) = Range(list) \cup Range(free)
      BY <3>1, ConcatFacts
    <3>3. IsInjective(list \o free)
      BY <3>1, ConcatFacts
    <3> QED
      BY <3>1, <3>2, <3>3
  <2>4. \A k \in Kinds : rec[k] \in 0 .. MaxId /\ listed[k] \subseteq 1 .. MaxId
    <3>1. rec \in RecType /\ listed \in ListedType
      BY <2>1, <2>2 DEF StateType
    <3> QED
      BY <3>1 DEF RecType, ListedType
  <2>5. auth \in {"UNAUTHENTICATED", "AUTHENTICATED"} /\ join \in JoinStates
    BY <2>1, <2>2 DEF StateType, AuthStates, StaInv
  <2>6. /\ {attempt, active} \subseteq Slots \cup {None}
        /\ target \in Target \cup {NoTarget} /\ pause \in BOOLEAN
        /\ scan \in ScanType /\ info \in InfoType
        /\ {channel, data} \subseteq Nets \cup {None}
        /\ ssid \in Nets \cup {UserSsid} /\ saved \in Nets \cup {UserSsid, None}
        /\ sought \in Nets \cup {None}
    BY <2>1, <2>2 DEF StateType
  <2>7. {passive, asked, scanned, tuned, divided} \subseteq BOOLEAN
    <3>1. /\ passive \in BOOLEAN /\ asked \in BOOLEAN /\ scanned \in BOOLEAN
          /\ tuned \in BOOLEAN /\ divided \in BOOLEAN
      BY <2>1, <2>2 DEF StateType, StaInv
    <3> QED
      BY <3>1
  <2>8. TypeOK
    BY <2>3, <2>4, <2>5, <2>6, <2>7 DEF TypeOK, JoinStates, ScanType, InfoType
  <2>9. {s \in Slots : info[s].keep} = {active} \ {None}
    BY <2>1, <2>2, <2>6, StaJoinAssumption DEF Kept
  <2>10. {active} \ {None} \subseteq Range(list)
    BY <2>1, <2>2 DEF Kept
  <2> QED
    BY <2>8, <2>9, <2>10 DEF ActiveKept
<1> QED
  BY <1>1, StaInvariance, PTL

\* An association response brings the node only into a network with the SSID that was
\* asked for, and into the network itself if its channel was given too
\* (gl_join_parameters against attempt_network_info of wlan_mac_sta_join.c), unless
\* the entry of the attempt was dropped or reused under it.
THEOREM JoinsRequestedAlways == Spec => JoinsRequested
<1> DEFINE A == /\ ~divided' /\ active' # active /\ active' # None
                /\ attempt # None /\ info'[attempt].bssid = sought
                /\ \E n \in Nets : AssocResponse(n)
                => /\ SsidOf[info'[active'].bssid] = SsidOf[target.net]
                   /\ target.by = "both" => info'[active'].bssid = target.net
<1>1. ASSUME StaInv, [Next]_vars
      PROVE  A
  <2> SUFFICES ASSUME ~divided', active' # active, active' # None,
                      attempt # None, info'[attempt].bssid = sought,
                      NEW n \in Nets, AssocResponse(n)
               PROVE  /\ SsidOf[info'[active'].bssid] = SsidOf[target.net]
                      /\ target.by = "both" => info'[active'].bssid = target.net
    OBVIOUS
  <2>1. ~divided
    BY <1>1 DEF AssocResponse, Interrupt, StaInv
  <2> QED
    BY <1>1, <2>1, AssocResponseStep
<1>2. Spec => []StaInv
  BY StaInvariance
<1>3. StaInv /\ [Next]_vars => [A]_vars
  BY <1>1
<1>4. Spec => [][Next]_vars
  BY DEF Spec
<1>5. Spec => [][A]_vars
  BY <1>2, <1>3, <1>4, PTL
<1> QED
  BY <1>5 DEF JoinsRequested
=============================================================================

--------------------------- MODULE CpuHighProofs ----------------------------
(***************************************************************************)
(* Machine-checked proofs about CPU_HIGH: the TIM in the beacon of the     *)
(* access point, for any number of association IDs, any width of an octet  *)
(* of the bitmap, any lengths of the SSID and any depth of the mailbox;    *)
(* then the lists of the scheduler with the Ethernet portal and the        *)
(* traffic generators that they serve, for any finite number of schedules, *)
(* descriptors, queue entries and generators.                              *)
(***************************************************************************)
EXTENDS ApTim, EthRx, QueueLemmas, FiniteSetTheorems

-----------------------------------------------------------------------------
(* Association IDs, octets and queues.                                     *)

\* The smallest and the largest of some numbers.
LEMMA MinFacts ==
    ASSUME NEW S, S \subseteq Nat, S # {}
    PROVE  Min(S) \in S /\ \A n \in S : Min(S) <= n
<1>1. \E n \in S : \A m \in S : n =< m
  BY SmallestOf
<1> QED
  BY <1>1 DEF Min

LEMMA MaxFacts ==
    ASSUME NEW S, NEW top \in Nat, S \subseteq 0 .. top, S # {}
    PROVE  Max(S) \in S /\ \A n \in S : n <= Max(S)
<1> DEFINE below == {top - n : n \in S}
<1>1. \A n \in S : n \in Nat /\ top - n \in Nat
  <2> SUFFICES ASSUME NEW n \in S PROVE n \in Nat /\ top - n \in Nat
    OBVIOUS
  <2>1. n \in 0 .. top
    OBVIOUS
  <2> QED
    BY <2>1
<1>2. below \subseteq Nat /\ below # {}
  BY <1>1
<1>3. PICK d \in below : \A m \in below : d <= m
  BY <1>2, SmallestOf
<1>4. PICK n \in S : d = top - n
  BY <1>3
<1>5. ASSUME NEW m \in S PROVE n >= m
  <2>1. top - m \in below /\ d <= top - m
    BY <1>3
  <2>2. n \in Nat /\ m \in Nat
    BY <1>1
  <2> QED
    BY <1>4, <2>1, <2>2
<1>6. \E x \in S : \A y \in S : x >= y
  BY <1>5
<1>7. Max(S) \in S /\ \A y \in S : Max(S) >= y
  BY <1>6 DEF Max
<1> QED
  BY <1>7

LEMMA AidFacts ==
    /\ MaxAid \in Nat /\ MaxAid >= 1 /\ ByteBits \in Nat /\ ByteBits >= 1
    /\ Aids \subseteq Nat /\ \A a \in Aids : 1 <= a /\ a <= MaxAid
    /\ SsidLengths \subseteq Nat /\ Depth \in Nat /\ Depth >= 1 /\ MaxConfig \in Nat
    /\ NoOffset = -1
  BY ApTimAssumption DEF Aids, NoOffset

LEMMA OctetFacts ==
    /\ \A a \in Nat : Octet(a) \in Nat /\ ByteBits * Octet(a) <= a
                      /\ a < ByteBits * Octet(a) + ByteBits
    /\ \A a \in 0 .. MaxAid : Octet(a) <= Octet(MaxAid)
<1>1. MaxAid \in Nat /\ ByteBits \in Nat /\ ByteBits >= 1
  BY AidFacts
<1>2. ASSUME NEW a \in Nat
      PROVE  /\ a \div ByteBits \in Nat /\ ByteBits * (a \div ByteBits) <= a
             /\ a < ByteBits * (a \div ByteBits) + ByteBits
  BY <1>1
<1>3. ASSUME NEW a \in 0 .. MaxAid PROVE a \div ByteBits <= MaxAid \div ByteBits
  BY <1>1
<1> QED
  BY <1>2, <1>3 DEF Octet

\* The bits of the bitmap have room for every association ID, and for the first
\* bit of every octet.
LEMMA BitFacts ==
    /\ Bits \subseteq Nat /\ 0 \in Bits /\ Aids \subseteq Bits
    /\ \A n \in Nat : n <= Octet(MaxAid) => ByteBits * n \in Bits
<1>1. MaxAid \in Nat /\ ByteBits \in Nat /\ ByteBits >= 1
  BY AidFacts
<1> DEFINE m == Octet(MaxAid)
<1>2. m \in Nat /\ MaxAid < ByteBits * m + ByteBits
  BY <1>1, OctetFacts
<1>3. Bits = 0 .. ByteBits * (m + 1) - 1
  BY DEF Bits
<1> HIDE DEF m
<1>4. ByteBits * (m + 1) = ByteBits * m + ByteBits /\ ByteBits * m \in Nat
  BY <1>1, <1>2
<1>5. Bits = 0 .. ByteBits * m + ByteBits - 1
  BY <1>1, <1>2, <1>3, <1>4
<1>6. 0 \in Bits /\ Aids \subseteq Bits
  BY <1>1, <1>2, <1>4, <1>5 DEF Aids
<1>7. ASSUME NEW n \in Nat, n <= m PROVE ByteBits * n \in Bits
  <2>1. ByteBits * n <= ByteBits * m /\ ByteBits * n \in Nat
    BY <1>1, <1>2, <1>7
  <2> QED
    BY <1>1, <1>4, <1>5, <2>1
<1> QED
  BY <1>5, <1>6, <1>7 DEF m

LEMMA QueueFacts ==
    /\ Queues \subseteq Nat /\ MCAST_QID \in Queues /\ MANAGEMENT_QID \in Queues
    /\ \A a \in Aids : STATION_ID_TO_QUEUE_ID(a) \in Queues
    /\ MCAST_QID = 0 /\ \A n \in Nat : STATION_ID_TO_QUEUE_ID(n) \in Nat
  BY AidFacts DEF Queues, MCAST_QID, MANAGEMENT_QID, STATION_ID_TO_QUEUE_ID

\* The last of some stations.
LEMMA LastFacts ==
    ASSUME NEW mem, mem \subseteq Aids
    PROVE  /\ LastAid(mem) \in 0 .. MaxAid
           /\ mem # {} => LastAid(mem) \in mem /\ \A a \in mem : a <= LastAid(mem)
<1>1. mem \subseteq 0 .. MaxAid /\ MaxAid \in Nat
  BY AidFacts
<1>2. mem # {} => Max(mem) \in mem /\ \A a \in mem : a <= Max(mem)
  BY <1>1, MaxFacts
<1>3. CASE mem = {}
  BY <1>1, <1>3 DEF LastAid
<1>4. CASE mem # {}
  <2>1. LastAid(mem) = Max(mem)
    BY <1>4 DEF LastAid
  <2>2. Max(mem) \in 0 .. MaxAid
    BY <1>1, <1>2, <1>4
  <2> QED
    BY <1>2, <1>4, <2>1, <2>2
<1> QED
  BY <1>3, <1>4

\* station_info_add finds an ID that no station has, if there is one.
LEMMA NewAidFacts ==
    ASSUME members \subseteq Aids, members # Aids
    PROVE  NewAid \in Aids
<1> DEFINE aboveGap == {a \in members : a > 1 /\ a - 1 \notin members}
<1>1. CASE aboveGap # {}
  <2>1. aboveGap \subseteq Nat
    BY AidFacts
  <2>2. Min(aboveGap) \in aboveGap
    BY <1>1, <2>1, MinFacts
  <2>3. Min(aboveGap) \in Aids /\ Min(aboveGap) > 1
    BY <2>2
  <2>4. NewAid = Min(aboveGap) - 1
    BY <1>1 DEF NewAid
  <2> QED
    BY <2>3, <2>4, AidFacts DEF Aids
<1>2. CASE aboveGap = {}
  <2>1. LastAid(members) \in 0 .. MaxAid
    BY LastFacts
  <2>2. LastAid(members) # MaxAid
    <3> SUFFICES ASSUME LastAid(members) = MaxAid PROVE FALSE
      OBVIOUS
    <3>1. MaxAid \in members
      <4>1. members # {}
        BY AidFacts DEF LastAid
      <4> QED
        BY <4>1, LastFacts
    <3>2. PICK b \in Aids : b \notin members
      OBVIOUS
    <3> DEFINE later == {a \in members : a > b}
    <3>3. later \subseteq Nat /\ later # {}
      <4>1. b # MaxAid /\ b \in Nat /\ b <= MaxAid /\ MaxAid \in Nat
        BY <3>1, <3>2, AidFacts
      <4>2. MaxAid \in later
        BY <3>1, <4>1
      <4> QED
        BY <4>2, AidFacts
    <3>4. PICK n \in later : \A m \in later : n <= m
      BY <3>3, SmallestOf
    <3>5. n \in members /\ n > b /\ n \in Nat /\ b \in Nat /\ b >= 1
      BY <3>4, AidFacts
    <3>6. n - 1 \notin later
      BY <3>4, <3>5
    <3>7. n > 1 /\ n - 1 \notin members
      BY <3>2, <3>5, <3>6
    <3> QED
      BY <1>2, <3>5, <3>7
  <2>3. NewAid = LastAid(members) + 1
    BY <1>2 DEF NewAid
  <2> QED
    BY <2>1, <2>2, <2>3, AidFacts DEF Aids
<1> QED
  BY <1>1, <1>2

\* The mailbox holds at most Depth messages.
LEMMA MailboxFacts ==
    /\ <<>> \in BoundedSeq(LowConfig, Depth)
    /\ \A s \in BoundedSeq(LowConfig, Depth) :
          /\ s # <<>> => Head(s) \in LowConfig /\ Tail(s) \in BoundedSeq(LowConfig, Depth)
          /\ \A m \in LowConfig :
                Len(s) < Depth => Append(s, m) \in BoundedSeq(LowConfig, Depth)
<1>1. \A s : s \in BoundedSeq(LowConfig, Depth) <=> s \in Seq(LowConfig) /\ Len(s) <= Depth
  <2>1. ASSUME NEW s \in BoundedSeq(LowConfig, Depth)
        PROVE  s \in Seq(LowConfig) /\ Len(s) <= Depth
    <3>1. PICK m \in 0 .. Depth : s \in [1 .. m -> LowConfig]
      BY DEF BoundedSeq, SeqOf
    <3> QED
      BY <3>1
  <2>2. ASSUME NEW s \in Seq(LowConfig), Len(s) <= Depth
        PROVE  s \in BoundedSeq(LowConfig, Depth)
    <3>1. Len(s) \in 0 .. Depth /\ s \in [1 .. Len(s) -> LowConfig]
      BY <2>2, AidFacts
    <3> QED
      BY <3>1 DEF BoundedSeq, SeqOf
  <2> QED
    BY <2>1, <2>2
<1>2. <<>> \in Seq(LowConfig) /\ Len(<<>>) <= Depth
  BY AidFacts
<1>3. ASSUME NEW s \in Seq(LowConfig), Len(s) <= Depth
      PROVE  /\ s # <<>> => /\ Head(s) \in LowConfig /\ Tail(s) \in Seq(LowConfig)
                            /\ Len(Tail(s)) <= Depth
             /\ \A m \in LowConfig :
                   Len(s) < Depth => Append(s, m) \in Seq(LowConfig) /\ Len(Append(s, m)) <= Depth
  BY <1>3, TailFacts, AppendFacts, AidFacts
<1> QED
  BY <1>1, <1>2, <1>3

-----------------------------------------------------------------------------
(* The functions that write the TIM.                                       *)

\* The length counts the template and the element in it, and the bitmap ends with
\* the octet of the last association ID.
GoodTim(t) ==
    /\ t \in TimType
    /\ t.length = t.at + (IF t.present THEN 2 + t.tag ELSE 0)
    /\ t.tag <= 4 + Octet(MaxAid)

\* What an update makes of the TIM t: it is never forgotten, and nothing changes
\* that CPU_LOW may be sending.
Updated(t, r) ==
    /\ GoodTim(r)
    /\ t.present \/ t.pending => r.present \/ r.pending
    /\ ~ CanWrite => r.bits = t.bits /\ r.tag = t.tag /\ r.length = t.length

LEMMA UpdatedAgain ==
    ASSUME NEW t, NEW r, NEW u, Updated(t, r), Updated(r, u)
    PROVE  Updated(t, u)
  BY DEF Updated

LEMMA UpdatedSame ==
    ASSUME NEW t, GoodTim(t)
    PROVE  Updated(t, t)
  BY DEF Updated

LEMMA PostponedGood ==
    ASSUME NEW t, GoodTim(t)
    PROVE  Updated(t, Postponed(t)) /\ Postponed(t).pending
<1>1. Postponed(t) \in TimType
  BY DEF GoodTim, TimType, Postponed
<1>2. /\ Postponed(t).pending /\ Postponed(t).present = t.present
      /\ Postponed(t).length = t.length /\ Postponed(t).at = t.at
      /\ Postponed(t).tag = t.tag /\ Postponed(t).bits = t.bits
  BY DEF GoodTim, TimType, Postponed
<1> QED
  BY <1>1, <1>2 DEF Updated, GoodTim

LEMMA RewrittenGood ==
    ASSUME NEW t, GoodTim(t), NEW mem, mem \subseteq Aids, NEW occ, occ \subseteq Queues,
           buffering \in BOOLEAN
    PROVE  GoodTim(Rewritten(t, mem, occ)) /\ Rewritten(t, mem, occ).present
<1> DEFINE waiting == {a \in mem : STATION_ID_TO_QUEUE_ID(a) \in occ}
           zeroed == {b \in Bits : Octet(b) \in 1 .. Octet(LastAid(waiting))}
           control == ~buffering /\ MCAST_QID \in occ
           tag == 4 + Octet(LastAid(mem))
           existing == IF t.present THEN t.tag ELSE 0
           header == IF t.present THEN 0 ELSE 2
           bits == (t.bits \ zeroed) \cup waiting \cup (IF control THEN {0} ELSE {})
           length == t.length + header + tag - existing
           offset == IF t.present THEN t.offset ELSE t.at
           r == Rewritten(t, mem, occ)
<1>1. r = [t EXCEPT !.present = TRUE, !.pending = FALSE, !.tag = tag, !.control = control,
                    !.bits = bits, !.length = length, !.offset = offset]
  BY DEF Rewritten
<1>2. /\ t.present \in BOOLEAN /\ t.at \in SsidLengths /\ t.at \in Nat /\ t.length \in Nat
      /\ t.tag \in Nat /\ t.bits \in SUBSET Bits
      /\ t.offset \in SsidLengths \cup {NoOffset} /\ t.event \in BOOLEAN
      /\ t.length = t.at + (IF t.present THEN 2 + t.tag ELSE 0)
  BY AidFacts DEF GoodTim, TimType
<1>3. tag \in Nat /\ tag <= 4 + Octet(MaxAid)
  <2>1. LastAid(mem) \in 0 .. MaxAid /\ MaxAid \in Nat
    BY LastFacts, AidFacts
  <2>2. Octet(LastAid(mem)) \in Nat /\ Octet(MaxAid) \in Nat
        /\ Octet(LastAid(mem)) <= Octet(MaxAid)
    BY <2>1, OctetFacts
  <2> QED
    BY <2>2
<1>4. bits \in SUBSET Bits
  <2>1. waiting \subseteq Bits /\ {0} \subseteq Bits
    BY BitFacts
  <2> HIDE DEF waiting, zeroed, control
  <2> QED
    BY <1>2, <2>1
<1>5. control \in BOOLEAN /\ offset \in SsidLengths \cup {NoOffset}
  BY <1>2
<1> HIDE DEF tag, bits, control, offset, r
<1>6. length \in Nat /\ length = t.at + (2 + tag)
  BY <1>2, <1>3
<1> HIDE DEF length
<1>7. t = [present |-> t.present, at |-> t.at, length |-> t.length, tag |-> t.tag,
           control |-> t.control, bits |-> t.bits, offset |-> t.offset,
           pending |-> t.pending, event |-> t.event]
  BY DEF GoodTim, TimType
<1>8. r = [present |-> TRUE, at |-> t.at, length |-> length, tag |-> tag,
           control |-> control, bits |-> bits, offset |-> offset,
           pending |-> FALSE, event |-> t.event]
  BY <1>1, <1>7
<1>9. /\ r \in TimType /\ r.present /\ r.at = t.at /\ r.length = length /\ r.tag = tag
  BY <1>2, <1>3, <1>4, <1>5, <1>6, <1>8 DEF TimType
<1>10. GoodTim(r)
  BY <1>3, <1>6, <1>9 DEF GoodTim
<1> QED
  BY <1>9, <1>10 DEF r

\* update_tim_tag_all: an active BSS has a TIM afterwards, or an update of it.
LEMMA AllGood ==
    ASSUME NEW t, GoodTim(t), NEW mem, mem \subseteq Aids, NEW occ, occ \subseteq Queues,
           NEW scheduled \in BOOLEAN, TypeOK
    PROVE  LET r == update_tim_tag_all(t, mem, occ, scheduled)
           IN  Updated(t, r) /\ (active => r.present \/ r.pending)
<1> DEFINE r == update_tim_tag_all(t, mem, occ, scheduled)
<1>1. active \in BOOLEAN /\ buffering \in BOOLEAN /\ t.pending \in BOOLEAN
  BY DEF TypeOK, GoodTim, TimType
<1>2. CASE ~ active \/ (active /\ ~scheduled /\ t.pending)
  <2>1. r = t
    BY <1>1, <1>2 DEF update_tim_tag_all
  <2> QED
    BY <1>2, <2>1, UpdatedSame
<1>3. CASE active /\ ~ (~scheduled /\ t.pending)
  <2>1. r = IF CanWrite THEN Rewritten(t, mem, occ) ELSE Postponed(t)
    BY <1>1, <1>3 DEF update_tim_tag_all
  <2>2. CASE CanWrite
    <3>1. GoodTim(Rewritten(t, mem, occ)) /\ Rewritten(t, mem, occ).present
      BY <1>1, RewrittenGood
    <3>2. r = Rewritten(t, mem, occ)
      BY <2>1, <2>2
    <3> QED
      BY <2>2, <3>1, <3>2 DEF Updated
  <2>3. CASE ~ CanWrite
    BY <2>1, <2>3, PostponedGood
  <2> QED
    BY <2>2, <2>3
<1> QED
  BY <1>1, <1>2, <1>3

\* update_tim_tag_aid: one bit, if there is room for it in the bitmap.
LEMMA AidGood ==
    ASSUME NEW t, GoodTim(t), NEW aid \in Nat, NEW val \in BOOLEAN,
           NEW mem, mem \subseteq Aids, NEW occ, occ \subseteq Queues, TypeOK
    PROVE  Updated(t, update_tim_tag_aid(t, aid, val, mem, occ))
<1> DEFINE bit == {ByteBits * Octet(aid)}
           r == update_tim_tag_aid(t, aid, val, mem, occ)
<1>1. t.present \in BOOLEAN /\ t.pending \in BOOLEAN /\ t.tag \in Nat /\ t.bits \in SUBSET Bits
      /\ t \in TimType
  BY DEF GoodTim, TimType
<1>2. CASE ~active \/ (aid = 0 /\ buffering) \/ t.pending
  <2>1. r = t
    BY <1>2 DEF update_tim_tag_aid
  <2> QED
    BY <2>1, UpdatedSame
<1>3. CASE ~ (~active \/ (aid = 0 /\ buffering) \/ t.pending)
  <2>1. r = IF ~t.present \/ Octet(aid) + 4 > t.tag
            THEN update_tim_tag_all(t, mem, occ, FALSE)
            ELSE IF ~CanWrite THEN Postponed(t)
            ELSE IF aid = 0
                 THEN [t EXCEPT !.control = val,
                                !.bits = IF val THEN t.bits \cup {0} ELSE t.bits]
                 ELSE [t EXCEPT !.bits = IF val THEN t.bits \cup bit ELSE t.bits \ bit]
    BY <1>3 DEF update_tim_tag_aid
  <2>2. CASE ~t.present \/ Octet(aid) + 4 > t.tag
    <3>1. r = update_tim_tag_all(t, mem, occ, FALSE)
      BY <2>1, <2>2
    <3> HIDE DEF r
    <3> QED
      BY <3>1, AllGood DEF r
  <2>3. CASE ~ (~t.present \/ Octet(aid) + 4 > t.tag) /\ ~ CanWrite
    <3>1. r = Postponed(t)
      BY <2>1, <2>3
    <3> QED
      BY <3>1, PostponedGood
  <2>4. CASE ~ (~t.present \/ Octet(aid) + 4 > t.tag) /\ CanWrite
    <3>1. bit \subseteq Bits /\ {0} \subseteq Bits
      <4>1. Octet(aid) \in Nat /\ Octet(MaxAid) \in Nat
        BY OctetFacts, AidFacts
      <4>2. Octet(aid) <= Octet(MaxAid)
        BY <1>1, <2>4, <4>1 DEF GoodTim
      <4> QED
        BY <4>1, <4>2, BitFacts
    <3> HIDE DEF bit
    <3>2. PICK control \in BOOLEAN, bits \in SUBSET Bits :
             r = [t EXCEPT !.control = control, !.bits = bits]
      <4>1. CASE aid = 0
        <5> DEFINE bits == IF val THEN t.bits \cup {0} ELSE t.bits
        <5>1. bits \in SUBSET Bits
          BY <1>1, <3>1
        <5>2. r = [t EXCEPT !.control = val, !.bits = bits]
          BY <2>1, <2>4, <4>1
        <5> HIDE DEF bits, r
        <5> QED
          BY <5>1, <5>2
      <4>2. CASE aid # 0
        <5> DEFINE bits == IF val THEN t.bits \cup bit ELSE t.bits \ bit
        <5>1. bits \in SUBSET Bits
          BY <1>1, <3>1
        <5>2. r = [t EXCEPT !.bits = bits]
          BY <2>1, <2>4, <4>2
        <5>3. t.control \in BOOLEAN
          BY DEF GoodTim, TimType
        <5> HIDE DEF bits, r
        <5>4. [t EXCEPT !.bits = bits] = [t EXCEPT !.control = t.control, !.bits = bits]
          BY <1>1 DEF TimType
        <5> QED
          BY <5>1, <5>2, <5>3, <5>4
      <4> QED
        BY <4>1, <4>2
    <3> HIDE DEF r
    <3>3. /\ r \in TimType /\ r.present = t.present /\ r.length = t.length /\ r.at = t.at
          /\ r.tag = t.tag
      BY <1>1, <3>2 DEF TimType
    <3>4. GoodTim(r)
      BY <3>3 DEF GoodTim
    <3> QED
      BY <2>4, <3>3, <3>4 DEF Updated, r
  <2> QED
    BY <2>2, <2>3, <2>4
<1> QED
  BY <1>2, <1>3

\* queue_state_change, when a queue gets its first packet or loses its last.
LEMMA QueueGood ==
    ASSUME NEW t, GoodTim(t), NEW q \in Queues, NEW val \in BOOLEAN,
           NEW mem, mem \subseteq Aids, NEW occ, occ \subseteq Queues, TypeOK
    PROVE  Updated(t, queue_state_change(t, q, val, mem, occ))
<1> DEFINE aid == IF q = MCAST_QID THEN 0 ELSE STATION_ID_TO_QUEUE_ID(q)
<1>1. aid \in Nat
  BY QueueFacts
<1>2. queue_state_change(t, q, val, mem, occ) =
         IF t.pending THEN t
         ELSE IF ~t.present THEN update_tim_tag_all(t, mem, occ, FALSE)
         ELSE update_tim_tag_aid(t, aid, val, mem, occ)
  BY DEF queue_state_change
<1> HIDE DEF aid
<1>3. /\ Updated(t, t) /\ Updated(t, update_tim_tag_all(t, mem, occ, FALSE))
      /\ Updated(t, update_tim_tag_aid(t, aid, val, mem, occ))
  BY <1>1, UpdatedSame, AllGood, AidGood
<1> QED
  BY <1>2, <1>3

LEMMA FilledGood ==
    ASSUME NEW t, GoodTim(t), NEW q \in Queues,
           NEW mem, mem \subseteq Aids, NEW occ, occ \subseteq Queues, TypeOK
    PROVE  Updated(t, Filled(t, q, mem, occ))
<1>1. occ \cup {q} \subseteq Queues
  OBVIOUS
<1>2. Updated(t, queue_state_change(t, q, TRUE, mem, occ \cup {q}))
  BY <1>1, QueueGood
<1> QED
  BY <1>2, UpdatedSame DEF Filled

LEMMA EmptiedGood ==
    ASSUME NEW t, GoodTim(t), NEW q \in Queues,
           NEW mem, mem \subseteq Aids, NEW occ, occ \subseteq Queues, TypeOK
    PROVE  Updated(t, Emptied(t, q, mem, occ))
<1>1. occ \ {q} \subseteq Queues
  OBVIOUS
<1>2. Updated(t, queue_state_change(t, q, FALSE, mem, occ \ {q}))
  BY <1>1, QueueGood
<1> QED
  BY <1>2, UpdatedSame DEF Emptied

-----------------------------------------------------------------------------
(* The inductive invariant.                                                *)

\* While the template has been rewritten and its TIM has not, the element that
\* CPU_HIGH still remembers is not in the frame.
InFrame == IF hpc = "tim" THEN [tim EXCEPT !.present = FALSE] ELSE tim

\* Between the update that adds the TIM and the next template, the TIM is there or
\* an update will add it.
Waits == active /\ hpc \notin {"template", "tim"} => tim.present \/ tim.pending

\* configure_bss runs for an active BSS, and CPU_LOW sends the beacon under the mutex.
Held == /\ hpc # "idle" => active
        /\ lpc = "sending" => owner = "LOW"

TimInv == TypeOK /\ GoodTim(InFrame) /\ Waits /\ Held

\* A step of CPU_HIGH leaves what CPU_LOW is sending.
Unsent == lpc = "sending" /\ lpc' = "sending" =>
             /\ tim'.bits = tim.bits /\ tim'.tag = tim.tag
             /\ tim'.length = tim.length

LEMMA TimGood ==
    ASSUME TimInv, hpc # "tim"
    PROVE  GoodTim(tim)
  BY DEF TimInv, InFrame

\* A handler that updates the TIM and nothing else of what the invariant relates.
LEMMA UpdateKeeps ==
    ASSUME TimInv, hpc # "tim", hpc' = hpc, active' = active, lpc' = lpc, owner' = owner,
           Updated(tim, tim')
    PROVE  tim' \in TimType /\ GoodTim(InFrame)' /\ Waits' /\ Held' /\ Unsent
<1>1. GoodTim(tim') /\ tim' \in TimType
  BY DEF Updated, GoodTim
<1>2. InFrame' = tim'
  BY DEF InFrame
<1>3. GoodTim(InFrame)'
  BY <1>1, <1>2 DEF GoodTim
<1>4. Waits' /\ Held'
  BY DEF TimInv, Waits, Held, Updated
<1>5. Unsent
  <2> SUFFICES ASSUME lpc = "sending" PROVE ~ CanWrite
    BY DEF Updated, Unsent
  <2>1. owner = "LOW"
    BY DEF TimInv, Held
  <2> QED
    BY <2>1 DEF CanWrite
<1> QED
  BY <1>1, <1>3, <1>4, <1>5

\* A step that leaves the TIM.
LEMMA SameKeeps ==
    ASSUME TimInv, tim' = tim, hpc # "tim", hpc' # "tim", active' => active,
           hpc = "template" => hpc' = "template"
    PROVE  tim' \in TimType /\ GoodTim(InFrame)' /\ Waits' /\ Unsent
<1>1. GoodTim(tim) /\ tim' \in TimType
  BY TimGood DEF GoodTim
<1>2. InFrame' = tim
  BY DEF InFrame
<1>3. GoodTim(InFrame)'
  BY <1>1, <1>2 DEF GoodTim
<1>4. Waits' /\ Unsent
  BY DEF TimInv, Waits, Unsent
<1> QED
  BY <1>1, <1>3, <1>4

-----------------------------------------------------------------------------
(* Every step of CPU_HIGH.                                                 *)

LEMMA EnqueueKeeps ==
    ASSUME TimInv, HighEnqueue
    PROVE  TimInv' /\ Unsent
<1>1. TypeOK /\ members \subseteq Aids /\ occupied \subseteq Queues /\ hpc # "tim"
  BY DEF TimInv, TypeOK, HighEnqueue
<1>2. PICK q \in {MCAST_QID, MANAGEMENT_QID} \cup {STATION_ID_TO_QUEUE_ID(a) : a \in members} :
         occupied' = occupied \cup {q} /\ tim' = Filled(tim, q, members, occupied)
  BY DEF HighEnqueue
<1>3. q \in Queues
  BY <1>1, QueueFacts
<1>4. Updated(tim, tim')
  BY <1>1, <1>2, <1>3, TimGood, FilledGood
<1>5. tim' \in TimType /\ GoodTim(InFrame)' /\ Waits' /\ Held' /\ Unsent
  BY <1>1, <1>4, UpdateKeeps DEF HighEnqueue
<1>6. TypeOK'
  BY <1>1, <1>2, <1>3, <1>5 DEF TypeOK, HighEnqueue
<1> QED
  BY <1>5, <1>6 DEF TimInv

LEMMA DequeueKeeps ==
    ASSUME TimInv, HighDequeue
    PROVE  TimInv' /\ Unsent
<1>1. TypeOK /\ members \subseteq Aids /\ occupied \subseteq Queues /\ hpc # "tim"
  BY DEF TimInv, TypeOK, HighDequeue
<1>2. PICK q \in occupied :
         occupied' = occupied \ {q} /\ tim' = Emptied(tim, q, members, occupied)
  BY DEF HighDequeue
<1>3. q \in Queues
  BY <1>1
<1>4. Updated(tim, tim')
  BY <1>1, <1>2, <1>3, TimGood, EmptiedGood
<1>5. tim' \in TimType /\ GoodTim(InFrame)' /\ Waits' /\ Held' /\ Unsent
  BY <1>1, <1>4, UpdateKeeps DEF HighDequeue
<1>6. TypeOK'
  BY <1>1, <1>2, <1>3, <1>5 DEF TypeOK, HighDequeue
<1> QED
  BY <1>5, <1>6 DEF TimInv

LEMMA AssociateKeeps ==
    ASSUME TimInv, HighAssociate
    PROVE  TimInv' /\ Unsent
<1> DEFINE a == NewAid
           q == STATION_ID_TO_QUEUE_ID(a)
<1>1. TypeOK /\ members \subseteq Aids /\ members # Aids /\ occupied \subseteq Queues
      /\ hpc # "tim"
  BY DEF TimInv, TypeOK, HighAssociate
<1>2. members' = members \cup {a} /\ tim' = Filled(tim, q, members', occupied)
      /\ occupied' = occupied \cup {q}
  BY DEF HighAssociate
<1>3. a \in Aids
  BY <1>1, NewAidFacts
<1>4. q \in Queues
  BY <1>3, QueueFacts
<1> HIDE DEF a, q
<1>5. members' \subseteq Aids
  BY <1>1, <1>2, <1>3
<1>6. Updated(tim, tim')
  BY <1>1, <1>2, <1>4, <1>5, TimGood, FilledGood
<1>7. tim' \in TimType /\ GoodTim(InFrame)' /\ Waits' /\ Held' /\ Unsent
  BY <1>1, <1>6, UpdateKeeps DEF HighAssociate
<1>8. TypeOK'
  BY <1>1, <1>2, <1>4, <1>5, <1>7 DEF TypeOK, HighAssociate
<1> QED
  BY <1>7, <1>8 DEF TimInv

LEMMA DisassociateKeeps ==
    ASSUME TimInv, HighDisassociate
    PROVE  TimInv' /\ Unsent
<1>1. TypeOK /\ hpc # "tim" /\ hpc' # "tim" /\ hpc # "template" /\ tim' = tim
      /\ active' = active
  BY DEF TimInv, HighDisassociate
<1>2. tim' \in TimType /\ GoodTim(InFrame)' /\ Waits' /\ Unsent
  BY <1>1, SameKeeps
<1>3. TypeOK'
  BY <1>1, <1>2 DEF TypeOK, HighDisassociate
<1>4. Held'
  BY DEF TimInv, Held, HighDisassociate
<1> QED
  BY <1>2, <1>3, <1>4 DEF TimInv

LEMMA DeauthenticateKeeps ==
    ASSUME TimInv, HighDeauthenticate
    PROVE  TimInv' /\ Unsent
<1> DEFINE u == Filled(tim, MANAGEMENT_QID, members, occupied)
           occ == occupied \cup {MANAGEMENT_QID}
<1>1. TypeOK /\ members \subseteq Aids /\ occupied \subseteq Queues /\ hpc # "tim"
  BY DEF TimInv, TypeOK, HighDeauthenticate
<1>2. PICK a \in members :
         /\ tim' = Emptied(u, STATION_ID_TO_QUEUE_ID(a), members, occ)
         /\ occupied' = occ \ {STATION_ID_TO_QUEUE_ID(a)} /\ members' = members \ {a}
  BY DEF HighDeauthenticate
<1>3. STATION_ID_TO_QUEUE_ID(a) \in Queues /\ MANAGEMENT_QID \in Queues
  BY <1>1, QueueFacts
<1>4. Updated(tim, u)
  BY <1>1, <1>3, TimGood, FilledGood
<1>5. occ \subseteq Queues
  BY <1>1, <1>3
<1> HIDE DEF u, occ
<1>6. Updated(u, tim')
  BY <1>1, <1>2, <1>3, <1>4, <1>5, EmptiedGood DEF Updated
<1>7. Updated(tim, tim')
  BY <1>4, <1>6, UpdatedAgain
<1>8. tim' \in TimType /\ GoodTim(InFrame)' /\ Waits' /\ Held' /\ Unsent
  BY <1>1, <1>7, UpdateKeeps DEF HighDeauthenticate
<1>9. TypeOK'
  BY <1>1, <1>2, <1>5, <1>8 DEF TypeOK, HighDeauthenticate
<1> QED
  BY <1>8, <1>9 DEF TimInv

LEMMA ScheduledKeeps ==
    ASSUME TimInv, HighScheduledUpdate
    PROVE  TimInv' /\ Unsent
<1> DEFINE u == [tim EXCEPT !.event = FALSE]
<1>1. TypeOK /\ members \subseteq Aids /\ occupied \subseteq Queues /\ hpc # "tim"
  BY DEF TimInv, TypeOK, HighScheduledUpdate
<1>2. tim' = update_tim_tag_all(u, members, occupied, TRUE)
  BY DEF HighScheduledUpdate
<1>3. GoodTim(tim)
  BY <1>1, TimGood
<1>4. /\ u \in TimType /\ u.present = tim.present /\ u.pending = tim.pending
      /\ u.length = tim.length /\ u.at = tim.at /\ u.tag = tim.tag /\ u.bits = tim.bits
  BY <1>3 DEF GoodTim, TimType
<1> HIDE DEF u
<1>5. Updated(tim, u)
  BY <1>3, <1>4 DEF Updated, GoodTim
<1>6. Updated(u, tim')
  BY <1>1, <1>2, <1>5, AllGood DEF Updated
<1>7. Updated(tim, tim')
  BY <1>5, <1>6, UpdatedAgain
<1>8. tim' \in TimType /\ GoodTim(InFrame)' /\ Waits' /\ Held' /\ Unsent
  BY <1>1, <1>7, UpdateKeeps DEF HighScheduledUpdate, highVars
<1>9. TypeOK'
  BY <1>1, <1>8 DEF TypeOK, HighScheduledUpdate, highVars
<1> QED
  BY <1>8, <1>9 DEF TimInv

LEMMA BeaconDoneKeeps ==
    ASSUME TimInv, HighBeaconDone
    PROVE  TimInv' /\ Unsent
<1>1. TypeOK /\ hpc # "tim" /\ hpc' # "tim" /\ hpc # "template" /\ tim' = tim
      /\ active' = active
  BY DEF TimInv, HighBeaconDone, highVars
<1>2. tim' \in TimType /\ GoodTim(InFrame)' /\ Waits' /\ Unsent
  BY <1>1, SameKeeps
<1>3. TypeOK'
  <2>1. done' \in 0 .. 2 /\ buf' \in {"HIGH_CTRL", "READY", "LOW_CTRL", "DONE"}
    BY <1>1 DEF TypeOK, HighBeaconDone
  <2> QED
    BY <1>1, <1>2, <2>1 DEF TypeOK, HighBeaconDone, highVars
<1>4. Held'
  BY DEF TimInv, Held, HighBeaconDone, highVars
<1> QED
  BY <1>2, <1>3, <1>4 DEF TimInv

\* configure_bss begins: for an active BSS, or for one that it makes active.
LEMMA BeginKeeps ==
    ASSUME TimInv, ConfigureBegins
    PROVE  TimInv' /\ Unsent
<1>1. TypeOK /\ hpc = "idle" /\ configs \in 0 .. MaxConfig /\ configs < MaxConfig
      /\ configs' = configs + 1 /\ MaxConfig \in Nat
  BY AidFacts DEF TimInv, TypeOK, ConfigureBegins, ConfigureStart, ConfigureSsid,
                  ConfigureInterval, ConfigureDtim, ConfigureStop, Begin
<1>2. /\ hpc' \in {"template", "send", "purge"} /\ active' = TRUE
      /\ hpc' = "template" \/ active' = active
      /\ ssid' \in SsidLengths /\ mode' \in {"AP", "NONE"} /\ send' \in BOOLEAN
      /\ buf' \in {"HIGH_CTRL", "READY", "LOW_CTRL", "DONE"} /\ members' = members
      /\ UNCHANGED <<buffering, occupied, tim, owner, toLow, done, lpc, low>>
  BY <1>1 DEF TypeOK, ConfigureBegins, ConfigureStart, ConfigureSsid, ConfigureInterval,
              ConfigureDtim, ConfigureStop, Begin, ConfigUnchanged
<1>3. GoodTim(tim) /\ InFrame' = tim
  BY <1>1, <1>2, TimGood DEF InFrame
<1>4. GoodTim(InFrame)' /\ tim' \in TimType
  BY <1>2, <1>3 DEF GoodTim
<1>5. Waits' /\ Unsent /\ Held'
  BY <1>1, <1>2 DEF TimInv, Waits, Unsent, Held
<1>6. configs' \in 0 .. MaxConfig
  BY <1>1
<1>7. TypeOK'
  BY <1>1, <1>2, <1>4, <1>6 DEF TypeOK
<1> QED
  BY <1>4, <1>5, <1>7 DEF TimInv

LEMMA PurgeKeeps ==
    ASSUME TimInv, ConfigurePurge
    PROVE  TimInv' /\ Unsent
<1> DEFINE q == Min(ToPurge)
<1>1. TypeOK /\ members \subseteq Aids /\ occupied \subseteq Queues /\ hpc # "tim"
  BY DEF TimInv, TypeOK, ConfigurePurge
<1>2. occupied' = occupied \ {q} /\ tim' = Emptied(tim, q, members, occupied)
  BY DEF ConfigurePurge
<1>3. q \in Queues
  <2>1. ToPurge \subseteq Queues /\ ToPurge # {}
    BY <1>1 DEF ToPurge, ConfigurePurge
  <2>2. ToPurge \subseteq Nat
    BY <2>1, QueueFacts
  <2> QED
    BY <2>1, <2>2, MinFacts
<1> HIDE DEF q
<1>4. Updated(tim, tim')
  BY <1>1, <1>2, <1>3, TimGood, EmptiedGood
<1>5. tim' \in TimType /\ GoodTim(InFrame)' /\ Waits' /\ Held' /\ Unsent
  BY <1>1, <1>4, UpdateKeeps DEF ConfigurePurge
<1>6. TypeOK'
  BY <1>1, <1>2, <1>3, <1>5 DEF TypeOK, ConfigurePurge
<1> QED
  BY <1>5, <1>6 DEF TimInv

\* The mailbox takes a configuration.
LEMMA Told ==
    ASSUME TypeOK, Len(toLow) < Depth, NEW m \in {"AP", "NONE"}
    PROVE  Append(toLow, [mode |-> m, offset |-> tim.offset]) \in BoundedSeq(LowConfig, Depth)
<1>1. tim.offset \in SsidLengths \cup {NoOffset} /\ toLow \in BoundedSeq(LowConfig, Depth)
  BY DEF TypeOK, TimType
<1>2. [mode |-> m, offset |-> tim.offset] \in LowConfig
  BY <1>1 DEF LowConfig
<1> QED
  BY <1>1, <1>2, MailboxFacts

LEMMA TerminateKeeps ==
    ASSUME TimInv, ConfigureTerminate
    PROVE  TimInv' /\ Unsent
<1>1. TypeOK /\ hpc = "purge" /\ hpc' = "idle" /\ tim' = tim /\ active' = FALSE
  BY DEF TimInv, ConfigureTerminate
<1>2. tim' \in TimType /\ GoodTim(InFrame)' /\ Waits' /\ Unsent
  BY <1>1, SameKeeps
<1>3. toLow' \in BoundedSeq(LowConfig, Depth)
  <2>1. Len(toLow) < Depth /\ toLow' = Append(toLow, [mode |-> "NONE", offset |-> tim.offset])
    BY DEF ConfigureTerminate
  <2> QED
    BY <1>1, <2>1, Told
<1>4. TypeOK'
  BY <1>1, <1>2, <1>3 DEF TypeOK, ConfigureTerminate
<1>5. Held'
  BY DEF TimInv, Held, ConfigureTerminate
<1> QED
  BY <1>2, <1>4, <1>5 DEF TimInv

\* The template is rewritten under the mutex, so CPU_LOW is not sending it.
LEMMA TemplateKeeps ==
    ASSUME TimInv, ConfigureTemplate
    PROVE  TimInv' /\ Unsent
<1>1. TypeOK /\ hpc = "template" /\ hpc' = "tim" /\ owner = "NONE" /\ GoodTim(tim)
      /\ tim \in TimType /\ tim.bits \in SUBSET Bits /\ ssid \in SsidLengths
      /\ SsidLengths \subseteq Nat
  BY TimGood, AidFacts DEF TimInv, TypeOK, TimType, ConfigureTemplate
<1>2. PICK leftover \in SUBSET Bits :
         tim' = [tim EXCEPT !.at = ssid, !.length = ssid, !.bits = leftover]
  BY <1>1 DEF ConfigureTemplate
<1>3. /\ tim' \in TimType /\ tim'.at = ssid /\ tim'.length = ssid /\ tim'.tag = tim.tag
  BY <1>1, <1>2 DEF TimType
<1> DEFINE t == [tim' EXCEPT !.present = FALSE]
<1>4. /\ t \in TimType /\ t.present = FALSE /\ t.at = ssid /\ t.length = ssid
      /\ t.tag = tim.tag
  BY <1>3 DEF TimType
<1>5. InFrame' = t
  BY <1>1 DEF InFrame
<1> HIDE DEF t
<1>6. GoodTim(t)
  BY <1>1, <1>4 DEF GoodTim
<1>7. GoodTim(InFrame)'
  BY <1>5, <1>6 DEF GoodTim
<1>8. TypeOK'
  BY <1>1, <1>3 DEF TypeOK, ConfigureTemplate
<1>9. Waits' /\ Held' /\ Unsent
  BY <1>1 DEF TimInv, Waits, Held, Unsent, ConfigureTemplate
<1> QED
  BY <1>7, <1>8, <1>9 DEF TimInv

\* The TIM is added to the new template, or an update of it is scheduled.
LEMMA AddedKeeps ==
    ASSUME TimInv, ConfigureTim
    PROVE  TimInv' /\ Unsent
<1> DEFINE t == [tim EXCEPT !.present = FALSE]
<1>1. TypeOK /\ members \subseteq Aids /\ occupied \subseteq Queues /\ hpc = "tim"
      /\ hpc' \in {"send", "idle"} /\ active /\ active' = active
  BY DEF TimInv, TypeOK, Held, ConfigureTim
<1>2. tim' = update_tim_tag_all(t, members, occupied, FALSE)
  BY DEF ConfigureTim
<1>3. GoodTim(t)
  BY <1>1 DEF TimInv, InFrame
<1>4. t.bits = tim.bits /\ t.tag = tim.tag /\ t.length = tim.length
  BY <1>1 DEF TypeOK, TimType
<1> HIDE DEF t
<1>5. Updated(t, tim') /\ (tim'.present \/ tim'.pending)
  BY <1>1, <1>2, <1>3, AllGood
<1>6. GoodTim(tim') /\ tim' \in TimType /\ InFrame' = tim'
  BY <1>1, <1>5 DEF Updated, GoodTim, InFrame
<1>7. GoodTim(InFrame)'
  BY <1>6 DEF GoodTim
<1>8. Unsent
  <2> SUFFICES ASSUME lpc = "sending" PROVE ~ CanWrite
    BY <1>4, <1>5 DEF Updated, Unsent
  <2> QED
    BY DEF TimInv, Held, CanWrite
<1>9. Waits' /\ Held'
  <2>1. Waits'
    BY <1>5 DEF Waits
  <2>2. lpc' = lpc /\ owner' = owner
    BY DEF ConfigureTim
  <2> QED
    BY <1>1, <2>1, <2>2 DEF TimInv, Held
<1>10. TypeOK'
  BY <1>1, <1>6 DEF TypeOK, ConfigureTim
<1> QED
  BY <1>7, <1>8, <1>9, <1>10 DEF TimInv

LEMMA SendKeeps ==
    ASSUME TimInv, ConfigureSend
    PROVE  TimInv' /\ Unsent
<1>1. TypeOK /\ hpc = "send" /\ hpc' = "idle" /\ tim' = tim /\ active' = active
  BY DEF TimInv, ConfigureSend
<1>2. tim' \in TimType /\ GoodTim(InFrame)' /\ Waits' /\ Unsent
  BY <1>1, SameKeeps
<1>3. toLow' \in BoundedSeq(LowConfig, Depth)
  <2>1. Len(toLow) < Depth /\ toLow' = Append(toLow, [mode |-> mode, offset |-> tim.offset])
        /\ mode \in {"AP", "NONE"}
    BY <1>1 DEF ConfigureSend, TypeOK
  <2> QED
    BY <1>1, <2>1, Told
<1>4. TypeOK'
  BY <1>1, <1>2, <1>3 DEF TypeOK, ConfigureSend
<1>5. Held'
  BY DEF TimInv, Held, ConfigureSend
<1> QED
  BY <1>2, <1>4, <1>5 DEF TimInv

-----------------------------------------------------------------------------
(* Every step of CPU_LOW.                                                  *)

\* A step of CPU_LOW writes at most the DTIM fields of the TIM, and not while it sends.
LEMMA LowKeeps ==
    ASSUME TimInv, UNCHANGED highVars, tim' \in TimType, tim'.present = tim.present,
           tim'.pending = tim.pending, tim'.at = tim.at, tim'.length = tim.length,
           tim'.tag = tim.tag, lpc = "sending" => tim' = tim, TypeOK',
           lpc' = "sending" => owner' = "LOW"
    PROVE  TimInv' /\ Unsent
<1>1. hpc' = hpc /\ active' = active
  BY DEF highVars
<1>2. tim \in TimType
  BY DEF TimInv, TypeOK
<1>3. GoodTim(InFrame)'
  <2>1. CASE hpc = "tim"
    <3> DEFINE t == [tim EXCEPT !.present = FALSE]
               u == [tim' EXCEPT !.present = FALSE]
    <3>1. GoodTim(t) /\ InFrame' = u
      BY <1>1, <2>1 DEF TimInv, InFrame
    <3>2. /\ t.present = FALSE /\ t.at = tim.at /\ t.length = tim.length /\ t.tag = tim.tag
          /\ u \in TimType /\ u.present = FALSE /\ u.at = tim.at
          /\ u.length = tim.length /\ u.tag = tim.tag
      BY <1>2 DEF TimType
    <3> HIDE DEF t, u
    <3>3. GoodTim(u)
      BY <3>1, <3>2 DEF GoodTim
    <3> QED
      BY <3>1, <3>3 DEF GoodTim
  <2>2. CASE hpc # "tim"
    <3>1. GoodTim(tim) /\ InFrame' = tim'
      BY <1>1, <2>2, TimGood DEF InFrame
    <3>2. GoodTim(tim')
      BY <3>1 DEF GoodTim
    <3> QED
      BY <3>1, <3>2 DEF GoodTim
  <2> QED
    BY <2>1, <2>2
<1>4. Waits' /\ Held' /\ Unsent
  BY <1>1 DEF TimInv, Waits, Held, Unsent
<1> QED
  BY <1>3, <1>4 DEF TimInv

LEMMA LowConfigureKeeps ==
    ASSUME TimInv, LowConfigure
    PROVE  TimInv' /\ Unsent
<1>1. TypeOK /\ tim \in TimType /\ tim' = tim /\ toLow \in BoundedSeq(LowConfig, Depth)
  BY DEF TimInv, TypeOK, LowConfigure
<1>2. low' \in LowConfig /\ toLow' \in BoundedSeq(LowConfig, Depth)
  BY <1>1, MailboxFacts DEF LowConfigure
<1>3. TypeOK'
  BY <1>1, <1>2 DEF TypeOK, LowConfigure, highVars
<1>4. lpc' = "sending" => owner' = "LOW"
  BY DEF TimInv, Held, LowConfigure
<1>5. UNCHANGED highVars
  BY DEF LowConfigure
<1> QED
  BY <1>1, <1>3, <1>4, <1>5, LowKeeps

LEMMA LowBeaconKeeps ==
    ASSUME TimInv, LowBeacon
    PROVE  TimInv' /\ Unsent
<1>1. TypeOK /\ tim \in TimType /\ tim.bits \in SUBSET Bits /\ 0 \in Bits
  BY BitFacts DEF TimInv, TypeOK, TimType
<1>2. /\ tim' \in TimType /\ tim'.present = tim.present /\ tim'.pending = tim.pending
      /\ tim'.at = tim.at /\ tim'.length = tim.length /\ tim'.tag = tim.tag
  <2>1. CASE tim' = tim
    BY <1>1, <2>1
  <2>2. CASE tim' # tim
    <3>1. PICK waiting \in BOOLEAN :
             tim' = [tim EXCEPT !.control = waiting,
                        !.bits = IF waiting THEN @ \cup {0} ELSE @ \ {0}]
      BY <2>2 DEF LowBeacon
    <3> DEFINE bits == IF waiting THEN tim.bits \cup {0} ELSE tim.bits \ {0}
    <3>2. bits \in SUBSET Bits
      BY <1>1
    <3>3. tim' = [tim EXCEPT !.control = waiting, !.bits = bits]
      BY <3>1
    <3> HIDE DEF bits
    <3> QED
      BY <1>1, <3>2, <3>3 DEF TimType
  <2> QED
    BY <2>1, <2>2
<1>3. TypeOK'
  BY <1>1, <1>2 DEF TypeOK, LowBeacon, highVars
<1>4. lpc # "sending" /\ owner' = "LOW" /\ UNCHANGED highVars
  BY DEF LowBeacon
<1> QED
  BY <1>2, <1>3, <1>4, LowKeeps

\* The lock that a beacon without a READY buffer leaves, and the end of a beacon.
LEMMA LowRestKeeps ==
    ASSUME TimInv, LowBeaconNotReady \/ LowBeaconCancelled \/ LowBeaconSent
    PROVE  TimInv' /\ Unsent
<1>1. TypeOK /\ tim \in TimType /\ tim' = tim /\ UNCHANGED highVars
      /\ UNCHANGED <<toLow, low>>
  BY DEF TimInv, TypeOK, LowBeaconNotReady, LowBeaconCancelled, LowBeaconSent
<1>2. /\ buf' \in {"HIGH_CTRL", "READY", "LOW_CTRL", "DONE"} /\ owner' \in {"NONE", "LOW"}
      /\ lpc' \in {"idle", "sending"} /\ done' \in 0 .. 2
      /\ lpc' = "sending" => owner' = "LOW"
  BY <1>1 DEF TypeOK, LowBeaconNotReady, LowBeaconCancelled, LowBeaconSent
<1>3. TypeOK'
  BY <1>1, <1>2 DEF TypeOK, highVars
<1> QED
  BY <1>1, <1>2, <1>3, LowKeeps

-----------------------------------------------------------------------------
(* The theorems.                                                           *)

LEMMA TimInit ==
    ASSUME Init
    PROVE  TimInv
<1>1. /\ tim \in TimType /\ tim.present = FALSE /\ tim.at = ssid /\ tim.length = ssid
      /\ tim.tag = 0 /\ tim.pending = FALSE
  <2>1. ssid \in SsidLengths /\ ssid \in Nat
    BY AidFacts DEF Init
  <2> QED
    BY <2>1 DEF Init, TimType
<1>2. Octet(MaxAid) \in Nat /\ MaxConfig \in Nat
  BY AidFacts, OctetFacts
<1>3. InFrame = tim
  BY DEF Init, InFrame
<1>4. GoodTim(InFrame)
  <2>1. ssid \in Nat
    BY AidFacts DEF Init
  <2>2. GoodTim(tim)
    BY <1>1, <1>2, <2>1 DEF GoodTim
  <2> QED
    BY <1>3, <2>2
<1>5. TypeOK
  <2>1. /\ active \in BOOLEAN /\ ssid \in SsidLengths /\ buffering \in BOOLEAN
        /\ members \subseteq Aids /\ occupied \subseteq Queues
    BY DEF Init
  <2>2. /\ buf \in {"HIGH_CTRL", "READY", "LOW_CTRL", "DONE"} /\ owner \in {"NONE", "LOW"}
        /\ mode \in {"AP", "NONE"} /\ send \in BOOLEAN
        /\ hpc \in {"idle", "purge", "template", "tim", "send"} /\ lpc \in {"idle", "sending"}
    BY DEF Init
  <2>3. configs \in 0 .. MaxConfig /\ done \in 0 .. 2
    BY <1>2 DEF Init
  <2>4. toLow \in BoundedSeq(LowConfig, Depth)
    BY MailboxFacts DEF Init
  <2>5. low \in LowConfig
    BY DEF Init, LowConfig
  <2> QED
    BY <1>1, <2>1, <2>2, <2>3, <2>4, <2>5 DEF TypeOK
<1>6. Waits /\ Held
  BY DEF Init, Waits, Held
<1> QED
  BY <1>4, <1>5, <1>6 DEF TimInv

LEMMA TimStep ==
    ASSUME TimInv, [Next]_vars
    PROVE  TimInv' /\ Unsent
<1>1. CASE HighHandlers
  BY <1>1, EnqueueKeeps, DequeueKeeps, AssociateKeeps, DisassociateKeeps,
     DeauthenticateKeeps, ScheduledKeeps, BeaconDoneKeeps DEF HighHandlers
<1>2. CASE ConfigureBegins
  BY <1>2, BeginKeeps
<1>3. CASE ConfigureRuns
  BY <1>3, PurgeKeeps, TerminateKeeps, TemplateKeeps, AddedKeeps, SendKeeps DEF ConfigureRuns
<1>4. CASE LowSteps
  BY <1>4, LowConfigureKeeps, LowBeaconKeeps, LowRestKeeps DEF LowSteps
<1>5. CASE UNCHANGED vars
  <2>1. tim' = tim /\ UNCHANGED highVars
    BY <1>5 DEF vars
  <2>2. TypeOK'
    BY <1>5 DEF vars, highVars, TimInv, TypeOK
  <2>3. tim \in TimType /\ (lpc' = "sending" => owner' = "LOW")
    BY <1>5 DEF vars, TimInv, TypeOK, Held
  <2> QED
    BY <2>1, <2>2, <2>3, LowKeeps
<1> QED
  BY <1>1, <1>2, <1>3, <1>4, <1>5 DEF Next

\* The inductive invariant of the TIM: types, the length of the frame, the TIM of an
\* active BSS or the update that will add it, and the mutex of a beacon that is sent.
THEOREM TimInvariance == Spec => []TimInv
<1>1. Init => TimInv
  BY TimInit
<1>2. TimInv /\ [Next]_vars => TimInv'
  BY TimStep
<1> QED
  BY <1>1, <1>2, PTL DEF Spec

\* However often update_tim_tag_all adds, enlarges and shrinks the element, and
\* wherever configure_bss or a pending update comes between, the length of the frame
\* is that of the template and of the TIM in it.
THEOREM LengthKept == Spec => []FrameLengthCounted
<1>1. TimInv => FrameLengthCounted
  <2> SUFFICES ASSUME TimInv PROVE FrameLengthCounted
    OBVIOUS
  <2>1. CASE hpc = "tim"
    <3> DEFINE t == [tim EXCEPT !.present = FALSE]
    <3>1. GoodTim(t) /\ tim \in TimType
      BY <2>1 DEF TimInv, InFrame, TypeOK
    <3>2. t.present = FALSE /\ t.at = tim.at /\ t.length = tim.length
      BY <3>1 DEF TimType
    <3> HIDE DEF t
    <3>3. tim.length = tim.at + 0
      BY <3>1, <3>2 DEF GoodTim
    <3> QED
      BY <2>1, <3>3 DEF TimInv, FrameLengthCounted
  <2>2. CASE hpc # "tim"
    BY <2>2, TimGood DEF TimInv, FrameLengthCounted, GoodTim
  <2> QED
    BY <2>1, <2>2
<1> QED
  BY <1>1, TimInvariance, PTL

\* An active BSS is never left without a TIM and without an update that will add it.
THEOREM TimOrUpdate == Spec => []TimOrPending
<1>1. TimInv => TimOrPending
  BY DEF TimInv, Waits, TimOrPending
<1> QED
  BY <1>1, TimInvariance, PTL

\* No handler and no step of configure_bss writes into the beacon between the moment
\* CPU_LOW hands it to the MAC core and the moment its transmission ends.
THEOREM NotWhileSent == Spec => SentUnchanged
<1>1. TimInv /\ [Next]_vars => Unsent
  BY TimStep
<1>2. TimInv /\ [Next]_vars =>
        [lpc = "sending" /\ lpc' = "sending" =>
                      /\ tim'.bits = tim.bits /\ tim'.tag = tim.tag
                      /\ tim'.length = tim.length]_vars
  BY <1>1 DEF Unsent
<1> QED
  BY <1>2, TimInvariance, PTL DEF Spec, SentUnchanged

-----------------------------------------------------------------------------
(* Doubly linked lists.  q has the entries of the list L in their order.   *)

At(q, i) == IF i \in 1 .. Len(q) THEN q[i] ELSE Null
Linked(blk, L, q) ==
    /\ q \in Seq(Blocks) /\ IsInjective(q)
    /\ L.length = Len(q) /\ L.first = At(q, 1) /\ L.last = At(q, Len(q))
    /\ \A i \in 1 .. Len(q) : blk[q[i]].next = At(q, i + 1) /\ blk[q[i]].prev = At(q, i - 1)

\* What the links become when b becomes the first or the last entry of L, or is
\* taken out of it; M is the list afterwards.
BecomesFirst(blk, new, L, M, q, b) ==
    /\ M.first = b /\ M.last = IF L.first = Null THEN b ELSE L.last
    /\ M.length = L.length + 1 /\ new[b].prev = Null /\ new[b].next = L.first
    /\ \A x \in Range(q) :
          /\ new[x].next = blk[x].next
          /\ new[x].prev = IF x = L.first THEN b ELSE blk[x].prev
BecomesLast(blk, new, L, M, q, b) ==
    /\ M.last = b /\ M.first = IF L.last = Null THEN b ELSE L.first
    /\ M.length = L.length + 1 /\ new[b].next = Null /\ new[b].prev = L.last
    /\ \A x \in Range(q) :
          /\ new[x].next = IF x = L.last THEN b ELSE blk[x].next
          /\ new[x].prev = blk[x].prev
TakenOut(blk, new, L, M, q, b) ==
    /\ M.first = IF blk[b].prev = Null THEN blk[b].next ELSE L.first
    /\ M.last = IF blk[b].next = Null THEN blk[b].prev ELSE L.last
    /\ M.length = L.length - 1
    /\ \A x \in Range(q) \ {b} :
          /\ new[x].next = IF x = blk[b].prev THEN blk[b].next ELSE blk[x].next
          /\ new[x].prev = IF x = blk[b].next THEN blk[b].prev ELSE blk[x].prev

\* The entry at one place of a list.
LEMMA AtFacts ==
    ASSUME NEW q \in Seq(Blocks), NEW i \in Int
    PROVE  /\ At(q, i) \in Pointers
           /\ At(q, i) = Null <=> i \notin 1 .. Len(q)
           /\ i \in 1 .. Len(q) => At(q, i) = q[i] /\ q[i] \in Blocks /\ q[i] \in Range(q)
  BY ScheduleAssumption DEF At, Pointers, Range

LEMMA SameAt ==
    ASSUME NEW q \in Seq(Blocks), IsInjective(q), NEW i \in Int, NEW j \in Int,
           At(q, i) # Null
    PROVE  At(q, i) = At(q, j) <=> i = j
<1>1. i \in 1 .. Len(q) /\ At(q, i) = q[i] /\ DOMAIN q = 1 .. Len(q)
  BY AtFacts
<1>2. CASE j \in 1 .. Len(q)
  <2>1. At(q, j) = q[j]
    BY <1>2, AtFacts
  <2> QED
    BY <1>1, <1>2, <2>1 DEF IsInjective
<1>3. CASE j \notin 1 .. Len(q)
  <2>1. At(q, j) = Null
    BY <1>3, AtFacts
  <2> QED
    BY <1>1, <1>3, <2>1
<1> QED
  BY <1>2, <1>3

\* The links of an entry found anywhere in the list.
LEMMA LinksOf ==
    ASSUME NEW blk, NEW L, NEW q, Linked(blk, L, q), NEW b \in Range(q)
    PROVE  \E i \in 1 .. Len(q) :
              /\ b = q[i] /\ b = At(q, i)
              /\ blk[b].next = At(q, i + 1) /\ blk[b].prev = At(q, i - 1)
<1>1. PICK i \in DOMAIN q : q[i] = b
  BY DEF Range
<1>2. i \in 1 .. Len(q)
  BY <1>1 DEF Linked
<1> QED
  BY <1>1, <1>2 DEF Linked, At

\* What other blocks hold does not matter.
LEMMA LinkedFrame ==
    ASSUME NEW blk, NEW new, NEW L, NEW q, Linked(blk, L, q),
           \A b \in Range(q) : new[b].next = blk[b].next /\ new[b].prev = blk[b].prev
    PROVE  Linked(new, L, q)
<1>1. \A i \in 1 .. Len(q) : q[i] \in Range(q)
  BY DEF Linked, Range
<1> QED
  BY <1>1 DEF Linked

\* A new first entry.
LEMMA LinkedFirst ==
    ASSUME NEW blk, NEW new, NEW L, NEW M, NEW q, Linked(blk, L, q),
           NEW b \in Blocks, b \notin Range(q),
           BecomesFirst(blk, new, L, M, q, b)
    PROVE  \E r : Linked(new, M, r) /\ Range(r) = Range(q) \cup {b}
<1>0. /\ M.first = b /\ M.last = IF L.first = Null THEN b ELSE L.last
      /\ M.length = L.length + 1 /\ new[b].prev = Null /\ new[b].next = L.first
      /\ \A x \in Range(q) :
            /\ new[x].next = blk[x].next
            /\ new[x].prev = IF x = L.first THEN b ELSE blk[x].prev
  BY DEF BecomesFirst
<1> DEFINE r == <<b>> \o q
<1>1. /\ q \in Seq(Blocks) /\ IsInjective(q) /\ Len(q) \in Nat
      /\ L.length = Len(q) /\ L.first = At(q, 1) /\ L.last = At(q, Len(q))
  BY DEF Linked
<1>2. <<b>> \in Seq(Blocks) /\ Range(<<b>>) = {b} /\ IsInjective(<<b>>)
  BY DEF Range, IsInjective
<1>3. r \in Seq(Blocks) /\ Range(r) = Range(q) \cup {b} /\ IsInjective(r)
  <2> DEFINE one == <<b>>
  <2>1. one \in Seq(Blocks) /\ Range(one) = {b} /\ IsInjective(one) /\ r = one \o q
    BY <1>2
  <2> HIDE DEF one, r
  <2>2. Range(one) \cap Range(q) = {}
    BY <2>1
  <2> QED
    BY <1>1, <2>1, <2>2, ConcatFacts
<1>4. /\ Len(r) = Len(q) + 1 /\ r[1] = b
      /\ \A i \in 2 .. Len(q) + 1 : r[i] = q[i - 1]
  BY <1>1
<1> HIDE DEF r
<1>5. \A i \in Int : At(r, i) = IF i = 1 THEN b ELSE At(q, i - 1)
  BY <1>1, <1>4 DEF At
<1>6. M.first = At(r, 1) /\ M.last = At(r, Len(r)) /\ M.length = Len(r)
  <2>1. L.first = Null <=> Len(q) = 0
    BY <1>1, AtFacts
  <2> QED
    BY <1>0, <1>1, <1>4, <1>5, <2>1
<1>7. ASSUME NEW i \in 1 .. Len(r)
      PROVE  new[r[i]].next = At(r, i + 1) /\ new[r[i]].prev = At(r, i - 1)
  <2>1. CASE i = 1
    <3>1. At(r, 2) = At(q, 1) /\ At(r, 0) = Null
      BY <1>1, <1>4, <1>5, AtFacts
    <3> QED
      BY <1>0, <1>1, <1>4, <2>1, <3>1
  <2>2. CASE i # 1
    <3> DEFINE k == i - 1
               x == q[k]
    <3>1. /\ k \in 1 .. Len(q) /\ r[i] = x /\ x \in Range(q) /\ x = At(q, k)
      BY <1>1, <1>4, <2>2 DEF Range, At
    <3>2. blk[x].next = At(q, k + 1) /\ blk[x].prev = At(q, k - 1)
      BY <3>1 DEF Linked
    <3>3. At(r, i + 1) = At(q, k + 1)
      BY <1>5, <2>2, <3>1
    <3>4. x = L.first <=> k = 1
      <4>1. x # Null
        BY <1>1, <3>1, AtFacts
      <4> QED
        BY <1>1, <3>1, <4>1, SameAt
    <3>5. At(r, i - 1) = IF k = 1 THEN b ELSE At(q, k - 1)
      BY <1>5, <2>2, <3>1
    <3> HIDE DEF k, x
    <3> QED
      BY <1>0, <3>1, <3>2, <3>3, <3>4, <3>5
  <2> QED
    BY <2>1, <2>2
<1>8. Linked(new, M, r)
  BY <1>3, <1>6, <1>7 DEF Linked
<1> QED
  BY <1>3, <1>8

\* A new last entry.
LEMMA LinkedLast ==
    ASSUME NEW blk, NEW new, NEW L, NEW M, NEW q, Linked(blk, L, q),
           NEW b \in Blocks, b \notin Range(q),
           BecomesLast(blk, new, L, M, q, b)
    PROVE  \E r : Linked(new, M, r) /\ Range(r) = Range(q) \cup {b}
<1>0. /\ M.last = b /\ M.first = IF L.last = Null THEN b ELSE L.first
      /\ M.length = L.length + 1 /\ new[b].next = Null /\ new[b].prev = L.last
      /\ \A x \in Range(q) :
            /\ new[x].next = IF x = L.last THEN b ELSE blk[x].next
            /\ new[x].prev = blk[x].prev
  BY DEF BecomesLast
<1> DEFINE r == Append(q, b)
<1>1. /\ q \in Seq(Blocks) /\ IsInjective(q) /\ Len(q) \in Nat
      /\ L.length = Len(q) /\ L.first = At(q, 1) /\ L.last = At(q, Len(q))
  BY DEF Linked
<1>3. r \in Seq(Blocks) /\ Range(r) = Range(q) \cup {b} /\ IsInjective(r)
  BY <1>1, RangeAppend, InjectiveAppend
<1>4. /\ Len(r) = Len(q) + 1 /\ r[Len(q) + 1] = b
      /\ \A i \in 1 .. Len(q) : r[i] = q[i]
  BY <1>1
<1> HIDE DEF r
<1>5. \A i \in Int : At(r, i) = IF i = Len(q) + 1 THEN b ELSE At(q, i)
  BY <1>1, <1>4 DEF At
<1>6. M.first = At(r, 1) /\ M.last = At(r, Len(r)) /\ M.length = Len(r)
  <2>1. L.last = Null <=> Len(q) = 0
    BY <1>1, AtFacts
  <2> QED
    BY <1>0, <1>1, <1>4, <1>5, <2>1
<1>7. ASSUME NEW i \in 1 .. Len(r)
      PROVE  new[r[i]].next = At(r, i + 1) /\ new[r[i]].prev = At(r, i - 1)
  <2>1. CASE i = Len(q) + 1
    <3>1. At(r, i + 1) = Null /\ At(r, i - 1) = At(q, Len(q))
      BY <1>1, <1>4, <1>5, <2>1, AtFacts
    <3> QED
      BY <1>0, <1>1, <1>4, <2>1, <3>1
  <2>2. CASE i # Len(q) + 1
    <3> DEFINE x == q[i]
    <3>1. /\ i \in 1 .. Len(q) /\ r[i] = x /\ x \in Range(q) /\ x = At(q, i)
      BY <1>1, <1>4, <2>2 DEF Range, At
    <3>2. blk[x].next = At(q, i + 1) /\ blk[x].prev = At(q, i - 1)
      BY <3>1 DEF Linked
    <3>3. At(r, i - 1) = At(q, i - 1)
      BY <1>1, <1>5, <3>1
    <3>4. x = L.last <=> i = Len(q)
      <4>1. x # Null
        BY <1>1, <3>1, AtFacts
      <4> QED
        BY <1>1, <3>1, <4>1, SameAt
    <3>5. At(r, i + 1) = IF i = Len(q) THEN b ELSE At(q, i + 1)
      BY <1>1, <1>5, <3>1
    <3> HIDE DEF x
    <3> QED
      BY <1>0, <3>1, <3>2, <3>3, <3>4, <3>5
  <2> QED
    BY <2>1, <2>2
<1>8. Linked(new, M, r)
  BY <1>3, <1>6, <1>7 DEF Linked
<1> QED
  BY <1>3, <1>8

\* An entry taken out.
LEMMA LinkedRemoved ==
    ASSUME NEW blk, NEW new, NEW L, NEW M, NEW q, Linked(blk, L, q), NEW b \in Range(q),
           TakenOut(blk, new, L, M, q, b)
    PROVE  \E r : Linked(new, M, r) /\ Range(r) = Range(q) \ {b}
<1>0. /\ M.first = IF blk[b].prev = Null THEN blk[b].next ELSE L.first
      /\ M.last = IF blk[b].next = Null THEN blk[b].prev ELSE L.last
      /\ M.length = L.length - 1
      /\ \A x \in Range(q) \ {b} :
            /\ new[x].next = IF x = blk[b].prev THEN blk[b].next ELSE blk[x].next
            /\ new[x].prev = IF x = blk[b].next THEN blk[b].prev ELSE blk[x].prev
  BY DEF TakenOut
<1>1. /\ q \in Seq(Blocks) /\ IsInjective(q) /\ Len(q) \in Nat /\ DOMAIN q = 1 .. Len(q)
      /\ L.length = Len(q) /\ L.first = At(q, 1) /\ L.last = At(q, Len(q))
  BY DEF Linked
<1>2. PICK k \in 1 .. Len(q) :
         b = q[k] /\ b = At(q, k) /\ blk[b].next = At(q, k + 1) /\ blk[b].prev = At(q, k - 1)
  BY LinksOf
<1> DEFINE m == Len(q) - 1
           r == [i \in 1 .. m |-> IF i < k THEN q[i] ELSE q[i + 1]]
<1>3. \A i \in 1 .. m : i \in 1 .. Len(q) /\ i + 1 \in 1 .. Len(q)
  BY <1>1
<1>4. \A i \in 1 .. m : (IF i < k THEN q[i] ELSE q[i + 1]) \in Blocks
  BY <1>1, <1>3
<1>5. /\ r \in Seq(Blocks) /\ Len(r) = m /\ m \in Nat
      /\ \A i \in 1 .. m : r[i] = IF i < k THEN q[i] ELSE q[i + 1]
  <2>1. m \in Nat
    BY <1>1, <1>2
  <2>2. r \in [1 .. m -> Blocks]
    BY <1>4
  <2>3. \A i \in 1 .. m : r[i] = IF i < k THEN q[i] ELSE q[i + 1]
    OBVIOUS
  <2> HIDE DEF r, m
  <2>4. r \in Seq(Blocks) /\ Len(r) = m
    BY <2>1, <2>2
  <2> QED
    BY <2>1, <2>3, <2>4
<1> HIDE DEF r
<1>6. IsInjective(r)
  <2> SUFFICES ASSUME NEW i \in 1 .. m, NEW j \in 1 .. m, r[i] = r[j] PROVE i = j
    BY <1>5 DEF IsInjective
  <2> DEFINE i1 == IF i < k THEN i ELSE i + 1
             j1 == IF j < k THEN j ELSE j + 1
  <2>1. i1 \in 1 .. Len(q) /\ j1 \in 1 .. Len(q) /\ r[i] = q[i1] /\ r[j] = q[j1]
    BY <1>3, <1>5
  <2>2. i1 = j1
    <3> HIDE DEF i1, j1
    <3>1. q[i1] = q[j1]
      BY <2>1
    <3> QED
      BY <1>1, <2>1, <3>1 DEF IsInjective
  <2> QED
    BY <1>2, <2>2
<1>7. Range(r) = Range(q) \ {b}
  <2>1. ASSUME NEW i \in 1 .. m PROVE r[i] \in Range(q) \ {b}
    <3> DEFINE i1 == IF i < k THEN i ELSE i + 1
    <3>1. i1 \in 1 .. Len(q) /\ r[i] = q[i1] /\ i1 # k
      BY <1>2, <1>3, <1>5
    <3>2. q[i1] # q[k]
      BY <1>1, <1>2, <3>1 DEF IsInjective
    <3> QED
      BY <1>1, <1>2, <3>1, <3>2 DEF Range
  <2>2. ASSUME NEW i \in 1 .. Len(q), q[i] # b PROVE q[i] \in Range(r)
    <3> DEFINE j == IF i < k THEN i ELSE i - 1
    <3>1. i # k
      BY <1>2, <2>2
    <3>2. j \in 1 .. m /\ r[j] = q[i]
      BY <1>1, <1>2, <1>5, <3>1
    <3> QED
      BY <1>5, <3>2 DEF Range
  <2> QED
    BY <1>1, <1>5, <2>1, <2>2 DEF Range
<1>8. \A i \in Int : At(r, i) = IF i < k THEN At(q, i) ELSE At(q, i + 1)
  BY <1>1, <1>2, <1>5, SMTT(30) DEF At
<1>9. blk[b].prev = Null <=> k = 1
  BY <1>1, <1>2, AtFacts
<1>10. blk[b].next = Null <=> k = Len(q)
  <2>1. k + 1 \in Int /\ (k + 1 \notin 1 .. Len(q) <=> k = Len(q))
    <3>1. k \in Nat /\ 1 <= k /\ k <= Len(q) /\ Len(q) \in Nat
      BY <1>1
    <3> QED
      BY <3>1
  <2>2. At(q, k + 1) = Null <=> k + 1 \notin 1 .. Len(q)
    BY <1>1, <2>1, AtFacts
  <2> QED
    BY <1>2, <2>1, <2>2
<1>11. M.first = At(r, 1) /\ M.last = At(r, Len(r)) /\ M.length = Len(r)
  <2>1. M.first = At(r, 1)
    <3>1. At(r, 1) = IF 1 < k THEN At(q, 1) ELSE At(q, 1 + 1)
      BY <1>8
    <3>2. CASE k = 1
      <4>1. At(r, 1) = At(q, k + 1)
        BY <3>1, <3>2
      <4> QED
        BY <1>0, <1>2, <1>9, <3>2, <4>1
    <3>3. CASE k # 1
      <4>1. 1 < k
        BY <1>1, <3>3
      <4>2. At(r, 1) = At(q, 1)
        BY <3>1, <4>1
      <4> QED
        BY <1>0, <1>1, <1>9, <3>3, <4>2
    <3> QED
      BY <3>2, <3>3
  <2>2. M.last = At(r, Len(r))
    <3>1. Len(r) = m /\ m \in Int /\ m + 1 = Len(q)
      BY <1>1, <1>5
    <3>2. At(r, m) = IF m < k THEN At(q, m) ELSE At(q, m + 1)
      BY <1>8, <3>1
    <3>3. CASE k = Len(q)
      <4>1. m < k /\ m = k - 1
        BY <1>1, <3>3
      <4> QED
        BY <1>0, <1>2, <1>10, <3>1, <3>2, <3>3, <4>1
    <3>4. CASE k # Len(q)
      <4> HIDE DEF m
      <4>1. k \in Int /\ Len(q) \in Int /\ k <= Len(q)
        BY <1>1
      <4>2. ~ (m < k)
        BY <3>1, <3>4, <4>1
      <4> QED
        BY <1>0, <1>1, <1>10, <3>1, <3>2, <3>4, <4>2
    <3> QED
      BY <3>3, <3>4
  <2> QED
    BY <1>0, <1>1, <1>5, <2>1, <2>2
<1>12. ASSUME NEW i \in 1 .. Len(r)
       PROVE  new[r[i]].next = At(r, i + 1) /\ new[r[i]].prev = At(r, i - 1)
  <2> DEFINE n == IF i < k THEN i ELSE i + 1
             x == q[n]
  <2>1. n \in 1 .. Len(q) /\ r[i] = x /\ n # k /\ x \in Range(q) /\ x = At(q, n)
    <3>1. n \in 1 .. Len(q) /\ r[i] = x /\ n # k
      BY <1>3, <1>5
    <3> HIDE DEF n
    <3> QED
      BY <1>1, <3>1 DEF Range, At
  <2>2. x # Null /\ x # b
    <3>1. x # Null
      BY <1>1, <2>1, AtFacts
    <3>2. x # b
      BY <1>1, <1>2, <2>1 DEF IsInjective
    <3> QED
      BY <3>1, <3>2
  <2>3. blk[x].next = At(q, n + 1) /\ blk[x].prev = At(q, n - 1)
    BY <2>1 DEF Linked
  <2>4. x = blk[b].prev <=> n = k - 1
    BY <1>1, <1>2, <2>1, <2>2, SameAt
  <2>5. x = blk[b].next <=> n = k + 1
    BY <1>1, <1>2, <2>1, <2>2, SameAt
  <2>6. new[x].next = IF n = k - 1 THEN At(q, k + 1) ELSE At(q, n + 1)
    BY <1>0, <1>2, <2>1, <2>2, <2>3, <2>4
  <2>7. new[x].prev = IF n = k + 1 THEN At(q, k - 1) ELSE At(q, n - 1)
    BY <1>0, <1>2, <2>1, <2>2, <2>3, <2>5
  <2>8. At(r, i + 1) = IF n = k - 1 THEN At(q, k + 1) ELSE At(q, n + 1)
    BY <1>2, <1>8
  <2>9. At(r, i - 1) = IF n = k + 1 THEN At(q, k - 1) ELSE At(q, n - 1)
    <3>1. i - 1 \in Int
      OBVIOUS
    <3>2. At(r, i - 1) = IF i - 1 < k THEN At(q, i - 1) ELSE At(q, i - 1 + 1)
      BY <1>8, <3>1
    <3>3. CASE i < k
      BY <3>2, <3>3
    <3>4. CASE i = k
      BY <3>2, <3>4
    <3>5. CASE i > k
      <4>1. ~ (i - 1 < k) /\ i - 1 + 1 = n - 1 /\ n # k + 1
        BY <3>5
      <4> HIDE DEF n
      <4> QED
        BY <3>2, <4>1
    <3> QED
      BY <3>3, <3>4, <3>5
  <2> HIDE DEF n, x
  <2> QED
    BY <2>1, <2>6, <2>7, <2>8, <2>9
<1>13. Linked(new, M, r)
  BY <1>5, <1>6, <1>11, <1>12 DEF Linked
<1> QED
  BY <1>7, <1>13

-----------------------------------------------------------------------------
(* Following the links.                                                    *)

\* A list has no more entries than there are blocks.
LEMMA LinkedShort ==
    ASSUME NEW blk, NEW L, NEW q, Linked(blk, L, q)
    PROVE  /\ Len(q) \in Nat /\ Cardinality(Blocks) \in Nat
           /\ Len(q) <= Cardinality(Blocks) /\ Len(q) = Cardinality(Range(q))
<1>1. q \in Seq(Blocks) /\ IsInjective(q) /\ Len(q) \in Nat /\ DOMAIN q = 1 .. Len(q)
  BY DEF Linked
<1>2. Range(q) \subseteq Blocks
  BY <1>1, RangeSubset
<1>3. IsFiniteSet(Blocks) /\ Cardinality(Blocks) \in Nat
  BY ScheduleAssumption, FS_CardinalityType
<1>4. q \in Bijection(1 .. Len(q), Range(q))
  BY <1>1 DEF Bijection, Injection, Surjection, IsInjective, Range
<1>5. IsFiniteSet(1 .. Len(q)) /\ Cardinality(1 .. Len(q)) = Len(q)
  BY <1>1, FS_Interval
<1>6. Cardinality(Range(q)) = Len(q)
  <2>1. ExistsBijection(1 .. Len(q), Range(q))
    BY <1>4 DEF ExistsBijection
  <2> QED
    BY <1>5, <2>1, FS_Bijection
<1> QED
  BY <1>1, <1>2, <1>3, <1>6, FS_Subset

\* g follows the links of the list l.
Follows(g, s, l) ==
    g = [n \in 1 .. Cardinality(Blocks) + 1 |->
            IF n = 1 THEN s[l].first
            ELSE IF g[n - 1] = Null THEN Null ELSE s.blk[g[n - 1]].next]

\* The n-th entry that the links lead to is the n-th of the list.
LEMMA ChainFacts ==
    ASSUME NEW s, NEW l, NEW q, Linked(s.blk, s[l], q)
    PROVE  \A n \in 1 .. Cardinality(Blocks) + 1 :
              n \in DOMAIN Chain(s, l) /\ Chain(s, l)[n] = At(q, n)
<1> DEFINE D == 1 .. Cardinality(Blocks) + 1
           f == [n \in D |-> At(q, n)]
           g == Chain(s, l)
<1>1. /\ q \in Seq(Blocks) /\ s[l].first = At(q, 1) /\ Cardinality(Blocks) \in Nat
      /\ \A i \in 1 .. Len(q) : s.blk[q[i]].next = At(q, i + 1)
  BY LinkedShort DEF Linked
<1>2. ASSUME NEW n \in D, n # 1
      PROVE  /\ n - 1 \in D
             /\ At(q, n) = IF At(q, n - 1) = Null THEN Null ELSE s.blk[At(q, n - 1)].next
  <2>1. n - 1 \in D /\ n - 1 \in Int /\ n \in Int
    BY <1>1, <1>2
  <2>2. CASE n - 1 \in 1 .. Len(q)
    <3>1. At(q, n - 1) = q[n - 1] /\ At(q, n - 1) # Null
      BY <1>1, <2>1, <2>2, AtFacts
    <3>2. s.blk[q[n - 1]].next = At(q, n - 1 + 1)
      BY <1>1, <2>2
    <3> QED
      BY <2>1, <3>1, <3>2
  <2>3. CASE n - 1 \notin 1 .. Len(q)
    <3>1. n \notin 1 .. Len(q)
      BY <1>1, <1>2, <2>1, <2>3
    <3> QED
      BY <1>1, <2>1, <2>3, <3>1, AtFacts
  <2> QED
    BY <2>1, <2>2, <2>3
<1>3. Follows(f, s, l)
  <2>1. ASSUME NEW n \in D
        PROVE  f[n] = IF n = 1 THEN s[l].first
                      ELSE IF f[n - 1] = Null THEN Null ELSE s.blk[f[n - 1]].next
    <3>1. CASE n = 1
      BY <1>1, <3>1
    <3>2. CASE n # 1
      <4>1. f[n] = At(q, n) /\ f[n - 1] = At(q, n - 1)
        BY <1>2, <3>2
      <4> HIDE DEF f
      <4> QED
        BY <1>2, <3>2, <4>1
    <3> QED
      BY <3>1, <3>2
  <2>2. f = [n \in D |-> f[n]]
    OBVIOUS
  <2> HIDE DEF f
  <2> QED
    BY <2>1, <2>2 DEF Follows
<1>4. g = CHOOSE h : Follows(h, s, l)
  BY DEF Chain, Follows
<1> HIDE DEF f, g
<1>a. Follows(g, s, l)
  BY <1>3, <1>4
<1>5. /\ DOMAIN g = D
      /\ \A n \in D : g[n] = IF n = 1 THEN s[l].first
                            ELSE IF g[n - 1] = Null THEN Null ELSE s.blk[g[n - 1]].next
  <2>1. g = [n \in D |-> IF n = 1 THEN s[l].first
                        ELSE IF g[n - 1] = Null THEN Null ELSE s.blk[g[n - 1]].next]
    BY <1>a DEF Follows
  <2> DEFINE v(n) == IF n = 1 THEN s[l].first
                     ELSE IF g[n - 1] = Null THEN Null ELSE s.blk[g[n - 1]].next
  <2>2. g = [n \in D |-> v(n)]
    BY <2>1
  <2> HIDE DEF v
  <2>3. DOMAIN g = D /\ \A n \in D : g[n] = v(n)
    BY <2>2
  <2> QED
    BY <2>3 DEF v
<1> DEFINE S == {n \in Nat : n \in D => g[n] = At(q, n)}
<1>6. 0 \in S
  OBVIOUS
<1>7. ASSUME NEW n \in S PROVE n + 1 \in S
  <2> SUFFICES ASSUME n + 1 \in D PROVE g[n + 1] = At(q, n + 1)
    OBVIOUS
  <2>1. CASE n = 0
    BY <1>1, <1>5, <2>1
  <2>2. CASE n # 0
    <3>1. n + 1 \in D /\ n + 1 # 1 /\ n + 1 - 1 = n
      BY <2>2
    <3>2. /\ n \in D
          /\ At(q, n + 1) = IF At(q, n) = Null THEN Null ELSE s.blk[At(q, n)].next
      BY <1>2, <3>1
    <3>3. g[n + 1] = IF g[n] = Null THEN Null ELSE s.blk[g[n]].next
      BY <1>5, <3>1
    <3> QED
      BY <3>2, <3>3
  <2> QED
    BY <2>1, <2>2
<1>8. S = Nat
  <2> HIDE DEF S
  <2> QED
    BY <1>6, <1>7, NatInduct DEF S
<1> QED
  BY <1>1, <1>5, <1>8 DEF g

LEMMA FoundFacts ==
    ASSUME NEW s, NEW l, NEW q, Linked(s.blk, s[l], q)
    PROVE  Found(s, l) = Range(q)
<1>1. /\ q \in Seq(Blocks) /\ s[l].length = Len(q) /\ Len(q) \in Nat /\ DOMAIN q = 1 .. Len(q)
      /\ Len(q) <= Cardinality(Blocks) /\ Cardinality(Blocks) \in Nat
  <2>1. Len(q) <= Cardinality(Blocks) /\ Cardinality(Blocks) \in Nat
    BY LinkedShort
  <2> QED
    BY <2>1 DEF Linked
<1>2. ASSUME NEW n \in 1 .. Len(q)
      PROVE  n \in DOMAIN Chain(s, l) /\ Chain(s, l)[n] = q[n]
  <2>1. n \in 1 .. Cardinality(Blocks) + 1 /\ n \in Int
    BY <1>1
  <2> QED
    BY <1>1, <2>1, ChainFacts, AtFacts
<1>3. Range(q) \subseteq Blocks
  BY <1>1, RangeSubset
<1> QED
  BY <1>1, <1>2, <1>3 DEF Found, Range

\* A linked list of schedules with the right flag is sound.
LEMMA SoundFacts ==
    ASSUME NEW s, NEW l, NEW q, Linked(s.blk, s[l], q),
           \A b \in Found(s, l) : s.blk[b].live /\ s.blk[b].enabled = (l = "on")
    PROVE  Sound(s, l)
<1> DEFINE nth == Chain(s, l)
           n == s[l].length
<1>1. /\ q \in Seq(Blocks) /\ n = Len(q) /\ Len(q) \in Nat /\ DOMAIN q = 1 .. Len(q)
      /\ Len(q) <= Cardinality(Blocks) /\ Cardinality(Blocks) \in Nat
      /\ s[l].first = At(q, 1) /\ s[l].last = At(q, Len(q))
      /\ \A i \in 1 .. Len(q) : s.blk[q[i]].prev = At(q, i - 1)
  <2>1. Len(q) <= Cardinality(Blocks) /\ Cardinality(Blocks) \in Nat
    BY LinkedShort
  <2> QED
    BY <2>1 DEF Linked
<1>2. \A i \in 1 .. Cardinality(Blocks) + 1 : nth[i] = At(q, i)
  <2>1. \A i \in 1 .. Cardinality(Blocks) + 1 :
           i \in DOMAIN Chain(s, l) /\ Chain(s, l)[i] = At(q, i)
    BY ChainFacts
  <2> QED
    BY <2>1
<1> HIDE DEF nth
<1>3. nth[n + 1] = Null
  <2>1. Len(q) + 1 \in 1 .. Cardinality(Blocks) + 1 /\ Len(q) + 1 \in Int
    BY <1>1
  <2> QED
    BY <1>1, <1>2, <2>1, AtFacts
<1>4. \A i \in 1 .. n : nth[i] = q[i] /\ q[i] # Null /\ q[i] \in Found(s, l) /\ nth[i] = At(q, i)
  <2> SUFFICES ASSUME NEW i \in 1 .. Len(q)
               PROVE  nth[i] = q[i] /\ q[i] # Null /\ q[i] \in Found(s, l) /\ nth[i] = At(q, i)
    BY <1>1
  <2>1. i \in Int /\ i \in 1 .. Cardinality(Blocks) + 1
    BY <1>1
  <2> QED
    BY <1>1, <1>2, <2>1, AtFacts, FoundFacts
<1>5. ASSUME NEW i \in 1 .. n
      PROVE  s.blk[nth[i]].prev = IF i = 1 THEN Null ELSE nth[i - 1]
  <2>1. s.blk[nth[i]].prev = At(q, i - 1)
    BY <1>1, <1>4
  <2>2. i = 1 => At(q, i - 1) = Null
    BY <1>1, AtFacts
  <2>3. i # 1 => At(q, i - 1) = nth[i - 1]
    BY <1>1, <1>4
  <2> QED
    BY <2>1, <2>2, <2>3
<1>6. s[l].last = IF n = 0 THEN Null ELSE nth[n]
  <2>1. Len(q) \in Int /\ (Len(q) = 0 => Len(q) \notin 1 .. Len(q))
    BY <1>1
  <2>2. Len(q) = 0 => At(q, Len(q)) = Null
    BY <1>1, <2>1, AtFacts
  <2>3. Len(q) # 0 => nth[Len(q)] = At(q, Len(q))
    BY <1>1, <1>4
  <2> QED
    BY <1>1, <2>2, <2>3
<1> QED
  BY <1>1, <1>3, <1>4, <1>5, <1>6 DEF Sound, nth
-----------------------------------------------------------------------------
(* The operations on lists.                                                *)

Lists == {"on", "off"}
\* Blocks that differ in their links only.
SameSchedules(old, new) ==
    \A b \in Blocks :
       /\ new[b].live = old[b].live /\ new[b].enabled = old[b].enabled
       /\ new[b].kind = old[b].kind /\ new[b].calls = old[b].calls /\ new[b].due = old[b].due
\* u is s but for the list l and the links of blocks.
OnlyLinks(s, u, l) ==
    /\ u \in SchedType /\ u.next = s.next /\ u.timer = s.timer
    /\ \A m \in Lists \ {l} : u[m] = s[m]
    /\ SameSchedules(s.blk, u.blk)

\* u is s with other blocks and another list l.
Relinked(s, u, l, blk, L) == u = [s EXCEPT !.blk = blk, ![l] = L]

LEMMA WithList ==
    ASSUME NEW s \in SchedType, NEW l \in Lists, NEW u, NEW blk \in [Blocks -> BlockType],
           NEW L \in ListType, Relinked(s, u, l, blk, L),
           SameSchedules(s.blk, blk)
    PROVE  OnlyLinks(s, u, l) /\ u.blk = blk /\ u[l] = L
<1>1. CASE l = "on"
  <2>1. u = [s EXCEPT !.blk = blk, !.on = L]
    BY <1>1 DEF Relinked
  <2>2. /\ u = [blk |-> blk, on |-> L, off |-> s.off, next |-> s.next, timer |-> s.timer]
        /\ s.off \in ListType /\ s.next \in Pointers /\ s.timer \in BOOLEAN
    BY <2>1 DEF SchedType
  <2>3. u \in SchedType
    BY <2>2 DEF SchedType
  <2>4. u.blk = blk /\ u.on = L /\ u.off = s.off /\ u.next = s.next /\ u.timer = s.timer
    BY <2>2
  <2> QED
    BY <1>1, <2>3, <2>4 DEF OnlyLinks, Lists
<1>2. CASE l = "off"
  <2>1. u = [s EXCEPT !.blk = blk, !.off = L]
    BY <1>2 DEF Relinked
  <2>2. /\ u = [blk |-> blk, on |-> s.on, off |-> L, next |-> s.next, timer |-> s.timer]
        /\ s.on \in ListType /\ s.next \in Pointers /\ s.timer \in BOOLEAN
    BY <2>1 DEF SchedType
  <2>3. u \in SchedType
    BY <2>2 DEF SchedType
  <2>4. u.blk = blk /\ u.off = L /\ u.on = s.on /\ u.next = s.next /\ u.timer = s.timer
    BY <2>2
  <2> QED
    BY <1>2, <2>3, <2>4 DEF OnlyLinks, Lists
<1> QED
  BY <1>1, <1>2 DEF Lists

\* Assignments to the fields of a list.
LEMMA ListAssigned ==
    ASSUME NEW s \in SchedType, NEW l \in Lists, NEW u, NEW blk,
           NEW f \in Pointers, NEW e \in Pointers, NEW n \in Nat,
           u = [s EXCEPT !.blk = blk, ![l].first = f, ![l].last = e, ![l].length = n]
    PROVE  Relinked(s, u, l, blk, [first |-> f, last |-> e, length |-> n])
<1> DEFINE L == [first |-> f, last |-> e, length |-> n]
<1>1. s.on \in ListType /\ s.off \in ListType
  BY DEF SchedType
<1> HIDE DEF L
<1>2. ASSUME NEW K \in ListType PROVE [K EXCEPT !.first = f, !.last = e, !.length = n] = L
  <2> DEFINE R == [K EXCEPT !.first = f, !.last = e, !.length = n]
  <2>1. R \in ListType /\ R.first = f /\ R.last = e /\ R.length = n
    BY DEF ListType
  <2>2. L \in ListType /\ L.first = f /\ L.last = e /\ L.length = n
    BY DEF ListType, L
  <2> HIDE DEF R
  <2>3. R = L
    BY <2>1, <2>2 DEF ListType
  <2> QED
    BY <2>3 DEF R
<1>3. CASE l = "on"
  <2>1. u = [s EXCEPT !.blk = blk, !.on.first = f, !.on.last = e, !.on.length = n]
    BY <1>3
  <2>2. u = [s EXCEPT !.blk = blk, !.on = [s.on EXCEPT !.first = f, !.last = e, !.length = n]]
    BY <2>1 DEF SchedType
  <2> QED
    BY <1>1, <1>2, <1>3, <2>2 DEF Relinked, L
<1>4. CASE l = "off"
  <2>1. u = [s EXCEPT !.blk = blk, !.off.first = f, !.off.last = e, !.off.length = n]
    BY <1>4
  <2>2. u = [s EXCEPT !.blk = blk, !.off = [s.off EXCEPT !.first = f, !.last = e, !.length = n]]
    BY <2>1 DEF SchedType
  <2> QED
    BY <1>1, <1>2, <1>4, <2>2 DEF Relinked, L
<1> QED
  BY <1>3, <1>4 DEF Lists

\* What insertion before the head of the list l writes.
LEMMA FirstFields ==
    ASSUME NEW s \in SchedType, NEW l \in Lists, NEW b \in Blocks, s[l].first # b,
           s[l].first # Null => s.blk[s[l].first].prev = Null
    PROVE  LET u == InsertBeginning(s, l, s[l].first, b) IN
           /\ OnlyLinks(s, u, l)
           /\ \A x \in Blocks :
                 /\ u.blk[x].next = IF x = b THEN s[l].first ELSE s.blk[x].next
                 /\ u.blk[x].prev = IF x = b THEN Null
                                    ELSE IF x = s[l].first THEN b ELSE s.blk[x].prev
           /\ u[l].first = b /\ u[l].length = s[l].length + 1
           /\ u[l].last = IF s[l].first = Null THEN b ELSE s[l].last
<1> DEFINE head == s[l].first
           u == InsertBeginning(s, l, head, b)
<1> SUFFICES /\ OnlyLinks(s, u, l)
             /\ \A x \in Blocks :
                   /\ u.blk[x].next = IF x = b THEN head ELSE s.blk[x].next
                   /\ u.blk[x].prev = IF x = b THEN Null
                                      ELSE IF x = head THEN b ELSE s.blk[x].prev
             /\ u[l].first = b /\ u[l].length = s[l].length + 1
             /\ u[l].last = IF head = Null THEN b ELSE s[l].last
  OBVIOUS
<1> HIDE DEF u
<1>1. /\ s.blk \in [Blocks -> BlockType] /\ head \in Pointers /\ s[l].last \in Pointers
      /\ s[l].length \in Nat /\ s[l].length + 1 \in Nat /\ b \in Pointers /\ b # Null
  BY ScheduleAssumption DEF SchedType, ListType, Lists, Pointers
<1>2. CASE head = Null
  <2> DEFINE blk == [s.blk EXCEPT ![b].prev = Null, ![b].next = Null]
  <2>1. blk \in [Blocks -> BlockType]
    BY <1>1 DEF BlockType, Pointers
  <2>2. /\ \A x \in Blocks :
              /\ blk[x].next = IF x = b THEN Null ELSE s.blk[x].next
              /\ blk[x].prev = IF x = b THEN Null ELSE s.blk[x].prev
        /\ SameSchedules(s.blk, blk)
    BY <1>1 DEF BlockType, SameSchedules
  <2> DEFINE L == [first |-> b, last |-> b, length |-> s[l].length + 1]
  <2>3. Relinked(s, u, l, blk, L) /\ L \in ListType /\ s \in SchedType /\ l \in Lists
    BY <1>1, <1>2 DEF u, InsertBeginning, SchedType, Lists, Relinked, ListType
  <2> HIDE DEF blk, L
  <2>4. OnlyLinks(s, u, l) /\ u.blk = blk /\ u[l] = L
    BY <2>1, <2>2, <2>3, WithList
  <2>5. L.first = b /\ L.last = b /\ L.length = s[l].length + 1
    BY DEF L
  <2> HIDE DEF head
  <2> QED
    BY <1>1, <1>2, <2>2, <2>4, <2>5, ScheduleAssumption
<1>3. CASE head # Null
  <2> DEFINE blk == [s.blk EXCEPT ![b].prev = Null, ![b].next = head, ![head].prev = b]
  <2>0. head \in Blocks /\ s.blk[head].prev = Null /\ b # head
    BY <1>1, <1>3 DEF Pointers
  <2>1. blk \in [Blocks -> BlockType]
    BY <1>1, <2>0 DEF BlockType, Pointers
  <2>2. /\ \A x \in Blocks :
              /\ blk[x].next = IF x = b THEN head ELSE s.blk[x].next
              /\ blk[x].prev = IF x = b THEN Null ELSE IF x = head THEN b ELSE s.blk[x].prev
    BY <1>1, <2>0 DEF BlockType
  <2>6. SameSchedules(s.blk, blk)
    BY <1>1, <2>0 DEF BlockType, SameSchedules
  <2>3. u = [s EXCEPT !.blk = blk, ![l].first = b, ![l].last = s[l].last,
                      ![l].length = s[l].length + 1]
    <3>1. u = InsertBefore(s, l, head, b)
      BY <1>3 DEF u, InsertBeginning
    <3>2. u = [s EXCEPT !.blk = blk, ![l].first = b, ![l].length = @ + 1]
      BY <2>0, <3>1 DEF InsertBefore, Link
    <3> HIDE DEF blk, head
    <3>3. CASE l = "on"
      BY <3>2, <3>3, ZenonT(60) DEF SchedType, ListType
    <3>4. CASE l = "off"
      BY <3>2, <3>4, ZenonT(60) DEF SchedType, ListType
    <3> QED
      BY <3>3, <3>4 DEF Lists
  <2> DEFINE L == [first |-> b, last |-> s[l].last, length |-> s[l].length + 1]
  <2> HIDE DEF blk
  <2>4. Relinked(s, u, l, blk, L) /\ L \in ListType
    BY <1>1, <2>3, ListAssigned DEF ListType
  <2> HIDE DEF L
  <2>5. OnlyLinks(s, u, l) /\ u.blk = blk /\ u[l] = L
    BY <2>1, <2>6, <2>4, WithList
  <2> QED
    BY <1>1, <1>3, <2>0, <2>2, <2>5 DEF L
<1> QED
  BY <1>2, <1>3

\* What insertion after the last entry of the list l writes.
LEMMA LastFields ==
    ASSUME NEW s \in SchedType, NEW l \in Lists, NEW b \in Blocks, s[l].last # b,
           s[l].last # Null => s.blk[s[l].last].next = Null,
           s[l].last = Null => s[l].first = Null
    PROVE  LET u == InsertEnd(s, l, b) IN
           /\ OnlyLinks(s, u, l)
           /\ \A x \in Blocks :
                 /\ u.blk[x].prev = IF x = b THEN s[l].last ELSE s.blk[x].prev
                 /\ u.blk[x].next = IF x = b THEN Null
                                    ELSE IF x = s[l].last THEN b ELSE s.blk[x].next
           /\ u[l].last = b /\ u[l].length = s[l].length + 1
           /\ u[l].first = IF s[l].last = Null THEN b ELSE s[l].first
<1> DEFINE tail == s[l].last
           u == InsertEnd(s, l, b)
<1> SUFFICES /\ OnlyLinks(s, u, l)
             /\ \A x \in Blocks :
                   /\ u.blk[x].prev = IF x = b THEN tail ELSE s.blk[x].prev
                   /\ u.blk[x].next = IF x = b THEN Null
                                      ELSE IF x = tail THEN b ELSE s.blk[x].next
             /\ u[l].last = b /\ u[l].length = s[l].length + 1
             /\ u[l].first = IF tail = Null THEN b ELSE s[l].first
  OBVIOUS
<1> HIDE DEF u
<1>1. /\ s.blk \in [Blocks -> BlockType] /\ tail \in Pointers /\ s[l].first \in Pointers
      /\ s[l].length \in Nat /\ s[l].length + 1 \in Nat /\ b \in Pointers /\ b # Null
  BY ScheduleAssumption DEF SchedType, ListType, Lists, Pointers
<1>2. CASE tail = Null
  <2>1. s[l].first = Null /\ u = InsertBeginning(s, l, s[l].first, b)
    BY <1>2 DEF u, InsertEnd
  <2>2. /\ OnlyLinks(s, u, l)
        /\ \A x \in Blocks :
              /\ u.blk[x].next = IF x = b THEN s[l].first ELSE s.blk[x].next
              /\ u.blk[x].prev = IF x = b THEN Null
                                 ELSE IF x = s[l].first THEN b ELSE s.blk[x].prev
        /\ u[l].first = b /\ u[l].length = s[l].length + 1
        /\ u[l].last = IF s[l].first = Null THEN b ELSE s[l].last
    BY <1>1, <2>1, FirstFields
  <2> HIDE DEF tail
  <2> QED
    BY <1>2, <2>1, <2>2, ScheduleAssumption
<1>3. CASE tail # Null
  <2> DEFINE blk == [s.blk EXCEPT ![b].prev = tail, ![b].next = Null, ![tail].next = b]
             L == [first |-> s[l].first, last |-> b, length |-> s[l].length + 1]
  <2>0. tail \in Blocks /\ s.blk[tail].next = Null /\ b # tail
    BY <1>1, <1>3 DEF Pointers
  <2>1. blk \in [Blocks -> BlockType]
    <3> HIDE DEF tail
    <3>1. s.blk \in [Blocks -> BlockType] /\ tail \in Blocks
      BY <1>1, <2>0
    <3> QED
      BY <3>1 DEF BlockType, Pointers
  <2>2. /\ \A x \in Blocks :
              /\ blk[x].prev = IF x = b THEN tail ELSE s.blk[x].prev
              /\ blk[x].next = IF x = b THEN Null ELSE IF x = tail THEN b ELSE s.blk[x].next
    BY <1>1, <2>0 DEF BlockType
  <2>3. SameSchedules(s.blk, blk)
    BY <1>1, <2>0 DEF BlockType, SameSchedules
  <2>4. u = [s EXCEPT !.blk = blk, ![l].first = s[l].first, ![l].last = b,
                      ![l].length = s[l].length + 1]
    <3>1. u = [s EXCEPT !.blk = blk, ![l].last = b, ![l].length = @ + 1]
      BY <1>3, <2>0 DEF u, InsertEnd, Link
    <3> HIDE DEF blk, tail
    <3>2. CASE l = "on"
      BY <3>1, <3>2, ZenonT(60) DEF SchedType, ListType
    <3>3. CASE l = "off"
      BY <3>1, <3>3, ZenonT(60) DEF SchedType, ListType
    <3> QED
      BY <3>2, <3>3 DEF Lists
  <2> HIDE DEF blk
  <2>5. Relinked(s, u, l, blk, L) /\ L \in ListType
    BY <1>1, <2>4, ListAssigned DEF ListType
  <2>6. L.first = s[l].first /\ L.last = b /\ L.length = s[l].length + 1
    OBVIOUS
  <2> HIDE DEF L
  <2>7. OnlyLinks(s, u, l) /\ u.blk = blk /\ u[l] = L
    BY <2>1, <2>3, <2>5, WithList
  <2> HIDE DEF tail
  <2> QED
    BY <1>1, <1>3, <2>0, <2>2, <2>6, <2>7
<1> QED
  BY <1>2, <1>3

\* What the removal of an entry from the list l writes.
LEMMA UnlinkFields ==
    ASSUME NEW s \in SchedType, NEW l \in Lists, NEW b \in Blocks, s[l].length # 0,
           s.blk[b].prev # b, s.blk[b].next # b,
           s.blk[b].prev = s.blk[b].next => s.blk[b].prev = Null
    PROVE  LET u == Unlink(s, l, b) IN
           /\ OnlyLinks(s, u, l)
           /\ \A x \in Blocks \ {b} :
                 /\ u.blk[x].next = IF x = s.blk[b].prev THEN s.blk[b].next ELSE s.blk[x].next
                 /\ u.blk[x].prev = IF x = s.blk[b].next THEN s.blk[b].prev ELSE s.blk[x].prev
           /\ u[l].first = IF s.blk[b].prev = Null THEN s.blk[b].next ELSE s[l].first
           /\ u[l].last = IF s.blk[b].next = Null THEN s.blk[b].prev ELSE s[l].last
           /\ u[l].length = s[l].length - 1
<1> DEFINE before == s.blk[b].prev
           after == s.blk[b].next
           u == Unlink(s, l, b)
<1> SUFFICES /\ OnlyLinks(s, u, l)
             /\ \A x \in Blocks \ {b} :
                   /\ u.blk[x].next = IF x = before THEN after ELSE s.blk[x].next
                   /\ u.blk[x].prev = IF x = after THEN before ELSE s.blk[x].prev
             /\ u[l].first = IF before = Null THEN after ELSE s[l].first
             /\ u[l].last = IF after = Null THEN before ELSE s[l].last
             /\ u[l].length = s[l].length - 1
  OBVIOUS
<1> HIDE DEF u
<1> DEFINE linked == Link(Link(s.blk, before, "next", after), after, "prev", before)
           blk == [linked EXCEPT ![b].prev = Null, ![b].next = Null]
           f == IF before = Null THEN after ELSE s[l].first
           e == IF after = Null THEN before ELSE s[l].last
           n == s[l].length - 1
           L == [first |-> f, last |-> e, length |-> n]
<1>1. /\ s.blk \in [Blocks -> BlockType] /\ before \in Pointers /\ after \in Pointers
      /\ s[l].first \in Pointers /\ s[l].last \in Pointers /\ s[l].length \in Nat
  BY DEF SchedType, ListType, Lists, BlockType
<1>2. f \in Pointers /\ e \in Pointers /\ n \in Nat
  BY <1>1
<1>3. u = [s EXCEPT !.blk = blk, ![l].first = f, ![l].last = e, ![l].length = n]
  <2>1. u = [s EXCEPT !.blk = blk,
                      ![l].first = IF before = Null THEN after ELSE @,
                      ![l].last = IF after = Null THEN before ELSE @,
                      ![l].length = @ - 1]
    BY DEF u, Unlink
  <2> HIDE DEF blk, before, after
  <2>2. CASE l = "on"
    BY <2>1, <2>2 DEF SchedType, ListType
  <2>3. CASE l = "off"
    BY <2>1, <2>3 DEF SchedType, ListType
  <2> QED
    BY <2>2, <2>3 DEF Lists
<1>4. /\ \A x \in Blocks :
            /\ linked[x].next = IF x = before THEN after ELSE s.blk[x].next
            /\ linked[x].prev = IF x = after THEN before ELSE s.blk[x].prev
      /\ linked \in [Blocks -> BlockType] /\ SameSchedules(s.blk, linked)
  <2> DEFINE half == Link(s.blk, before, "next", after)
  <2> HIDE DEF before, after
  <2>1. half \in [Blocks -> BlockType]
    BY <1>1, ScheduleAssumption DEF Link, BlockType, Pointers
  <2>2. /\ \A x \in Blocks :
              /\ half[x].next = IF x = before THEN after ELSE s.blk[x].next
              /\ half[x].prev = s.blk[x].prev
    BY <1>1, ScheduleAssumption DEF Link, BlockType, Pointers
  <2>3. SameSchedules(s.blk, half)
    BY <1>1, ScheduleAssumption DEF Link, BlockType, Pointers, SameSchedules
  <2> HIDE DEF half
  <2>4. linked = Link(half, after, "prev", before)
    BY DEF half
  <2> HIDE DEF linked
  <2>5. linked \in [Blocks -> BlockType]
    BY <1>1, <2>1, <2>4, ScheduleAssumption DEF Link, BlockType, Pointers
  <2>6. /\ \A x \in Blocks :
              /\ linked[x].prev = IF x = after THEN before ELSE half[x].prev
              /\ linked[x].next = half[x].next
    BY <1>1, <2>1, <2>4, ScheduleAssumption DEF Link, BlockType, Pointers
  <2>7. SameSchedules(half, linked)
    BY <1>1, <2>1, <2>4, ScheduleAssumption DEF Link, BlockType, Pointers, SameSchedules
  <2>8. SameSchedules(s.blk, linked)
    BY <2>3, <2>7 DEF SameSchedules
  <2> QED
    BY <2>2, <2>5, <2>6, <2>8
<1> HIDE DEF linked
<1>5. blk \in [Blocks -> BlockType]
  <2>1. linked \in [Blocks -> BlockType] /\ linked[b] \in BlockType
    BY <1>4
  <2> DEFINE cleared == [linked[b] EXCEPT !.prev = Null, !.next = Null]
  <2>2. cleared \in BlockType
    BY <2>1 DEF BlockType, Pointers
  <2>3. blk = [linked EXCEPT ![b] = cleared]
    <3>1. blk = [[linked EXCEPT ![b].prev = Null] EXCEPT ![b].next = Null]
      OBVIOUS
    <3> QED
      BY <2>1, <3>1
  <2> HIDE DEF cleared, blk
  <2> QED
    BY <2>1, <2>2, <2>3
<1>6. \A x \in Blocks \ {b} : blk[x].next = linked[x].next /\ blk[x].prev = linked[x].prev
  BY <1>4
<1>7. SameSchedules(s.blk, blk)
  <2>1. SameSchedules(linked, blk)
    BY <1>4 DEF BlockType, SameSchedules
  <2> QED
    BY <1>4, <2>1 DEF SameSchedules
<1>8. L.first = f /\ L.last = e /\ L.length = n /\ L \in ListType
  BY <1>2 DEF ListType
<1> HIDE DEF blk, f, e, n
<1>9. Relinked(s, u, l, blk, L)
  BY <1>2, <1>3, ListAssigned
<1> HIDE DEF L
<1>10. OnlyLinks(s, u, l) /\ u.blk = blk /\ u[l] = L
  BY <1>5, <1>7, <1>8, <1>9, WithList
<1> QED
  <2>1. u[l].first = f /\ u[l].last = e /\ u[l].length = n
    BY <1>8, <1>10
  <2>2. \A x \in Blocks \ {b} :
          /\ u.blk[x].next = IF x = before THEN after ELSE s.blk[x].next
          /\ u.blk[x].prev = IF x = after THEN before ELSE s.blk[x].prev
    BY <1>4, <1>6, <1>10
  <2> QED
    BY <1>10, <2>1, <2>2 DEF f, e, n

-----------------------------------------------------------------------------
(* The two lists together.                                                 *)

Listed(s) ==
    /\ s \in SchedType
    /\ \A l \in Lists : \E q : Linked(s.blk, s[l], q)
    /\ Found(s, "on") \cap Found(s, "off") = {}

\* The ends of a list and the neighbours of its entries.
LEMMA ListedFacts ==
    ASSUME NEW s, Listed(s), NEW l \in Lists
    PROVE  /\ Found(s, l) \subseteq Blocks
           /\ s[l].first \in Found(s, l) \cup {Null} /\ s[l].last \in Found(s, l) \cup {Null}
           /\ s[l].length \in Nat
           /\ s[l].length = 0 <=> Found(s, l) = {}
           /\ s[l].first = Null <=> Found(s, l) = {}
           /\ s[l].last = Null <=> Found(s, l) = {}
           /\ s[l].first # Null => s.blk[s[l].first].prev = Null
           /\ s[l].last # Null => s.blk[s[l].last].next = Null
           /\ \A b \in Found(s, l) :
                 /\ s.blk[b].next \in (Found(s, l) \cup {Null}) \ {b}
                 /\ s.blk[b].prev \in (Found(s, l) \cup {Null}) \ {b}
                 /\ s.blk[b].prev = s.blk[b].next => s.blk[b].prev = Null
<1>1. PICK q : Linked(s.blk, s[l], q)
  BY DEF Listed
<1>2. /\ q \in Seq(Blocks) /\ IsInjective(q) /\ Len(q) \in Nat /\ DOMAIN q = 1 .. Len(q)
      /\ s[l].length = Len(q) /\ s[l].first = At(q, 1) /\ s[l].last = At(q, Len(q))
      /\ \A i \in 1 .. Len(q) :
            s.blk[q[i]].next = At(q, i + 1) /\ s.blk[q[i]].prev = At(q, i - 1)
  BY <1>1 DEF Linked
<1>3. Found(s, l) = Range(q) /\ Range(q) \subseteq Blocks
  BY <1>1, <1>2, FoundFacts, RangeSubset
<1>4. \A i \in Int : /\ At(q, i) \in Range(q) \cup {Null}
                     /\ At(q, i) = Null <=> i \notin 1 .. Len(q)
  BY <1>2, AtFacts
<1>5. Range(q) = {} <=> Len(q) = 0
  <2>1. ASSUME Len(q) # 0 PROVE q[1] \in Range(q)
    BY <1>2, <2>1 DEF Range
  <2>2. ASSUME Len(q) = 0 PROVE Range(q) = {}
    BY <1>2, <2>2 DEF Range
  <2> QED
    BY <2>1, <2>2
<1>6. At(q, 1) # Null => s.blk[At(q, 1)].prev = Null
  <2> SUFFICES ASSUME At(q, 1) # Null PROVE s.blk[At(q, 1)].prev = Null
    OBVIOUS
  <2>1. 1 \in 1 .. Len(q)
    BY <1>4
  <2>2. At(q, 1) = q[1] /\ s.blk[q[1]].prev = At(q, 0)
    BY <1>2, <2>1 DEF At
  <2>3. At(q, 0) = Null
    BY <1>4
  <2> QED
    BY <2>2, <2>3
<1>7. At(q, Len(q)) # Null => s.blk[At(q, Len(q))].next = Null
  <2> SUFFICES ASSUME At(q, Len(q)) # Null PROVE s.blk[At(q, Len(q))].next = Null
    OBVIOUS
  <2>1. Len(q) \in 1 .. Len(q)
    BY <1>2, <1>4
  <2>2. At(q, Len(q)) = q[Len(q)] /\ s.blk[q[Len(q)]].next = At(q, Len(q) + 1)
    BY <1>2, <2>1 DEF At
  <2>3. At(q, Len(q) + 1) = Null
    BY <1>2, <1>4
  <2> QED
    BY <2>2, <2>3
<1>8. ASSUME NEW b \in Range(q)
      PROVE  /\ s.blk[b].next \in (Range(q) \cup {Null}) \ {b}
             /\ s.blk[b].prev \in (Range(q) \cup {Null}) \ {b}
             /\ s.blk[b].prev = s.blk[b].next => s.blk[b].prev = Null
  <2>1. PICK i \in 1 .. Len(q) :
           b = At(q, i) /\ s.blk[b].next = At(q, i + 1) /\ s.blk[b].prev = At(q, i - 1)
    BY <1>1, LinksOf
  <2>2. i \in Int /\ i + 1 \in Int /\ i - 1 \in Int /\ At(q, i) # Null
    BY <1>4
  <2>3. At(q, i) # At(q, i + 1) /\ At(q, i) # At(q, i - 1)
    BY <1>2, <2>2, SameAt
  <2>4. At(q, i - 1) # Null => At(q, i - 1) # At(q, i + 1)
    BY <1>2, <2>2, SameAt
  <2> QED
    BY <1>4, <2>1, <2>2, <2>3, <2>4
<1> QED
  <2>1. /\ s[l].first = Null <=> Len(q) = 0
        /\ s[l].last = Null <=> Len(q) = 0
    BY <1>2, <1>4
  <2> QED
    BY <1>2, <1>3, <1>4, <1>5, <1>6, <1>7, <1>8, <2>1

\* A step that changes one list, and the links of its entries and of b.
LEMMA ListedStep ==
    ASSUME NEW s, Listed(s), NEW l \in Lists, NEW u, OnlyLinks(s, u, l), NEW b \in Blocks,
           NEW r, Linked(u.blk, u[l], r), Range(r) \subseteq Found(s, l) \cup {b},
           \A m \in Lists \ {l} : b \notin Found(s, m),
           \A x \in Blocks \ (Found(s, l) \cup {b}) :
              u.blk[x].next = s.blk[x].next /\ u.blk[x].prev = s.blk[x].prev
    PROVE  /\ Listed(u) /\ Found(u, l) = Range(r)
           /\ \A m \in Lists \ {l} : Found(u, m) = Found(s, m)
<1>1. Found(u, l) = Range(r)
  BY FoundFacts
<1>2. ASSUME NEW m \in Lists \ {l}
      PROVE  /\ Found(u, m) = Found(s, m)
             /\ \E q : Linked(u.blk, u[m], q)
             /\ Found(u, m) \cap Found(u, l) = {}
  <2>1. PICK q : Linked(s.blk, s[m], q)
    BY DEF Listed
  <2>2. Found(s, m) = Range(q) /\ Range(q) \subseteq Blocks
    BY <2>1, FoundFacts, RangeSubset DEF Linked
  <2>3. Found(s, m) \cap Found(s, l) = {}
    BY DEF Listed, Lists
  <2>4. Linked(u.blk, s[m], q)
    BY <2>1, <2>2, <2>3, LinkedFrame
  <2>5. u[m] = s[m]
    BY DEF OnlyLinks
  <2>6. Found(u, m) = Range(q)
    BY <2>4, <2>5, FoundFacts
  <2> QED
    BY <1>1, <2>2, <2>3, <2>4, <2>5, <2>6
<1>3. Found(u, "on") \cap Found(u, "off") = {}
  BY <1>2 DEF Lists
<1> QED
  BY <1>1, <1>2, <1>3 DEF Listed, OnlyLinks

\* b becomes the first entry of the list l.
LEMMA InsertedFirst ==
    ASSUME NEW s, Listed(s), NEW l \in Lists, NEW b \in Blocks,
           b \notin Found(s, "on") \cup Found(s, "off")
    PROVE  LET u == InsertBeginning(s, l, s[l].first, b) IN
           /\ Listed(u) /\ OnlyLinks(s, u, l) /\ Found(u, l) = Found(s, l) \cup {b}
           /\ \A m \in Lists \ {l} : Found(u, m) = Found(s, m)
<1> DEFINE u == InsertBeginning(s, l, s[l].first, b)
<1>1. /\ s \in SchedType /\ Found(s, l) \subseteq Blocks
      /\ s[l].first \in Found(s, l) \cup {Null} /\ b \notin Found(s, l) /\ b # Null
      /\ s[l].first # Null => s.blk[s[l].first].prev = Null
      /\ \A m \in Lists : b \notin Found(s, m)
  BY ListedFacts, ScheduleAssumption DEF Listed, Lists
<1>2. /\ OnlyLinks(s, u, l)
      /\ \A x \in Blocks :
            /\ u.blk[x].next = IF x = b THEN s[l].first ELSE s.blk[x].next
            /\ u.blk[x].prev = IF x = b THEN Null
                               ELSE IF x = s[l].first THEN b ELSE s.blk[x].prev
      /\ u[l].first = b /\ u[l].length = s[l].length + 1
      /\ u[l].last = IF s[l].first = Null THEN b ELSE s[l].last
  BY <1>1, FirstFields
<1> HIDE DEF u
<1>3. PICK q : Linked(s.blk, s[l], q)
  BY DEF Listed
<1>4. Found(s, l) = Range(q)
  BY <1>3, FoundFacts
<1>5. PICK r : Linked(u.blk, u[l], r) /\ Range(r) = Range(q) \cup {b}
  <2>1. /\ u.blk[b].prev = Null /\ u.blk[b].next = s[l].first
        /\ \A x \in Range(q) :
              /\ u.blk[x].next = s.blk[x].next
              /\ u.blk[x].prev = IF x = s[l].first THEN b ELSE s.blk[x].prev
    BY <1>1, <1>2, <1>4
  <2>2. b \notin Range(q)
    BY <1>1, <1>4
  <2>3. BecomesFirst(s.blk, u.blk, s[l], u[l], q, b)
    BY <1>2, <2>1 DEF BecomesFirst
  <2> QED
    BY <1>3, <2>2, <2>3, LinkedFirst
<1>6. \A x \in Blocks \ (Found(s, l) \cup {b}) :
         u.blk[x].next = s.blk[x].next /\ u.blk[x].prev = s.blk[x].prev
  BY <1>1, <1>2, ScheduleAssumption
<1>7. /\ Listed(u) /\ Found(u, l) = Range(r)
      /\ \A m \in Lists \ {l} : Found(u, m) = Found(s, m)
  BY <1>1, <1>2, <1>4, <1>5, <1>6, ListedStep
<1> QED
  BY <1>2, <1>4, <1>5, <1>7 DEF u

\* b becomes the last entry of the list l.
LEMMA InsertedLast ==
    ASSUME NEW s, Listed(s), NEW l \in Lists, NEW b \in Blocks,
           b \notin Found(s, "on") \cup Found(s, "off")
    PROVE  LET u == InsertEnd(s, l, b) IN
           /\ Listed(u) /\ OnlyLinks(s, u, l) /\ Found(u, l) = Found(s, l) \cup {b}
           /\ \A m \in Lists \ {l} : Found(u, m) = Found(s, m)
<1> DEFINE u == InsertEnd(s, l, b)
<1>1. /\ s \in SchedType /\ Found(s, l) \subseteq Blocks
      /\ s[l].last \in Found(s, l) \cup {Null} /\ b \notin Found(s, l) /\ b # Null
      /\ s[l].last # Null => s.blk[s[l].last].next = Null
      /\ s[l].last = Null => s[l].first = Null
      /\ \A m \in Lists : b \notin Found(s, m)
  BY ListedFacts, ScheduleAssumption DEF Listed, Lists
<1>2. /\ OnlyLinks(s, u, l)
      /\ \A x \in Blocks :
            /\ u.blk[x].prev = IF x = b THEN s[l].last ELSE s.blk[x].prev
            /\ u.blk[x].next = IF x = b THEN Null
                               ELSE IF x = s[l].last THEN b ELSE s.blk[x].next
      /\ u[l].last = b /\ u[l].length = s[l].length + 1
      /\ u[l].first = IF s[l].last = Null THEN b ELSE s[l].first
  BY <1>1, LastFields
<1> HIDE DEF u
<1>3. PICK q : Linked(s.blk, s[l], q)
  BY DEF Listed
<1>4. Found(s, l) = Range(q)
  BY <1>3, FoundFacts
<1>5. PICK r : Linked(u.blk, u[l], r) /\ Range(r) = Range(q) \cup {b}
  <2>1. /\ u.blk[b].next = Null /\ u.blk[b].prev = s[l].last
        /\ \A x \in Range(q) :
              /\ u.blk[x].next = IF x = s[l].last THEN b ELSE s.blk[x].next
              /\ u.blk[x].prev = s.blk[x].prev
    BY <1>1, <1>2, <1>4
  <2>2. b \notin Range(q)
    BY <1>1, <1>4
  <2>3. BecomesLast(s.blk, u.blk, s[l], u[l], q, b)
    BY <1>2, <2>1 DEF BecomesLast
  <2> QED
    BY <1>3, <2>2, <2>3, LinkedLast
<1>6. \A x \in Blocks \ (Found(s, l) \cup {b}) :
         u.blk[x].next = s.blk[x].next /\ u.blk[x].prev = s.blk[x].prev
  BY <1>1, <1>2, ScheduleAssumption
<1>7. /\ Listed(u) /\ Found(u, l) = Range(r)
      /\ \A m \in Lists \ {l} : Found(u, m) = Found(s, m)
  BY <1>1, <1>2, <1>4, <1>5, <1>6, ListedStep
<1> QED
  BY <1>2, <1>4, <1>5, <1>7 DEF u

\* b leaves the list l.
LEMMA Removed ==
    ASSUME NEW s, Listed(s), NEW l \in Lists, NEW b \in Found(s, l)
    PROVE  LET u == Unlink(s, l, b) IN
           /\ Listed(u) /\ OnlyLinks(s, u, l) /\ Found(u, l) = Found(s, l) \ {b}
           /\ \A m \in Lists \ {l} : Found(u, m) = Found(s, m)
<1> DEFINE u == Unlink(s, l, b)
<1>1. /\ s \in SchedType /\ Found(s, l) \subseteq Blocks /\ b \in Blocks
      /\ s[l].length # 0 /\ s.blk[b].prev # b /\ s.blk[b].next # b
      /\ s.blk[b].prev = s.blk[b].next => s.blk[b].prev = Null
      /\ s.blk[b].prev \in Found(s, l) \cup {Null} /\ s.blk[b].next \in Found(s, l) \cup {Null}
      /\ \A m \in Lists \ {l} : b \notin Found(s, m)
  BY ListedFacts DEF Listed, Lists
<1>2. /\ OnlyLinks(s, u, l)
      /\ \A x \in Blocks \ {b} :
            /\ u.blk[x].next = IF x = s.blk[b].prev THEN s.blk[b].next ELSE s.blk[x].next
            /\ u.blk[x].prev = IF x = s.blk[b].next THEN s.blk[b].prev ELSE s.blk[x].prev
      /\ u[l].first = IF s.blk[b].prev = Null THEN s.blk[b].next ELSE s[l].first
      /\ u[l].last = IF s.blk[b].next = Null THEN s.blk[b].prev ELSE s[l].last
      /\ u[l].length = s[l].length - 1
  BY <1>1, UnlinkFields
<1> HIDE DEF u
<1>3. PICK q : Linked(s.blk, s[l], q)
  BY DEF Listed
<1>4. Found(s, l) = Range(q)
  BY <1>3, FoundFacts
<1>5. PICK r : Linked(u.blk, u[l], r) /\ Range(r) = Range(q) \ {b}
  <2>1. \A x \in Range(q) \ {b} :
           /\ u.blk[x].next = IF x = s.blk[b].prev THEN s.blk[b].next ELSE s.blk[x].next
           /\ u.blk[x].prev = IF x = s.blk[b].next THEN s.blk[b].prev ELSE s.blk[x].prev
    BY <1>1, <1>2, <1>4
  <2>2. b \in Range(q)
    BY <1>4
  <2>3. TakenOut(s.blk, u.blk, s[l], u[l], q, b)
    BY <1>2, <2>1 DEF TakenOut
  <2> QED
    BY <1>3, <2>2, <2>3, LinkedRemoved
<1>6. \A x \in Blocks \ (Found(s, l) \cup {b}) :
         u.blk[x].next = s.blk[x].next /\ u.blk[x].prev = s.blk[x].prev
  BY <1>1, <1>2, ScheduleAssumption
<1>7. /\ Listed(u) /\ Found(u, l) = Range(r)
      /\ \A m \in Lists \ {l} : Found(u, m) = Found(s, m)
  BY <1>1, <1>2, <1>4, <1>5, <1>6, ListedStep
<1> QED
  BY <1>2, <1>4, <1>5, <1>7 DEF u

\* Neither list depends on the other fields.
LEMMA ListedFrame ==
    ASSUME NEW s, Listed(s), NEW u \in SchedType, u.on = s.on, u.off = s.off,
           \A b \in Found(s, "on") \cup Found(s, "off") :
              u.blk[b].next = s.blk[b].next /\ u.blk[b].prev = s.blk[b].prev
    PROVE  Listed(u) /\ \A l \in Lists : Found(u, l) = Found(s, l)
<1>1. ASSUME NEW l \in Lists
      PROVE  Found(u, l) = Found(s, l) /\ \E q : Linked(u.blk, u[l], q)
  <2>1. PICK q : Linked(s.blk, s[l], q)
    BY DEF Listed
  <2>2. Found(s, l) = Range(q) /\ u[l] = s[l]
    BY <2>1, FoundFacts DEF Lists
  <2>3. Linked(u.blk, s[l], q)
    BY <2>1, <2>2, LinkedFrame DEF Lists
  <2>4. Found(u, l) = Range(q)
    BY <2>2, <2>3, FoundFacts
  <2> QED
    BY <2>2, <2>3, <2>4
<1> QED
  BY <1>1 DEF Listed, Lists

-----------------------------------------------------------------------------
(* The scheduler between two steps of the handler or of the main loop.     *)

\* The entries of Z may have finished; those of N are not yet in a list.  Only the
\* Ethernet portal disables its schedule, only the update of the TIM is counted.
Orderly(s, Z, N) ==
    /\ Listed(s)
    /\ s.next \in Found(s, "on") \cup {Null}
    /\ s.timer <=> (N # {} \/ s.on.length > 0)
    /\ N \cap (Found(s, "on") \cup Found(s, "off")) = {}
    /\ \A b \in Found(s, "on") : s.blk[b].live /\ s.blk[b].enabled
    /\ \A b \in Found(s, "off") : s.blk[b].live /\ ~s.blk[b].enabled /\ s.blk[b].kind = "eth"
    /\ \A b \in N : s.blk[b].live /\ s.blk[b].enabled
    /\ \A b \in Blocks : s.blk[b].live =>
          /\ b \in Found(s, "on") \cup Found(s, "off") \cup N
          /\ s.blk[b].kind # "tim" => s.blk[b].calls = Forever
          /\ s.blk[b].calls = 0 => b \in Z

Clients(s, kind) == {b \in Blocks : s.blk[b].live /\ s.blk[b].kind = kind}
\* The schedule of the portal is where it was, that of the generator is still there.
SameClients(s, u) ==
    /\ Clients(u, "eth") = Clients(s, "eth") /\ Clients(s, "ltg") \subseteq Clients(u, "ltg")
    /\ \A l \in Lists : Clients(s, "eth") \cap Found(u, l) = Clients(s, "eth") \cap Found(s, l)

LEMMA SameClientsTransitive ==
    ASSUME NEW s, NEW t, NEW u, SameClients(s, t), SameClients(t, u)
    PROVE  SameClients(s, u)
  BY DEF SameClients

LEMMA OrderlyMore ==
    ASSUME NEW s, NEW Z, NEW N, Orderly(s, Z, N), NEW Y, Z \subseteq Y
    PROVE  Orderly(s, Y, N)
  BY DEF Orderly

\* A step that moves no entry and frees none.
LEMMA OrderlyFrame ==
    ASSUME NEW s, NEW Z, Orderly(s, Z, {}), NEW u \in SchedType,
           u.on = s.on, u.off = s.off, u.timer = s.timer,
           u.next \in Found(s, "on") \cup {Null}, NEW Y,
           \A b \in Blocks :
              /\ u.blk[b].next = s.blk[b].next /\ u.blk[b].prev = s.blk[b].prev
              /\ u.blk[b].live = s.blk[b].live /\ u.blk[b].enabled = s.blk[b].enabled
              /\ u.blk[b].kind = s.blk[b].kind
              /\ s.blk[b].kind # "tim" => u.blk[b].calls = s.blk[b].calls
              /\ s.blk[b].live /\ u.blk[b].calls = 0 => b \in Y
    PROVE  /\ Orderly(u, Y, {}) /\ SameClients(s, u)
           /\ \A l \in Lists : Found(u, l) = Found(s, l)
<1>1. Found(s, "on") \subseteq Blocks /\ Found(s, "off") \subseteq Blocks
  BY ListedFacts DEF Orderly, Lists
<1>2. Listed(u) /\ \A l \in Lists : Found(u, l) = Found(s, l)
  BY <1>1, ListedFrame DEF Orderly
<1>3. Orderly(u, Y, {})
  BY <1>1, <1>2 DEF Orderly, Lists
<1>4. SameClients(s, u)
  BY <1>2 DEF SameClients, Clients
<1> QED
  BY <1>2, <1>3, <1>4

\* A new schedule before it is in the list.
Begun(s, u, new, kind) ==
    /\ u.on = s.on /\ u.blk[new].live /\ u.blk[new].kind = kind
    /\ \A l \in Lists : Found(u, l) = Found(s, l)
    /\ \A b \in Blocks \ {new} : u.blk[b] = s.blk[b]

LEMMA PreparedFacts ==
    ASSUME NEW s, NEW Z, Orderly(s, Z, {}), NEW new \in Free(s), NEW kind \in Kinds,
           NEW calls \in {1, Forever}, kind # "tim" => calls = Forever,
           NEW delayed, NEW u, u = Prepared(s, new, kind, calls, delayed)
    PROVE  Orderly(u, Z, {new}) /\ Begun(s, u, new, kind)
<1> DEFINE e == [Unused EXCEPT !.live = TRUE, !.enabled = TRUE, !.kind = kind,
                               !.calls = calls, !.due = IF delayed THEN "no" ELSE "maybe"]
<1>1. /\ s \in SchedType /\ s.blk \in [Blocks -> BlockType] /\ new \in Blocks
      /\ Found(s, "on") \subseteq Blocks /\ Found(s, "off") \subseteq Blocks
      /\ ~s.blk[new].live /\ s.on.length \in Nat
  BY ListedFacts DEF Orderly, Listed, SchedType, Free, Lists
<1>2. /\ e \in BlockType /\ e.live /\ e.enabled /\ e.kind = kind /\ e.calls = calls
      /\ calls # 0
  <2> DEFINE due == IF delayed THEN "no" ELSE "maybe"
  <2>1. /\ due \in {"no", "maybe", "yes"} /\ Null \in Pointers
        /\ calls \in 0 .. Forever /\ calls # 0
    BY DEF Pointers, Forever
  <2>2. e = [Unused EXCEPT !.live = TRUE, !.enabled = TRUE, !.kind = kind,
                           !.calls = calls, !.due = due]
    BY DEF due, e
  <2>3. Unused \in BlockType
    BY <2>1 DEF BlockType, Unused, Forever
  <2> HIDE DEF due, e
  <2> QED
    BY <2>1, <2>2, <2>3 DEF BlockType
<1>3. u = [s EXCEPT !.timer = s.timer \/ s.on.length = 0, !.blk = [s.blk EXCEPT ![new] = e]]
  BY <1>1 DEF Prepared, SchedType
<1> HIDE DEF e
<1>4. /\ u \in SchedType /\ u.on = s.on /\ u.off = s.off /\ u.next = s.next
      /\ u.timer <=> (s.timer \/ s.on.length = 0)
      /\ u.blk[new] = e /\ \A b \in Blocks \ {new} : u.blk[b] = s.blk[b]
  <2> DEFINE blk == [s.blk EXCEPT ![new] = e]
             running1 == s.timer \/ s.on.length = 0
  <2>1. blk \in [Blocks -> BlockType] /\ running1 \in BOOLEAN
    BY <1>1, <1>2
  <2>2. blk[new] = e /\ \A b \in Blocks \ {new} : blk[b] = s.blk[b]
    BY <1>1
  <2>3. u = [s EXCEPT !.timer = running1, !.blk = blk]
    BY <1>3
  <2> HIDE DEF blk, running1
  <2>4. /\ u \in SchedType /\ u.on = s.on /\ u.off = s.off /\ u.next = s.next
        /\ u.timer = running1 /\ u.blk = blk
    BY <1>1, <2>1, <2>3 DEF SchedType
  <2> QED
    BY <2>2, <2>4 DEF running1
<1>5. new \notin Found(s, "on") \cup Found(s, "off")
  BY <1>1 DEF Orderly
<1>6. Listed(u) /\ \A l \in Lists : Found(u, l) = Found(s, l)
  <2>1. Listed(s)
    BY DEF Orderly
  <2>2. \A b \in Found(s, "on") \cup Found(s, "off") :
           u.blk[b].next = s.blk[b].next /\ u.blk[b].prev = s.blk[b].prev
    BY <1>1, <1>4, <1>5
  <2> QED
    BY <1>4, <2>1, <2>2, ListedFrame
<1>7. Orderly(u, Z, {new})
  <2>1. Found(u, "on") = Found(s, "on") /\ Found(u, "off") = Found(s, "off")
    BY <1>6 DEF Lists
  <2>2. /\ u.timer /\ u.next \in Found(u, "on") \cup {Null}
    <3>1. (s.timer <=> s.on.length > 0) /\ s.next \in Found(s, "on") \cup {Null}
      BY DEF Orderly
    <3>2. CASE s.on.length = 0
      BY <1>4, <2>1, <3>1, <3>2
    <3>3. CASE s.on.length # 0
      <4>1. s.timer
        BY <1>1, <3>1, <3>3
      <4> QED
        BY <1>4, <2>1, <3>1, <4>1
    <3> QED
      BY <3>2, <3>3
  <2>3. \A b \in Found(u, "on") : u.blk[b].live /\ u.blk[b].enabled
    BY <1>1, <1>4, <1>5, <2>1 DEF Orderly
  <2>4. \A b \in Found(u, "off") : u.blk[b].live /\ ~u.blk[b].enabled /\ u.blk[b].kind = "eth"
    BY <1>1, <1>4, <1>5, <2>1 DEF Orderly
  <2>5. \A b \in Blocks \ {new} : u.blk[b].live =>
          /\ b \in Found(u, "on") \cup Found(u, "off") \cup {new}
          /\ u.blk[b].kind # "tim" => u.blk[b].calls = Forever
          /\ u.blk[b].calls = 0 => b \in Z
    BY <1>4, <2>1 DEF Orderly
  <2>6. /\ u.blk[new].live /\ u.blk[new].enabled /\ u.blk[new].calls # 0
        /\ u.blk[new].kind # "tim" => u.blk[new].calls = Forever
    BY <1>2, <1>4
  <2>7. \A b \in Blocks : u.blk[b].live =>
          /\ b \in Found(u, "on") \cup Found(u, "off") \cup {new}
          /\ u.blk[b].kind # "tim" => u.blk[b].calls = Forever
          /\ u.blk[b].calls = 0 => b \in Z
    BY <2>5, <2>6
  <2>8. {new} # {} /\ {new} \cap (Found(u, "on") \cup Found(u, "off")) = {}
    BY <1>5, <2>1
  <2>9. u.timer <=> ({new} # {} \/ u.on.length > 0)
    BY <2>2, <2>8
  <2> QED
    BY <1>6, <2>2, <2>3, <2>4, <2>6, <2>7, <2>8, <2>9 DEF Orderly
<1> QED
  BY <1>2, <1>4, <1>6, <1>7 DEF Begun

\* Its insertion.
LEMMA InsertedFacts ==
    ASSUME NEW s, NEW Z, NEW new \in Blocks, Orderly(s, Z, {new}),
           NEW u, u = InsertBeginning(s, "on", s.on.first, new)
    PROVE  /\ Orderly(u, Z, {}) /\ SameSchedules(s.blk, u.blk)
           /\ Found(u, "on") = Found(s, "on") \cup {new} /\ Found(u, "off") = Found(s, "off")
<1>1. /\ Listed(s) /\ new \notin Found(s, "on") \cup Found(s, "off")
      /\ Found(s, "on") \subseteq Blocks /\ Found(s, "off") \subseteq Blocks
  BY ListedFacts DEF Orderly, Lists
<1>2. /\ Listed(u) /\ OnlyLinks(s, u, "on") /\ Found(u, "on") = Found(s, "on") \cup {new}
      /\ Found(u, "off") = Found(s, "off")
  <2>1. "on" \in Lists /\ "off" \in Lists \ {"on"} /\ s["on"].first = s.on.first
    BY DEF Lists
  <2> QED
    BY <1>1, <2>1, InsertedFirst
<1>3. u.on.length \in Nat /\ u.on.length # 0
  <2>1. u["on"].length \in Nat /\ (u["on"].length = 0 <=> Found(u, "on") = {})
    BY <1>2, ListedFacts DEF Lists
  <2> QED
    BY <1>2, <2>1
<1>4. /\ u.next = s.next /\ u.timer = s.timer /\ SameSchedules(s.blk, u.blk)
  BY <1>2 DEF OnlyLinks
<1>5. u.next \in Found(u, "on") \cup {Null} /\ (u.timer <=> u.on.length > 0)
  BY <1>2, <1>3, <1>4 DEF Orderly
<1>6. \A b \in Found(u, "on") : u.blk[b].live /\ u.blk[b].enabled
  BY <1>1, <1>2, <1>4 DEF Orderly, SameSchedules
<1>7. \A b \in Found(u, "off") : u.blk[b].live /\ ~u.blk[b].enabled /\ u.blk[b].kind = "eth"
  BY <1>1, <1>2, <1>4 DEF Orderly, SameSchedules
<1>8. \A b \in Blocks : u.blk[b].live =>
          /\ b \in Found(u, "on") \cup Found(u, "off")
          /\ u.blk[b].kind # "tim" => u.blk[b].calls = Forever
          /\ u.blk[b].calls = 0 => b \in Z
  BY <1>2, <1>4 DEF Orderly, SameSchedules
<1>9. Orderly(u, Z, {})
  BY <1>2, <1>5, <1>6, <1>7, <1>8 DEF Orderly
<1> QED
  BY <1>2, <1>4, <1>9

Created(s, u, new, kind) ==
    /\ u.blk[new].live /\ u.blk[new].kind = kind
    /\ Found(u, "on") = Found(s, "on") \cup {new} /\ Found(u, "off") = Found(s, "off")
    /\ \A k : Clients(u, k) = IF k = kind THEN Clients(s, k) \cup {new} ELSE Clients(s, k)
    /\ kind # "eth" => SameClients(s, u)

LEMMA CreateFacts ==
    ASSUME NEW s, NEW Z, Orderly(s, Z, {}), NEW new \in Free(s), NEW kind \in Kinds,
           NEW calls \in {1, Forever}, kind # "tim" => calls = Forever,
           NEW delayed, NEW u, u = Create(s, new, kind, calls, delayed)
    PROVE  Orderly(u, Z, {}) /\ Created(s, u, new, kind)
<1> DEFINE t == Prepared(s, new, kind, calls, delayed)
<1>1. /\ Orderly(t, Z, {new}) /\ t.on = s.on
      /\ Found(t, "on") = Found(s, "on") /\ Found(t, "off") = Found(s, "off")
      /\ t.blk[new].live /\ t.blk[new].kind = kind
      /\ \A b \in Blocks \ {new} : t.blk[b] = s.blk[b]
  <2>1. /\ Orderly(t, Z, {new}) /\ t.on = s.on /\ \A l \in Lists : Found(t, l) = Found(s, l)
        /\ t.blk[new].live /\ t.blk[new].kind = kind
        /\ \A b \in Blocks \ {new} : t.blk[b] = s.blk[b]
    <3>1. t = Prepared(s, new, kind, calls, delayed)
      OBVIOUS
    <3> HIDE DEF t
    <3>2. Orderly(t, Z, {new}) /\ Begun(s, t, new, kind)
      BY <3>1, PreparedFacts
    <3> QED
      BY <3>2 DEF Begun
  <2> HIDE DEF t
  <2> QED
    BY <2>1 DEF Lists
<1>2. u = InsertBeginning(t, "on", t.on.first, new) /\ new \in Blocks /\ ~s.blk[new].live
  BY <1>1 DEF Create, Free
<1> HIDE DEF t
<1>3. /\ Orderly(u, Z, {}) /\ SameSchedules(t.blk, u.blk)
      /\ Found(u, "on") = Found(t, "on") \cup {new} /\ Found(u, "off") = Found(t, "off")
  BY <1>1, <1>2, InsertedFacts
<1>4. \A k : Clients(u, k) = IF k = kind THEN Clients(s, k) \cup {new} ELSE Clients(s, k)
  BY <1>1, <1>2, <1>3 DEF SameSchedules, Clients
<1>5. kind # "eth" => SameClients(s, u)
  <2> SUFFICES ASSUME kind # "eth" PROVE SameClients(s, u)
    OBVIOUS
  <2>1. new \notin Clients(s, "eth")
    BY <1>2 DEF Clients
  <2> QED
    BY <1>1, <1>3, <1>4, <2>1 DEF SameClients, Lists
<1> QED
  BY <1>1, <1>2, <1>3, <1>4, <1>5 DEF SameSchedules, Created

\* Fields of blocks that no list reads.
LEMMA ForgottenFacts ==
    ASSUME NEW s, NEW Z, Orderly(s, Z, {}), NEW u, u = Forgotten(s)
    PROVE  Orderly(u, Z, {}) /\ SameClients(s, u)
<1>1. s \in SchedType /\ s.next \in Found(s, "on") \cup {Null}
  BY DEF Orderly, Listed
<1> DEFINE blk == [b \in Blocks |-> [s.blk[b] EXCEPT !.due = "no"]]
<1>2. blk \in [Blocks -> BlockType]
  BY <1>1 DEF SchedType, BlockType
<1>3. \A b \in Blocks :
         /\ blk[b].next = s.blk[b].next /\ blk[b].prev = s.blk[b].prev
         /\ blk[b].live = s.blk[b].live /\ blk[b].enabled = s.blk[b].enabled
         /\ blk[b].kind = s.blk[b].kind /\ blk[b].calls = s.blk[b].calls
  BY <1>1 DEF SchedType, BlockType
<1>4. u = [s EXCEPT !.blk = blk]
  BY DEF Forgotten
<1> HIDE DEF blk
<1>5. /\ u \in SchedType /\ u.on = s.on /\ u.off = s.off /\ u.timer = s.timer
      /\ u.next = s.next /\ u.blk = blk
  BY <1>1, <1>2, <1>4 DEF SchedType
<1>6. \A b \in Blocks : s.blk[b].live /\ u.blk[b].calls = 0 => b \in Z
  BY <1>3, <1>5 DEF Orderly
<1> QED
  BY <1>1, <1>3, <1>5, <1>6, OrderlyFrame

\* The same while the main loop inserts a schedule.
LEMMA ForgottenInserting ==
    ASSUME NEW s, NEW new \in Blocks, Orderly(s, {}, {new}), NEW u, u = Forgotten(s)
    PROVE  /\ Orderly(u, {}, {new}) /\ SameClients(s, u)
           /\ u.on = s.on /\ u.blk[new].kind = s.blk[new].kind
<1>1. s \in SchedType /\ s.next \in Found(s, "on") \cup {Null} /\ Listed(s)
  BY DEF Orderly, Listed
<1> DEFINE blk == [b \in Blocks |-> [s.blk[b] EXCEPT !.due = "no"]]
<1>2. blk \in [Blocks -> BlockType]
  BY <1>1 DEF SchedType, BlockType
<1>3. \A b \in Blocks :
         /\ blk[b].next = s.blk[b].next /\ blk[b].prev = s.blk[b].prev
         /\ blk[b].live = s.blk[b].live /\ blk[b].enabled = s.blk[b].enabled
         /\ blk[b].kind = s.blk[b].kind /\ blk[b].calls = s.blk[b].calls
  BY <1>1 DEF SchedType, BlockType
<1>4. u = [s EXCEPT !.blk = blk]
  BY DEF Forgotten
<1> HIDE DEF blk
<1>5. /\ u \in SchedType /\ u.on = s.on /\ u.off = s.off /\ u.timer = s.timer
      /\ u.next = s.next /\ u.blk = blk
  BY <1>1, <1>2, <1>4 DEF SchedType
<1>6. Found(s, "on") \subseteq Blocks /\ Found(s, "off") \subseteq Blocks
  BY <1>1, ListedFacts DEF Lists
<1>7. Listed(u) /\ \A l \in Lists : Found(u, l) = Found(s, l)
  BY <1>1, <1>3, <1>5, <1>6, ListedFrame
<1>8. Found(u, "on") = Found(s, "on") /\ Found(u, "off") = Found(s, "off")
  BY <1>7 DEF Lists
<1>9. Orderly(u, {}, {new})
  BY <1>3, <1>5, <1>6, <1>7, <1>8 DEF Orderly
<1>10. SameClients(s, u)
  BY <1>3, <1>5, <1>7 DEF SameClients, Clients
<1> QED
  BY <1>3, <1>5, <1>9, <1>10

LEMMA StartedFacts ==
    ASSUME NEW s, NEW Z, Orderly(s, Z, {}), NEW D, NEW u, u = Started(s, D)
    PROVE  Orderly(u, Z, {}) /\ SameClients(s, u)
<1>1. s \in SchedType /\ s.on.first \in Found(s, "on") \cup {Null}
  <2>1. s["on"].first \in Found(s, "on") \cup {Null}
    BY ListedFacts DEF Orderly, Lists
  <2> QED
    BY <2>1 DEF Orderly, Listed
<1> DEFINE blk == [b \in Blocks |->
                     IF b \in D THEN [s.blk[b] EXCEPT !.due = "yes"] ELSE s.blk[b]]
<1>2. blk \in [Blocks -> BlockType]
  BY <1>1 DEF SchedType, BlockType
<1>3. \A b \in Blocks :
         /\ blk[b].next = s.blk[b].next /\ blk[b].prev = s.blk[b].prev
         /\ blk[b].live = s.blk[b].live /\ blk[b].enabled = s.blk[b].enabled
         /\ blk[b].kind = s.blk[b].kind /\ blk[b].calls = s.blk[b].calls
  BY <1>1 DEF SchedType, BlockType
<1>4. u = [s EXCEPT !.next = s.on.first, !.blk = blk]
  BY DEF Started
<1> HIDE DEF blk
<1>5. /\ u \in SchedType /\ u.on = s.on /\ u.off = s.off /\ u.timer = s.timer
      /\ u.next = s.on.first /\ u.blk = blk
  <2>1. s.on.first \in Pointers
    BY <1>1 DEF SchedType, ListType
  <2> QED
    BY <1>1, <1>2, <1>4, <2>1 DEF SchedType
<1>6. \A b \in Blocks : s.blk[b].live /\ u.blk[b].calls = 0 => b \in Z
  BY <1>3, <1>5 DEF Orderly
<1> QED
  BY <1>1, <1>3, <1>5, <1>6, OrderlyFrame

\* The handler moves on before it calls back.
LEMMA SteppedFacts ==
    ASSUME NEW s, NEW Z, Orderly(s, Z, {}), s.next # Null, NEW u, u = Stepped(s)
    PROVE  /\ Orderly(u, Z, {}) /\ SameClients(s, u)
           /\ u.blk = s.blk /\ u.next # s.next /\ s.next \in Found(u, "on")
<1>1. s \in SchedType /\ s.next \in Found(s, "on") /\ s.next \in Blocks
  BY ListedFacts DEF Orderly, Listed, Lists
<1>2. s.blk[s.next].next \in (Found(s, "on") \cup {Null}) \ {s.next}
  BY <1>1, ListedFacts DEF Orderly, Lists
<1>3. /\ u \in SchedType /\ u.on = s.on /\ u.off = s.off /\ u.timer = s.timer
      /\ u.next = s.blk[s.next].next /\ u.blk = s.blk
  <2>1. s.blk[s.next].next \in Pointers
    BY <1>1 DEF SchedType, BlockType
  <2> QED
    BY <1>1, <2>1 DEF Stepped, SchedType
<1>4. \A b \in Blocks : s.blk[b].live /\ u.blk[b].calls = 0 => b \in Z
  BY <1>3 DEF Orderly
<1>5. Orderly(u, Z, {}) /\ SameClients(s, u) /\ \A l \in Lists : Found(u, l) = Found(s, l)
  BY <1>2, <1>3, <1>4, OrderlyFrame
<1> QED
  BY <1>1, <1>2, <1>3, <1>5 DEF Lists

\* An assignment to calls or due of one block.
LEMMA TouchedFacts ==
    ASSUME NEW s, NEW Z, NEW Y, Orderly(s, Z, {}), NEW b \in Blocks, NEW u,
           NEW e \in BlockType, u = [s EXCEPT !.blk[b] = e],
           e.next = s.blk[b].next, e.prev = s.blk[b].prev, e.live = s.blk[b].live,
           e.enabled = s.blk[b].enabled, e.kind = s.blk[b].kind,
           s.blk[b].kind # "tim" => e.calls = s.blk[b].calls,
           Z \ {b} \subseteq Y, e.calls = 0 /\ e.live => b \in Y
    PROVE  /\ Orderly(u, Y, {}) /\ SameClients(s, u)
<1>1. s \in SchedType /\ s.next \in Found(s, "on") \cup {Null}
  BY DEF Orderly, Listed
<1> DEFINE blk == [s.blk EXCEPT ![b] = e]
<1>2. /\ blk \in [Blocks -> BlockType] /\ blk[b] = e
      /\ \A x \in Blocks \ {b} : blk[x] = s.blk[x]
  BY <1>1 DEF SchedType
<1>3. u = [s EXCEPT !.blk = blk]
  BY <1>1 DEF SchedType
<1> HIDE DEF blk
<1>4. /\ u \in SchedType /\ u.on = s.on /\ u.off = s.off /\ u.timer = s.timer
      /\ u.next = s.next /\ u.blk = blk
  BY <1>1, <1>2, <1>3 DEF SchedType
<1>5. \A x \in Blocks :
         /\ u.blk[x].next = s.blk[x].next /\ u.blk[x].prev = s.blk[x].prev
         /\ u.blk[x].live = s.blk[x].live /\ u.blk[x].enabled = s.blk[x].enabled
         /\ u.blk[x].kind = s.blk[x].kind
         /\ s.blk[x].kind # "tim" => u.blk[x].calls = s.blk[x].calls
  BY <1>2, <1>4
<1>6. \A x \in Blocks : s.blk[x].live /\ u.blk[x].calls = 0 => x \in Y
  BY <1>2, <1>4 DEF Orderly
<1> QED
  BY <1>1, <1>4, <1>5, <1>6, OrderlyFrame

LEMMA CountedFacts ==
    ASSUME NEW s, Orderly(s, {}, {}), NEW b \in Blocks, s.blk[b].kind = "tim",
           NEW u, u = Counted(s, b)
    PROVE  Orderly(u, {b}, {}) /\ SameClients(s, u)
<1>1. CASE s.blk[b].calls \in {0, Forever}
  <2>1. u = s /\ Orderly(s, {b}, {})
    BY <1>1, OrderlyMore DEF Counted
  <2> QED
    BY <2>1 DEF SameClients
<1>2. CASE s.blk[b].calls \notin {0, Forever}
  <2> DEFINE e == [s.blk[b] EXCEPT !.calls = s.blk[b].calls - 1]
  <2>1. s \in SchedType /\ s.blk[b] \in BlockType
    BY DEF Orderly, Listed, SchedType
  <2>2. s.blk[b].calls - 1 \in 0 .. Forever
    BY <1>2, <2>1 DEF BlockType, Forever
  <2>3. /\ e \in BlockType /\ e.next = s.blk[b].next /\ e.prev = s.blk[b].prev
        /\ e.live = s.blk[b].live /\ e.enabled = s.blk[b].enabled /\ e.kind = s.blk[b].kind
    BY <2>1, <2>2 DEF BlockType
  <2>4. u = [s EXCEPT !.blk[b] = e]
    BY <1>2, <2>1 DEF Counted, SchedType, BlockType
  <2> HIDE DEF e
  <2> QED
    BY <2>3, <2>4, TouchedFacts
<1> QED
  BY <1>1, <1>2

\* The timer is the last thing that is settled.
LEMMA SettledFacts ==
    ASSUME NEW t, Listed(t), t.timer, NEW u, u = Settled(t)
    PROVE  /\ Listed(u) /\ \A l \in Lists : Found(u, l) = Found(t, l)
           /\ u.blk = t.blk /\ u.next = t.next /\ (u.timer <=> u.on.length > 0)
<1>1. t \in SchedType /\ t.on.length \in Nat
  BY DEF Listed, SchedType, ListType
<1>2. CASE t.on.length = 0
  <2>1. u = [t EXCEPT !.timer = FALSE]
    BY <1>2 DEF Settled
  <2>2. /\ u \in SchedType /\ u.on = t.on /\ u.off = t.off /\ u.blk = t.blk
        /\ u.next = t.next /\ ~u.timer
    BY <1>1, <2>1 DEF SchedType
  <2> QED
    BY <1>2, <2>2, ListedFrame
<1>3. CASE t.on.length # 0
  <2>1. u = t /\ t.on.length > 0
    BY <1>1, <1>3 DEF Settled
  <2> QED
    BY <2>1
<1> QED
  BY <1>2, <1>3

\* wlan_mac_remove_schedule of what is not the schedule of the portal or the generator.
LEMMA RemoveFacts ==
    ASSUME NEW s, NEW Z, Orderly(s, Z, {}), NEW b \in Blocks,
           s.blk[b].kind \notin {"eth", "ltg"}, NEW u, u = RemoveSchedule(s, b)
    PROVE  /\ Orderly(u, Z, {}) /\ SameClients(s, u)
           /\ b \in Found(s, "on") => Orderly(u, Z \ {b}, {})
           /\ b \notin Found(u, "on")
           /\ \A x \in Blocks \ {b} : u.blk[x].kind = s.blk[x].kind
<1>1. CASE b \notin Found(s, "on")
  <2>1. u = s
    BY <1>1 DEF RemoveSchedule
  <2> QED
    BY <1>1, <2>1 DEF SameClients
<1>2. CASE b \in Found(s, "on")
  <2> DEFINE s1 == Advanced(s, b)
             s2 == Unlink(s1, "on", b)
             s3 == [s2 EXCEPT !.blk[b] = Unused]
             on == Found(s, "on") \ {b}
             off == Found(s, "off")
  <2>1. /\ s \in SchedType /\ Listed(s) /\ Found(s, "on") \subseteq Blocks /\ off \subseteq Blocks
        /\ b \notin off /\ s.blk[b].next \in on \cup {Null}
        /\ s.timer /\ s.next \in Found(s, "on") \cup {Null}
    <3>1. s["on"].length \in Nat /\ (s["on"].length = 0 <=> Found(s, "on") = {})
      BY ListedFacts DEF Orderly, Lists
    <3>2. s.on.length > 0
      BY <1>2, <3>1
    <3>3. s.timer
      BY <3>2 DEF Orderly
    <3>4. s.blk[b].next \in (Found(s, "on") \cup {Null}) \ {b}
      BY <1>2, ListedFacts DEF Orderly, Lists
    <3> QED
      BY <1>2, <3>3, <3>4, ListedFacts DEF Orderly, Listed, Lists
  <2>2. /\ s1 \in SchedType /\ s1.on = s.on /\ s1.off = s.off /\ s1.blk = s.blk
        /\ s1.timer = s.timer /\ s1.next \in on \cup {Null}
    <3>1. CASE s.next = b
      <4>1. s1 = [s EXCEPT !.next = s.blk[b].next] /\ s.blk[b].next \in Pointers
        BY <2>1, <3>1 DEF Advanced, Pointers
      <4> HIDE DEF s1
      <4> QED
        BY <2>1, <4>1 DEF SchedType
    <3>2. CASE s.next # b
      BY <2>1, <3>2 DEF Advanced
    <3> QED
      BY <3>1, <3>2
  <2> HIDE DEF s1
  <2>3. Listed(s1) /\ Found(s1, "on") = Found(s, "on") /\ Found(s1, "off") = off
    BY <2>1, <2>2, ListedFrame DEF Lists
  <2>4. /\ Listed(s2) /\ OnlyLinks(s1, s2, "on") /\ Found(s2, "on") = on
        /\ Found(s2, "off") = off
    BY <1>2, <2>3, Removed DEF Lists
  <2> HIDE DEF s2
  <2>5. /\ s2 \in SchedType /\ s2.next = s1.next /\ s2.timer = s.timer
        /\ SameSchedules(s.blk, s2.blk)
    BY <2>2, <2>4 DEF OnlyLinks
  <2>6. /\ s3 \in SchedType /\ s3.on = s2.on /\ s3.off = s2.off /\ s3.next = s1.next
        /\ s3.timer = s.timer /\ s3.blk[b] = Unused
        /\ \A x \in Blocks \ {b} : s3.blk[x] = s2.blk[x]
    <3> DEFINE blk == [s2.blk EXCEPT ![b] = Unused]
    <3>1. Unused \in BlockType
      BY DEF Unused, BlockType, Pointers, Forever
    <3>2. blk \in [Blocks -> BlockType] /\ blk[b] = Unused /\ \A x \in Blocks \ {b} : blk[x] = s2.blk[x]
      BY <2>5, <3>1 DEF SchedType
    <3>3. s3 = [s2 EXCEPT !.blk = blk]
      BY <2>5 DEF SchedType
    <3> HIDE DEF blk, s3
    <3> QED
      BY <2>5, <3>2, <3>3 DEF SchedType
  <2> HIDE DEF s3
  <2>7. Listed(s3) /\ Found(s3, "on") = on /\ Found(s3, "off") = off
    <3>1. \A x \in Found(s2, "on") \cup Found(s2, "off") :
             s3.blk[x].next = s2.blk[x].next /\ s3.blk[x].prev = s2.blk[x].prev
      BY <2>1, <2>4, <2>6
    <3> QED
      BY <2>4, <2>6, <3>1, ListedFrame DEF Lists
  <2>8. u = Settled(s3)
    BY <1>2 DEF RemoveSchedule, s1, s2, s3
  <2>9. /\ Listed(u) /\ Found(u, "on") = on /\ Found(u, "off") = off
        /\ u.blk = s3.blk /\ u.next = s1.next /\ (u.timer <=> u.on.length > 0)
    <3>1. /\ Listed(u) /\ \A l \in Lists : Found(u, l) = Found(s3, l)
          /\ u.blk = s3.blk /\ u.next = s3.next /\ (u.timer <=> u.on.length > 0)
      BY <2>1, <2>6, <2>7, <2>8, SettledFacts
    <3> QED
      BY <2>6, <2>7, <3>1 DEF Lists
  <2>10. ~u.blk[b].live
    BY <2>6, <2>9 DEF Unused
  <2>11. \A x \in Blocks \ {b} :
            /\ u.blk[x].live = s.blk[x].live /\ u.blk[x].enabled = s.blk[x].enabled
            /\ u.blk[x].kind = s.blk[x].kind /\ u.blk[x].calls = s.blk[x].calls
    BY <2>5, <2>6, <2>9 DEF SameSchedules
  <2>12. Orderly(u, Z \ {b}, {})
    <3>1. \A x \in on : u.blk[x].live /\ u.blk[x].enabled
      BY <2>1, <2>11 DEF Orderly
    <3>2. \A x \in off : u.blk[x].live /\ ~u.blk[x].enabled /\ u.blk[x].kind = "eth"
      BY <2>1, <2>11 DEF Orderly
    <3>3. \A x \in Blocks : u.blk[x].live =>
            /\ x \in on \cup off
            /\ u.blk[x].kind # "tim" => u.blk[x].calls = Forever
            /\ u.blk[x].calls = 0 => x \in Z \ {b}
      BY <2>10, <2>11 DEF Orderly
    <3>4. u.next \in on \cup {Null}
      BY <2>2, <2>9
    <3> QED
      BY <2>9, <3>1, <3>2, <3>3, <3>4 DEF Orderly
  <2>13. SameClients(s, u)
    <3>1. b \notin Clients(s, "eth") /\ b \notin Clients(s, "ltg")
      BY DEF Clients
    <3>2. Clients(u, "eth") = Clients(s, "eth") /\ Clients(s, "ltg") \subseteq Clients(u, "ltg")
      BY <2>10, <2>11, <3>1 DEF Clients
    <3> QED
      BY <2>9, <3>1, <3>2 DEF SameClients, Lists
  <2>14. b \notin Found(u, "on")
    BY <2>9
  <2> QED
    BY <2>11, <2>12, <2>13, <2>14, OrderlyMore
<1> QED
  BY <1>1, <1>2

\* The other blocks keep their callbacks.
LEMMA RemoveKinds ==
    ASSUME NEW s, Orderly(s, {}, {}), NEW b \in Blocks,
           s.blk[b].kind \notin {"eth", "ltg"}, NEW u, u = RemoveSchedule(s, b)
    PROVE  \A x \in Blocks \ {b} : u.blk[x].kind = s.blk[x].kind
  BY RemoveFacts

\* The portal disables its schedule, which the handler has left behind.
LEMMA DisableFacts ==
    ASSUME NEW s, NEW Z, Orderly(s, Z, {}), NEW b \in Found(s, "on"), b # s.next,
           s.blk[b].kind = "eth", NEW u, u = Disable(s, b)
    PROVE  /\ Orderly(u, Z, {}) /\ CanDisable(s, b)
           /\ \A k : Clients(u, k) = Clients(s, k)
           /\ Found(u, "on") = Found(s, "on") \ {b} /\ Found(u, "off") = Found(s, "off") \cup {b}
<1> DEFINE s1 == Unlink(s, "on", b)
           s2 == InsertEnd(s1, "off", b)
           s3 == [s2 EXCEPT !.blk[b].enabled = FALSE]
           on == Found(s, "on") \ {b}
           off == Found(s, "off") \cup {b}
<1>1. /\ Listed(s) /\ Found(s, "on") \subseteq Blocks /\ Found(s, "off") \subseteq Blocks
      /\ b \in Blocks /\ b \notin Found(s, "off") /\ s.blk[b].live /\ s.blk[b].calls = Forever
      /\ s.next \in on \cup {Null}
  BY ListedFacts DEF Orderly, Listed, Lists
<1>2. s.timer
  <2>1. s["on"].length \in Nat /\ (s["on"].length = 0 <=> Found(s, "on") = {})
    BY <1>1, ListedFacts DEF Lists
  <2>2. s.on.length > 0
    BY <2>1
  <2> QED
    BY <2>2 DEF Orderly
<1>3. CanDisable(s, b)
  BY <1>1 DEF CanDisable, Forever
<1>4. /\ Listed(s1) /\ OnlyLinks(s, s1, "on") /\ Found(s1, "on") = on
      /\ Found(s1, "off") = Found(s, "off")
  BY <1>1, Removed DEF Lists
<1> HIDE DEF s1
<1>5. /\ Listed(s2) /\ OnlyLinks(s1, s2, "off") /\ Found(s2, "off") = off /\ Found(s2, "on") = on
  BY <1>1, <1>4, InsertedLast DEF Lists
<1> HIDE DEF s2
<1>6. s2 \in SchedType /\ s2.next = s.next /\ s2.timer = s.timer /\ SameSchedules(s.blk, s2.blk)
  BY <1>4, <1>5 DEF OnlyLinks, SameSchedules
<1>7. /\ s3 \in SchedType /\ s3.on = s2.on /\ s3.off = s2.off /\ s3.next = s.next
      /\ s3.timer = s.timer /\ ~s3.blk[b].enabled
      /\ \A x \in Blocks :
            /\ s3.blk[x].next = s2.blk[x].next /\ s3.blk[x].prev = s2.blk[x].prev
            /\ s3.blk[x].live = s2.blk[x].live /\ s3.blk[x].kind = s2.blk[x].kind
            /\ s3.blk[x].calls = s2.blk[x].calls
            /\ x # b => s3.blk[x].enabled = s2.blk[x].enabled
  <2> DEFINE blk == [s2.blk EXCEPT ![b].enabled = FALSE]
  <2>1. /\ blk \in [Blocks -> BlockType] /\ ~blk[b].enabled
        /\ \A x \in Blocks :
              /\ blk[x].next = s2.blk[x].next /\ blk[x].prev = s2.blk[x].prev
              /\ blk[x].live = s2.blk[x].live /\ blk[x].kind = s2.blk[x].kind
              /\ blk[x].calls = s2.blk[x].calls
              /\ x # b => blk[x].enabled = s2.blk[x].enabled
    <3> DEFINE e == [s2.blk[b] EXCEPT !.enabled = FALSE]
    <3>1. s2.blk \in [Blocks -> BlockType] /\ s2.blk[b] \in BlockType
      BY <1>1, <1>6 DEF SchedType
    <3>2. /\ e \in BlockType /\ ~e.enabled
          /\ e.next = s2.blk[b].next /\ e.prev = s2.blk[b].prev /\ e.live = s2.blk[b].live
          /\ e.kind = s2.blk[b].kind /\ e.calls = s2.blk[b].calls
      BY <3>1 DEF BlockType
    <3>3. blk = [s2.blk EXCEPT ![b] = e]
      BY <3>1
    <3> HIDE DEF e, blk
    <3> QED
      BY <1>1, <3>1, <3>2, <3>3
  <2>2. s3 = [s2 EXCEPT !.blk = blk]
    BY <1>6 DEF SchedType
  <2> HIDE DEF blk, s3
  <2>3. /\ s3 \in SchedType /\ s3.on = s2.on /\ s3.off = s2.off /\ s3.next = s2.next
        /\ s3.timer = s2.timer /\ s3.blk = blk
    BY <1>6, <2>1, <2>2 DEF SchedType
  <2> QED
    BY <1>6, <2>1, <2>3
<1> HIDE DEF s3
<1>8. Listed(s3) /\ Found(s3, "on") = on /\ Found(s3, "off") = off
  <2>1. on \subseteq Blocks /\ off \subseteq Blocks
    BY <1>1
  <2> QED
    BY <1>5, <1>7, <2>1, ListedFrame DEF Lists
<1>9. u = Settled(s3)
  BY <1>3 DEF Disable, s1, s2, s3
<1>10. /\ Listed(u) /\ Found(u, "on") = on /\ Found(u, "off") = off
       /\ u.blk = s3.blk /\ u.next = s.next /\ (u.timer <=> u.on.length > 0)
  <2>1. /\ Listed(u) /\ \A l \in Lists : Found(u, l) = Found(s3, l)
        /\ u.blk = s3.blk /\ u.next = s3.next /\ (u.timer <=> u.on.length > 0)
    BY <1>2, <1>7, <1>8, <1>9, SettledFacts
  <2> QED
    BY <1>7, <1>8, <2>1 DEF Lists
<1>11. \A x \in Blocks :
          /\ u.blk[x].live = s.blk[x].live /\ u.blk[x].kind = s.blk[x].kind
          /\ u.blk[x].calls = s.blk[x].calls
          /\ x # b => u.blk[x].enabled = s.blk[x].enabled
  BY <1>6, <1>7, <1>10 DEF SameSchedules
<1>12. \A k : Clients(u, k) = Clients(s, k)
  BY <1>11 DEF Clients
<1>13. Orderly(u, Z, {})
  <2>1. \A x \in on : u.blk[x].live /\ u.blk[x].enabled
    BY <1>1, <1>11 DEF Orderly
  <2>2. ~u.blk[b].enabled
    BY <1>7, <1>10
  <2>3. \A x \in off : u.blk[x].live /\ ~u.blk[x].enabled /\ u.blk[x].kind = "eth"
    BY <1>1, <1>11, <2>2 DEF Orderly
  <2>4. \A x \in Blocks : u.blk[x].live =>
          /\ x \in on \cup off
          /\ u.blk[x].kind # "tim" => u.blk[x].calls = Forever
          /\ u.blk[x].calls = 0 => x \in Z
    BY <1>11 DEF Orderly
  <2> QED
    BY <1>1, <1>10, <2>1, <2>3, <2>4 DEF Orderly
<1> QED
  BY <1>3, <1>10, <1>12, <1>13

\* It enables it again.
LEMMA EnableFacts ==
    ASSUME NEW s, NEW Z, Orderly(s, Z, {}), NEW b \in Found(s, "off"), NEW u, u = Enable(s, b)
    PROVE  /\ Orderly(u, Z, {})
           /\ \A k : Clients(u, k) = Clients(s, k)
           /\ Found(u, "on") = Found(s, "on") \cup {b} /\ Found(u, "off") = Found(s, "off") \ {b}
<1> DEFINE s1 == Unlink(s, "off", b)
           t == InsertEnd(s1, "on", b)
           on == Found(s, "on") \cup {b}
           off == Found(s, "off") \ {b}
<1>1. /\ Listed(s) /\ Found(s, "on") \subseteq Blocks /\ Found(s, "off") \subseteq Blocks
      /\ b \in Blocks /\ b \notin Found(s, "on") /\ s.blk[b].live
      /\ s.next \in on \cup {Null} /\ (s.timer <=> s.on.length > 0)
  BY ListedFacts DEF Orderly, Listed, Lists
<1>2. /\ Listed(s1) /\ OnlyLinks(s, s1, "off") /\ Found(s1, "off") = off
      /\ Found(s1, "on") = Found(s, "on") /\ s1.on = s.on
  <2>1. "on" \in Lists \ {"off"} /\ "off" \in Lists
    BY DEF Lists
  <2>2. /\ Listed(s1) /\ OnlyLinks(s, s1, "off") /\ Found(s1, "off") = off
        /\ Found(s1, "on") = Found(s, "on")
    BY <1>1, <2>1, Removed
  <2>3. s1["on"] = s["on"]
    BY <2>1, <2>2 DEF OnlyLinks
  <2> QED
    BY <2>2, <2>3
<1> HIDE DEF s1
<1>3. /\ Listed(t) /\ OnlyLinks(s1, t, "on") /\ Found(t, "on") = on /\ Found(t, "off") = off
  BY <1>1, <1>2, InsertedLast DEF Lists
<1>4. t.on.length = s.on.length + 1 /\ s.on.length \in Nat
  <2>1. /\ s1 \in SchedType /\ s1["on"].last # b
        /\ s1["on"].last # Null => s1.blk[s1["on"].last].next = Null
        /\ s1["on"].last = Null => s1["on"].first = Null
        /\ s1["on"].length \in Nat
    <3>1. b # Null
      BY <1>1, ScheduleAssumption
    <3> QED
      BY <1>1, <1>2, <3>1, ListedFacts DEF Lists, Listed
  <2>2. t["on"].length = s1["on"].length + 1
    BY <1>1, <2>1, LastFields DEF Lists
  <2> QED
    BY <1>2, <2>1, <2>2
<1> HIDE DEF t
<1>5. t \in SchedType /\ t.next = s.next /\ t.timer = s.timer /\ SameSchedules(s.blk, t.blk)
  BY <1>2, <1>3 DEF OnlyLinks, SameSchedules
<1>6. /\ u \in SchedType /\ u.on = t.on /\ u.off = t.off /\ u.next = s.next
      /\ u.timer <=> (s.timer \/ t.on.length = 1)
      /\ u.blk[b].enabled
      /\ \A x \in Blocks :
            /\ u.blk[x].next = t.blk[x].next /\ u.blk[x].prev = t.blk[x].prev
            /\ u.blk[x].live = t.blk[x].live /\ u.blk[x].kind = t.blk[x].kind
            /\ u.blk[x].calls = t.blk[x].calls
            /\ x # b => u.blk[x].enabled = t.blk[x].enabled
  <2> DEFINE blk == [t.blk EXCEPT ![b].enabled = TRUE, ![b].due = "maybe"]
             timer1 == t.timer \/ t.on.length = 1
  <2>0. t.blk \in [Blocks -> BlockType]
    BY <1>5 DEF SchedType
  <2>1. timer1 \in BOOLEAN
    BY <1>5 DEF SchedType
  <2>2. /\ blk \in [Blocks -> BlockType] /\ blk[b].enabled
        /\ \A x \in Blocks :
              /\ blk[x].next = t.blk[x].next /\ blk[x].prev = t.blk[x].prev
              /\ blk[x].live = t.blk[x].live /\ blk[x].kind = t.blk[x].kind
              /\ blk[x].calls = t.blk[x].calls
              /\ x # b => blk[x].enabled = t.blk[x].enabled
    <3> DEFINE e == [t.blk[b] EXCEPT !.enabled = TRUE, !.due = "maybe"]
    <3>1. t.blk[b] \in BlockType
      BY <1>1, <2>0
    <3>2. /\ e \in BlockType /\ e.enabled
          /\ e.next = t.blk[b].next /\ e.prev = t.blk[b].prev /\ e.live = t.blk[b].live
          /\ e.kind = t.blk[b].kind /\ e.calls = t.blk[b].calls
      BY <3>1 DEF BlockType
    <3>3. blk = [t.blk EXCEPT ![b] = e]
      BY <1>1, <2>0
    <3> HIDE DEF e, blk
    <3> QED
      BY <1>1, <2>0, <3>2, <3>3
  <2>3. u = [t EXCEPT !.blk = blk, !.timer = timer1]
    <3>1. u = [t EXCEPT !.blk[b].enabled = TRUE, !.blk[b].due = "maybe",
                        !.timer = @ \/ t.on.length = 1]
      BY DEF Enable, s1, t
    <3> QED
      BY <1>5, <3>1 DEF SchedType
  <2> HIDE DEF blk, timer1
  <2>4. /\ u \in SchedType /\ u.on = t.on /\ u.off = t.off /\ u.next = t.next
        /\ u.timer = timer1 /\ u.blk = blk
    BY <1>5, <2>1, <2>2, <2>3 DEF SchedType
  <2>5. timer1 <=> (s.timer \/ t.on.length = 1)
    BY <1>5 DEF timer1
  <2> QED
    BY <1>5, <2>2, <2>4, <2>5
<1>7. Listed(u) /\ Found(u, "on") = on /\ Found(u, "off") = off
  <2>1. on \subseteq Blocks /\ off \subseteq Blocks
    BY <1>1
  <2> QED
    BY <1>3, <1>6, <2>1, ListedFrame DEF Lists
<1>8. u.timer <=> u.on.length > 0
  <2>1. u.on.length = s.on.length + 1
    BY <1>4, <1>6
  <2>2. CASE s.on.length = 0
    BY <1>4, <1>6, <2>1, <2>2
  <2>3. CASE s.on.length > 0
    BY <1>1, <1>4, <1>6, <2>1, <2>3
  <2> QED
    BY <1>4, <2>2, <2>3
<1>9. \A x \in Blocks :
          /\ u.blk[x].live = s.blk[x].live /\ u.blk[x].kind = s.blk[x].kind
          /\ u.blk[x].calls = s.blk[x].calls
          /\ x # b => u.blk[x].enabled = s.blk[x].enabled
  BY <1>5, <1>6 DEF SameSchedules
<1>10. \A k : Clients(u, k) = Clients(s, k)
  BY <1>9 DEF Clients
<1>11. Orderly(u, Z, {})
  <2>1. \A x \in on : u.blk[x].live /\ u.blk[x].enabled
    BY <1>1, <1>6, <1>9 DEF Orderly
  <2>2. \A x \in off : u.blk[x].live /\ ~u.blk[x].enabled /\ u.blk[x].kind = "eth"
    BY <1>1, <1>9 DEF Orderly
  <2>3. \A x \in Blocks : u.blk[x].live =>
          /\ x \in on \cup off
          /\ u.blk[x].kind # "tim" => u.blk[x].calls = Forever
          /\ u.blk[x].calls = 0 => x \in Z
    BY <1>9 DEF Orderly
  <2> QED
    BY <1>1, <1>6, <1>7, <1>8, <2>1, <2>2, <2>3 DEF Orderly
<1> QED
  BY <1>7, <1>10, <1>11

\* The end of an iteration leaves no finished schedule behind.
LEMMA FinishedFacts ==
    ASSUME NEW s, NEW b \in Blocks, Orderly(s, {b}, {}), NEW delayed,
           NEW u, u = Finished(s, b, delayed)
    PROVE  Orderly(u, {}, {}) /\ SameClients(s, u)
<1>1. /\ s \in SchedType /\ s.blk[b] \in BlockType
      /\ b \in Found(s, "on") => s.blk[b].live /\ s.blk[b].enabled
      /\ b \in Found(s, "off") => s.blk[b].kind = "eth"
      /\ s.blk[b].live => b \in Found(s, "on") \cup Found(s, "off")
      /\ s.blk[b].live /\ s.blk[b].kind # "tim" => s.blk[b].calls = Forever
  BY DEF Orderly, Listed, SchedType
<1>2. ASSUME s.blk[b].calls # 0 \/ ~s.blk[b].live PROVE Orderly(s, {}, {})
  BY <1>2 DEF Orderly
<1>3. CASE ~s.blk[b].enabled
  <2>1. u = s
    BY <1>3 DEF Finished
  <2>2. s.blk[b].live => s.blk[b].calls = Forever /\ s.blk[b].calls # 0
    BY <1>1, <1>3 DEF Forever
  <2> QED
    BY <1>2, <2>1, <2>2 DEF SameClients
<1>4. CASE s.blk[b].enabled /\ s.blk[b].calls = 0
  <2>1. u = RemoveSchedule(s, b)
    BY <1>4 DEF Finished
  <2>2. CASE b \in Found(s, "on")
    <3>1. s.blk[b].kind = "tim"
      BY <1>1, <1>4, <2>2 DEF Forever
    <3>2. Orderly(u, {b} \ {b}, {}) /\ SameClients(s, u)
      BY <2>1, <2>2, <3>1, RemoveFacts
    <3>3. {b} \ {b} = {}
      OBVIOUS
    <3> QED
      BY <3>2, <3>3
  <2>3. CASE b \notin Found(s, "on")
    <3>1. u = s
      BY <2>1, <2>3 DEF RemoveSchedule
    <3>2. ~s.blk[b].live
      BY <1>1, <1>4, <2>3 DEF Forever
    <3> QED
      BY <1>2, <3>1, <3>2 DEF SameClients
  <2> QED
    BY <2>2, <2>3
<1>5. CASE s.blk[b].enabled /\ s.blk[b].calls # 0
  <2> DEFINE due == IF delayed THEN "no" ELSE "yes"
             e == [s.blk[b] EXCEPT !.due = due]
  <2>1. due \in {"no", "maybe", "yes"}
    OBVIOUS
  <2>2. u = [s EXCEPT !.blk[b] = e]
    BY <1>1, <1>5 DEF Finished, SchedType
  <2> HIDE DEF due
  <2>3. /\ e \in BlockType /\ e.next = s.blk[b].next /\ e.prev = s.blk[b].prev
        /\ e.live = s.blk[b].live /\ e.enabled = s.blk[b].enabled /\ e.kind = s.blk[b].kind
        /\ e.calls = s.blk[b].calls
    BY <1>1, <2>1 DEF BlockType
  <2> HIDE DEF e
  <2>4. Orderly(s, {}, {})
    BY <1>2, <1>5
  <2>5. {} \ {b} \subseteq {} /\ e.calls # 0
    BY <1>5, <2>3
  <2> QED
    BY <2>2, <2>3, <2>4, <2>5, TouchedFacts
<1> QED
  BY <1>3, <1>4, <1>5

\* The target of a schedule is moved, whatever it is.
LEMMA MovedFacts ==
    ASSUME NEW s, NEW b \in Blocks, NEW Z, Orderly(s, Z, {}), NEW u,
           u = [s EXCEPT !.blk[b].due = "no"]
    PROVE  Orderly(u, Z, {}) /\ SameClients(s, u)
<1> DEFINE e == [s.blk[b] EXCEPT !.due = "no"]
<1>1. s \in SchedType /\ s.blk[b] \in BlockType
  BY DEF Orderly, Listed, SchedType
<1>2. /\ e \in BlockType /\ e.next = s.blk[b].next /\ e.prev = s.blk[b].prev
      /\ e.live = s.blk[b].live /\ e.enabled = s.blk[b].enabled /\ e.kind = s.blk[b].kind
      /\ e.calls = s.blk[b].calls
  BY <1>1 DEF BlockType
<1>3. u = [s EXCEPT !.blk[b] = e]
  BY <1>1 DEF SchedType
<1> HIDE DEF e
<1>4. e.calls = 0 /\ e.live => b \in Z
  BY <1>2 DEF Orderly
<1> QED
  BY <1>2, <1>3, <1>4, TouchedFacts

\* Polling the transmit queues may add an update of the TIM.
LEMMA PolledFacts ==
    ASSUME NEW s, NEW Z, Orderly(s, Z, {}), NEW u \in Polled(s)
    PROVE  Orderly(u, Z, {}) /\ SameClients(s, u)
<1>1. CASE u = s
  BY <1>1 DEF SameClients
<1>2. CASE u # s
  <2>1. PICK new \in Free(s) : u = Create(s, new, "tim", 1, TRUE)
    BY <1>2 DEF Polled
  <2>2. "tim" \in Kinds /\ 1 \in {1, Forever}
    BY EthRxAssumption
  <2>3. Orderly(u, Z, {}) /\ Created(s, u, new, "tim")
    BY <2>1, <2>2, CreateFacts
  <2> QED
    BY <2>3 DEF Created
<1> QED
  BY <1>1, <1>2

-----------------------------------------------------------------------------
(* The inductive invariant.                                                *)

\* The schedule that may have finished, and the one that is not in a list yet.
Waiting == IF isr.pc = "after" /\ ~isr.freed THEN {isr.curr} ELSE {}
Inserting == IF main.pc = "insert" THEN {main.new} ELSE {}

\* The schedule of the portal is enabled while the interrupt is not.
Owned(s, free, entry) ==
    \/ Clients(s, "eth") = {} /\ entry = Null /\ free
    \/ \E x \in Blocks :
          /\ Clients(s, "eth") = {x}
          /\ free => x \in Found(s, "off") /\ entry = x
          /\ ~free => x \in Found(s, "on") /\ entry \in {Null, x}

SchedInv ==
    /\ isr \in [pc : {"none", "walk", "after"}, curr : Pointers, freed : BOOLEAN]
    /\ main \in [pc : {"idle", "insert"}, new : Pointers, first : Pointers]
    /\ rxEntry \in Pointers
    /\ Orderly(sched, Waiting, Inserting)
    /\ Owned(sched, irq, rxEntry)
    /\ isr.pc = "after" => isr.curr \in Blocks
    /\ main.pc = "insert" =>
          /\ isr.pc = "none" /\ main.new \in Blocks /\ main.first = sched.on.first
          /\ sched.blk[main.new].kind \in {"ltg", "join"}

\* Descriptors and entries of the queues are conserved; what waits is known.
RingInv ==
    /\ ring \in RingType /\ ring.hw + ring.filled + ring.taken + ring.free = NumBds
    /\ irq \in BOOLEAN /\ pending \in BOOLEAN /\ pool \in Nat /\ queued \in Nat
    /\ pool + queued + NumBds - ring.free = NumBds + Spare
    /\ irq <=> ring.taken = 0
    /\ ring.filled > 0 => pending
    /\ ring.free > 0 => pool = 0

LtgInv ==
    /\ tgs \in [Ltgs -> {"none", "stopped", "started"}] /\ running \in BOOLEAN
    /\ \A g \in Ltgs : tgs[g] = "started" => running
    /\ running => Clients(sched, "ltg") # {}

Intact == SchedInv /\ RingInv /\ LtgInv

\* The lists and their clients until an interrupt tears an insertion, the ring always.
EthInv ==
    /\ torn \in BOOLEAN
    /\ RingInv
    /\ ~torn => Intact

LEMMA OwnedSame ==
    ASSUME NEW s, NEW u, SameClients(s, u), NEW free, NEW entry, Owned(s, free, entry)
    PROVE  Owned(u, free, entry)
<1>1. CASE Clients(s, "eth") = {} /\ entry = Null /\ free
  BY <1>1 DEF Owned, SameClients
<1>2. CASE \E x \in Blocks :
              /\ Clients(s, "eth") = {x}
              /\ free => x \in Found(s, "off") /\ entry = x
              /\ ~free => x \in Found(s, "on") /\ entry \in {Null, x}
  <2>1. PICK x \in Blocks :
              /\ Clients(s, "eth") = {x}
              /\ free => x \in Found(s, "off") /\ entry = x
              /\ ~free => x \in Found(s, "on") /\ entry \in {Null, x}
    BY <1>2
  <2>2. /\ x \in Found(u, "on") <=> x \in Found(s, "on")
        /\ x \in Found(u, "off") <=> x \in Found(s, "off")
    BY <2>1 DEF SameClients, Lists
  <2>3. Clients(u, "eth") = {x}
    BY <2>1 DEF SameClients
  <2> QED
    BY <2>1, <2>2, <2>3 DEF Owned
<1> QED
  BY <1>1, <1>2 DEF Owned

\* What the scheduler is when nothing is being inserted.
LEMMA SchedNow ==
    ASSUME SchedInv
    PROVE  /\ isr.pc # "none" => main.pc = "idle"
           /\ main.pc = "idle" => Orderly(sched, Waiting, {})
           /\ isr.pc # "after" => Waiting = {}
           /\ sched.next # Null => sched.next \in Found(sched, "on") /\ sched.next \in Blocks
<1>1. Found(sched, "on") \subseteq Blocks /\ sched.next \in Found(sched, "on") \cup {Null}
  BY ListedFacts DEF SchedInv, Orderly, Lists
<1> QED
  BY <1>1 DEF SchedInv, Waiting, Inserting

\* A step that leaves the insertion of the main loop alone.
LEMMA SchedStep ==
    ASSUME SchedInv, main.pc = "idle", main' = main, rxEntry' \in Pointers,
           isr' \in [pc : {"none", "walk", "after"}, curr : Pointers, freed : BOOLEAN],
           isr'.pc = "after" => isr'.curr \in Blocks,
           NEW Z, Orderly(sched', Z, {}), Z \subseteq Waiting',
           Owned(sched', irq', rxEntry')
    PROVE  SchedInv'
<1>1. Orderly(sched', Waiting', {})
  BY OrderlyMore
<1>2. Inserting' = {}
  BY DEF Inserting
<1> QED
  BY <1>1, <1>2 DEF SchedInv

\* The processing of taken descriptors ends with the interrupt or the schedule enabled.
LEMMA ProcessEndFacts ==
    ASSUME NEW s, NEW Z, Orderly(s, Z, {}), NEW entry, Owned(s, TRUE, entry), NEW left,
           ProcessEnd(s, left, entry)
    PROVE  /\ Orderly(sched', Z, {}) /\ Owned(sched', irq', entry)
           /\ irq' \in BOOLEAN /\ (irq' <=> left = 0)
           /\ Clients(s, "ltg") \subseteq Clients(sched', "ltg")
<1>1. CASE left = 0
  <2>1. sched' = s /\ irq' = TRUE
    BY <1>1 DEF ProcessEnd
  <2> QED
    BY <1>1, <2>1
<1>2. CASE left # 0 /\ entry = Null
  <2>1. irq' = FALSE
    BY <1>2 DEF ProcessEnd
  <2>2. PICK new \in Free(s) : sched' = Create(s, new, "eth", Forever, FALSE)
    BY <1>2 DEF ProcessEnd
  <2>3. "eth" \in Kinds /\ Forever \in {1, Forever}
    BY EthRxAssumption
  <2>4. Orderly(sched', Z, {}) /\ Created(s, sched', new, "eth")
    BY <2>2, <2>3, CreateFacts
  <2>5. Clients(s, "eth") = {}
    BY <1>2, ScheduleAssumption DEF Owned
  <2>6. new \in Blocks /\ Clients(sched', "eth") = {new} /\ new \in Found(sched', "on")
    BY <2>4, <2>5 DEF Created, Free
  <2>7. Owned(sched', irq', entry)
    BY <1>2, <2>1, <2>6 DEF Owned
  <2>8. Clients(sched', "ltg") = Clients(s, "ltg")
    BY <2>4 DEF Created
  <2> QED
    BY <1>2, <2>1, <2>4, <2>7, <2>8
<1>3. CASE left # 0 /\ entry # Null
  <2>1. irq' = FALSE /\ sched' = Enable(s, entry)
    BY <1>3 DEF ProcessEnd
  <2>2. entry \in Blocks /\ Clients(s, "eth") = {entry} /\ entry \in Found(s, "off")
    BY <1>3 DEF Owned
  <2>3. /\ Orderly(sched', Z, {})
        /\ \A k : Clients(sched', k) = Clients(s, k)
        /\ Found(sched', "on") = Found(s, "on") \cup {entry}
    BY <2>1, <2>2, EnableFacts
  <2>4. Owned(sched', irq', entry)
    BY <2>1, <2>2, <2>3 DEF Owned
  <2> QED
    BY <1>3, <2>1, <2>3, <2>4
<1> QED
  BY <1>1, <1>2, <1>3

\* A step whose schedules keep their clients keeps the generators served.
LEMMA LtgStep ==
    ASSUME LtgInv, running' = running, Clients(sched, "ltg") \subseteq Clients(sched', "ltg"),
           tgs' \in [Ltgs -> {"none", "stopped", "started"}],
           \A g \in Ltgs : tgs'[g] = "started" => tgs[g] = "started"
    PROVE  LtgInv'
  BY DEF LtgInv

-----------------------------------------------------------------------------
(* The descriptors.                                                        *)

LEMMA DmaUpdateFacts ==
    ASSUME NEW r \in RingType, NEW entries \in Nat, DmaUpdate(r, entries),
           r.hw + r.filled + r.taken + r.free = NumBds
    PROVE  /\ ring' \in RingType
           /\ ring'.hw + ring'.filled + ring'.taken + ring'.free = NumBds
           /\ ring'.filled = r.filled /\ ring'.taken = r.taken
           /\ pool' \in Nat /\ pool' - ring'.free = entries - r.free
           /\ ring'.free > 0 => pool' = 0
<1> DEFINE n == Smaller(r.free, entries)
<1>1. /\ NumBds \in Nat /\ r.hw \in 0 .. NumBds /\ r.filled \in 0 .. NumBds
      /\ r.taken \in 0 .. NumBds /\ r.free \in 0 .. NumBds
  BY EthRxAssumption DEF RingType
<1>2. n \in Nat /\ n <= r.free /\ n <= entries /\ (n = r.free \/ n = entries)
  BY <1>1 DEF Smaller
<1>3. ring' = [r EXCEPT !.free = r.free - n, !.hw = r.hw + n] /\ pool' = entries - n
  BY DEF DmaUpdate
<1> HIDE DEF n
<1>4. /\ ring'.free = r.free - n /\ ring'.hw = r.hw + n
      /\ ring'.filled = r.filled /\ ring'.taken = r.taken
      /\ ring' = [hw |-> r.hw + n, filled |-> r.filled, taken |-> r.taken, free |-> r.free - n]
  BY <1>3 DEF RingType
<1>5. r.free - n \in 0 .. NumBds /\ r.hw + n \in 0 .. NumBds
  BY <1>1, <1>2
<1>6. ring' \in RingType
  BY <1>1, <1>4, <1>5 DEF RingType
<1> QED
  BY <1>1, <1>2, <1>3, <1>4, <1>6

\* The descriptors and the entries are conserved when processed frames are checked in.
LEMMA ProcessFacts ==
    ASSUME RingInv, NEW k \in 0 .. NumBds, NEW j \in 0 .. NumBds,
           NEW r \in RingType, Process(r, k, j), r.free = ring.free,
           r.hw + r.filled + r.taken + r.free = NumBds
    PROVE  /\ ring' \in RingType
           /\ ring'.hw + ring'.filled + ring'.taken + ring'.free = NumBds
           /\ ring'.filled = r.filled /\ ring'.taken = r.taken - k
           /\ pool' \in Nat /\ queued' \in Nat
           /\ pool' + queued' + NumBds - ring'.free = NumBds + Spare
           /\ ring'.free > 0 => pool' = 0
<1> DEFINE c == [r EXCEPT !.taken = r.taken - k, !.free = r.free + k]
<1>1. /\ NumBds \in Nat /\ Spare \in Nat /\ r.hw \in 0 .. NumBds /\ r.filled \in 0 .. NumBds
      /\ r.taken \in 0 .. NumBds /\ r.free \in 0 .. NumBds
  BY EthRxAssumption DEF RingType
<1>2. /\ j <= k /\ k <= r.taken /\ DmaUpdate(c, pool + k - j) /\ queued' = queued + j
  BY DEF Process
<1>3. /\ c.taken = r.taken - k /\ c.free = r.free + k /\ c.hw = r.hw /\ c.filled = r.filled
  BY DEF RingType
<1>4. r.taken - k \in 0 .. NumBds /\ r.free + k \in 0 .. NumBds
  BY <1>1, <1>2
<1>5. c \in RingType /\ c.hw + c.filled + c.taken + c.free = NumBds
  <2>1. c \in RingType
    BY <1>4 DEF RingType
  <2> QED
    BY <1>1, <1>3, <2>1
<1>6. /\ pool \in Nat /\ queued \in Nat /\ ring.free \in 0 .. NumBds
      /\ pool + queued + NumBds - ring.free = NumBds + Spare
  BY DEF RingInv, RingType
<1>7. pool + k - j \in Nat
  BY <1>2, <1>6
<1> HIDE DEF c
<1> DEFINE entries == pool + k - j
<1>a. entries \in Nat /\ DmaUpdate(c, entries)
  BY <1>2, <1>7
<1> HIDE DEF entries
<1>8. /\ ring' \in RingType
      /\ ring'.hw + ring'.filled + ring'.taken + ring'.free = NumBds
      /\ ring'.filled = c.filled /\ ring'.taken = c.taken
      /\ pool' \in Nat /\ pool' - ring'.free = entries - c.free
      /\ ring'.free > 0 => pool' = 0
  BY <1>5, <1>a, DmaUpdateFacts
<1>9. ring'.free \in 0 .. NumBds
  BY <1>8 DEF RingType
<1>10. queued' \in Nat /\ pool' + queued' + NumBds - ring'.free = NumBds + Spare
  <2> DEFINE f == ring'.free
             g == ring.free
             p == pool'
             q == queued'
  <2>1. p - f = entries - c.free /\ c.free = g + k /\ q = queued + j
    BY <1>2, <1>3, <1>8
  <2>2. /\ k \in Nat /\ j \in Nat /\ g \in Nat /\ f \in Nat /\ NumBds \in Nat /\ Spare \in Nat
        /\ p \in Nat /\ pool \in Nat /\ queued \in Nat
        /\ pool + queued + NumBds - g = NumBds + Spare
    BY <1>1, <1>6, <1>8, <1>9
  <2> HIDE DEF f, g, p, q
  <2>3. p - f = pool + k - j - (g + k)
    BY <2>1, <2>2 DEF entries
  <2>4. q \in Nat /\ p + q + NumBds - f = NumBds + Spare
    BY <2>1, <2>2, <2>3
  <2> QED
    BY <2>4 DEF f, p, q
<1> QED
  BY <1>3, <1>8, <1>10

\* An entry moves between the free queue and the transmit queues.
LEMMA EnqueuedFacts ==
    ASSUME RingInv, Enqueued, irq' = irq, pending' = pending
    PROVE  RingInv'
<1>1. /\ pool > 0 /\ pool' = pool - 1 /\ queued' = queued + 1 /\ ring' = ring
  BY DEF Enqueued
<1>2. /\ NumBds \in Nat /\ Spare \in Nat /\ pool \in Nat /\ queued \in Nat
      /\ ring.free \in 0 .. NumBds /\ pool + queued + NumBds - ring.free = NumBds + Spare
  BY EthRxAssumption DEF RingInv, RingType
<1>3. /\ pool' \in Nat /\ queued' \in Nat
      /\ pool' + queued' + NumBds - ring'.free = NumBds + Spare
  BY <1>1, <1>2
<1>4. ~(ring.free > 0)
  BY <1>1, <1>2 DEF RingInv
<1> QED
  BY <1>1, <1>3, <1>4 DEF RingInv

\* Steps that touch neither descriptors nor queues.
LEMMA RingFrame ==
    ASSUME RingInv, UNCHANGED <<ring, irq, pending, pool, queued>>
    PROVE  RingInv'
  BY DEF RingInv

\* The hardware fills a descriptor.
LEMMA ReceiveRing ==
    ASSUME RingInv, Receive
    PROVE  RingInv'
<1>1. /\ ring' = [ring EXCEPT !.hw = ring.hw - 1, !.filled = ring.filled + 1]
      /\ pending' = TRUE /\ ring.hw > 0 /\ UNCHANGED <<irq, pool, queued>>
  BY DEF Receive
<1>2. /\ NumBds \in Nat /\ ring.hw \in 0 .. NumBds /\ ring.filled \in 0 .. NumBds
      /\ ring.taken \in 0 .. NumBds /\ ring.free \in 0 .. NumBds
      /\ ring.hw + ring.filled + ring.taken + ring.free = NumBds /\ ring \in RingType
  BY EthRxAssumption DEF RingInv, RingType
<1>3. /\ ring'.hw = ring.hw - 1 /\ ring'.filled = ring.filled + 1
      /\ ring'.taken = ring.taken /\ ring'.free = ring.free
      /\ ring' = [hw |-> ring.hw - 1, filled |-> ring.filled + 1,
                  taken |-> ring.taken, free |-> ring.free]
  BY <1>1, <1>2 DEF RingType
<1>4. ring.hw - 1 \in 0 .. NumBds /\ ring.filled + 1 \in 0 .. NumBds
  BY <1>1, <1>2
<1>5. ring' \in RingType /\ ring'.hw + ring'.filled + ring'.taken + ring'.free = NumBds
  BY <1>2, <1>3, <1>4 DEF RingType
<1> QED
  BY <1>1, <1>3, <1>5 DEF RingInv

\* The interrupt of the portal takes the filled descriptors and processes some.
LEMMA EthInterruptRing ==
    ASSUME RingInv, EthInterrupt
    PROVE  RingInv'
<1>a. PICK more \in 0 .. ring.hw, k, j \in 0 .. NumBds :
         LET taken == ring.filled + more IN
         /\ pending' = (more > 0)
         /\ Process([ring EXCEPT !.hw = @ - more, !.filled = 0, !.taken = taken], k, j)
         /\ \E s \in Polled(sched) : ProcessEnd(Forgotten(s), taken - k, rxEntry)
  BY DEF EthInterrupt
<1> DEFINE r == [ring EXCEPT !.hw = @ - more, !.filled = 0, !.taken = ring.filled + more]
<1>1. irq /\ irq' \in BOOLEAN /\ (irq' <=> (ring.filled + more) - k = 0)
  BY <1>a DEF EthInterrupt, ProcessEnd
<1>2. pending' = (more > 0) /\ Process(r, k, j)
  BY <1>a
<1>3. /\ r \in RingType /\ r.free = ring.free /\ r.filled = 0 /\ r.taken = ring.filled + more
      /\ r.hw + r.filled + r.taken + r.free = NumBds
  <2>1. /\ NumBds \in Nat /\ ring.hw \in 0 .. NumBds /\ ring.filled \in 0 .. NumBds
        /\ ring.taken = 0 /\ ring.free \in 0 .. NumBds
        /\ ring.hw + ring.filled + ring.taken + ring.free = NumBds /\ ring \in RingType
    BY <1>1, EthRxAssumption DEF RingInv, RingType
  <2>2. /\ r.hw = ring.hw - more /\ r.filled = 0 /\ r.taken = ring.filled + more
        /\ r.free = ring.free
    BY <2>1 DEF RingType
  <2>3. ring.hw - more \in 0 .. NumBds /\ ring.filled + more \in 0 .. NumBds /\ 0 \in 0 .. NumBds
    BY <2>1
  <2>4. r \in RingType
    BY <2>1, <2>3 DEF RingType
  <2> QED
    BY <2>1, <2>2, <2>4
<1> HIDE DEF r
<1>4. /\ ring' \in RingType
      /\ ring'.hw + ring'.filled + ring'.taken + ring'.free = NumBds
      /\ ring'.filled = 0 /\ ring'.taken = (ring.filled + more) - k
      /\ pool' \in Nat /\ queued' \in Nat
      /\ pool' + queued' + NumBds - ring'.free = NumBds + Spare
      /\ ring'.free > 0 => pool' = 0
  <2>1. Process(r, k, j)
    BY <1>2 DEF r
  <2>2. /\ ring' \in RingType
        /\ ring'.hw + ring'.filled + ring'.taken + ring'.free = NumBds
        /\ ring'.filled = r.filled /\ ring'.taken = r.taken - k
        /\ pool' \in Nat /\ queued' \in Nat
        /\ pool' + queued' + NumBds - ring'.free = NumBds + Spare
        /\ ring'.free > 0 => pool' = 0
    BY <1>3, <2>1, ProcessFacts
  <2> QED
    BY <1>3, <2>2
<1>5. pending' \in BOOLEAN /\ (ring'.filled > 0 => pending')
  BY <1>2, <1>4
<1>6. irq' <=> ring'.taken = 0
  BY <1>1, <1>4
<1> QED
  BY <1>1, <1>4, <1>5, <1>6 DEF RingInv

\* An entry comes back and may be given to a free descriptor.
LEMMA CheckinRing ==
    ASSUME RingInv, Checkin
    PROVE  RingInv'
<1>0. /\ queued > 0 /\ queued' = queued - 1 /\ DmaUpdate(ring, pool + 1)
      /\ irq' = irq /\ pending' = pending
  BY DEF Checkin
<1>1. /\ ring \in RingType /\ ring.hw + ring.filled + ring.taken + ring.free = NumBds
      /\ pool \in Nat /\ pool + 1 \in Nat /\ queued \in Nat
      /\ pool + queued + NumBds - ring.free = NumBds + Spare
      /\ NumBds \in Nat /\ Spare \in Nat /\ ring.free \in 0 .. NumBds
  BY EthRxAssumption DEF RingInv, RingType
<1> DEFINE entries == pool + 1
<1>2. entries \in Nat /\ DmaUpdate(ring, entries)
  BY <1>0, <1>1
<1> HIDE DEF entries
<1>3. /\ ring' \in RingType
      /\ ring'.hw + ring'.filled + ring'.taken + ring'.free = NumBds
      /\ ring'.filled = ring.filled /\ ring'.taken = ring.taken
      /\ pool' \in Nat /\ pool' - ring'.free = entries - ring.free
      /\ ring'.free > 0 => pool' = 0
  BY <1>1, <1>2, DmaUpdateFacts
<1>4. ring'.free \in 0 .. NumBds
  BY <1>3 DEF RingType
<1>5. queued' \in Nat /\ pool' + queued' + NumBds - ring'.free = NumBds + Spare
  <2> DEFINE f == ring'.free
             g == ring.free
             p == pool'
             q == queued'
  <2>1. p - f = entries - g /\ q = queued - 1 /\ queued > 0
    BY <1>0, <1>3
  <2>2. /\ g \in Nat /\ f \in Nat /\ p \in Nat
        /\ pool + queued + NumBds - g = NumBds + Spare
    BY <1>1, <1>3, <1>4
  <2> HIDE DEF f, g, p, q
  <2>3. q \in Nat /\ p + q + NumBds - f = NumBds + Spare
    BY <1>1, <2>1, <2>2 DEF entries
  <2> QED
    BY <2>3 DEF f, p, q
<1> QED
  BY <1>0, <1>3, <1>5 DEF RingInv

\* The schedule of the portal processes some of the taken descriptors.
LEMMA TimerEthRing ==
    ASSUME RingInv, TimerEth
    PROVE  RingInv'
<1>1. PICK k \in 0 .. NumBds, j \in 0 .. NumBds :
         Process(ring, k, j) /\ \E t, entry : ProcessEnd(t, ring.taken - k, entry)
  BY DEF TimerEth
<1>2. pending' = pending /\ irq' \in BOOLEAN /\ (irq' <=> ring.taken - k = 0)
  BY <1>1 DEF TimerEth, ProcessEnd
<1>3. ring \in RingType /\ ring.hw + ring.filled + ring.taken + ring.free = NumBds
  BY DEF RingInv
<1>4. /\ ring' \in RingType
      /\ ring'.hw + ring'.filled + ring'.taken + ring'.free = NumBds
      /\ ring'.filled = ring.filled /\ ring'.taken = ring.taken - k
      /\ pool' \in Nat /\ queued' \in Nat
      /\ pool' + queued' + NumBds - ring'.free = NumBds + Spare
      /\ ring'.free > 0 => pool' = 0
  BY <1>1, <1>3, ProcessFacts
<1> QED
  BY <1>2, <1>4 DEF RingInv

\* Whatever the lists are, descriptors and entries are conserved.
LEMMA RingStep ==
    ASSUME RingInv, EthNext
    PROVE  RingInv'
<1>1. CASE Receive
  BY <1>1, ReceiveRing
<1>2. CASE EthInterrupt
  BY <1>2, EthInterruptRing
<1>3. CASE Checkout
  BY <1>3, EnqueuedFacts DEF Checkout
<1>4. CASE Checkin
  BY <1>4, CheckinRing
<1>5. CASE MainLoop
  BY <1>5, RingFrame DEF MainLoop, LtgCreate, LtgStart, LtgStop, LtgRemove, Join,
     ReturnToIdle, MainInsert, ethVars
<1>6. CASE TimerEth
  BY <1>6, TimerEthRing
<1>7. CASE TimerLtg
  <2>1. irq' = irq /\ pending' = pending /\ (UNCHANGED <<ring, pool, queued>> \/ Enqueued)
    BY <1>7 DEF TimerLtg
  <2> QED
    BY <2>1, RingFrame, EnqueuedFacts
<1>8. CASE TimerInterrupt \/ TimerSkip \/ TimerTim \/ TimerJoin \/ TimerAfter \/ TimerEnd
  BY <1>8, RingFrame DEF TimerInterrupt, TimerSkip, TimerTim, TimerJoin, TimerAfter, TimerEnd,
     ethVars
<1> QED
  BY <1>1, <1>2, <1>3, <1>4, <1>5, <1>6, <1>7, <1>8 DEF EthNext, Timer

-----------------------------------------------------------------------------
(* The steps.                                                              *)

LEMMA ReceiveStep ==
    ASSUME Intact, Receive
    PROVE  Intact'
<1>1. UNCHANGED <<sched, isr, irq, rxEntry, tgs, running, main>>
  BY DEF Receive, ltgVars
<1>2. SchedInv' /\ LtgInv'
  BY <1>1 DEF Intact, SchedInv, LtgInv, Waiting, Inserting
<1>3. RingInv'
  BY ReceiveRing DEF Intact
<1> QED
  BY <1>2, <1>3 DEF Intact

\* The scheduler after a step of an interrupt that is not the timer's.
LEMMA Interrupted ==
    ASSUME SchedInv, main.pc = "idle", CanInterrupt, main' = main, isr' = isr, rxEntry' = rxEntry,
           NEW s, NEW t \in Polled(sched), s = Forgotten(t)
    PROVE  /\ main.pc = "idle" /\ isr.pc = "none"
           /\ Orderly(s, {}, {}) /\ SameClients(sched, s)
           /\ Orderly(sched', {}, {}) /\ Owned(sched', irq', rxEntry) => SchedInv'
<1>1. main.pc = "idle" /\ isr.pc = "none" /\ Orderly(sched, {}, {})
  BY SchedNow DEF CanInterrupt
<1>2. Orderly(t, {}, {}) /\ SameClients(sched, t)
  BY <1>1, PolledFacts
<1>3. Orderly(s, {}, {}) /\ SameClients(t, s)
  BY <1>2, ForgottenFacts
<1>4. SameClients(sched, s)
  BY <1>2, <1>3, SameClientsTransitive
<1>5. ASSUME Orderly(sched', {}, {}), Owned(sched', irq', rxEntry) PROVE SchedInv'
  <2>1. /\ rxEntry' \in Pointers /\ isr'.pc # "after"
        /\ isr' \in [pc : {"none", "walk", "after"}, curr : Pointers, freed : BOOLEAN]
    BY <1>1 DEF SchedInv
  <2> QED
    BY <1>1, <1>5, <2>1, SchedStep
<1> QED
  BY <1>1, <1>3, <1>4, <1>5

\* An interrupt during an insertion that leaves the scheduler as it is.
LEMMA Untouched ==
    ASSUME SchedInv, LtgInv, CanInterrupt, main.pc = "insert", sched' = Forgotten(sched),
           UNCHANGED <<isr, irq, rxEntry, tgs, running, main>>
    PROVE  SchedInv' /\ LtgInv'
<1>1. /\ isr.pc = "none" /\ main.new \in Blocks /\ main.first = sched.on.first
      /\ sched.blk[main.new].kind \in {"ltg", "join"}
      /\ Waiting = {} /\ Inserting = {main.new} /\ Orderly(sched, {}, {main.new})
  BY DEF SchedInv, Waiting, Inserting
<1>2. /\ Orderly(sched', {}, {main.new}) /\ SameClients(sched, sched')
      /\ sched'.on = sched.on /\ sched'.blk[main.new].kind = sched.blk[main.new].kind
  BY <1>1, ForgottenInserting
<1>3. Owned(sched', irq', rxEntry')
  BY <1>2, OwnedSame DEF SchedInv
<1>4. Waiting' = {} /\ Inserting' = {main.new}
  BY <1>1 DEF Waiting, Inserting
<1>5. SchedInv'
  BY <1>1, <1>2, <1>3, <1>4 DEF SchedInv
<1>6. LtgInv'
  BY <1>2, LtgStep DEF LtgInv, SameClients
<1> QED
  BY <1>5, <1>6

LEMMA EthInterruptStep ==
    ASSUME Intact, main.pc = "idle", EthInterrupt
    PROVE  Intact'
<1>1. /\ CanInterrupt /\ irq /\ isr' = isr /\ rxEntry' = rxEntry /\ main' = main
      /\ tgs' = tgs /\ running' = running
  BY DEF EthInterrupt, ltgVars
<1>a. PICK more \in 0 .. ring.hw, k, j \in 0 .. NumBds :
         LET taken == ring.filled + more IN
         /\ pending' = (more > 0)
         /\ Process([ring EXCEPT !.hw = @ - more, !.filled = 0, !.taken = taken], k, j)
         /\ \E s \in Polled(sched) : ProcessEnd(Forgotten(s), taken - k, rxEntry)
  BY DEF EthInterrupt
<1>b. PICK t \in Polled(sched) : ProcessEnd(Forgotten(t), (ring.filled + more) - k, rxEntry)
  BY <1>a
<1> DEFINE s == Forgotten(t)
<1>2. ProcessEnd(s, (ring.filled + more) - k, rxEntry)
  BY <1>b
<1>3. SchedInv /\ RingInv /\ LtgInv
  BY DEF Intact
<1>4. /\ Orderly(s, {}, {}) /\ SameClients(sched, s)
      /\ Orderly(sched', {}, {}) /\ Owned(sched', irq', rxEntry) => SchedInv'
  BY <1>1, <1>3, Interrupted
<1>5. Owned(s, TRUE, rxEntry)
  <2>1. irq = TRUE /\ Owned(sched, irq, rxEntry)
    BY <1>1, <1>3 DEF RingInv, SchedInv
  <2> QED
    BY <1>4, <2>1, OwnedSame
<1> HIDE DEF s
<1>6. /\ Orderly(sched', {}, {}) /\ Owned(sched', irq', rxEntry)
      /\ irq' \in BOOLEAN /\ (irq' <=> (ring.filled + more) - k = 0)
      /\ Clients(s, "ltg") \subseteq Clients(sched', "ltg")
  BY <1>2, <1>4, <1>5, ProcessEndFacts DEF s
<1>7. SchedInv'
  BY <1>4, <1>6
<1>8. LtgInv'
  <2>1. Clients(sched, "ltg") \subseteq Clients(sched', "ltg")
    BY <1>4, <1>6 DEF SameClients
  <2> QED
    BY <1>1, <1>3, <2>1, LtgStep DEF LtgInv
<1>9. RingInv'
  BY <1>3, EthInterruptRing
<1> QED
  BY <1>7, <1>8, <1>9 DEF Intact

LEMMA CheckoutStep ==
    ASSUME Intact, main.pc = "idle", Checkout
    PROVE  Intact'
<1>1. /\ CanInterrupt /\ Enqueued /\ isr' = isr /\ irq' = irq /\ pending' = pending
      /\ rxEntry' = rxEntry /\ main' = main /\ tgs' = tgs /\ running' = running
  BY DEF Checkout, ltgVars
<1>2. PICK t \in Polled(sched) : sched' = Forgotten(t)
  BY DEF Checkout
<1>3. SchedInv /\ RingInv /\ LtgInv
  BY DEF Intact
<1>4. /\ Orderly(sched', {}, {}) /\ SameClients(sched, sched')
      /\ Orderly(sched', {}, {}) /\ Owned(sched', irq', rxEntry') => SchedInv'
  BY <1>1, <1>2, <1>3, Interrupted
<1>5. Owned(sched', irq', rxEntry')
  BY <1>1, <1>3, <1>4, OwnedSame DEF SchedInv
<1>6. LtgInv'
  BY <1>1, <1>3, <1>4, LtgStep DEF LtgInv, SameClients
<1>7. RingInv'
  BY <1>1, <1>3, EnqueuedFacts
<1> QED
  BY <1>4, <1>5, <1>6, <1>7 DEF Intact

LEMMA CheckinStep ==
    ASSUME Intact, main.pc = "idle", Checkin
    PROVE  Intact'
<1>1. /\ CanInterrupt /\ queued > 0 /\ queued' = queued - 1 /\ DmaUpdate(ring, pool + 1)
      /\ isr' = isr /\ irq' = irq /\ pending' = pending
      /\ rxEntry' = rxEntry /\ main' = main /\ tgs' = tgs /\ running' = running
  BY DEF Checkin, ltgVars
<1>2. PICK t \in Polled(sched) : sched' = Forgotten(t)
  BY DEF Checkin
<1>3. SchedInv /\ RingInv /\ LtgInv
  BY DEF Intact
<1>4. /\ Orderly(sched', {}, {}) /\ SameClients(sched, sched')
      /\ Orderly(sched', {}, {}) /\ Owned(sched', irq', rxEntry') => SchedInv'
  BY <1>1, <1>2, <1>3, Interrupted
<1>5. Owned(sched', irq', rxEntry')
  BY <1>1, <1>3, <1>4, OwnedSame DEF SchedInv
<1>6. LtgInv'
  BY <1>1, <1>3, <1>4, LtgStep DEF LtgInv, SameClients
<1>7. RingInv'
  BY <1>3, CheckinRing
<1> QED
  BY <1>4, <1>5, <1>6, <1>7 DEF Intact

\* The main loop begins an insertion.
LEMMA BeginStep ==
    ASSUME SchedInv, MainRuns, isr' = isr, irq' = irq, rxEntry' = rxEntry,
           NEW kind \in {"ltg", "join"}, BeginSchedule(kind)
    PROVE  /\ SchedInv' /\ Clients(sched, "ltg") \subseteq Clients(sched', "ltg")
           /\ kind = "ltg" => Clients(sched', "ltg") # {}
<1>1. /\ isr.pc = "none" /\ main.pc = "idle" /\ Orderly(sched, {}, {})
  BY SchedNow DEF MainRuns
<1>2. PICK new \in Free(sched) :
         /\ sched' = Prepared(sched, new, kind, Forever, Delayed(kind))
         /\ main' = [pc |-> "insert", new |-> new, first |-> sched.on.first]
  BY DEF BeginSchedule
<1>3. kind \in Kinds /\ Forever \in {1, Forever} /\ kind # "eth"
  BY EthRxAssumption
<1> DEFINE delayed == Delayed(kind)
<1> HIDE DEF delayed
<1>4. Orderly(sched', {}, {new}) /\ Begun(sched, sched', new, kind)
  <2>1. sched' = Prepared(sched, new, kind, Forever, delayed)
    BY <1>2 DEF delayed
  <2> QED
    BY <1>1, <1>3, <2>1, PreparedFacts
<1>5. new \in Blocks /\ ~sched.blk[new].live /\ new \in Pointers
  BY DEF Free, Pointers
<1>6. /\ main'.pc = "insert" /\ main'.new = new /\ main'.first = sched.on.first
      /\ main' \in [pc : {"idle", "insert"}, new : Pointers, first : Pointers]
  <2>1. sched.on.first \in Pointers
    BY <1>1 DEF Orderly, Listed, SchedType, ListType
  <2> QED
    BY <1>2, <1>5, <2>1
<1>7. Waiting' = {} /\ Inserting' = {new}
  BY <1>1, <1>6 DEF Waiting, Inserting
<1>8. \A k : k # kind => Clients(sched', k) = Clients(sched, k)
  BY <1>4, <1>5 DEF Begun, Clients
<1>9. new \in Clients(sched', kind) /\ Clients(sched, kind) \subseteq Clients(sched', kind)
  BY <1>4, <1>5 DEF Begun, Clients
<1>10. SameClients(sched, sched')
  <2>1. Clients(sched, "ltg") \subseteq Clients(sched', "ltg")
    BY <1>8, <1>9
  <2>2. Clients(sched, "eth") = Clients(sched', "eth")
    BY <1>3, <1>8
  <2> QED
    BY <1>4, <2>1, <2>2 DEF SameClients, Begun
<1>11. Owned(sched', irq', rxEntry')
  BY <1>10, OwnedSame DEF SchedInv
<1>12. SchedInv'
  BY <1>1, <1>4, <1>5, <1>6, <1>7, <1>11 DEF SchedInv, Begun
<1> QED
  BY <1>9, <1>10, <1>12 DEF SameClients

LEMMA LtgStartStep ==
    ASSUME Intact, LtgStart
    PROVE  Intact'
<1>1. /\ MainRuns /\ running' = TRUE /\ isr' = isr
      /\ UNCHANGED <<ring, irq, pending, rxEntry, pool, queued>>
  BY DEF LtgStart, ethVars
<1>2. PICK g \in Ltgs : tgs' = [tgs EXCEPT ![g] = "started"]
  BY DEF LtgStart
<1>3. SchedInv /\ RingInv /\ LtgInv
  BY DEF Intact
<1>4. tgs' \in [Ltgs -> {"none", "stopped", "started"}]
  BY <1>2, <1>3 DEF LtgInv
<1>5. CASE running
  <2>1. sched' = sched /\ main' = main
    BY <1>5 DEF LtgStart
  <2>2. SchedInv'
    BY <1>1, <1>3, <2>1 DEF SchedInv, Waiting, Inserting
  <2>3. LtgInv'
    BY <1>1, <1>3, <1>4, <1>5, <2>1 DEF LtgInv
  <2> QED
    BY <1>1, <1>3, <2>2, <2>3, RingFrame DEF Intact
<1>6. CASE ~running
  <2>1. BeginSchedule("ltg")
    BY <1>6 DEF LtgStart
  <2>2. SchedInv' /\ Clients(sched', "ltg") # {}
    BY <1>1, <1>3, <2>1, BeginStep
  <2>3. LtgInv'
    BY <1>1, <1>4, <2>2 DEF LtgInv
  <2> QED
    BY <1>1, <1>3, <2>2, <2>3, RingFrame DEF Intact
<1> QED
  BY <1>5, <1>6

\* Creation, stop and removal of a generator.
LEMMA LtgOtherStep ==
    ASSUME Intact, LtgCreate \/ LtgStop \/ LtgRemove
    PROVE  Intact'
<1>1. /\ UNCHANGED <<sched, isr, ring, irq, pending, rxEntry, pool, queued, running, main>>
      /\ \E g \in Ltgs, v \in {"none", "stopped"} : tgs' = [tgs EXCEPT ![g] = v]
  BY DEF LtgCreate, LtgStop, LtgRemove, ethVars
<1>2. SchedInv /\ RingInv /\ LtgInv
  BY DEF Intact
<1>3. /\ tgs' \in [Ltgs -> {"none", "stopped", "started"}]
      /\ \A g \in Ltgs : tgs'[g] = "started" => tgs[g] = "started"
  BY <1>1, <1>2 DEF LtgInv
<1>4. LtgInv'
  BY <1>1, <1>2, <1>3 DEF LtgInv
<1>5. SchedInv'
  BY <1>1, <1>2 DEF SchedInv, Waiting, Inserting
<1> QED
  BY <1>1, <1>2, <1>4, <1>5, RingFrame DEF Intact

LEMMA JoinStep ==
    ASSUME Intact, Join
    PROVE  Intact'
<1>1. /\ MainRuns /\ BeginSchedule("join") /\ isr' = isr /\ tgs' = tgs /\ running' = running
      /\ UNCHANGED <<ring, irq, pending, rxEntry, pool, queued>>
  BY DEF Join, ethVars, ltgVars
<1>2. SchedInv /\ RingInv /\ LtgInv
  BY DEF Intact
<1>3. SchedInv' /\ Clients(sched, "ltg") \subseteq Clients(sched', "ltg")
  BY <1>1, <1>2, BeginStep
<1>4. LtgInv'
  BY <1>1, <1>2, <1>3, LtgStep DEF LtgInv
<1> QED
  BY <1>1, <1>2, <1>3, <1>4, RingFrame DEF Intact

LEMMA MainInsertStep ==
    ASSUME Intact, MainInsert
    PROVE  Intact'
<1>1. /\ isr.pc = "none" /\ main.pc = "insert" /\ main' = Idle
      /\ sched' = Forgotten(InsertBeginning(sched, "on", main.first, main.new))
      /\ isr' = isr /\ tgs' = tgs /\ running' = running
      /\ UNCHANGED <<ring, irq, pending, rxEntry, pool, queued>>
  BY DEF MainInsert, ethVars, ltgVars
<1>2. SchedInv /\ RingInv /\ LtgInv
  BY DEF Intact
<1> DEFINE new == main.new
           u == InsertBeginning(sched, "on", sched.on.first, new)
<1>3. /\ new \in Blocks /\ Orderly(sched, {}, {new}) /\ sched.blk[new].kind # "eth"
      /\ sched' = Forgotten(u)
  BY <1>1, <1>2 DEF SchedInv, Waiting, Inserting
<1> HIDE DEF new
<1>4. /\ Orderly(u, {}, {}) /\ SameSchedules(sched.blk, u.blk)
      /\ Found(u, "on") = Found(sched, "on") \cup {new}
      /\ Found(u, "off") = Found(sched, "off")
  BY <1>3, InsertedFacts
<1> HIDE DEF u
<1>5. SameClients(sched, u)
  <2>1. \A k : Clients(u, k) = Clients(sched, k)
    BY <1>4 DEF SameSchedules, Clients
  <2>2. new \notin Clients(sched, "eth")
    BY <1>3 DEF Clients
  <2> QED
    BY <1>4, <2>1, <2>2 DEF SameClients, Lists
<1>6. Orderly(sched', {}, {}) /\ SameClients(u, sched')
  BY <1>3, <1>4, ForgottenFacts
<1>7. SameClients(sched, sched')
  BY <1>5, <1>6, SameClientsTransitive
<1>8. Owned(sched', irq', rxEntry')
  BY <1>1, <1>2, <1>7, OwnedSame DEF SchedInv
<1>9. Waiting' = {} /\ Inserting' = {} /\ main'.pc = "idle"
  BY <1>1 DEF Waiting, Inserting, Idle
<1>10. main' \in [pc : {"idle", "insert"}, new : Pointers, first : Pointers]
  BY <1>1 DEF Idle, Pointers
<1>11. SchedInv'
  BY <1>1, <1>2, <1>6, <1>8, <1>9, <1>10 DEF SchedInv
<1>12. LtgInv'
  BY <1>1, <1>2, <1>7, LtgStep DEF LtgInv, SameClients
<1> QED
  BY <1>1, <1>2, <1>11, <1>12, RingFrame DEF Intact

LEMMA ReturnToIdleStep ==
    ASSUME Intact, ReturnToIdle
    PROVE  Intact'
<1>1. /\ MainRuns /\ isr' = isr /\ tgs' = tgs /\ running' = running /\ main' = main
      /\ UNCHANGED <<ring, irq, pending, rxEntry, pool, queued>>
  BY DEF ReturnToIdle, ethVars, ltgVars
<1>2. PICK b \in Of("join") : sched' = RemoveSchedule(sched, b)
  BY DEF ReturnToIdle
<1>3. SchedInv /\ RingInv /\ LtgInv
  BY DEF Intact
<1>4. /\ main.pc = "idle" /\ Orderly(sched, {}, {}) /\ isr.pc = "none"
      /\ b \in Blocks /\ sched.blk[b].kind \notin {"eth", "ltg"}
  BY <1>1, <1>3, SchedNow DEF MainRuns, Of
<1>5. Orderly(sched', {}, {}) /\ SameClients(sched, sched')
  BY <1>2, <1>4, RemoveFacts
<1>6. Owned(sched', irq', rxEntry')
  BY <1>1, <1>3, <1>5, OwnedSame DEF SchedInv
<1>7. SchedInv'
  <2>1. /\ rxEntry' \in Pointers /\ isr'.pc # "after"
        /\ isr' \in [pc : {"none", "walk", "after"}, curr : Pointers, freed : BOOLEAN]
    BY <1>1, <1>3, <1>4 DEF SchedInv
  <2> QED
    BY <1>1, <1>3, <1>4, <1>5, <1>6, <2>1, SchedStep
<1>8. LtgInv'
  BY <1>1, <1>3, <1>5, LtgStep DEF LtgInv, SameClients
<1> QED
  BY <1>1, <1>3, <1>7, <1>8, RingFrame DEF Intact

\* A step of the timer handler that disturbs no client.
LEMMA TimerStep ==
    ASSUME Intact, main.pc = "idle", main' = main, irq' = irq, rxEntry' = rxEntry,
           isr' \in [pc : {"none", "walk", "after"}, curr : Pointers, freed : BOOLEAN],
           isr'.pc = "after" => isr'.curr \in Blocks,
           NEW Z, Orderly(sched', Z, {}), Z \subseteq Waiting', SameClients(sched, sched')
    PROVE  SchedInv' /\ Clients(sched, "ltg") \subseteq Clients(sched', "ltg")
<1>1. SchedInv
  BY DEF Intact
<1>2. Owned(sched', irq', rxEntry') /\ rxEntry' \in Pointers
  BY <1>1, OwnedSame DEF SchedInv
<1>3. SchedInv'
  BY <1>1, <1>2, SchedStep
<1> QED
  BY <1>3 DEF SameClients

\* The same, for a step that leaves the descriptors and the generators alone.
LEMMA TimerOnly ==
    ASSUME Intact, SchedInv', Clients(sched, "ltg") \subseteq Clients(sched', "ltg"),
           UNCHANGED <<ethVars, ltgVars, main>>
    PROVE  Intact'
<1>1. SchedInv /\ RingInv /\ LtgInv
  BY DEF Intact
<1>2. LtgInv'
  BY <1>1, LtgStep DEF LtgInv, ltgVars
<1>3. RingInv'
  BY <1>1, RingFrame DEF ethVars
<1> QED
  BY <1>2, <1>3 DEF Intact

LEMMA TimerInterruptStep ==
    ASSUME Intact, main.pc = "idle", TimerInterrupt
    PROVE  Intact'
<1>1. /\ CanInterrupt /\ isr' = [Quiet EXCEPT !.pc = "walk"]
      /\ UNCHANGED <<ethVars, ltgVars, main>>
  BY DEF TimerInterrupt
<1>2. PICK D \in SUBSET Blocks : sched' = Started(sched, D)
  BY DEF TimerInterrupt
<1>3. main.pc = "idle" /\ Orderly(sched, {}, {})
  BY <1>1, SchedNow DEF CanInterrupt, Intact
<1>4. Orderly(sched', {}, {}) /\ SameClients(sched, sched')
  BY <1>2, <1>3, StartedFacts
<1>5. /\ isr' \in [pc : {"none", "walk", "after"}, curr : Pointers, freed : BOOLEAN]
      /\ isr'.pc # "after"
  BY <1>1 DEF Quiet, Pointers
<1>6. main' = main /\ irq' = irq /\ rxEntry' = rxEntry
  BY <1>1 DEF ethVars
<1>7. SchedInv' /\ Clients(sched, "ltg") \subseteq Clients(sched', "ltg")
  BY <1>3, <1>4, <1>5, <1>6, TimerStep
<1> QED
  BY <1>1, <1>7, TimerOnly

LEMMA TimerSkipStep ==
    ASSUME Intact, TimerSkip
    PROVE  Intact'
<1>1. /\ isr.pc = "walk" /\ sched.next # Null /\ sched' = Stepped(sched) /\ isr' = isr
      /\ UNCHANGED <<ethVars, ltgVars, main>>
  BY DEF TimerSkip
<1>2. main.pc = "idle" /\ Orderly(sched, {}, {})
  BY <1>1, SchedNow DEF Intact
<1>3. Orderly(sched', {}, {}) /\ SameClients(sched, sched')
  BY <1>1, <1>2, SteppedFacts
<1>4. /\ isr' \in [pc : {"none", "walk", "after"}, curr : Pointers, freed : BOOLEAN]
      /\ isr'.pc # "after"
  BY <1>1 DEF Intact, SchedInv
<1>5. main' = main /\ irq' = irq /\ rxEntry' = rxEntry
  BY <1>1 DEF ethVars
<1>6. SchedInv' /\ Clients(sched, "ltg") \subseteq Clients(sched', "ltg")
  BY <1>2, <1>3, <1>4, <1>5, TimerStep
<1> QED
  BY <1>1, <1>6, TimerOnly

\* A schedule whose target has been reached.
LEMMA DueFacts ==
    ASSUME Intact, NEW kind, Due(kind), NEW s, s = Stepped(sched)
    PROVE  /\ main.pc = "idle" /\ Orderly(sched, {}, {})
           /\ sched.next \in Blocks /\ sched.next # Null
           /\ sched.blk[sched.next].live /\ sched.blk[sched.next].kind = kind
           /\ Orderly(s, {}, {}) /\ SameClients(sched, s)
           /\ s.blk = sched.blk /\ s.next # sched.next /\ sched.next \in Found(s, "on")
<1>1. isr.pc = "walk" /\ sched.next # Null /\ sched.blk[sched.next].kind = kind
  BY DEF Due
<1>2. /\ main.pc = "idle" /\ Orderly(sched, {}, {})
      /\ sched.next \in Found(sched, "on") /\ sched.next \in Blocks
  BY <1>1, SchedNow DEF Intact
<1>3. sched.blk[sched.next].live
  BY <1>2 DEF Orderly
<1>4. /\ Orderly(s, {}, {}) /\ SameClients(sched, s)
      /\ s.blk = sched.blk /\ s.next # sched.next /\ sched.next \in Found(s, "on")
  BY <1>1, <1>2, SteppedFacts
<1> QED
  BY <1>1, <1>2, <1>3, <1>4

\* The record of a visit.
LEMMA VisitFacts ==
    ASSUME NEW b \in Blocks, NEW freed \in BOOLEAN,
           isr' = [pc |-> "after", curr |-> b, freed |-> freed]
    PROVE  /\ isr' \in [pc : {"none", "walk", "after"}, curr : Pointers, freed : BOOLEAN]
           /\ isr'.pc = "after" /\ isr'.curr = b
           /\ Waiting' = IF freed THEN {} ELSE {b}
  BY DEF Pointers, Waiting

LEMMA TimerLtgStep ==
    ASSUME Intact, TimerLtg
    PROVE  Intact'
<1> DEFINE s == Stepped(sched)
<1>1. /\ Due("ltg") /\ irq' = irq /\ pending' = pending /\ rxEntry' = rxEntry
      /\ running' = running /\ main' = main
      /\ isr' = [pc |-> "after", curr |-> sched.next, freed |-> FALSE]
      /\ UNCHANGED <<ring, pool, queued>> \/ Enqueued
  BY DEF TimerLtg, Visit
<1>2. PICK t \in Polled(s) : sched' = t
  BY DEF TimerLtg, Visit
<1>3. main.pc = "idle" /\ sched.next \in Blocks /\ Orderly(s, {}, {}) /\ SameClients(sched, s)
  BY <1>1, DueFacts
<1> HIDE DEF s
<1>4. Orderly(sched', {}, {}) /\ SameClients(s, sched')
  BY <1>2, <1>3, PolledFacts
<1>5. SameClients(sched, sched')
  BY <1>3, <1>4, SameClientsTransitive
<1>6. /\ isr' \in [pc : {"none", "walk", "after"}, curr : Pointers, freed : BOOLEAN]
      /\ isr'.curr \in Blocks
  BY <1>1, <1>3, VisitFacts
<1>7. SchedInv' /\ Clients(sched, "ltg") \subseteq Clients(sched', "ltg")
  BY <1>1, <1>3, <1>4, <1>5, <1>6, TimerStep
<1>8. RingInv'
  <2>1. RingInv
    BY DEF Intact
  <2>2. CASE UNCHANGED <<ring, pool, queued>>
    BY <1>1, <2>1, <2>2, RingFrame
  <2>3. CASE Enqueued
    BY <1>1, <2>1, <2>3, EnqueuedFacts
  <2> QED
    BY <1>1, <2>2, <2>3
<1>9. LtgInv'
  <2>1. LtgInv
    BY DEF Intact
  <2>2. tgs' = tgs \/ \E g \in Ltgs : tgs' = [tgs EXCEPT ![g] = "stopped"]
    BY DEF TimerLtg
  <2>3. /\ tgs' \in [Ltgs -> {"none", "stopped", "started"}]
        /\ \A g \in Ltgs : tgs'[g] = "started" => tgs[g] = "started"
    BY <2>1, <2>2 DEF LtgInv
  <2> QED
    BY <1>1, <1>7, <2>1, <2>3, LtgStep
<1> QED
  BY <1>7, <1>8, <1>9 DEF Intact

LEMMA TimerEthStep ==
    ASSUME Intact, TimerEth
    PROVE  Intact'
<1> DEFINE s == Stepped(sched)
           d == Disable(s, sched.next)
           b == sched.next
<1>1. /\ Due("eth") /\ pending' = pending /\ main' = main
      /\ tgs' = tgs /\ running' = running
      /\ isr' = [pc |-> "after", curr |-> sched.next, freed |-> FALSE]
  BY DEF TimerEth, ltgVars
<1>2. /\ main.pc = "idle" /\ b \in Blocks /\ b # Null
      /\ sched.blk[b].live /\ sched.blk[b].kind = "eth"
      /\ Orderly(s, {}, {}) /\ SameClients(sched, s)
      /\ s.blk = sched.blk /\ s.next # b /\ b \in Found(s, "on")
  BY <1>1, DueFacts
<1>3. SchedInv /\ RingInv /\ LtgInv
  BY DEF Intact
<1>4. Clients(s, "eth") = {b}
  <2>1. b \in Clients(sched, "eth")
    BY <1>2 DEF Clients
  <2>2. Clients(sched, "eth") = {b}
    BY <1>3, <2>1 DEF SchedInv, Owned
  <2> QED
    BY <1>2, <2>2 DEF SameClients
<1>5. /\ Orderly(d, {}, {}) /\ CanDisable(s, b) /\ \A k : Clients(d, k) = Clients(s, k)
      /\ Found(d, "off") = Found(s, "off") \cup {b}
  <2> HIDE DEF s, b
  <2>1. s.blk[b].kind = "eth" /\ d = Disable(s, b)
    BY <1>2 DEF b
  <2> HIDE DEF d
  <2> QED
    BY <1>2, <2>1, DisableFacts
<1>6. PICK k \in 0 .. NumBds, j \in 0 .. NumBds :
         /\ Process(ring, k, j)
         /\ \E t \in Polled(d) : ProcessEnd(t, ring.taken - k, b)
         /\ rxEntry' = b
  BY <1>5 DEF TimerEth
<1>7. PICK t \in Polled(d) : ProcessEnd(t, ring.taken - k, b)
  BY <1>6
<1> HIDE DEF s, d, b
<1>8. Owned(d, TRUE, b)
  BY <1>2, <1>4, <1>5 DEF Owned
<1>9. Orderly(t, {}, {}) /\ SameClients(d, t)
  BY <1>5, PolledFacts
<1>10. Owned(t, TRUE, b)
  BY <1>8, <1>9, OwnedSame
<1>11. /\ Orderly(sched', {}, {}) /\ Owned(sched', irq', b)
       /\ irq' \in BOOLEAN /\ (irq' <=> ring.taken - k = 0)
       /\ Clients(t, "ltg") \subseteq Clients(sched', "ltg")
  BY <1>7, <1>9, <1>10, ProcessEndFacts
<1>12. SchedInv'
  <2>1. /\ isr' \in [pc : {"none", "walk", "after"}, curr : Pointers, freed : BOOLEAN]
        /\ isr'.curr \in Blocks
    BY <1>1, <1>2, VisitFacts DEF b
  <2>2. rxEntry' \in Pointers
    BY <1>2, <1>6 DEF Pointers
  <2> QED
    BY <1>1, <1>2, <1>3, <1>6, <1>11, <2>1, <2>2, SchedStep
<1>13. LtgInv'
  <2>1. Clients(sched, "ltg") \subseteq Clients(sched', "ltg")
    BY <1>2, <1>5, <1>9, <1>11 DEF SameClients
  <2> QED
    BY <1>1, <1>3, <2>1, LtgStep DEF LtgInv
<1>14. RingInv'
  BY <1>3, TimerEthRing
<1> QED
  BY <1>12, <1>13, <1>14 DEF Intact

LEMMA TimerTimStep ==
    ASSUME Intact, TimerTim
    PROVE  Intact'
<1> DEFINE p == Stepped(sched)
           b == sched.next
           s == Counted(p, b)
<1>1. /\ Due("tim") /\ UNCHANGED <<ethVars, ltgVars, main>>
      /\ isr' = [pc |-> "after", curr |-> sched.next, freed |-> FALSE]
      /\ sched' = s \/ \E new \in Free(s) : sched' = Create(s, new, "tim", 1, TRUE)
  BY DEF TimerTim, Visit
<1>2. /\ main.pc = "idle" /\ b \in Blocks /\ sched.blk[b].kind = "tim"
      /\ Orderly(p, {}, {}) /\ SameClients(sched, p) /\ p.blk = sched.blk
  BY <1>1, DueFacts
<1>3. s = Counted(p, b)
  OBVIOUS
<1> HIDE DEF p, s, b
<1>4. Orderly(s, {b}, {}) /\ SameClients(p, s)
  BY <1>2, <1>3, CountedFacts
<1>5. Orderly(sched', {b}, {}) /\ SameClients(s, sched')
  <2>1. CASE sched' = s
    BY <1>4, <2>1 DEF SameClients
  <2>2. CASE \E new \in Free(s) : sched' = Create(s, new, "tim", 1, TRUE)
    <3>1. PICK new \in Free(s) : sched' = Create(s, new, "tim", 1, TRUE)
      BY <2>2
    <3>2. "tim" \in Kinds /\ 1 \in {1, Forever}
      BY EthRxAssumption
    <3>3. Orderly(sched', {b}, {}) /\ Created(s, sched', new, "tim")
      BY <1>4, <3>1, <3>2, CreateFacts
    <3> QED
      BY <3>3 DEF Created
  <2> QED
    BY <1>1, <2>1, <2>2
<1>6. SameClients(sched, sched')
  BY <1>2, <1>4, <1>5, SameClientsTransitive
<1>7. /\ isr' \in [pc : {"none", "walk", "after"}, curr : Pointers, freed : BOOLEAN]
      /\ isr'.curr \in Blocks /\ Waiting' = {b}
  BY <1>1, <1>2, VisitFacts DEF b
<1>8. main' = main /\ irq' = irq /\ rxEntry' = rxEntry
  BY <1>1 DEF ethVars
<1>9. SchedInv' /\ Clients(sched, "ltg") \subseteq Clients(sched', "ltg")
  BY <1>2, <1>5, <1>6, <1>7, <1>8, TimerStep
<1> QED
  BY <1>1, <1>9, TimerOnly

LEMMA TimerJoinStep ==
    ASSUME Intact, TimerJoin
    PROVE  Intact'
<1> DEFINE s == Stepped(sched)
<1>1. /\ Due("join") /\ UNCHANGED <<ethVars, ltgVars, main>>
  BY DEF TimerJoin
<1>2. /\ main.pc = "idle" /\ sched.next \in Blocks
      /\ Orderly(s, {}, {}) /\ SameClients(sched, s) /\ s.blk = sched.blk
  BY <1>1, DueFacts
<1>3. main' = main /\ irq' = irq /\ rxEntry' = rxEntry
  BY <1>1 DEF ethVars
<1>4. ASSUME NEW freed \in BOOLEAN, Orderly(sched', {}, {}), SameClients(s, sched'),
             isr' = [pc |-> "after", curr |-> sched.next, freed |-> freed]
      PROVE  Intact'
  <2> HIDE DEF s
  <2>1. SameClients(sched, sched')
    BY <1>2, <1>4, SameClientsTransitive
  <2>2. /\ isr' \in [pc : {"none", "walk", "after"}, curr : Pointers, freed : BOOLEAN]
        /\ isr'.curr \in Blocks
    BY <1>2, <1>4, VisitFacts
  <2>3. SchedInv' /\ Clients(sched, "ltg") \subseteq Clients(sched', "ltg")
    BY <1>2, <1>3, <1>4, <2>1, <2>2, TimerStep
  <2> QED
    BY <1>1, <2>3, TimerOnly
<1>5. CASE Visit(s)
  <2>1. /\ sched' = s /\ FALSE \in BOOLEAN /\ SameClients(s, s)
        /\ isr' = [pc |-> "after", curr |-> sched.next, freed |-> FALSE]
    BY <1>5 DEF Visit, SameClients
  <2> HIDE DEF s
  <2> QED
    BY <1>2, <1>4, <2>1
<1>6. ASSUME NEW b \in Of("join"), NEW c \in Of("join"),
             isr' = [pc |-> "after", curr |-> sched.next, freed |-> sched.next \in {b, c}],
             LET t == RemoveSchedule(RemoveSchedule(s, b), c) IN
             \/ sched' = t
             \/ \E new \in Free(t) : sched' = Create(t, new, "join", Forever, TRUE)
      PROVE  Intact'
  <2> DEFINE r == RemoveSchedule(s, b)
             t == RemoveSchedule(r, c)
             freed == sched.next \in {b, c}
  <2>1. \/ sched' = t
        \/ \E new \in Free(t) : sched' = Create(t, new, "join", Forever, TRUE)
    BY <1>6
  <2>2. /\ b \in Blocks /\ c \in Blocks
        /\ s.blk[b].kind = "join" /\ s.blk[c].kind = "join"
    BY <1>2 DEF Of
  <2>3. r = RemoveSchedule(s, b)
    OBVIOUS
  <2>4. t = RemoveSchedule(r, c)
    OBVIOUS
  <2> HIDE DEF s, r, t
  <2>5. /\ Orderly(r, {}, {}) /\ SameClients(s, r)
        /\ b \notin Found(r, "on")
        /\ \A x \in Blocks \ {b} : r.blk[x].kind = s.blk[x].kind
    <3>1. s.blk[b].kind \notin {"eth", "ltg"}
      BY <2>2
    <3>2. Orderly(s, {}, {})
      BY <1>2
    <3>3. Orderly(r, {}, {}) /\ SameClients(s, r)
      BY <2>2, <2>3, <3>1, <3>2, RemoveFacts
    <3>4. b \notin Found(r, "on")
      BY <2>2, <2>3, <3>1, <3>2, RemoveFacts
    <3>5. \A x \in Blocks \ {b} : r.blk[x].kind = s.blk[x].kind
      BY <2>2, <2>3, <3>1, <3>2, RemoveKinds
    <3> QED
      BY <3>3, <3>4, <3>5
  <2>6. Orderly(t, {}, {}) /\ SameClients(r, t)
    <3>1. CASE r.blk[c].kind \notin {"eth", "ltg"}
      BY <2>2, <2>4, <2>5, <3>1, RemoveFacts
    <3>2. CASE r.blk[c].kind \in {"eth", "ltg"}
      <4>1. b = c
        BY <2>2, <2>5, <3>2
      <4>2. c \notin Found(r, "on")
        BY <2>5, <4>1
      <4>3. t = r
        BY <2>4, <4>2 DEF RemoveSchedule
      <4> QED
        BY <2>5, <4>3 DEF SameClients
    <3> QED
      BY <3>1, <3>2
  <2>7. Orderly(sched', {}, {}) /\ SameClients(t, sched')
    <3>1. CASE sched' = t
      BY <2>6, <3>1 DEF SameClients
    <3>2. CASE \E new \in Free(t) : sched' = Create(t, new, "join", Forever, TRUE)
      <4>1. PICK new \in Free(t) : sched' = Create(t, new, "join", Forever, TRUE)
        BY <3>2
      <4>2. "join" \in Kinds /\ Forever \in {1, Forever}
        BY EthRxAssumption
      <4>3. Orderly(sched', {}, {}) /\ Created(t, sched', new, "join")
        BY <2>6, <4>1, <4>2, CreateFacts
      <4> QED
        BY <4>3 DEF Created
    <3> QED
      BY <2>1, <3>1, <3>2
  <2>8. SameClients(s, sched')
    BY <2>5, <2>6, <2>7, SameClientsTransitive
  <2>9. freed \in BOOLEAN /\ isr' = [pc |-> "after", curr |-> sched.next, freed |-> freed]
    BY <1>6
  <2> HIDE DEF freed
  <2> QED
    BY <1>4, <2>7, <2>8, <2>9
<1> QED
  BY <1>5, <1>6 DEF TimerJoin

LEMMA TimerAfterStep ==
    ASSUME Intact, TimerAfter
    PROVE  Intact'
<1>1. /\ isr.pc = "after" /\ isr' = [Quiet EXCEPT !.pc = "walk"]
      /\ UNCHANGED <<ethVars, ltgVars, main>>
  BY DEF TimerAfter
<1>2. SchedInv
  BY DEF Intact
<1>3. /\ main.pc = "idle" /\ isr.curr \in Blocks
      /\ Orderly(sched, IF isr.freed THEN {} ELSE {isr.curr}, {})
  BY <1>1, <1>2, SchedNow DEF Waiting, SchedInv
<1>4. Orderly(sched', {}, {}) /\ SameClients(sched, sched')
  <2>1. CASE isr.freed
    <3>1. CASE sched.blk[isr.curr].live
      <4>1. sched' = [sched EXCEPT !.blk[isr.curr].due = "no"]
        BY <2>1, <3>1 DEF TimerAfter
      <4> QED
        BY <1>3, <2>1, <4>1, MovedFacts
    <3>2. CASE ~sched.blk[isr.curr].live
      <4>1. sched' = sched
        BY <2>1, <3>2 DEF TimerAfter
      <4> QED
        BY <1>3, <2>1, <4>1 DEF SameClients
    <3> QED
      BY <3>1, <3>2
  <2>2. CASE ~isr.freed
    <3> DEFINE delayed == Delayed(sched.blk[isr.curr].kind)
    <3>1. sched' = Finished(sched, isr.curr, delayed)
      BY <2>2 DEF TimerAfter
    <3> HIDE DEF delayed
    <3> QED
      BY <1>3, <2>2, <3>1, FinishedFacts
  <2> QED
    BY <2>1, <2>2
<1>5. /\ isr' \in [pc : {"none", "walk", "after"}, curr : Pointers, freed : BOOLEAN]
      /\ isr'.pc # "after"
  BY <1>1 DEF Quiet, Pointers
<1>6. main' = main /\ irq' = irq /\ rxEntry' = rxEntry
  BY <1>1 DEF ethVars
<1>7. SchedInv' /\ Clients(sched, "ltg") \subseteq Clients(sched', "ltg")
  BY <1>3, <1>4, <1>5, <1>6, TimerStep
<1> QED
  BY <1>1, <1>7, TimerOnly

LEMMA TimerEndStep ==
    ASSUME Intact, TimerEnd
    PROVE  Intact'
<1>1. /\ isr.pc = "walk" /\ sched' = Forgotten(sched) /\ isr' = Quiet
      /\ UNCHANGED <<ethVars, ltgVars, main>>
  BY DEF TimerEnd
<1>2. main.pc = "idle" /\ Orderly(sched, {}, {})
  BY <1>1, SchedNow DEF Intact
<1>3. Orderly(sched', {}, {}) /\ SameClients(sched, sched')
  BY <1>1, <1>2, ForgottenFacts
<1>4. /\ isr' \in [pc : {"none", "walk", "after"}, curr : Pointers, freed : BOOLEAN]
      /\ isr'.pc # "after"
  BY <1>1 DEF Quiet, Pointers
<1>5. main' = main /\ irq' = irq /\ rxEntry' = rxEntry
  BY <1>1 DEF ethVars
<1>6. SchedInv' /\ Clients(sched, "ltg") \subseteq Clients(sched', "ltg")
  BY <1>2, <1>3, <1>4, <1>5, TimerStep
<1> QED
  BY <1>1, <1>6, TimerOnly

-----------------------------------------------------------------------------
(* The invariance.                                                         *)

LEMMA EthInitially ==
    ASSUME EthInit
    PROVE  Intact /\ torn = FALSE
<1>1. /\ sched = NoSchedules /\ isr = Quiet /\ main = Idle
      /\ ring = [hw |-> NumBds, filled |-> 0, taken |-> 0, free |-> 0]
      /\ irq = TRUE /\ pending = FALSE /\ rxEntry = Null
      /\ pool = Spare /\ queued = 0
      /\ tgs = [g \in Ltgs |-> "none"] /\ running = FALSE
  BY DEF EthInit
<1>2. /\ sched["on"] = EmptyList /\ sched["off"] = EmptyList /\ sched.next = Null
      /\ sched.on = EmptyList /\ sched.off = EmptyList /\ sched.timer = FALSE
      /\ \A b \in Blocks : ~sched.blk[b].live
      /\ sched \in SchedType
  <2>1. Unused \in BlockType /\ EmptyList \in ListType
    BY DEF Unused, BlockType, EmptyList, ListType, Pointers, Forever
  <2>2. sched = [blk |-> [b \in Blocks |-> Unused], on |-> EmptyList, off |-> EmptyList,
                 next |-> Null, timer |-> FALSE]
    BY <1>1 DEF NoSchedules
  <2>3. Unused.live = FALSE
    BY DEF Unused
  <2> QED
    BY <2>1, <2>2, <2>3 DEF SchedType, Pointers
<1>3. \A l \in Lists : Linked(sched.blk, sched[l], <<>>) /\ Found(sched, l) = {}
  <2> SUFFICES ASSUME NEW l \in Lists
               PROVE  Linked(sched.blk, sched[l], <<>>) /\ Found(sched, l) = {}
    OBVIOUS
  <2>1. sched[l].length = 0 /\ sched[l].first = Null /\ sched[l].last = Null
    BY <1>2 DEF Lists, EmptyList
  <2>2. << >> \in Seq(Blocks) /\ Len(<< >>) = 0 /\ 1 .. 0 = {}
    OBVIOUS
  <2>3. IsInjective(<< >>)
    BY DEF IsInjective
  <2>4. At(<< >>, 1) = Null /\ At(<< >>, 0) = Null
    BY <2>2 DEF At
  <2>5. Linked(sched.blk, sched[l], << >>)
    BY <2>1, <2>2, <2>3, <2>4 DEF Linked
  <2>6. Found(sched, l) = {}
    BY <2>1 DEF Found
  <2> QED
    BY <2>5, <2>6
<1>4. Found(sched, "on") = {} /\ Found(sched, "off") = {}
  BY <1>3 DEF Lists
<1>5. Listed(sched)
  BY <1>2, <1>3, <1>4 DEF Listed
<1>6. Waiting = {} /\ Inserting = {}
  BY <1>1 DEF Waiting, Inserting, Quiet, Idle
<1>7. Orderly(sched, Waiting, Inserting)
  BY <1>2, <1>4, <1>5, <1>6 DEF Orderly, EmptyList
<1>8. Owned(sched, irq, rxEntry)
  BY <1>1, <1>2 DEF Owned, Clients
<1>9. SchedInv
  BY <1>1, <1>7, <1>8 DEF SchedInv, Quiet, Idle, Pointers
<1>10. RingInv
  <2>1. NumBds \in Nat /\ Spare \in Nat
    BY EthRxAssumption
  <2>2. /\ ring.hw = NumBds /\ ring.filled = 0 /\ ring.taken = 0 /\ ring.free = 0
        /\ ring \in RingType
    BY <1>1, <2>1 DEF RingType
  <2>3. irq /\ irq \in BOOLEAN /\ pending \in BOOLEAN
    BY <1>1
  <2>4. ring.hw + ring.filled + ring.taken + ring.free = NumBds
    BY <2>1, <2>2
  <2>5. /\ pool \in Nat /\ queued \in Nat
        /\ pool + queued + NumBds - ring.free = NumBds + Spare
    BY <1>1, <2>1, <2>2
  <2> QED
    BY <2>2, <2>3, <2>4, <2>5 DEF RingInv
<1>11. LtgInv
  BY <1>1 DEF LtgInv
<1> QED
  BY <1>9, <1>10, <1>11 DEF Intact, EthInit

LEMMA EthStutter ==
    ASSUME Intact, UNCHANGED ethRxVars
    PROVE  Intact'
<1>1. /\ sched' = sched /\ isr' = isr /\ ring' = ring /\ irq' = irq /\ pending' = pending
      /\ rxEntry' = rxEntry /\ pool' = pool /\ queued' = queued /\ tgs' = tgs
      /\ running' = running /\ main' = main
  BY DEF ethRxVars, ethVars, ltgVars
<1>2. SchedInv'
  BY <1>1 DEF Intact, SchedInv, Waiting, Inserting
<1>3. RingInv' /\ LtgInv'
  BY <1>1 DEF Intact, RingInv, LtgInv
<1> QED
  BY <1>2, <1>3 DEF Intact

LEMMA EthStep ==
    ASSUME Intact, torn \in BOOLEAN, ~torn', EthNext
    PROVE  Intact'
<1>0. ASSUME main.pc # "idle", EthInterrupt \/ Checkout \/ Checkin \/ TimerInterrupt
      PROVE  Intact'
  <2>1. main.pc = "insert"
    BY <1>0 DEF Intact, SchedInv
  <2>2. /\ CanInterrupt /\ sched' = Forgotten(sched) /\ irq' = irq
        /\ UNCHANGED <<isr, rxEntry, tgs, running, main>>
    BY <1>0, <2>1 DEF EthInterrupt, Checkout, Checkin, TimerInterrupt, Tear, ltgVars, Intact, RingInv
  <2>3. SchedInv' /\ LtgInv'
    BY <2>1, <2>2, Untouched DEF Intact
  <2> QED
    BY <2>3, RingStep DEF Intact
<1>1. CASE Receive
  BY <1>1, ReceiveStep
<1>2. CASE EthInterrupt
  BY <1>0, <1>2, EthInterruptStep
<1>3. CASE Checkout
  BY <1>0, <1>3, CheckoutStep
<1>4. CASE Checkin
  BY <1>0, <1>4, CheckinStep
<1>5. CASE MainLoop
  BY <1>5, LtgStartStep, LtgOtherStep, JoinStep, ReturnToIdleStep, MainInsertStep DEF MainLoop
<1>6. CASE Timer
  BY <1>0, <1>6, TimerInterruptStep, TimerSkipStep, TimerLtgStep, TimerEthStep, TimerTimStep,
     TimerJoinStep, TimerAfterStep, TimerEndStep DEF Timer
<1> QED
  BY <1>1, <1>2, <1>3, <1>4, <1>5, <1>6 DEF EthNext

\* What has been torn stays torn.
LEMMA TornStep ==
    ASSUME torn \in BOOLEAN, EthNext
    PROVE  torn' \in BOOLEAN /\ (~torn' => ~torn)
<1>1. CASE EthInterrupt \/ Checkout \/ Checkin \/ TimerInterrupt
  BY <1>1 DEF EthInterrupt, Checkout, Checkin, TimerInterrupt, Tear
<1>2. CASE Receive \/ MainLoop
  BY <1>2 DEF Receive, MainLoop, LtgCreate, LtgStart, LtgStop, LtgRemove, Join, ReturnToIdle,
     MainInsert
<1>3. CASE TimerSkip \/ TimerLtg \/ TimerEth
  BY <1>3 DEF TimerSkip, TimerLtg, TimerEth
<1>4. CASE TimerTim \/ TimerJoin
  BY <1>4 DEF TimerTim, TimerJoin
<1>5. CASE TimerAfter \/ TimerEnd
  BY <1>5 DEF TimerAfter, TimerEnd
<1> QED
  BY <1>1, <1>2, <1>3, <1>4, <1>5 DEF EthNext, Timer

LEMMA EthTypes ==
    ASSUME Intact
    PROVE  EthTypeOK
  BY DEF Intact, SchedInv, RingInv, LtgInv, Orderly, Listed, EthTypeOK

LEMMA EthLists ==
    ASSUME Intact
    PROVE  ListsIntact
<1>1. /\ SchedInv /\ Orderly(sched, Waiting, Inserting) /\ Listed(sched)
      /\ sched \in SchedType
  BY DEF Intact, SchedInv, Orderly, Listed
<1>2. ASSUME NEW l \in Lists
      PROVE  Sound(sched, l)
  <2>1. PICK q : Linked(sched.blk, sched[l], q)
    BY <1>1 DEF Listed
  <2>2. Found(sched, l) \subseteq Blocks
    BY <1>1, ListedFacts
  <2>3. ASSUME NEW b \in Found(sched, l)
        PROVE  sched.blk[b].live /\ sched.blk[b].enabled = (l = "on")
    <3>1. sched.blk[b].enabled \in BOOLEAN
      BY <1>1, <2>2 DEF SchedType, BlockType
    <3>2. sched.blk[b].live /\ (sched.blk[b].enabled <=> l = "on")
      BY <1>1 DEF Orderly, Lists
    <3> QED
      BY <3>1, <3>2
  <2> QED
    BY <2>1, <2>3, SoundFacts
<1>3. Sound(sched, "on") /\ Sound(sched, "off")
  BY <1>2 DEF Lists
<1>4. ASSUME NEW b \in Blocks, sched.blk[b].live
      PROVE  b = main.new \/ b \in Found(sched, "on") \cup Found(sched, "off")
  BY <1>1, <1>4 DEF Orderly, Inserting
<1>5. sched.next = Null \/ sched.next \in Found(sched, "on")
  BY <1>1 DEF Orderly
<1>6. ASSUME main.pc = "idle"
      PROVE  sched.timer = (sched.on.length > 0)
  <2>1. sched.timer <=> sched.on.length > 0
    BY <1>1, <1>6 DEF Orderly, Inserting
  <2>2. sched.timer \in BOOLEAN
    BY <1>1 DEF SchedType
  <2> QED
    BY <2>1, <2>2
<1>7. ASSUME isr.pc = "none", NEW b \in Blocks, sched.blk[b].live
      PROVE  sched.blk[b].calls > 0
  <2>1. Waiting = {}
    BY <1>7 DEF Waiting
  <2>2. sched.blk[b].calls # 0
    BY <1>1, <1>7, <2>1 DEF Orderly
  <2>3. sched.blk[b].calls \in 0 .. Forever
    BY <1>1 DEF SchedType, BlockType
  <2> QED
    BY <2>2, <2>3 DEF Forever
<1> QED
  BY <1>3, <1>4, <1>5, <1>6, <1>7, EthTypes DEF ListsIntact

LEMMA EthServed ==
    ASSUME Intact, isr.pc = "none"
    PROVE  /\ Cardinality(Of("eth") \cap Found(sched, "on")) = (IF irq THEN 0 ELSE 1)
           /\ main.pc = "idle" /\ (\E g \in Ltgs : tgs[g] = "started") =>
                 Of("ltg") \cap Found(sched, "on") # {}
<1>1. SchedInv /\ RingInv /\ LtgInv
  BY DEF Intact
<1>2. /\ Of("eth") = Clients(sched, "eth") /\ Of("ltg") = Clients(sched, "ltg")
      /\ Owned(sched, irq, rxEntry) /\ Orderly(sched, Waiting, Inserting)
      /\ Found(sched, "on") \cap Found(sched, "off") = {}
  BY <1>1 DEF Of, Clients, SchedInv, Orderly, Listed
<1>4. ASSUME irq
      PROVE  Cardinality(Of("eth") \cap Found(sched, "on")) = 0
  <2>1. Of("eth") \cap Found(sched, "on") = {}
    BY <1>2, <1>4 DEF Owned
  <2> QED
    BY <2>1, FS_EmptySet
<1>5. ASSUME ~irq
      PROVE  Cardinality(Of("eth") \cap Found(sched, "on")) = 1
  <2>1. PICK x \in Blocks : Clients(sched, "eth") = {x} /\ x \in Found(sched, "on")
    BY <1>2, <1>5 DEF Owned
  <2>2. Of("eth") \cap Found(sched, "on") = {x}
    BY <1>2, <2>1
  <2> QED
    BY <2>2, FS_Singleton
<1>6. ASSUME main.pc = "idle", NEW g \in Ltgs, tgs[g] = "started"
      PROVE  Of("ltg") \cap Found(sched, "on") # {}
  <2>1. Clients(sched, "ltg") # {}
    BY <1>1, <1>6 DEF LtgInv
  <2>2. PICK b \in Blocks : sched.blk[b].live /\ sched.blk[b].kind = "ltg"
    BY <2>1 DEF Clients
  <2>3. b \in Found(sched, "on")
    BY <1>2, <1>6, <2>2 DEF Orderly, Inserting
  <2> QED
    BY <2>2, <2>3 DEF Of
<1> QED
  BY <1>4, <1>5, <1>6

\* The scheduler and its clients keep their invariant until an interrupt changes the
\* lists under an insertion of the main loop, the descriptors and the entries of the
\* queues keep theirs always (wlan_mac_schedule.c, wlan_mac_dl_list.c, w3_eth.c).
THEOREM EthRxInvariance == EthSpec => []EthInv
<1>1. EthInit => EthInv
  BY EthInitially DEF EthInv, Intact
<1>2. ASSUME EthInv, EthNext
      PROVE  EthInv'
  <2>1. torn \in BOOLEAN /\ RingInv
    BY <1>2 DEF EthInv
  <2>2. RingInv'
    BY <1>2, <2>1, RingStep
  <2>3. torn' \in BOOLEAN /\ (~torn' => ~torn)
    BY <1>2, <2>1, TornStep
  <2>4. ASSUME ~torn'
        PROVE  Intact'
    BY <1>2, <2>1, <2>3, <2>4, EthStep DEF EthInv
  <2> QED
    BY <2>2, <2>3, <2>4 DEF EthInv
<1>3. ASSUME EthInv, UNCHANGED ethRxVars
      PROVE  EthInv'
  <2>1. torn' = torn /\ UNCHANGED <<ring, irq, pending, pool, queued>>
    BY <1>3 DEF ethRxVars, ethVars
  <2>2. RingInv'
    BY <1>3, <2>1, RingFrame DEF EthInv
  <2>3. ~torn => Intact'
    BY <1>3, EthStutter DEF EthInv
  <2> QED
    BY <1>3, <2>1, <2>2, <2>3 DEF EthInv
<1> QED
  BY <1>1, <1>2, <1>3, PTL DEF EthSpec

\* Whatever the callbacks do to the list the handler of the timer walks through, both
\* lists stay what their links say and no schedule is lost (schedule_handler,
\* wlan_mac_remove_schedule, dl_entry_remove), until an interrupt tears an insertion.
THEOREM ListsSoundAlways == EthSpec => []ListsSound
<1>1. EthInv => ListsSound
  BY EthLists DEF EthInv, ListsSound
<1> QED
  BY <1>1, EthRxInvariance, PTL

\* New frames have the interrupt and free descriptors an entry of the queues that comes
\* back, whatever becomes of the lists; until they are torn, taken frames have exactly
\* one enabled schedule and a started generator has one (_wlan_process_all_eth_pkts,
\* _wlan_eth_dma_update, ltg_sched_start_l).
THEOREM ClientsServedAlways == EthSpec => []ClientsServed
<1>1. ASSUME EthInv
      PROVE  ClientsServed
  <2>1. /\ irq = (ring.taken = 0)
        /\ ring.filled > 0 => pending
        /\ ring.free > 0 => pool = 0
    BY <1>1 DEF EthInv, RingInv
  <2> QED
    BY <1>1, <2>1, EthServed DEF EthInv, ClientsServed
<1> QED
  BY <1>1, EthRxInvariance, PTL
=============================================================================

------------------------- MODULE ApStationsProofs -------------------------
(***************************************************************************)
(* Machine-checked proofs about the stations of the AP and the packets     *)
(* queued for them, for any number of stations, structs, queue entries and *)
(* packet buffers.                                                         *)
(***************************************************************************)
EXTENDS ApStations, QueueLemmas, FiniteSetTheorems

-----------------------------------------------------------------------------
(* The inductive invariant, on the state as a record.                      *)

Structs == [addr : Stations \cup {Mcast, NoAddr}, keep : BOOLEAN, queued : Int,
            doze : BOOLEAN, id : 0 .. MaxId]
Lasts == [more : BOOLEAN, waiting : BOOLEAN]
States ==
    [list : Seq(Infos), info : [Infos -> Structs], members : Seq(EntryType),
     auth : Seq(EntryType), queue : [Queues -> Seq(Infos)], group : {"MGMT", "DATA"},
     next : NextType, flight : Seq(Stations \cup {Mcast}), last : Lasts, avail : Int,
     found : BOOLEAN]

\* The places of the queues that hold a packet of a station of T.
Spots(q, T) == {p \in UNION {{n} \X DOMAIN q[n] : n \in Queues} : q[p[1]][p[2]] \in T}

\* The list has each struct once, and each address.
Listed(l, i) ==
    /\ IsInjective(l)
    /\ \A s \in Range(l) : i[s].addr # NoAddr
    /\ \A s, x \in Range(l) : i[s].addr = i[x].addr => s = x

\* num_tx_queued is the number of packets, and keeps the struct in the list.
Counted(q, l, i) ==
    /\ \A s \in Infos : i[s].queued = Cardinality(Spots(q, {s}))
    /\ \A s \in Infos : i[s].queued > 0 => s \in Range(l)
    /\ Cardinality(Spots(q, Infos)) <= Pool

\* IDs rise along a list of entries, and an entry has a struct that is kept and
\* has its address and its ID.
Rising(m) == \A x, y \in DOMAIN m : x < y => m[x].id < m[y].id
EntryHeld(e, l, i) == e.info \in Range(l) /\ i[e.info].keep /\ i[e.info].addr = e.addr
EntryKept(e, l, i) == EntryHeld(e, l, i) /\ i[e.info].id = e.id
Entered(m, l, i) == Rising(m) /\ \A e \in Range(m) : EntryKept(e, l, i)

\* A station that has authenticated has one entry, whose struct is kept and has its
\* address; wlan_exp may have given it another ID.
Distinct(m) == \A x, y \in DOMAIN m : x < y => m[x].addr # m[y].addr
Held(m, l, i) == Distinct(m) /\ \A e \in Range(m) : EntryHeld(e, l, i)

\* The pointer of the round robin is to an entry of the members, or is known not
\* to be.
Pointed(n, m) == n.kind = "entry" => \E e \in Range(m) : n = Pointer("entry", e)

Sound(t) ==
    /\ t \in States
    /\ Listed(t.list, t.info) /\ Counted(t.queue, t.list, t.info)
    /\ Entered(t.members, t.list, t.info) /\ Held(t.auth, t.list, t.info)
    /\ Pointed(t.next, t.members)
    /\ Len(t.members) <= MaxAssoc /\ Len(t.flight) <= Buffers

\* All of it holds until the lists are severed.
ApInv == Sound(Now) /\ last \in Lasts
Inv == ~severed => ApInv

-----------------------------------------------------------------------------
(* Lists and queues.                                                       *)

LEMMA Sizes ==
    /\ MaxId \in Nat /\ IsFiniteSet(Queues) /\ Queues \subseteq Nat
    /\ MCAST_QID \in Queues /\ MANAGEMENT_QID \in Queues
    /\ \A id \in 0 .. MaxId : STATION_ID_TO_QUEUE_ID(id) \in Queues
<1>1. MaxId \in Nat
  BY ApStationsAssumption, FS_CardinalityType DEF MaxId
<1>2. STATION_ID_TO_QUEUE_ID(MaxId) = MaxId + 1
  BY DEF STATION_ID_TO_QUEUE_ID
<1>3. IsFiniteSet(0 .. MaxId + 1)
  BY <1>1, FS_Interval
<1> QED
  BY <1>1, <1>2, <1>3 DEF Queues, MCAST_QID, MANAGEMENT_QID, STATION_ID_TO_QUEUE_ID

\* Taking one entry out of a list.
LEMMA RemoveAtFacts ==
    ASSUME NEW S, NEW l \in Seq(S), NEW k \in DOMAIN l
    PROVE  /\ RemoveAt(l, k) \in Seq(S)
           /\ Len(RemoveAt(l, k)) = Len(l) - 1
           /\ \A i \in 1 .. Len(l) - 1 :
                 RemoveAt(l, k)[i] = IF i < k THEN l[i] ELSE l[i + 1]
<1> DEFINE a == SubSeq(l, 1, k - 1)
           b == SubSeq(l, k + 1, Len(l))
<1>1. Len(l) \in Nat /\ k \in 1 .. Len(l) /\ k - 1 \in Int /\ k + 1 \in Int
  OBVIOUS
<1>2. /\ a \in Seq(S) /\ Len(a) = k - 1
      /\ \A i \in 1 .. k - 1 : a[i] = l[i]
  <2>1. \A i \in 1 .. k - 1 : l[i] \in S
    BY <1>1
  <2>2. /\ SubSeq(l, 1, k - 1) \in Seq(S)
        /\ Len(SubSeq(l, 1, k - 1)) = IF 1 <= k - 1 THEN k - 1 - 1 + 1 ELSE 0
        /\ \A i \in 1 .. k - 1 - 1 + 1 : SubSeq(l, 1, k - 1)[i] = l[1 + i - 1]
    BY <1>1, <2>1, SubSeqProperties
  <2> QED
    BY <1>1, <2>2
<1>3. /\ b \in Seq(S) /\ Len(b) = Len(l) - k
      /\ \A i \in 1 .. Len(l) - k : b[i] = l[k + i]
  <2>1. \A i \in k + 1 .. Len(l) : l[i] \in S
    BY <1>1
  <2>2. /\ SubSeq(l, k + 1, Len(l)) \in Seq(S)
        /\ Len(SubSeq(l, k + 1, Len(l))) =
              IF k + 1 <= Len(l) THEN Len(l) - (k + 1) + 1 ELSE 0
        /\ \A i \in 1 .. Len(l) - (k + 1) + 1 :
              SubSeq(l, k + 1, Len(l))[i] = l[k + 1 + i - 1]
    BY <1>1, <2>1, SubSeqProperties
  <2>3. Len(l) - (k + 1) + 1 = Len(l) - k /\ (k + 1 > Len(l) => Len(l) - k = 0)
    BY <1>1
  <2>4. ASSUME NEW i \in 1 .. Len(l) - k PROVE b[i] = l[k + i]
    <3>1. i \in 1 .. Len(l) - (k + 1) + 1 /\ k + 1 + i - 1 = k + i
      BY <1>1
    <3> QED
      BY <2>2, <3>1
  <2> QED
    BY <1>1, <2>2, <2>3, <2>4
<1>4. RemoveAt(l, k) = a \o b
  BY DEF RemoveAt
<1> HIDE DEF a, b
<1>5. /\ a \o b \in Seq(S) /\ Len(a \o b) = Len(a) + Len(b)
      /\ \A i \in 1 .. Len(a) + Len(b) :
            (a \o b)[i] = IF i <= Len(a) THEN a[i] ELSE b[i - Len(a)]
  BY <1>2, <1>3, SMTT(20)
<1>6. Len(a) + Len(b) = Len(l) - 1
  BY <1>1, <1>2, <1>3
<1>7. ASSUME NEW i \in 1 .. Len(l) - 1
      PROVE  (a \o b)[i] = IF i < k THEN l[i] ELSE l[i + 1]
  <2>1. CASE i < k
    BY <1>1, <1>2, <1>5, <1>6, <2>1, SMTT(20)
  <2>2. CASE ~ (i < k)
    <3>1. i - (k - 1) \in 1 .. Len(l) - k /\ k + (i - (k - 1)) = i + 1
      BY <1>1, <2>2
    <3>2. (a \o b)[i] = b[i - (k - 1)]
      <4>1. i \in 1 .. Len(a) + Len(b) /\ ~ (i <= Len(a))
        BY <1>1, <1>2, <1>6, <2>2, SMTT(20)
      <4> QED
        BY <1>2, <1>5, <4>1
    <3> QED
      BY <1>3, <2>2, <3>1, <3>2
  <2> QED
    BY <2>1, <2>2
<1> QED
  BY <1>4, <1>5, <1>6, <1>7

LEMMA WithoutFacts ==
    ASSUME NEW S, NEW l \in Seq(S), NEW x, IsInjective(l)
    PROVE  /\ Without(l, x) \in Seq(S)
           /\ Range(Without(l, x)) = Range(l) \ {x}
           /\ IsInjective(Without(l, x))
<1>1. CASE x \notin Range(l)
  BY <1>1 DEF Without
<1>2. CASE x \in Range(l)
  <2> DEFINE k == CHOOSE i \in DOMAIN l : l[i] = x
             m == RemoveAt(l, k)
  <2>1. k \in DOMAIN l /\ l[k] = x
    BY <1>2 DEF Range
  <2>2. Without(l, x) = m
    BY <1>2 DEF Without
  <2> HIDE DEF k
  <2>3. /\ m \in Seq(S) /\ Len(m) = Len(l) - 1
        /\ \A i \in 1 .. Len(l) - 1 : m[i] = IF i < k THEN l[i] ELSE l[i + 1]
    BY <2>1, RemoveAtFacts
  <2> HIDE DEF m
  <2>4. /\ DOMAIN l = 1 .. Len(l) /\ Len(l) \in Nat /\ k \in 1 .. Len(l)
        /\ DOMAIN m = 1 .. Len(l) - 1
    BY <2>1, <2>3
  <2>5. \A i, j \in 1 .. Len(l) : l[i] = l[j] => i = j
    BY <2>4 DEF IsInjective
  <2>6. IsInjective(m)
    BY <2>3, <2>4, <2>5 DEF IsInjective
  <2>7. ASSUME NEW i \in DOMAIN m PROVE m[i] \in Range(l) /\ m[i] # x
    <3> DEFINE j == IF i < k THEN i ELSE i + 1
    <3>1. j \in 1 .. Len(l) /\ j # k /\ m[i] = l[j]
      BY <2>3, <2>4
    <3> QED
      BY <2>1, <2>4, <2>5, <3>1 DEF Range
  <2>8. ASSUME NEW j \in DOMAIN l, l[j] # x PROVE l[j] \in Range(m)
    <3> DEFINE i == IF j < k THEN j ELSE j - 1
    <3>1. i \in DOMAIN m /\ m[i] = l[j]
      BY <2>1, <2>3, <2>4, <2>8
    <3> QED
      BY <3>1 DEF Range
  <2> QED
    BY <2>2, <2>3, <2>6, <2>7, <2>8 DEF Range
<1> QED
  BY <1>1, <1>2

\* Putting one in.
LEMMA InsertAtFacts ==
    ASSUME NEW S, NEW l \in Seq(S), NEW e \in S, NEW k \in 1 .. Len(l) + 1
    PROVE  /\ InsertAt(l, k, e) \in Seq(S)
           /\ Len(InsertAt(l, k, e)) = Len(l) + 1
           /\ \A i \in 1 .. Len(l) + 1 :
                 InsertAt(l, k, e)[i] =
                     IF i < k THEN l[i] ELSE IF i = k THEN e ELSE l[i - 1]
<1> DEFINE a == SubSeq(l, 1, k - 1)
           b == SubSeq(l, k, Len(l))
           c == <<e>>
<1>1. Len(l) \in Nat /\ k \in Int /\ k - 1 \in Int /\ Len(l) \in Int
  OBVIOUS
<1>2. /\ a \in Seq(S) /\ Len(a) = k - 1
      /\ \A i \in 1 .. k - 1 : a[i] = l[i]
  <2>1. \A i \in 1 .. k - 1 : l[i] \in S
    BY <1>1
  <2>2. /\ SubSeq(l, 1, k - 1) \in Seq(S)
        /\ Len(SubSeq(l, 1, k - 1)) = IF 1 <= k - 1 THEN k - 1 - 1 + 1 ELSE 0
        /\ \A i \in 1 .. k - 1 - 1 + 1 : SubSeq(l, 1, k - 1)[i] = l[1 + i - 1]
    BY <1>1, <2>1, SubSeqProperties
  <2> QED
    BY <1>1, <2>2
<1>3. /\ b \in Seq(S) /\ Len(b) = Len(l) - k + 1
      /\ \A i \in 1 .. Len(l) - k + 1 : b[i] = l[k + i - 1]
  <2>1. \A i \in k .. Len(l) : l[i] \in S
    BY <1>1
  <2>2. /\ SubSeq(l, k, Len(l)) \in Seq(S)
        /\ Len(SubSeq(l, k, Len(l))) = IF k <= Len(l) THEN Len(l) - k + 1 ELSE 0
        /\ \A i \in 1 .. Len(l) - k + 1 : SubSeq(l, k, Len(l))[i] = l[k + i - 1]
    BY <1>1, <2>1, SubSeqProperties
  <2> QED
    BY <1>1, <2>2
<1>4. c \in Seq(S) /\ Len(c) = 1 /\ c[1] = e
  OBVIOUS
<1> DEFINE d == a \o c
           f == d \o b
<1>5. InsertAt(l, k, e) = f
  BY DEF InsertAt
<1> HIDE DEF a, b, c
<1>6. /\ d \in Seq(S) /\ Len(d) = Len(a) + Len(c)
      /\ \A i \in 1 .. Len(a) + Len(c) : d[i] = IF i <= Len(a) THEN a[i] ELSE c[i - Len(a)]
  BY <1>2, <1>4, ConcatProperties
<1> HIDE DEF d
<1>7. d \in Seq(S) /\ b \in Seq(S)
  BY <1>3, <1>6
<1>8. /\ f \in Seq(S) /\ Len(f) = Len(d) + Len(b)
      /\ \A i \in 1 .. Len(d) + Len(b) : f[i] = IF i <= Len(d) THEN d[i] ELSE b[i - Len(d)]
  BY <1>7, ConcatProperties
<1> HIDE DEF f
<1>9. Len(d) = k /\ Len(f) = Len(l) + 1
  BY <1>1, <1>2, <1>3, <1>4, <1>6, <1>8
<1>10. ASSUME NEW i \in 1 .. Len(l) + 1
      PROVE  f[i] = IF i < k THEN l[i] ELSE IF i = k THEN e ELSE l[i - 1]
  <2>1. CASE i < k
    <3>1. f[i] = d[i] /\ d[i] = a[i] /\ a[i] = l[i]
      BY <1>1, <1>2, <1>3, <1>4, <1>6, <1>8, <1>9, <2>1
    <3> QED
      BY <3>1, <2>1
  <2>2. CASE i = k
    <3>1. f[i] = d[i] /\ d[i] = c[1]
      BY <1>1, <1>2, <1>3, <1>4, <1>6, <1>8, <1>9, <2>2
    <3> QED
      BY <1>4, <3>1, <2>2
  <2>3. CASE i > k
    <3>1. f[i] = b[i - k]
      BY <1>1, <1>3, <1>8, <1>9, <2>3
    <3>2. i - k \in 1 .. Len(l) - k + 1 /\ k + (i - k) - 1 = i - 1
      BY <1>1, <2>3
    <3> QED
      BY <1>3, <3>1, <3>2, <2>3
  <2> QED
    BY <1>1, <2>1, <2>2, <2>3
<1> QED
  BY <1>5, <1>8, <1>9, <1>10

-----------------------------------------------------------------------------
(* Counting packets.                                                       *)

LEMMA SpotFacts ==
    ASSUME NEW q \in [Queues -> Seq(Infos)], NEW T, NEW p
    PROVE  p \in Spots(q, T) <=>
               \E n \in Queues : \E i \in 1 .. Len(q[n]) : p = <<n, i>> /\ q[n][i] \in T
<1>1. \A n \in Queues : DOMAIN q[n] = 1 .. Len(q[n])
  OBVIOUS
<1>2. ASSUME p \in Spots(q, T)
      PROVE  \E n \in Queues : \E i \in 1 .. Len(q[n]) : p = <<n, i>> /\ q[n][i] \in T
  <2>1. PICK n \in Queues : p \in {n} \X DOMAIN q[n]
    BY <1>2 DEF Spots
  <2>2. p = <<n, p[2]>> /\ p[1] = n /\ p[2] \in 1 .. Len(q[n])
    BY <1>1, <2>1
  <2>3. q[p[1]][p[2]] \in T
    BY <1>2 DEF Spots
  <2> QED
    BY <2>2, <2>3
<1>3. ASSUME NEW n \in Queues, NEW i \in 1 .. Len(q[n]), p = <<n, i>>, q[n][i] \in T
      PROVE  p \in Spots(q, T)
  <2>1. p \in {n} \X DOMAIN q[n] /\ p[1] = n /\ p[2] = i
    BY <1>1, <1>3
  <2>2. p \in UNION {{m} \X DOMAIN q[m] : m \in Queues}
    BY <2>1
  <2> QED
    BY <1>3, <2>1, <2>2 DEF Spots
<1> QED
  BY <1>2, <1>3

LEMMA SpotsFinite ==
    ASSUME NEW q \in [Queues -> Seq(Infos)], NEW T
    PROVE  IsFiniteSet(Spots(q, T)) /\ Cardinality(Spots(q, T)) \in Nat
<1> DEFINE parts == {{n} \X DOMAIN q[n] : n \in Queues}
<1>1. IsFiniteSet(parts)
  <2> DEFINE f == [n \in Queues |-> {n} \X DOMAIN q[n]]
  <2>1. f \in Surjection(Queues, parts)
    BY DEF Surjection
  <2> HIDE DEF f, parts
  <2> QED
    BY <2>1, Sizes, FS_Surjection
<1>2. ASSUME NEW n \in Queues
      PROVE  IsFiniteSet({n} \X DOMAIN q[n])
  <2>1. DOMAIN q[n] = 1 .. Len(q[n]) /\ Len(q[n]) \in Int /\ 1 \in Int
    OBVIOUS
  <2>2. IsFiniteSet(1 .. Len(q[n])) /\ IsFiniteSet({n})
    BY <2>1, FS_Interval, FS_Singleton
  <2> QED
    BY <2>1, <2>2, FS_Product
<1>3. \A X \in parts : IsFiniteSet(X)
  BY <1>2
<1> HIDE DEF parts
<1>4. IsFiniteSet(UNION parts)
  BY <1>1, <1>3, FS_UNION
<1>5. Spots(q, T) \in SUBSET UNION parts
  BY DEF Spots, parts
<1>6. IsFiniteSet(Spots(q, T))
  BY <1>4, <1>5, FS_Subset
<1> QED
  BY <1>6, FS_CardinalityType

\* Two functions that differ in one queue at most.
OnlyAt(q, r, n) == \A m \in Queues : m # n => r[m] = q[m]
AppendedAt(q, r, n, s) == r[n] = Append(q[n], s) /\ OnlyAt(q, r, n)
OneMore(q, r, s, T) ==
    /\ s \in T => Cardinality(Spots(r, T)) = Cardinality(Spots(q, T)) + 1
    /\ s \notin T => Cardinality(Spots(r, T)) = Cardinality(Spots(q, T))

\* A packet more at the end of a queue.
LEMMA AppendSpots ==
    ASSUME NEW q \in [Queues -> Seq(Infos)], NEW n \in Queues, NEW s \in Infos, NEW T,
           NEW r \in [Queues -> Seq(Infos)], AppendedAt(q, r, n, s)
    PROVE  OneMore(q, r, s, T)
<1>1. q[n] \in Seq(Infos) /\ Append(q[n], s) \in Seq(Infos)
  BY AppendFacts
<1>2. /\ r \in [Queues -> Seq(Infos)] /\ r[n] = Append(q[n], s)
      /\ \A m \in Queues : m # n => r[m] = q[m]
  BY <1>1 DEF OnlyAt, AppendedAt
<1>3. /\ Len(r[n]) = Len(q[n]) + 1 /\ r[n][Len(q[n]) + 1] = s
      /\ \A i \in 1 .. Len(q[n]) : r[n][i] = q[n][i]
      /\ Len(q[n]) \in Nat
  BY <1>1, <1>2, AppendFacts
<1>4. ASSUME NEW p
       PROVE  p \in Spots(r, T) <=>
                \E m \in Queues : \E i \in 1 .. Len(r[m]) : p = <<m, i>> /\ r[m][i] \in T
  <2>1. r \in [Queues -> Seq(Infos)]
    BY <1>2
  <2> QED
    BY <2>1, SpotFacts, Zenon
<1> DEFINE new == <<n, Len(q[n]) + 1>>
<1>5. ASSUME NEW p
      PROVE  p \in Spots(r, T) <=> p \in Spots(q, T) \/ (s \in T /\ p = new)
  <2>1. ASSUME p \in Spots(r, T) PROVE p \in Spots(q, T) \/ (s \in T /\ p = new)
    <3>1. PICK m \in Queues : \E i \in 1 .. Len(r[m]) : p = <<m, i>> /\ r[m][i] \in T
      BY <1>4, <2>1, Zenon
    <3>2. PICK i \in 1 .. Len(r[m]) : p = <<m, i>> /\ r[m][i] \in T
      BY <3>1
    <3>3. CASE m # n
      <4>1. i \in 1 .. Len(q[m]) /\ q[m][i] \in T
        BY <1>2, <3>2, <3>3
      <4> QED
        BY <3>2, <4>1, SpotFacts
    <3>4. CASE m = n /\ i \in 1 .. Len(q[n])
      <4>1. q[n][i] \in T
        BY <1>3, <3>2, <3>4
      <4> QED
        BY <3>2, <3>4, <4>1, SpotFacts
    <3>5. CASE m = n /\ i = Len(q[n]) + 1
      BY <1>3, <3>2, <3>5
    <3>6. m = n => i \in 1 .. Len(q[n]) \/ i = Len(q[n]) + 1
      BY <1>3
    <3> QED
      BY <3>3, <3>4, <3>5, <3>6
  <2>2. ASSUME p \in Spots(q, T) PROVE p \in Spots(r, T)
    <3>1. PICK m \in Queues : \E i \in 1 .. Len(q[m]) : p = <<m, i>> /\ q[m][i] \in T
      BY <2>2, SpotFacts
    <3>2. PICK i \in 1 .. Len(q[m]) : p = <<m, i>> /\ q[m][i] \in T
      BY <3>1
    <3>3. i \in 1 .. Len(r[m]) /\ r[m][i] = q[m][i]
      <4>1. CASE m = n
        <5>1. i \in 1 .. Len(q[n]) /\ i \in 1 .. Len(q[n]) + 1
          BY <1>3, <4>1
        <5> QED
          BY <1>3, <4>1, <5>1
      <4>2. CASE m # n
        BY <1>2, <4>2
      <4> QED
        BY <4>1, <4>2
    <3> QED
      BY <1>2, <3>2, <3>3, SpotFacts
  <2>3. ASSUME s \in T, p = new PROVE p \in Spots(r, T)
    <3>1. Len(q[n]) + 1 \in 1 .. Len(r[n]) /\ r[n][Len(q[n]) + 1] \in T
      BY <1>3, <2>3
    <3> QED
      BY <1>4, <2>3, <3>1, Zenon
  <2> QED
    BY <2>1, <2>2, <2>3
<1>6. new \notin Spots(q, T)
  <2> SUFFICES ASSUME new \in Spots(q, T) PROVE FALSE
    OBVIOUS
  <2>1. PICK m \in Queues : \E i \in 1 .. Len(q[m]) : new = <<m, i>> /\ q[m][i] \in T
    BY SpotFacts
  <2>2. PICK i \in 1 .. Len(q[m]) : new = <<m, i>>
    BY <2>1
  <2>3. m = n /\ i = Len(q[n]) + 1
    BY <2>2
  <2> QED
    BY <1>3, <2>2, <2>3
<1> HIDE DEF new
<1>7. IsFiniteSet(Spots(q, T)) /\ Cardinality(Spots(q, T)) \in Nat
  BY SpotsFinite
<1>8. CASE s \in T
  <2>1. Spots(r, T) = Spots(q, T) \cup {new}
    BY <1>5, <1>8
  <2> QED
    BY <1>2, <1>6, <1>7, <1>8, <2>1, FS_AddElement DEF OneMore
<1>9. CASE s \notin T
  <2>1. Spots(r, T) = Spots(q, T)
    BY <1>5, <1>9
  <2> QED
    BY <1>2, <1>7, <1>9, <2>1 DEF OneMore
<1> QED
  BY <1>8, <1>9

\* The packet at the head of a queue leaves.
LEMMA TailSpots ==
    ASSUME NEW q \in [Queues -> Seq(Infos)], NEW n \in Queues, q[n] # <<>>, NEW T,
           NEW r \in [Queues -> Seq(Infos)], r[n] = Tail(q[n]), OnlyAt(q, r, n)
    PROVE  /\ Head(q[n]) \in T => Cardinality(Spots(q, T)) = Cardinality(Spots(r, T)) + 1
           /\ Head(q[n]) \notin T => Cardinality(Spots(q, T)) = Cardinality(Spots(r, T))
<1>1. /\ q[n] \in Seq(Infos) /\ Tail(q[n]) \in Seq(Infos) /\ Head(q[n]) = q[n][1]
      /\ Len(q[n]) > 0 /\ Len(q[n]) \in Nat /\ Len(Tail(q[n])) = Len(q[n]) - 1
      /\ \A i \in 1 .. Len(Tail(q[n])) : Tail(q[n])[i] = q[n][i + 1]
  BY TailFacts
<1>2. /\ r \in [Queues -> Seq(Infos)] /\ r[n] = Tail(q[n])
      /\ \A m \in Queues : m # n => r[m] = q[m]
  BY <1>1 DEF OnlyAt
<1>3. Len(r[n]) = Len(q[n]) - 1 /\ \A i \in 1 .. Len(r[n]) : r[n][i] = q[n][i + 1]
  BY <1>1, <1>2
<1>4. ASSUME NEW p
       PROVE  p \in Spots(r, T) <=>
                \E m \in Queues : \E i \in 1 .. Len(r[m]) : p = <<m, i>> /\ r[m][i] \in T
  <2>1. r \in [Queues -> Seq(Infos)]
    BY <1>2
  <2> QED
    BY <2>1, SpotFacts, Zenon
<1>5. ASSUME NEW x, x \in Spots(q, T)
       PROVE  \E m \in Queues : \E i \in 1 .. Len(q[m]) : x = <<m, i>> /\ q[m][i] \in T
  BY <1>5, SpotFacts, Zenon
<1> DEFINE first == <<n, 1>>
           rest == Spots(q, T) \ {first}
           Up(m, i) == <<m, IF m = n THEN i + 1 ELSE i>>
           f == [p \in Spots(r, T) |-> Up(p[1], p[2])]
<1>6. ASSUME NEW p \in Spots(r, T)
      PROVE  \E m \in Queues : \E i \in 1 .. Len(r[m]) :
                /\ p = <<m, i>> /\ f[p] = Up(m, i) /\ Up(m, i) \in rest
  <2>1. PICK m \in Queues : \E i \in 1 .. Len(r[m]) : p = <<m, i>> /\ r[m][i] \in T
    BY <1>4, Zenon
  <2>2. PICK i \in 1 .. Len(r[m]) : p = <<m, i>> /\ r[m][i] \in T
    BY <2>1
  <2>3. f[p] = Up(m, i)
    BY <2>2
  <2>4. CASE m = n
    <3>1. i \in 1 .. Len(r[n]) /\ r[n][i] = q[n][i + 1]
      BY <1>3, <2>4
    <3>2. Len(r[n]) = Len(q[n]) - 1 /\ Len(q[n]) \in Nat
      BY <1>1, <1>3
    <3>3. i + 1 \in 1 .. Len(q[n]) /\ i + 1 # 1
      BY <3>1, <3>2
    <3>4. i + 1 \in 1 .. Len(q[n]) /\ i + 1 # 1 /\ q[n][i + 1] \in T
      BY <2>2, <2>4, <3>1, <3>3
    <3>5. <<n, i + 1>> \in Spots(q, T) /\ <<n, i + 1>> # first
      BY <3>4, SpotFacts
    <3> QED
      BY <2>2, <2>3, <2>4, <3>5
  <2>5. CASE m # n
    <3>1. i \in 1 .. Len(q[m]) /\ q[m][i] \in T
      BY <1>2, <2>2, <2>5
    <3>2. <<m, i>> \in Spots(q, T) /\ <<m, i>> # first
      BY <2>5, <3>1, SpotFacts
    <3> QED
      BY <2>2, <2>3, <2>5, <3>2
  <2> QED
    BY <2>4, <2>5
<1>7. ASSUME NEW x \in rest
      PROVE  \E p \in Spots(r, T) : f[p] = x
  <2>1. x \in Spots(q, T)
    OBVIOUS
  <2>2. PICK m \in Queues : \E i \in 1 .. Len(q[m]) : x = <<m, i>> /\ q[m][i] \in T
    BY <2>1, <1>5, Zenon
  <2>3. PICK i \in 1 .. Len(q[m]) : x = <<m, i>> /\ q[m][i] \in T
    BY <2>2
  <2>4. CASE m = n
    <3>1. i # 1
      BY <2>3, <2>4
    <3>2. i - 1 \in 1 .. Len(r[n]) /\ r[n][i - 1] \in T /\ (i - 1) + 1 = i
      <4>1. i - 1 \in 1 .. Len(r[n]) /\ (i - 1) + 1 = i
        BY <1>1, <1>3, <2>4, <3>1
      <4> QED
        BY <1>3, <2>3, <2>4, <4>1
    <3>3. <<n, i - 1>> \in Spots(r, T)
      BY <1>2, <3>2, SpotFacts
    <3>4. f[<<n, i - 1>>] = x
      BY <2>3, <2>4, <3>2, <3>3
    <3> QED
      BY <3>3, <3>4
  <2>5. CASE m # n
    <3>1. <<m, i>> \in Spots(r, T)
      BY <1>2, <2>3, <2>5, SpotFacts
    <3> QED
      BY <2>3, <2>5, <3>1
  <2> QED
    BY <2>4, <2>5
<1>8. f \in [Spots(r, T) -> rest]
  <2>1. \A p \in Spots(r, T) : f[p] \in rest
    BY <1>6, Zenon
  <2>2. f = [p \in Spots(r, T) |-> f[p]]
    OBVIOUS
  <2> HIDE DEF f, rest
  <2> QED
    BY <2>1, <2>2
<1> HIDE DEF f, rest
<1>9. ASSUME NEW x \in Spots(r, T), NEW y \in Spots(r, T), f[x] = f[y]
      PROVE  x = y
  <2>1. PICK m \in Queues : \E i \in 1 .. Len(r[m]) : x = <<m, i>> /\ f[x] = Up(m, i)
    BY <1>6, ZenonT(40)
  <2>2. PICK i \in 1 .. Len(r[m]) : x = <<m, i>> /\ f[x] = Up(m, i)
    BY <2>1
  <2>3. PICK k \in Queues : \E j \in 1 .. Len(r[k]) : y = <<k, j>> /\ f[y] = Up(k, j)
    BY <1>6, ZenonT(40)
  <2>4. PICK j \in 1 .. Len(r[k]) : y = <<k, j>> /\ f[y] = Up(k, j)
    BY <2>3
  <2>5. Up(m, i) = Up(k, j)
    BY <1>9, <2>2, <2>4
  <2>6. m = k /\ i = j
    BY <2>5
  <2> QED
    BY <2>2, <2>4, <2>6
<1> HIDE DEF Up
<1>10. f \in Bijection(Spots(r, T), rest)
  BY <1>7, <1>9, <1>8 DEF Bijection, Injection, Surjection, IsInjective
<1>11. ExistsBijection(Spots(r, T), rest)
  BY <1>10 DEF ExistsBijection
<1>12. IsFiniteSet(Spots(r, T)) /\ Cardinality(Spots(r, T)) \in Nat
       /\ IsFiniteSet(Spots(q, T)) /\ Cardinality(Spots(q, T)) \in Nat
  BY <1>2, SpotsFinite
<1>13. Cardinality(rest) = Cardinality(Spots(r, T))
  BY <1>11, <1>12, FS_Bijection
<1>14. Cardinality(rest) = IF first \in Spots(q, T) THEN Cardinality(Spots(q, T)) - 1
                           ELSE Cardinality(Spots(q, T))
  BY <1>12, FS_RemoveElement DEF rest
<1>15. first \in Spots(q, T) <=> Head(q[n]) \in T
  <2>1. 1 \in 1 .. Len(q[n])
    BY <1>1
  <2>2. Head(q[n]) \in T => first \in Spots(q, T)
    BY <1>1, <2>1, SpotFacts
  <2>3. ASSUME first \in Spots(q, T) PROVE Head(q[n]) \in T
    <3>1. PICK m \in Queues : \E i \in 1 .. Len(q[m]) : first = <<m, i>> /\ q[m][i] \in T
      BY <2>3, SpotFacts, ZenonT(40)
    <3> QED
      BY <1>1, <3>1
  <2> QED
    BY <2>2, <2>3
<1> QED
  BY <1>2, <1>12, <1>13, <1>14, <1>15

\* Some queues are emptied.
LEMMA PurgeSpots ==
    ASSUME NEW q \in [Queues -> Seq(Infos)], NEW Q, NEW T,
           NEW r, r = [m \in Queues |-> IF m \in Q THEN <<>> ELSE q[m]]
    PROVE  /\ r \in [Queues -> Seq(Infos)]
           /\ Cardinality(Spots(r, T)) =
                  Cardinality(Spots(q, T)) - Cardinality({p \in Spots(q, T) : p[1] \in Q})
           /\ Cardinality(Spots(r, T)) <= Cardinality(Spots(q, T))
           /\ Cardinality({p \in Spots(q, T) : p[1] \in Q}) \in Nat
<1>1. r \in [Queues -> Seq(Infos)]
  OBVIOUS
<1> DEFINE gone == {p \in Spots(q, T) : p[1] \in Q}
<1>2. ASSUME NEW p
      PROVE  p \in Spots(r, T) <=> p \in Spots(q, T) /\ p[1] \notin Q
  <2>1. ASSUME p \in Spots(r, T) PROVE p \in Spots(q, T) /\ p[1] \notin Q
    <3>1. PICK m \in Queues : \E i \in 1 .. Len(r[m]) : p = <<m, i>> /\ r[m][i] \in T
      BY <1>1, <2>1, SpotFacts, ZenonT(40)
    <3>2. m \notin Q /\ r[m] = q[m]
      BY <3>1
    <3>3. p \in Spots(q, T)
      BY <3>1, <3>2, SpotFacts
    <3> QED
      BY <3>1, <3>2, <3>3
  <2>2. ASSUME p \in Spots(q, T), p[1] \notin Q PROVE p \in Spots(r, T)
    <3>1. PICK m \in Queues : \E i \in 1 .. Len(q[m]) : p = <<m, i>> /\ q[m][i] \in T
      BY <2>2, SpotFacts
    <3>2. m \notin Q /\ r[m] = q[m]
      BY <2>2, <3>1
    <3> QED
      BY <1>1, <3>1, <3>2, SpotFacts
  <2> QED
    BY <2>1, <2>2
<1>3. Spots(r, T) = Spots(q, T) \ gone /\ Spots(q, T) \cap gone = gone
  BY <1>2
<1>4. IsFiniteSet(Spots(q, T)) /\ Cardinality(Spots(q, T)) \in Nat
  BY SpotsFinite
<1>5. gone \in SUBSET Spots(q, T) /\ Spots(r, T) \in SUBSET Spots(q, T)
  BY <1>3
<1>6. IsFiniteSet(gone) /\ Cardinality(gone) \in Nat
  BY <1>4, <1>5, FS_Subset, FS_CardinalityType
<1>7. Cardinality(Spots(r, T)) = Cardinality(Spots(q, T)) - Cardinality(gone)
  BY <1>3, <1>4, FS_Difference
<1> QED
  BY <1>1, <1>4, <1>6, <1>7

-----------------------------------------------------------------------------
(* The round robin: one packet, one turn, one poll.                        *)

LEMMA StructChanged ==
    ASSUME NEW i \in [Infos -> Structs], NEW s \in Infos
    PROVE  /\ [i EXCEPT ![s].queued = @ - 1] \in [Infos -> Structs]
           /\ [i EXCEPT ![s].queued = @ + 1] \in [Infos -> Structs]
           /\ \A k \in BOOLEAN : [i EXCEPT ![s].keep = k] \in [Infos -> Structs]
           /\ \A k \in BOOLEAN : [i EXCEPT ![s].doze = k] \in [Infos -> Structs]
           /\ \A n \in 0 .. MaxId : [i EXCEPT ![s].id = n] \in [Infos -> Structs]
<1>1. [i EXCEPT ![s].queued = @ - 1] \in [Infos -> Structs]
  BY DEF Structs
<1>2. [i EXCEPT ![s].queued = @ + 1] \in [Infos -> Structs]
  BY DEF Structs
<1>3. \A k \in BOOLEAN : [i EXCEPT ![s].keep = k] \in [Infos -> Structs]
  BY DEF Structs
<1>4. \A k \in BOOLEAN : [i EXCEPT ![s].doze = k] \in [Infos -> Structs]
  BY DEF Structs
<1>5. \A n \in 0 .. MaxId : [i EXCEPT ![s].id = n] \in [Infos -> Structs]
  BY DEF Structs
<1> QED
  BY <1>1, <1>2, <1>3, <1>4, <1>5

LEMMA TransmitFields ==
    ASSUME NEW t \in States, NEW q \in Queues, t.queue[q] # <<>>,
           t.info[Head(t.queue[q])].addr # NoAddr
    PROVE  LET s == Head(t.queue[q])
               u == Transmit(t, q)
           IN /\ u \in States /\ s \in Infos
              /\ u.list = t.list /\ u.members = t.members /\ u.auth = t.auth
              /\ u.group = t.group /\ u.next = t.next
              /\ u.queue = [t.queue EXCEPT ![q] = Tail(@)]
              /\ u.info = [t.info EXCEPT ![s].queued = @ - 1]
              /\ u.flight = Append(t.flight, t.info[s].addr)
              /\ u.avail = t.avail - 1 /\ u.found
<1> DEFINE s == Head(t.queue[q])
           taken == [t EXCEPT !.queue[q] = Tail(@), !.avail = @ - 1, !.found = TRUE]
           said == [more |-> t.info[s].queued > 0, waiting |-> Waits(taken, s)]
           u == Transmit(t, q)
<1>1. /\ t.queue \in [Queues -> Seq(Infos)] /\ t.avail \in Int
      /\ t.info \in [Infos -> Structs] /\ t.flight \in Seq(Stations \cup {Mcast})
  BY DEF States
<1>2. /\ s \in Infos /\ Tail(t.queue[q]) \in Seq(Infos)
      /\ t.info[s] \in Structs /\ t.info[s].addr \in Stations \cup {Mcast}
  BY <1>1, TailFacts DEF Structs
<1>3. [t.queue EXCEPT ![q] = Tail(@)] \in [Queues -> Seq(Infos)] /\ t.avail - 1 \in Int
  BY <1>1, <1>2
<1>4. taken = [t EXCEPT !.queue = [t.queue EXCEPT ![q] = Tail(@)], !.avail = t.avail - 1,
                         !.found = TRUE]
  BY DEF States
<1>5. /\ taken.queue = [t.queue EXCEPT ![q] = Tail(@)] /\ taken.avail = t.avail - 1
      /\ taken.found /\ taken.info = t.info /\ taken.flight = t.flight
      /\ taken.list = t.list /\ taken.members = t.members /\ taken.auth = t.auth
      /\ taken.group = t.group /\ taken.next = t.next
  BY DEF States
<1>6. taken \in States
  BY <1>3, <1>4 DEF States
<1>7. said \in Lasts
  BY DEF Lasts, Waits
<1>8. u = [taken EXCEPT !.info[s].queued = @ - 1, !.flight = Append(@, t.info[s].addr),
                        !.last = said]
  BY DEF Transmit
<1>9. [t.info EXCEPT ![s].queued = @ - 1] \in [Infos -> Structs]
  BY <1>1, <1>2, StructChanged
<1>10. Append(t.flight, t.info[s].addr) \in Seq(Stations \cup {Mcast})
  BY <1>1, <1>2, AppendFacts
<1> HIDE DEF said, taken, s, u
<1>11. /\ u.list = taken.list /\ u.members = taken.members /\ u.auth = taken.auth
      /\ u.group = taken.group /\ u.next = taken.next
      /\ u.queue = taken.queue
      /\ u.info = [taken.info EXCEPT ![s].queued = @ - 1]
      /\ u.flight = Append(taken.flight, t.info[s].addr)
      /\ u.avail = taken.avail /\ u.found = taken.found
  BY <1>8, <1>6 DEF States
<1>12. u = [taken EXCEPT !.info = [t.info EXCEPT ![s].queued = @ - 1],
                         !.flight = Append(t.flight, t.info[s].addr), !.last = said]
  BY <1>5, <1>8, <1>6 DEF States
<1>13. u \in States
  BY <1>7, <1>9, <1>6, <1>10, <1>12 DEF States
<1> QED
  BY <1>2, <1>5, <1>11, <1>13 DEF s, u

\* What polling leaves alone.
SameStructs(i, j) ==
    \A s \in Infos : /\ j[s].addr = i[s].addr /\ j[s].keep = i[s].keep
                     /\ j[s].doze = i[s].doze /\ j[s].id = i[s].id
Steady(t, u) ==
    /\ u.list = t.list /\ u.members = t.members /\ u.auth = t.auth
    /\ SameStructs(t.info, u.info)

LEMMA SteadyTransitive ==
    ASSUME NEW t, NEW u, NEW v, Steady(t, u), Steady(u, v)
    PROVE  Steady(t, v)
  BY DEF Steady, SameStructs

LEMMA EntriesSteady ==
    ASSUME NEW m \in Seq(EntryType), NEW l, NEW i, NEW j, SameStructs(i, j),
           Entered(m, l, i)
    PROVE  Entered(m, l, j)
<1>1. \A e \in Range(m) : e.info \in Infos
  BY RangeSubset DEF EntryType
<1>2. ASSUME NEW e \in Range(m) PROVE EntryKept(e, l, j)
  BY <1>1 DEF Entered, EntryKept, EntryHeld, SameStructs
<1> QED
  BY <1>2 DEF Entered

LEMMA HeldSteady ==
    ASSUME NEW m \in Seq(EntryType), NEW l, NEW i, NEW j, SameStructs(i, j), Held(m, l, i)
    PROVE  Held(m, l, j)
<1>1. \A e \in Range(m) : e.info \in Infos
  BY RangeSubset DEF EntryType
<1>2. ASSUME NEW e \in Range(m) PROVE EntryHeld(e, l, j)
  BY <1>1 DEF Held, EntryHeld, SameStructs
<1> QED
  BY <1>2 DEF Held

LEMMA SteadySound ==
    ASSUME NEW t, NEW u \in States, Sound(t), Steady(t, u),
           Counted(u.queue, u.list, u.info), Pointed(u.next, u.members),
           Len(u.flight) <= Buffers
    PROVE  Sound(u)
<1>1. /\ t.list \in Seq(Infos) /\ t.members \in Seq(EntryType) /\ t.auth \in Seq(EntryType)
      /\ SameStructs(t.info, u.info)
      /\ u.list = t.list /\ u.members = t.members /\ u.auth = t.auth
  BY DEF Sound, States, Steady
<1>2. Range(t.list) \subseteq Infos
  BY <1>1, RangeSubset
<1>3. Listed(u.list, u.info)
  BY <1>1, <1>2 DEF Sound, Listed, SameStructs
<1>4. Entered(u.members, u.list, u.info) /\ Held(u.auth, u.list, u.info)
  BY <1>1, EntriesSteady, HeldSteady DEF Sound
<1> QED
  BY <1>1, <1>3, <1>4 DEF Sound

\* The station of a queued packet is listed.
LEMMA PacketListed ==
    ASSUME NEW t, Sound(t), NEW q \in Queues, t.queue[q] # <<>>
    PROVE  LET s == Head(t.queue[q])
           IN /\ s \in Infos /\ s \in Range(t.list) /\ t.info[s].addr # NoAddr
              /\ t.info[s].queued > 0
<1> DEFINE s == Head(t.queue[q])
           r == [t.queue EXCEPT ![q] = Tail(@)]
<1>1. t.queue \in [Queues -> Seq(Infos)]
  BY DEF Sound, States
<1>2. s \in Infos /\ Tail(t.queue[q]) \in Seq(Infos)
  BY <1>1, TailFacts
<1>3. r \in [Queues -> Seq(Infos)] /\ r[q] = Tail(t.queue[q])
      /\ OnlyAt(t.queue, r, q)
  BY <1>1, <1>2 DEF OnlyAt
<1>4. Head(t.queue[q]) \in {s}
  OBVIOUS
<1> HIDE DEF r, s
<1>5. Cardinality(Spots(t.queue, {s})) = Cardinality(Spots(r, {s})) + 1
  <2>1. Head(t.queue[q]) \in {s} =>
            Cardinality(Spots(t.queue, {s})) = Cardinality(Spots(r, {s})) + 1
    BY <1>1, <1>3, TailSpots, Zenon
  <2> QED
    BY <1>4, <2>1
<1>6. Cardinality(Spots(r, {s})) \in Nat
  BY <1>3, SpotsFinite
<1>7. t.info[s].queued > 0 /\ s \in Range(t.list)
  BY <1>2, <1>5, <1>6 DEF Sound, Counted
<1>8. t.info[s].addr # NoAddr
  BY <1>7 DEF Sound, Listed
<1> QED
  BY <1>2, <1>7, <1>8 DEF s

\* Sending a packet keeps the counts right.
LEMMA TransmitSound ==
    ASSUME NEW t, Sound(t), NEW q \in Queues, t.queue[q] # <<>>, Len(t.flight) < Buffers
    PROVE  LET u == Transmit(t, q)
           IN /\ Sound(u) /\ Steady(t, u) /\ u.next = t.next /\ u.group = t.group
              /\ u.found /\ u.avail = t.avail - 1
              /\ Len(u.flight) = Len(t.flight) + 1 /\ u.flight # <<>>
<1> DEFINE s == Head(t.queue[q])
           u == Transmit(t, q)
<1>1. t \in States /\ t.queue \in [Queues -> Seq(Infos)] /\ t.info \in [Infos -> Structs]
      /\ t.flight \in Seq(Stations \cup {Mcast})
      /\ Counted(t.queue, t.list, t.info)
  BY DEF Sound, States
<1>2. s \in Infos /\ s \in Range(t.list) /\ t.info[s].addr # NoAddr /\ t.info[s].queued > 0
  BY PacketListed
<1>3. /\ u \in States
      /\ u.list = t.list /\ u.members = t.members /\ u.auth = t.auth
      /\ u.group = t.group /\ u.next = t.next
      /\ u.queue = [t.queue EXCEPT ![q] = Tail(@)]
      /\ u.info = [t.info EXCEPT ![s].queued = @ - 1]
      /\ u.flight = Append(t.flight, t.info[s].addr)
      /\ u.avail = t.avail - 1 /\ u.found
  BY <1>1, <1>2, TransmitFields
<1> HIDE DEF u
<1>4. t.info[s] \in Structs /\ t.info[s].addr \in Stations \cup {Mcast}
  BY <1>1, <1>2 DEF Structs
<1>5. /\ \A x \in Infos : u.info[x].queued = t.info[x].queued - (IF x = s THEN 1 ELSE 0)
      /\ SameStructs(t.info, u.info)
  <2>1. t.info \in [Infos -> Structs] /\ s \in Infos
        /\ u.info = [t.info EXCEPT ![s].queued = @ - 1]
    BY <1>1, <1>2, <1>3
  <2> HIDE DEF s
  <2>2. \A x \in Infos : u.info[x].queued = t.info[x].queued - (IF x = s THEN 1 ELSE 0)
    BY <2>1 DEF Structs
  <2>3. SameStructs(t.info, u.info)
    BY <2>1 DEF Structs, SameStructs
  <2> QED
    BY <2>2, <2>3
<1>6. Steady(t, u)
  BY <1>3, <1>5 DEF Steady
<1>7. Len(u.flight) = Len(t.flight) + 1 /\ u.flight # <<>> /\ Len(t.flight) \in Nat
  <2>1. t.flight \in Seq(Stations \cup {Mcast}) /\ t.info[s].addr \in Stations \cup {Mcast}
        /\ u.flight = Append(t.flight, t.info[s].addr)
    BY <1>1, <1>3, <1>4
  <2> QED
    BY <2>1, AppendFacts
<1>8. /\ u.queue \in [Queues -> Seq(Infos)] /\ u.queue[q] = Tail(t.queue[q])
      /\ OnlyAt(t.queue, u.queue, q)
  BY <1>1, <1>3, TailFacts DEF States, OnlyAt
<1>9. ASSUME NEW T
      PROVE  /\ s \in T => Cardinality(Spots(t.queue, T)) = Cardinality(Spots(u.queue, T)) + 1
             /\ s \notin T => Cardinality(Spots(t.queue, T)) = Cardinality(Spots(u.queue, T))
  BY <1>1, <1>8, TailSpots, Zenon
<1>10. \A T : Cardinality(Spots(u.queue, T)) \in Nat
  BY <1>8, SpotsFinite
<1> HIDE DEF s
<1>11. Counted(u.queue, u.list, u.info)
  <2>1. ASSUME NEW x \in Infos
        PROVE  /\ u.info[x].queued = Cardinality(Spots(u.queue, {x}))
               /\ u.info[x].queued > 0 => x \in Range(u.list)
    <3>1. t.info[x].queued = Cardinality(Spots(t.queue, {x}))
          /\ (t.info[x].queued > 0 => x \in Range(t.list))
      BY <1>1 DEF Counted
    <3>2. /\ s \in {x} => Cardinality(Spots(t.queue, {x})) = Cardinality(Spots(u.queue, {x})) + 1
          /\ s \notin {x} => Cardinality(Spots(t.queue, {x})) = Cardinality(Spots(u.queue, {x}))
      BY <1>9, Zenon
    <3>3. u.info[x].queued = t.info[x].queued - (IF x = s THEN 1 ELSE 0)
      BY <1>5
    <3>4. Cardinality(Spots(u.queue, {x})) \in Nat
      BY <1>10
    <3> QED
      BY <1>3, <3>1, <3>2, <3>3, <3>4
  <2>2. Cardinality(Spots(u.queue, Infos)) <= Pool
    <3>1. Cardinality(Spots(t.queue, Infos)) <= Pool
      BY <1>1 DEF Counted
    <3>2. Cardinality(Spots(t.queue, Infos)) =
              Cardinality(Spots(u.queue, Infos)) + 1
      BY <1>2, <1>9
    <3>3. Cardinality(Spots(u.queue, Infos)) \in Nat /\ Pool \in Nat
      BY <1>10, ApStationsAssumption
    <3> QED
      BY <3>1, <3>2, <3>3
  <2> QED
    BY <2>1, <2>2 DEF Counted
<1>12. Pointed(u.next, u.members)
  BY <1>3 DEF Sound
<1>13. Len(u.flight) <= Buffers
  BY <1>7, ApStationsAssumption
<1>14. Sound(u)
  BY <1>3, <1>6, <1>11, <1>12, <1>13, SteadySound
<1> QED
  BY <1>3, <1>6, <1>7, <1>14 DEF u

\* While poll_tx_queues runs: the free buffers it counted are those not in use.
Polling(t) == Sound(t) /\ t.avail \in Nat /\ t.avail + Len(t.flight) = Buffers
Sent(t) == t.found /\ t.flight # <<>>
Untouched(t, u) ==
    /\ u.queue = t.queue /\ u.info = t.info /\ u.flight = t.flight
    /\ u.avail = t.avail /\ (u.found <=> t.found)

LEMMA ServeFacts ==
    ASSUME NEW t, Polling(t), t.avail > 0, NEW q \in Queues
    PROVE  LET u == Serve(t, q)
           IN /\ Polling(u) /\ Steady(t, u) /\ u.next = t.next /\ u.group = t.group
              /\ Sent(u) \/ (u = t /\ t.queue[q] = <<>>)
<1> DEFINE u == Serve(t, q)
<1>1. Sound(t) /\ Len(t.flight) \in Nat /\ t.avail \in Nat /\ t.avail + Len(t.flight) = Buffers
  BY DEF Polling, Sound, States
<1>2. CASE t.queue[q] = <<>>
  <2>1. u = t
    BY <1>2 DEF Serve
  <2> HIDE DEF u
  <2>2. Steady(t, t)
    BY DEF Steady, SameStructs
  <2>3. Polling(u) /\ Steady(t, u) /\ u.next = t.next /\ u.group = t.group
    BY <2>1, <2>2
  <2> QED
    BY <1>2, <2>1, <2>3 DEF u
<1>3. CASE t.queue[q] # <<>>
  <2>1. u = Transmit(t, q)
    BY <1>3 DEF Serve
  <2>2. Len(t.flight) < Buffers
    BY <1>1, ApStationsAssumption
  <2> HIDE DEF u
  <2>3. /\ Sound(u) /\ Steady(t, u) /\ u.next = t.next /\ u.group = t.group
        /\ u.found /\ u.avail = t.avail - 1
        /\ Len(u.flight) = Len(t.flight) + 1 /\ u.flight # <<>>
    BY <1>1, <1>3, <2>1, <2>2, TransmitSound
  <2>4. u.avail \in Nat /\ u.avail + Len(u.flight) = Buffers
    BY <1>1, <2>3
  <2> QED
    BY <2>3, <2>4 DEF u, Polling, Sent
<1> QED
  BY <1>2, <1>3

\* The static pointer moves.
LEMMA NextSet ==
    ASSUME NEW t, Polling(t), NEW n \in NextType, Pointed(n, t.members)
    PROVE  LET u == [t EXCEPT !.next = n]
           IN /\ Polling(u) /\ Steady(t, u) /\ Untouched(t, u)
              /\ u.next = n /\ u.group = t.group
<1> DEFINE u == [t EXCEPT !.next = n]
<1>1. t \in States /\ Sound(t)
  BY DEF Polling, Sound
<1>2. /\ u.list = t.list /\ u.info = t.info /\ u.members = t.members /\ u.auth = t.auth
      /\ u.queue = t.queue /\ u.group = t.group /\ u.next = n /\ u.flight = t.flight
      /\ u.avail = t.avail /\ u.found = t.found
  BY <1>1 DEF States
<1>3. u \in States
  BY <1>1 DEF States
<1> HIDE DEF u
<1>4. Steady(t, u) /\ Untouched(t, u)
  BY <1>2 DEF Steady, SameStructs, Untouched
<1>5. Counted(u.queue, u.list, u.info) /\ Pointed(u.next, u.members) /\ Len(u.flight) <= Buffers
  BY <1>1, <1>2 DEF Sound
<1>6. Sound(u)
  BY <1>1, <1>3, <1>4, <1>5, SteadySound
<1>7. Polling(u)
  BY <1>2, <1>6 DEF Polling
<1> QED
  BY <1>2, <1>4, <1>7 DEF u

LEMMA PointerTypes ==
    /\ Null \in NextType /\ Garbage \in NextType
    /\ Null.kind = "null" /\ Garbage.kind = "garbage"
    /\ \A k \in {"entry", "freed"}, e \in EntryType :
          /\ Pointer(k, e) \in NextType /\ Pointer(k, e).kind = k
          /\ Pointer(k, e).addr = e.addr /\ Pointer(k, e).info = e.info
          /\ Pointer(k, e).id = e.id
    /\ \A n \in NextType :
          /\ n.kind \in {"null", "garbage", "entry", "freed"}
          /\ n.kind = "null" => n = Null
          /\ n.kind \in {"entry", "freed"} =>
                /\ n.info \in Infos /\ n.id \in 1 .. MaxId /\ n.addr \in Stations
<1>1. /\ Null \in NextType /\ Garbage \in NextType
      /\ Null.kind = "null" /\ Garbage.kind = "garbage"
  BY DEF NextType, Null, Garbage
<1>2. \A k \in {"entry", "freed"}, e \in EntryType :
          /\ Pointer(k, e) \in NextType /\ Pointer(k, e).kind = k
          /\ Pointer(k, e).addr = e.addr /\ Pointer(k, e).info = e.info
          /\ Pointer(k, e).id = e.id
  BY DEF NextType, Pointer, EntryType
<1>3. ASSUME NEW n \in NextType
      PROVE  /\ n.kind \in {"null", "garbage", "entry", "freed"}
             /\ n.kind = "null" => n = Null
             /\ n.kind \in {"entry", "freed"} =>
                   /\ n.info \in Infos /\ n.id \in 1 .. MaxId /\ n.addr \in Stations
  <2>1. n.kind \in {"null", "garbage", "entry", "freed"}
    BY DEF NextType
  <2>2. n.kind = "null" => n = Null
    BY DEF NextType, Null
  <2>3. n.kind \in {"entry", "freed"} =>
            /\ n.info \in Infos /\ n.id \in 1 .. MaxId /\ n.addr \in Stations
    BY DEF NextType
  <2> QED
    BY <2>1, <2>2, <2>3
<1> QED
  BY <1>1, <1>2, <1>3

\* Entries of one list have different stations.
LEMMA DistinctEntries ==
    ASSUME NEW m \in Seq(EntryType), NEW l, NEW i, Listed(l, i), Entered(m, l, i)
    PROVE  /\ \A x, y \in DOMAIN m : m[x].addr = m[y].addr => x = y
           /\ \A e, f \in Range(m) : e.addr = f.addr => e = f
           /\ IsInjective(m) /\ Distinct(m)
<1>1. DOMAIN m = 1 .. Len(m) /\ Len(m) \in Nat /\ \A x \in DOMAIN m : m[x].id \in Int
  <2>1. \A x \in DOMAIN m : m[x] \in EntryType
    OBVIOUS
  <2>2. \A e \in EntryType : e.id \in Int
    BY DEF EntryType
  <2>3. DOMAIN m = 1 .. Len(m) /\ Len(m) \in Nat
    OBVIOUS
  <2> QED
    BY <2>1, <2>2, <2>3
<1>2. ASSUME NEW x \in DOMAIN m, NEW y \in DOMAIN m, m[x].addr = m[y].addr
      PROVE  x = y
  <2>1. EntryKept(m[x], l, i) /\ EntryKept(m[y], l, i)
    BY DEF Entered, Range
  <2>2. m[x].info = m[y].info
    BY <1>2, <2>1 DEF EntryKept, EntryHeld, Listed
  <2>3. m[x].id = m[y].id
    BY <2>1, <2>2 DEF EntryKept, EntryHeld
  <2>4. ~ (m[x].id < m[y].id) /\ ~ (m[y].id < m[x].id)
    BY <1>1, <2>3
  <2>5. ~ (x < y) /\ ~ (y < x)
    BY <2>4 DEF Entered, Rising
  <2> QED
    BY <1>1, <2>5
<1>3. ASSUME NEW e \in Range(m), NEW f \in Range(m), e.addr = f.addr
      PROVE  e = f
  <2>1. PICK x \in DOMAIN m : m[x] = e
    BY DEF Range
  <2>2. PICK y \in DOMAIN m : m[y] = f
    BY DEF Range
  <2> QED
    BY <1>2, <1>3, <2>1, <2>2
<1>4. IsInjective(m)
  BY <1>2 DEF IsInjective
<1>5. Distinct(m)
  BY <1>1, <1>2 DEF Distinct
<1> QED
  BY <1>2, <1>3, <1>4, <1>5

\* Where the pointer of the round robin stands: at the multicast queue (0) or at a
\* member, and what follows.
PosOf(t, j) == IF j = 0 THEN Null ELSE Pointer("entry", t.members[j])
Follow(t, j) == IF j = Len(t.members) THEN 0 ELSE j + 1

LEMMA Positions ==
    ASSUME NEW t, Sound(t), NEW j \in 0 .. Len(t.members)
    PROVE  /\ PosOf(t, j) \in NextType /\ Pointed(PosOf(t, j), t.members)
           /\ Follow(t, j) \in 0 .. Len(t.members)
           /\ j = 0 => First(t) = PosOf(t, Follow(t, j))
           /\ j # 0 => AfterMember(t, PosOf(t, j)) = PosOf(t, Follow(t, j))
<1>1. /\ t.members \in Seq(EntryType) /\ Listed(t.list, t.info)
      /\ Entered(t.members, t.list, t.info)
      /\ DOMAIN t.members = 1 .. Len(t.members) /\ Len(t.members) \in Nat
  BY DEF Sound, States
<1>2. PosOf(t, j) \in NextType /\ Pointed(PosOf(t, j), t.members)
  <2>1. CASE j = 0
    BY <2>1, PointerTypes DEF PosOf, Pointed
  <2>2. CASE j # 0
    <3>1. j \in DOMAIN t.members /\ t.members[j] \in EntryType
      BY <1>1, <2>2
    <3>2. t.members[j] \in Range(t.members)
      BY <3>1 DEF Range
    <3> QED
      BY <2>2, <3>1, <3>2, PointerTypes DEF PosOf, Pointed
  <2> QED
    BY <2>1, <2>2
<1>3. Follow(t, j) \in 0 .. Len(t.members)
  BY <1>1 DEF Follow
<1>4. ASSUME j = 0 PROVE First(t) = PosOf(t, Follow(t, j))
  <2>1. CASE t.members = <<>>
    BY <1>4, <2>1 DEF First, PosOf, Follow
  <2>2. CASE t.members # <<>>
    <3>1. Len(t.members) # 0 /\ Head(t.members) = t.members[1]
      BY <1>1, <2>2, TailFacts
    <3> QED
      BY <1>4, <2>2, <3>1 DEF First, PosOf, Follow
  <2> QED
    BY <2>1, <2>2
<1>5. ASSUME j # 0 PROVE AfterMember(t, PosOf(t, j)) = PosOf(t, Follow(t, j))
  <2>1. j \in DOMAIN t.members /\ t.members[j] \in EntryType
    BY <1>1, <1>5
  <2>2. PosOf(t, j).addr = t.members[j].addr
    BY <1>5, <2>1, PointerTypes DEF PosOf
  <2> DEFINE i == CHOOSE x \in DOMAIN t.members : t.members[x].addr = PosOf(t, j).addr
  <2>3. i \in DOMAIN t.members /\ t.members[i].addr = t.members[j].addr
    BY <2>1, <2>2
  <2>4. AfterMember(t, PosOf(t, j)) =
            IF i = Len(t.members) THEN Null ELSE Pointer("entry", t.members[i + 1])
    BY DEF AfterMember
  <2> HIDE DEF i
  <2>5. i = j
    BY <1>1, <2>1, <2>3, DistinctEntries
  <2> QED
    BY <1>1, <1>5, <2>4, <2>5 DEF PosOf, Follow
<1> QED
  BY <1>2, <1>3, <1>4, <1>5

\* A pointer to an entry or to nothing has such a place.
LEMMA Settled ==
    ASSUME NEW t, Sound(t), t.next.kind \in {"null", "entry"}
    PROVE  \E j \in 0 .. Len(t.members) : t.next = PosOf(t, j)
<1>1. /\ t.members \in Seq(EntryType) /\ t.next \in NextType /\ Len(t.members) \in Nat
      /\ DOMAIN t.members = 1 .. Len(t.members)
  BY DEF Sound, States
<1>2. CASE t.next.kind = "null"
  <2>1. t.next = PosOf(t, 0) /\ 0 \in 0 .. Len(t.members)
    BY <1>1, <1>2, PointerTypes DEF PosOf
  <2> QED
    BY <2>1
<1>3. CASE t.next.kind = "entry"
  <2>1. PICK e \in Range(t.members) : t.next = Pointer("entry", e)
    BY <1>3 DEF Sound, Pointed
  <2>2. PICK j \in DOMAIN t.members : t.members[j] = e
    BY DEF Range
  <2>3. t.next = PosOf(t, j) /\ j \in 0 .. Len(t.members)
    BY <1>1, <2>1, <2>2 DEF PosOf
  <2> QED
    BY <2>3
<1> QED
  BY <1>2, <1>3

\* A member that gets no packet: it sleeps or has none.
Skipped(t, e) ==
    t.info[e.info].doze \/ t.queue[STATION_ID_TO_QUEUE_ID(e.id)] = <<>>
IdleAt(t, j) ==
    IF j = 0 THEN t.queue[MCAST_QID] = <<>> ELSE Skipped(t, t.members[j])

LEMMA ServeStationFacts ==
    ASSUME NEW t, Polling(t), t.avail > 0, NEW e, e.info \in Infos, e.id \in 1 .. MaxId
    PROVE  LET u == ServeStation(t, e)
           IN /\ Polling(u) /\ Steady(t, u) /\ u.next = t.next /\ u.group = t.group
              /\ Sent(u) \/ (u = t /\ Skipped(t, e))
<1>1. STATION_ID_TO_QUEUE_ID(e.id) \in Queues
  BY Sizes
<1>2. CASE t.info[e.info].doze
  <2>1. ServeStation(t, e) = t
    BY <1>2 DEF ServeStation
  <2>2. Steady(t, t) /\ Skipped(t, e)
    BY <1>2 DEF Steady, SameStructs, Skipped
  <2> QED
    BY <2>1, <2>2
<1>3. CASE ~ t.info[e.info].doze
  <2> DEFINE q == STATION_ID_TO_QUEUE_ID(e.id)
             u == Serve(t, q)
  <2>1. ServeStation(t, e) = u
    BY <1>3 DEF ServeStation
  <2>2. /\ Polling(u) /\ Steady(t, u) /\ u.next = t.next /\ u.group = t.group
        /\ Sent(u) \/ (u = t /\ t.queue[q] = <<>>)
    BY <1>1, ServeFacts
  <2> HIDE DEF u
  <2> QED
    BY <2>1, <2>2 DEF Skipped
<1> QED
  BY <1>2, <1>3

\* The pointer after a turn that sends nothing.
Turned(t, u) ==
    /\ \A j \in 0 .. Len(t.members) :
          t.next = PosOf(t, j) => IdleAt(t, j) /\ u.next = PosOf(t, Follow(t, j))
    /\ t.next.kind = "freed" => u.next = IF IsMember(t.members, t.next.info)
                                         THEN Garbage ELSE Null
    /\ t.next.kind = "garbage" => u.next = Null

LEMMA PositionsApart ==
    ASSUME NEW t, Sound(t), NEW j \in 0 .. Len(t.members), NEW k \in 0 .. Len(t.members),
           PosOf(t, j) = PosOf(t, k)
    PROVE  j = k
<1>1. /\ t.members \in Seq(EntryType) /\ Listed(t.list, t.info)
      /\ Entered(t.members, t.list, t.info)
      /\ DOMAIN t.members = 1 .. Len(t.members) /\ Len(t.members) \in Nat
  BY DEF Sound, States
<1>2. ASSUME NEW x \in 0 .. Len(t.members)
      PROVE  /\ x = 0 => PosOf(t, x).kind = "null"
             /\ x # 0 => /\ x \in DOMAIN t.members
                         /\ PosOf(t, x).kind = "entry" /\ PosOf(t, x).addr = t.members[x].addr
  <2>1. x # 0 => x \in DOMAIN t.members /\ t.members[x] \in EntryType
    BY <1>1
  <2> QED
    BY <2>1, PointerTypes DEF PosOf
<1>3. j = 0 <=> k = 0
  BY <1>2
<1>4. j # 0 => t.members[j].addr = t.members[k].addr
  BY <1>2, <1>3
<1> QED
  BY <1>1, <1>2, <1>3, <1>4, DistinctEntries

LEMMA DataTurnFacts ==
    ASSUME NEW t, Polling(t), t.found => Sent(t), t.found \/ t.avail > 0
    PROVE  LET u == DataTurn(t)
           IN /\ Polling(u) /\ Steady(t, u) /\ u.group = t.group
              /\ u.found => Sent(u)
              /\ u.found \/ u.avail > 0
              /\ Sent(u) \/ (~ u.found /\ Untouched(t, u) /\ Turned(t, u))
<1> DEFINE u == DataTurn(t)
<1>1. Sound(t) /\ t \in States /\ t.next \in NextType /\ t.members \in Seq(EntryType)
      /\ Len(t.members) \in Nat
  BY DEF Polling, Sound, States
<1>2. CASE t.found
  <2>1. u = t
    BY <1>2 DEF DataTurn
  <2>2. Steady(t, t)
    BY DEF Steady, SameStructs
  <2> HIDE DEF u
  <2>3. Polling(u) /\ Steady(t, u) /\ u.group = t.group /\ Sent(u) /\ u.found
    BY <1>2, <2>1, <2>2
  <2> QED
    BY <2>3 DEF u
<1>3. ASSUME ~ t.found, NEW n \in NextType, Pointed(n, t.members), NEW v, v = [t EXCEPT !.next = n]
      PROVE  /\ Polling(v) /\ Steady(t, v) /\ Untouched(t, v) /\ v.avail > 0 /\ ~ v.found
             /\ v.next = n /\ v.group = t.group
  BY <1>3, NextSet DEF Untouched
<1>4. ASSUME NEW v, NEW w, Polling(v), Steady(t, v), v.avail > 0, v.group = t.group, ~ v.found,
             Untouched(t, v), Polling(w), Steady(v, w), w.group = v.group,
             Sent(w) \/ (w = v /\ Turned(t, v))
      PROVE  /\ Polling(w) /\ Steady(t, w) /\ w.group = t.group
             /\ w.found => Sent(w)
             /\ w.found \/ w.avail > 0
             /\ Sent(w) \/ (~ w.found /\ Untouched(t, w) /\ Turned(t, w))
  <2>1. Steady(t, w)
    BY <1>4, SteadyTransitive
  <2>2. CASE Sent(w)
    BY <1>4, <2>1, <2>2 DEF Sent
  <2>3. CASE w = v /\ Turned(t, v)
    BY <1>4, <2>1, <2>3
  <2> QED
    BY <1>4, <2>2, <2>3
<1>5. CASE ~ t.found /\ t.next.kind = "null"
  <2> DEFINE n == First(t)
             v == [t EXCEPT !.next = n]
             w == Serve(v, MCAST_QID)
  <2>1. u = w
    BY <1>5 DEF DataTurn
  <2>2. t.next = PosOf(t, 0) /\ 0 \in 0 .. Len(t.members)
    BY <1>1, <1>5, PointerTypes DEF PosOf
  <2>3. n = PosOf(t, Follow(t, 0)) /\ Follow(t, 0) \in 0 .. Len(t.members)
    BY <1>1, <2>2, Positions
  <2>4. n \in NextType /\ Pointed(n, t.members)
    BY <1>1, <2>3, Positions
  <2> HIDE DEF n
  <2>5. /\ Polling(v) /\ Steady(t, v) /\ Untouched(t, v) /\ v.avail > 0 /\ ~ v.found
        /\ v.next = n /\ v.group = t.group
    BY <1>3, <1>5, <2>4
  <2> HIDE DEF v
  <2>6. /\ Polling(w) /\ Steady(v, w) /\ w.next = v.next /\ w.group = v.group
        /\ Sent(w) \/ (w = v /\ v.queue[MCAST_QID] = <<>>)
    BY <2>5, Sizes, ServeFacts
  <2> HIDE DEF w
  <2>7. ASSUME v.queue[MCAST_QID] = <<>>
        PROVE  Turned(t, v)
    <3>1. IdleAt(t, 0)
      BY <2>5, <2>7 DEF IdleAt, Untouched
    <3>2. \A j \in 0 .. Len(t.members) : t.next = PosOf(t, j) => j = 0
      BY <1>1, <2>2, PositionsApart
    <3> QED
      BY <1>5, <2>3, <2>5, <3>1, <3>2 DEF Turned
  <2> QED
    BY <1>4, <2>1, <2>5, <2>6, <2>7 DEF u
<1>6. CASE ~ t.found /\ t.next.kind = "entry"
  <2>1. PICK k \in 0 .. Len(t.members) : t.next = PosOf(t, k)
    BY <1>1, <1>6, Settled
  <2>2. k # 0 /\ t.members[k] \in EntryType
    BY <1>1, <1>6, <2>1, PointerTypes DEF PosOf
  <2> DEFINE n == AfterMember(t, t.next)
             e == t.next
             v == [t EXCEPT !.next = n]
             w == ServeStation(v, e)
  <2>3. u = w
    BY <1>6 DEF DataTurn
  <2>4. n = PosOf(t, Follow(t, k)) /\ Follow(t, k) \in 0 .. Len(t.members)
    BY <1>1, <2>1, <2>2, Positions
  <2>5. n \in NextType /\ Pointed(n, t.members)
    BY <1>1, <2>4, Positions
  <2>6. e.info = t.members[k].info /\ e.id = t.members[k].id
        /\ e.info \in Infos /\ e.id \in 1 .. MaxId
    BY <2>1, <2>2, PointerTypes DEF PosOf, EntryType
  <2> HIDE DEF n, e
  <2>7. /\ Polling(v) /\ Steady(t, v) /\ Untouched(t, v) /\ v.avail > 0 /\ ~ v.found
        /\ v.next = n /\ v.group = t.group
    BY <1>3, <1>6, <2>5
  <2> HIDE DEF v
  <2>8. /\ Polling(w) /\ Steady(v, w) /\ w.next = v.next /\ w.group = v.group
        /\ Sent(w) \/ (w = v /\ Skipped(v, e))
    BY <2>6, <2>7, ServeStationFacts
  <2> HIDE DEF w
  <2>9. ASSUME Skipped(v, e)
        PROVE  Turned(t, v)
    <3>1. IdleAt(t, k)
      BY <2>2, <2>6, <2>7, <2>9 DEF IdleAt, Untouched, Skipped
    <3>2. \A j \in 0 .. Len(t.members) : t.next = PosOf(t, j) => j = k
      BY <1>1, <2>1, PositionsApart
    <3> QED
      BY <1>6, <2>4, <2>7, <3>1, <3>2 DEF Turned
  <2> QED
    BY <1>4, <2>3, <2>7, <2>8, <2>9 DEF u
<1>7. ASSUME t.next.kind \in {"freed", "garbage"}, NEW j \in 0 .. Len(t.members)
      PROVE  t.next # PosOf(t, j)
  <2>1. CASE j = 0
    BY <1>7, <2>1, PointerTypes DEF PosOf
  <2>2. CASE j # 0
    <3>1. t.members[j] \in EntryType
      BY <1>1, <2>2
    <3> QED
      BY <1>7, <2>2, <3>1, PointerTypes DEF PosOf
  <2> QED
    BY <2>1, <2>2
<1>8. CASE ~ t.found /\ t.next.kind = "freed" /\ IsMember(t.members, t.next.info)
  <2> DEFINE e == t.next
             v == [t EXCEPT !.next = Garbage]
             w == ServeStation(v, e)
  <2>1. u = w
    BY <1>8 DEF DataTurn
  <2>2. e.info \in Infos /\ e.id \in 1 .. MaxId
    BY <1>1, <1>8, PointerTypes
  <2>3. Garbage \in NextType /\ Pointed(Garbage, t.members)
    BY PointerTypes DEF Pointed
  <2> HIDE DEF e
  <2>4. /\ Polling(v) /\ Steady(t, v) /\ Untouched(t, v) /\ v.avail > 0 /\ ~ v.found
        /\ v.next = Garbage /\ v.group = t.group
    BY <1>3, <1>8, <2>3
  <2> HIDE DEF v
  <2>5. /\ Polling(w) /\ Steady(v, w) /\ w.next = v.next /\ w.group = v.group
        /\ Sent(w) \/ (w = v /\ Skipped(v, e))
    BY <2>2, <2>4, ServeStationFacts
  <2> HIDE DEF w
  <2>6. Turned(t, v)
    BY <1>7, <1>8, <2>4 DEF Turned
  <2> QED
    BY <1>4, <2>1, <2>4, <2>5, <2>6 DEF u
<1>9. CASE ~ t.found /\ (t.next.kind = "garbage" \/
                         (t.next.kind = "freed" /\ ~ IsMember(t.members, t.next.info)))
  <2> DEFINE v == [t EXCEPT !.next = Null]
  <2>1. u = v
    BY <1>9 DEF DataTurn
  <2>2. Null \in NextType /\ Pointed(Null, t.members)
    BY PointerTypes DEF Pointed
  <2>3. /\ Polling(v) /\ Steady(t, v) /\ Untouched(t, v) /\ v.avail > 0 /\ ~ v.found
        /\ v.next = Null /\ v.group = t.group
    BY <1>3, <1>9, <2>2
  <2> HIDE DEF v
  <2>4. Turned(t, v)
    BY <1>7, <1>9, <2>3 DEF Turned
  <2> QED
    BY <2>1, <2>3, <2>4 DEF u
<1> QED
  BY <1>1, <1>2, <1>5, <1>6, <1>8, <1>9, PointerTypes

\* The turns of the loop, one after the other.
TurnsUpTo(turn, t, m) ==
    turn = [n \in 0 .. m |-> IF n = 0 THEN t ELSE DataTurn(turn[n - 1])]

LEMMA TurnsExist ==
    ASSUME NEW t, NEW m \in Nat
    PROVE  \E turn : TurnsUpTo(turn, t, m)
<1> DEFINE P == {k \in Nat : \E turn : TurnsUpTo(turn, t, k)}
<1>1. 0 \in P
  <2>1. TurnsUpTo([n \in 0 .. 0 |-> t], t, 0)
    BY DEF TurnsUpTo
  <2> QED
    BY <2>1
<1>2. ASSUME NEW k \in Nat, k \in P PROVE k + 1 \in P
  <2>1. PICK turn : TurnsUpTo(turn, t, k)
    BY <1>2
  <2> DEFINE more == [n \in 0 .. k + 1 |-> IF n = k + 1 THEN DataTurn(turn[k]) ELSE turn[n]]
  <2>2. ASSUME NEW n \in 0 .. k + 1
        PROVE  more[n] = IF n = 0 THEN t ELSE DataTurn(more[n - 1])
    <3>1. CASE n = k + 1
      <4>1. n # 0 /\ n - 1 = k /\ n - 1 \in 0 .. k + 1 /\ n - 1 # k + 1
        BY <3>1
      <4>2. more[n] = DataTurn(turn[k]) /\ more[n - 1] = turn[k]
        BY <3>1, <4>1
      <4> QED
        BY <4>1, <4>2
    <3>2. CASE n # k + 1
      <4>1. n \in 0 .. k /\ more[n] = turn[n]
        BY <3>2
      <4>2. n # 0 => n - 1 \in 0 .. k + 1 /\ n - 1 # k + 1
        BY <4>1
      <4>3. n # 0 => more[n - 1] = turn[n - 1]
        BY <4>2
      <4>4. turn[n] = IF n = 0 THEN t ELSE DataTurn(turn[n - 1])
        BY <2>1, <4>1 DEF TurnsUpTo
      <4> HIDE DEF more
      <4> QED
        BY <4>1, <4>3, <4>4
    <3> QED
      BY <3>1, <3>2
  <2>3. more = [n \in 0 .. k + 1 |-> more[n]]
    OBVIOUS
  <2> HIDE DEF more
  <2>4. TurnsUpTo(more, t, k + 1)
    BY <2>2, <2>3 DEF TurnsUpTo
  <2> QED
    BY <2>4
<1> HIDE DEF P
<1>3. Nat \subseteq P
  BY <1>1, <1>2, NatInduct
<1> QED
  BY <1>3 DEF P

\* k turns that sent nothing, from t to v: a place k further than the one of t, and
\* nothing to send at the places in between; a pointer to something freed gets to
\* a place in one turn or two.
AtPlace(n) == n.kind \in {"null", "entry"}
Wrapped(n, j, k) == IF j + k <= n THEN j + k ELSE j + k - (n + 1)
Went(t, v, k) ==
    /\ \A j \in 0 .. Len(t.members) :
          t.next = PosOf(t, j) =>
             /\ v.next = PosOf(t, Wrapped(Len(t.members), j, k))
             /\ \A i \in 0 .. k - 1 : IdleAt(t, Wrapped(Len(t.members), j, i))
    /\ k = 0 \/ AtPlace(v.next) \/ (k = 1 /\ Len(t.members) > 0 /\ v.next = Garbage)

LEMMA WrappedFacts ==
    ASSUME NEW n \in Nat, NEW j \in 0 .. n, NEW k \in 0 .. n
    PROVE  /\ Wrapped(n, j, 0) = j /\ Wrapped(n, j, k) \in 0 .. n
           /\ Wrapped(n, j, k + 1) = IF Wrapped(n, j, k) = n THEN 0 ELSE Wrapped(n, j, k) + 1
           /\ \E i \in 0 .. n : Wrapped(n, j, i) = k
<1>1. /\ Wrapped(n, j, 0) = j /\ Wrapped(n, j, k) \in 0 .. n
      /\ Wrapped(n, j, k + 1) = IF Wrapped(n, j, k) = n THEN 0 ELSE Wrapped(n, j, k) + 1
  BY DEF Wrapped
<1>2. \E i \in 0 .. n : Wrapped(n, j, i) = k
  <2>1. CASE j <= k
    <3>1. k - j \in 0 .. n /\ Wrapped(n, j, k - j) = k
      BY <2>1 DEF Wrapped
    <3> QED
      BY <3>1
  <2>2. CASE k < j
    <3>1. k + n + 1 - j \in 0 .. n /\ Wrapped(n, j, k + n + 1 - j) = k
      BY <2>2 DEF Wrapped
    <3> QED
      BY <3>1
  <2> QED
    BY <2>1, <2>2
<1> QED
  BY <1>1, <1>2

LEMMA IdleUntouched ==
    ASSUME NEW t, NEW v, Steady(t, v), Untouched(t, v), NEW j
    PROVE  /\ IdleAt(v, j) => IdleAt(t, j)
           /\ PosOf(v, j) = PosOf(t, j) /\ Follow(v, j) = Follow(t, j)
  BY DEF Steady, Untouched, IdleAt, Skipped, PosOf, Follow

LEMMA WentFurther ==
    ASSUME NEW t, NEW v, NEW w, Sound(t), Sound(v), Steady(t, v), Untouched(t, v),
           NEW k \in 0 .. Len(t.members), Went(t, v, k), Turned(v, w)
    PROVE  Went(t, w, k + 1)
<1>1. /\ t.members \in Seq(EntryType) /\ Len(t.members) \in Nat /\ v.members = t.members
      /\ k \in Nat /\ v.next \in NextType
  BY DEF Sound, States, Steady
<1>2. ASSUME NEW j \in 0 .. Len(t.members), t.next = PosOf(t, j)
      PROVE  /\ w.next = PosOf(t, Wrapped(Len(t.members), j, k + 1))
             /\ \A i \in 0 .. (k + 1) - 1 : IdleAt(t, Wrapped(Len(t.members), j, i))
  <2> DEFINE p == Wrapped(Len(t.members), j, k)
  <2>1. p \in 0 .. Len(t.members) /\ Follow(t, p) = Wrapped(Len(t.members), j, k + 1)
    <3> DEFINE n == Len(t.members)
    <3>1. n \in Nat /\ j \in 0 .. n /\ k \in 0 .. n
      BY <1>1
    <3> HIDE DEF n, p
    <3>2. Wrapped(n, j, k) \in 0 .. n
      BY <3>1, WrappedFacts
    <3>3. Wrapped(n, j, k + 1) = IF Wrapped(n, j, k) = n THEN 0 ELSE Wrapped(n, j, k) + 1
      BY <3>1, WrappedFacts
    <3> QED
      BY <3>2, <3>3, Zenon DEF Follow, p, n
  <2>2. v.next = PosOf(t, p) /\ \A i \in 0 .. k - 1 : IdleAt(t, Wrapped(Len(t.members), j, i))
    BY <1>2 DEF Went
  <2> HIDE DEF p
  <2>3. v.next = PosOf(v, p) /\ p \in 0 .. Len(v.members)
    BY <1>1, <2>1, <2>2, IdleUntouched
  <2>4. IdleAt(v, p) /\ w.next = PosOf(v, Follow(v, p))
    BY <2>3 DEF Turned
  <2>5. IdleAt(t, p) /\ w.next = PosOf(t, Follow(t, p))
    BY <2>4, IdleUntouched
  <2>6. ASSUME NEW i \in 0 .. (k + 1) - 1 PROVE IdleAt(t, Wrapped(Len(t.members), j, i))
    <3>1. i \in 0 .. k - 1 \/ i = k
      BY <1>1
    <3> QED
      BY <2>2, <2>5, <3>1 DEF p
  <2> QED
    BY <2>1, <2>5, <2>6
<1>3. AtPlace(w.next) \/ (k + 1 = 1 /\ Len(t.members) > 0 /\ w.next = Garbage)
  <2>1. CASE AtPlace(v.next)
    <3>1. PICK p \in 0 .. Len(v.members) : v.next = PosOf(v, p)
      BY <2>1, Settled DEF AtPlace
    <3>2. w.next = PosOf(v, Follow(v, p)) /\ Follow(v, p) \in 0 .. Len(v.members)
      BY <3>1, Positions DEF Turned
    <3>3. PosOf(v, Follow(v, p)).kind \in {"null", "entry"}
      <4>1. CASE Follow(v, p) = 0
        BY <4>1, PointerTypes DEF PosOf
      <4>2. CASE Follow(v, p) # 0
        <5>1. v.members[Follow(v, p)] \in EntryType
          BY <1>1, <3>2, <4>2
        <5> QED
          BY <4>2, <5>1, PointerTypes DEF PosOf
      <4> QED
        BY <4>1, <4>2
    <3> QED
      BY <3>2, <3>3 DEF AtPlace
  <2>2. CASE v.next.kind = "garbage"
    BY <2>2, PointerTypes DEF AtPlace, Turned
  <2>3. CASE v.next.kind = "freed"
    <3>1. k = 0
      BY <2>3, PointerTypes DEF AtPlace, Went
    <3>2. CASE IsMember(v.members, v.next.info)
      <4>1. w.next = Garbage
        BY <2>3, <3>2 DEF Turned
      <4>2. Len(t.members) > 0
        <5>1. PICK e \in Range(v.members) : TRUE
          BY <3>2 DEF IsMember
        <5>2. DOMAIN v.members # {}
          BY <5>1 DEF Range
        <5> QED
          BY <1>1, <5>2
      <4> QED
        BY <3>1, <4>1, <4>2
    <3>3. CASE ~ IsMember(v.members, v.next.info)
      BY <2>3, <3>3, PointerTypes DEF AtPlace, Turned
    <3> QED
      BY <3>2, <3>3
  <2> QED
    BY <1>1, <2>1, <2>2, <2>3, PointerTypes DEF AtPlace
<1> QED
  BY <1>2, <1>3 DEF Went

\* A poll of the data queues that sends nothing found none of them with a packet to
\* send, if it started at a place, and ends at one.
LEMMA PollDataFacts ==
    ASSUME NEW t, Polling(t), ~ t.found, t.avail > 0
    PROVE  LET u == PollData(t)
           IN /\ Polling(u) /\ Steady(t, u) /\ u.group = t.group
              /\ \/ Sent(u)
                 \/ /\ Untouched(t, u) /\ AtPlace(u.next)
                    /\ AtPlace(t.next) => \A j \in 0 .. Len(t.members) : IdleAt(t, j)
<1> DEFINE m == Len(t.members) + 1
           turn == CHOOSE f : TurnsUpTo(f, t, m)
<1>1. m \in Nat /\ Len(t.members) \in Nat /\ Sound(t)
  BY DEF Polling, Sound, States
<1>2. TurnsUpTo(turn, t, m)
  BY <1>1, TurnsExist
<1>3. PollData(t) = turn[m]
  BY DEF PollData, TurnsUpTo
<1> HIDE DEF turn
<1>4. turn[0] = t
  BY <1>1, <1>2 DEF TurnsUpTo
<1>5. ASSUME NEW k \in Nat, k + 1 <= m PROVE turn[k + 1] = DataTurn(turn[k])
  <2>1. k + 1 \in 0 .. m /\ k + 1 # 0 /\ (k + 1) - 1 = k
    BY <1>1, <1>5
  <2>2. turn = [n \in 0 .. m |-> IF n = 0 THEN t ELSE DataTurn(turn[n - 1])]
    BY <1>2 DEF TurnsUpTo
  <2> HIDE DEF m
  <2> QED
    BY <2>1, <2>2
<1> DEFINE Good(v, k) ==
              /\ Polling(v) /\ Steady(t, v) /\ v.group = t.group
              /\ v.found => Sent(v)
              /\ v.found \/ v.avail > 0
              /\ Sent(v) \/ (~ v.found /\ Untouched(t, v) /\ Went(t, v, k))
           P == {k \in Nat : k <= m => Good(turn[k], k)}
<1>6. Good(t, 0)
  <2>1. Steady(t, t) /\ Untouched(t, t)
    BY DEF Steady, SameStructs, Untouched
  <2>2. \A j \in 0 .. Len(t.members) : Wrapped(Len(t.members), j, 0) = j
    BY <1>1, WrappedFacts, Zenon
  <2>3. Went(t, t, 0)
    BY <2>2 DEF Went
  <2> QED
    BY <2>1, <2>3
<1>7. ASSUME NEW v, NEW k \in 0 .. Len(t.members), Good(v, k)
      PROVE  Good(DataTurn(v), k + 1)
  <2> DEFINE w == DataTurn(v)
  <2>1. /\ Polling(w) /\ Steady(v, w) /\ w.group = v.group
        /\ w.found => Sent(w)
        /\ w.found \/ w.avail > 0
        /\ Sent(w) \/ (~ w.found /\ Untouched(v, w) /\ Turned(v, w))
    BY <1>7, DataTurnFacts
  <2> HIDE DEF w
  <2>2. Steady(t, w) /\ w.group = t.group
    BY <1>7, <2>1, SteadyTransitive
  <2>3. CASE Sent(w)
    BY <2>1, <2>2, <2>3 DEF w
  <2>4. CASE ~ Sent(w)
    <3>1. ~ w.found /\ Untouched(v, w) /\ Turned(v, w)
      BY <2>1, <2>4
    <3>2. CASE Sent(v)
      BY <3>1, <3>2 DEF Sent, Untouched
    <3>3. CASE ~ Sent(v)
      <4>1. ~ v.found /\ Untouched(t, v) /\ Went(t, v, k)
        BY <1>7, <3>3
      <4>2. Untouched(t, w)
        BY <3>1, <4>1 DEF Untouched
      <4>3. Sound(v) /\ Steady(t, v)
        BY <1>7 DEF Polling
      <4>4. Went(t, w, k + 1)
        BY <1>1, <3>1, <4>1, <4>3, WentFurther
      <4> QED
        BY <2>1, <2>2, <3>1, <4>2, <4>4 DEF w
    <3> QED
      BY <3>2, <3>3
  <2> QED
    BY <2>3, <2>4
<1> HIDE DEF Good
<1>8. 0 \in P
  BY <1>4, <1>6
<1>9. ASSUME NEW k \in Nat, k \in P PROVE k + 1 \in P
  <2>1. CASE k + 1 <= m
    <3>1. k \in 0 .. Len(t.members) /\ k <= m
      BY <1>1, <2>1
    <3>2. Good(turn[k], k)
      BY <1>9, <3>1
    <3> QED
      BY <1>5, <1>7, <2>1, <3>1, <3>2
  <2>2. CASE ~ (k + 1 <= m)
    BY <2>2
  <2> QED
    BY <2>1, <2>2
<1> HIDE DEF P
<1>10. m \in P
  BY <1>1, <1>8, <1>9, NatInduct
<1>11. Good(PollData(t), m)
  BY <1>1, <1>3, <1>10 DEF P
<1> DEFINE u == PollData(t)
<1> HIDE DEF u
<1>12. /\ Polling(u) /\ Steady(t, u) /\ u.group = t.group
       /\ Sent(u) \/ (Untouched(t, u) /\ Went(t, u, m))
  BY <1>11 DEF Good, u
<1>13. ASSUME Went(t, u, m)
       PROVE  /\ AtPlace(u.next)
              /\ AtPlace(t.next) => \A j \in 0 .. Len(t.members) : IdleAt(t, j)
  <2>1. AtPlace(u.next)
    BY <1>1, <1>13 DEF Went
  <2>2. ASSUME AtPlace(t.next), NEW j \in 0 .. Len(t.members)
        PROVE  IdleAt(t, j)
    <3>1. PICK p \in 0 .. Len(t.members) : t.next = PosOf(t, p)
      BY <1>1, <2>2, Settled DEF AtPlace
    <3>2. PICK i \in 0 .. m - 1 : Wrapped(Len(t.members), p, i) = j
      <4> DEFINE n == Len(t.members)
      <4>1. m - 1 = n /\ n \in Nat /\ p \in 0 .. n /\ j \in 0 .. n
        BY <1>1
      <4> HIDE DEF n, m
      <4>2. \E i \in 0 .. n : Wrapped(n, p, i) = j
        BY <4>1, WrappedFacts
      <4> QED
        BY <4>1, <4>2, Zenon DEF n
    <3>3. IdleAt(t, Wrapped(Len(t.members), p, i))
      BY <1>13, <3>1, <3>2 DEF Went
    <3> QED
      BY <3>2, <3>3
  <2> QED
    BY <2>1, <2>2
<1> QED
  BY <1>12, <1>13 DEF u

\* The poll of a group, and the count of buffers in front of the polls.
Alike(t, u) ==
    /\ Polling(u) /\ Steady(t, u) /\ u.next = t.next /\ u.queue = t.queue
    /\ u.info = t.info /\ u.flight = t.flight /\ u.avail = t.avail

LEMMA GroupSet ==
    ASSUME NEW t, Polling(t), NEW g \in {"MGMT", "DATA"}, NEW f \in BOOLEAN
    PROVE  LET u == [t EXCEPT !.group = g, !.found = f]
           IN Alike(t, u) /\ u.group = g /\ u.found = f
<1> DEFINE u == [t EXCEPT !.group = g, !.found = f]
<1>1. t \in States /\ Sound(t)
  BY DEF Polling, Sound
<1>2. /\ u.list = t.list /\ u.info = t.info /\ u.members = t.members /\ u.auth = t.auth
      /\ u.queue = t.queue /\ u.group = g /\ u.next = t.next /\ u.flight = t.flight
      /\ u.avail = t.avail /\ u.found = f
  BY <1>1 DEF States
<1>3. u \in States
  BY <1>1 DEF States
<1> HIDE DEF u
<1>4. Steady(t, u)
  BY <1>2 DEF Steady, SameStructs
<1>5. Counted(u.queue, u.list, u.info) /\ Pointed(u.next, u.members) /\ Len(u.flight) <= Buffers
  BY <1>1, <1>2 DEF Sound
<1>6. Sound(u)
  BY <1>1, <1>3, <1>4, <1>5, SteadySound
<1> QED
  BY <1>2, <1>4, <1>6 DEF u, Alike, Polling

\* What the poll of a group leaves unsent was not there, or not its own.
Unsent(t, u) ==
    /\ u.queue = t.queue /\ u.info = t.info
    /\ t.group = "MGMT" =>
          u.group = "DATA" /\ u.next = t.next /\ t.queue[MANAGEMENT_QID] = <<>>
    /\ t.group = "DATA" =>
          /\ u.group = "MGMT" /\ AtPlace(u.next)
          /\ AtPlace(t.next) => \A j \in 0 .. Len(t.members) : IdleAt(t, j)

LEMMA PollGroupFacts ==
    ASSUME NEW t, Polling(t)
    PROVE  LET u == PollGroup(t)
           IN /\ Polling(u) /\ Steady(t, u)
              /\ u.flight = <<>> => t.flight = <<>> /\ Unsent(t, u)
<1> DEFINE u == PollGroup(t)
<1>1. /\ Sound(t) /\ t \in States /\ t.avail \in Nat /\ t.group \in {"MGMT", "DATA"}
      /\ t.flight \in Seq(Stations \cup {Mcast}) /\ t.avail + Len(t.flight) = Buffers
      /\ t.found \in BOOLEAN
  BY DEF Polling, Sound, States
<1>2. t.flight = <<>> => t.avail > 0
  BY <1>1, ApStationsAssumption
<1>3. CASE t.avail = 0
  <2>1. u = t
    BY <1>3 DEF PollGroup
  <2>2. Steady(t, t) /\ t.flight # <<>>
    BY <1>2, <1>3 DEF Steady, SameStructs
  <2> QED
    BY <2>1, <2>2
<1>4. CASE t.avail > 0 /\ t.group = "MGMT"
  <2> DEFINE v == [t EXCEPT !.group = "DATA"]
             w == Serve(v, MANAGEMENT_QID)
  <2>1. u = w
    BY <1>4 DEF PollGroup
  <2>2. v = [t EXCEPT !.group = "DATA", !.found = t.found]
    BY <1>1 DEF States
  <2> HIDE DEF v
  <2>3. Alike(t, v) /\ v.group = "DATA"
    BY <1>1, <2>2, GroupSet
  <2>4. /\ Polling(w) /\ Steady(v, w) /\ w.next = v.next /\ w.group = v.group
        /\ Sent(w) \/ (w = v /\ v.queue[MANAGEMENT_QID] = <<>>)
    BY <1>4, <2>3, Sizes, ServeFacts DEF Alike
  <2> HIDE DEF w
  <2>5. Steady(t, w)
    BY <2>3, <2>4, SteadyTransitive DEF Alike
  <2>6. w.flight = <<>> => t.flight = <<>> /\ Unsent(t, w)
    BY <1>4, <2>3, <2>4 DEF Sent, Unsent, Alike
  <2> QED
    BY <2>1, <2>4, <2>5, <2>6 DEF u
<1>5. CASE t.avail > 0 /\ t.group = "DATA"
  <2> DEFINE v == [t EXCEPT !.group = "MGMT", !.found = FALSE]
             w == PollData(v)
  <2>1. u = w
    BY <1>5 DEF PollGroup
  <2>2. Alike(t, v) /\ v.group = "MGMT" /\ ~ v.found
    BY <1>1, GroupSet
  <2> HIDE DEF v
  <2>3. /\ Polling(w) /\ Steady(v, w) /\ w.group = v.group
        /\ \/ Sent(w)
           \/ /\ Untouched(v, w) /\ AtPlace(w.next)
              /\ AtPlace(v.next) => \A j \in 0 .. Len(v.members) : IdleAt(v, j)
    BY <1>5, <2>2, PollDataFacts DEF Alike
  <2> HIDE DEF w
  <2>4. Steady(t, w)
    BY <2>2, <2>3, SteadyTransitive DEF Alike
  <2>5. v.members = t.members /\ \A j : IdleAt(v, j) => IdleAt(t, j)
    BY <2>2 DEF Alike, Steady, IdleAt, Skipped
  <2>6. w.flight = <<>> => t.flight = <<>> /\ Unsent(t, w)
    BY <1>5, <2>2, <2>3, <2>5 DEF Sent, Unsent, Alike, Untouched
  <2> QED
    BY <2>1, <2>3, <2>4, <2>6 DEF u
<1> QED
  BY <1>1, <1>3, <1>4, <1>5

\* Polling sends a packet if any buffer is free and a packet waits that may be sent:
\* two polls of each group make up for a pointer to something freed.
Backlog(t) ==
    /\ t.flight = <<>>
    /\ \/ t.queue[MANAGEMENT_QID] # <<>> \/ t.queue[MCAST_QID] # <<>>
       \/ \E e \in Range(t.members) : ~ Skipped(t, e)

LEMMA PollFacts ==
    ASSUME NEW t, Sound(t)
    PROVE  LET u == Poll(t)
           IN Sound(u) /\ Steady(t, u) /\ ~ Backlog(u)
<1> DEFINE o == Offer(t)
<1>1. /\ t \in States /\ t.flight \in Seq(Stations \cup {Mcast}) /\ Len(t.flight) <= Buffers
      /\ Len(t.flight) \in Nat /\ Buffers \in Nat
  BY ApStationsAssumption DEF Sound, States
<1>2. /\ o.list = t.list /\ o.info = t.info /\ o.members = t.members /\ o.auth = t.auth
      /\ o.queue = t.queue /\ o.next = t.next /\ o.flight = t.flight
      /\ o.avail = Buffers - Len(t.flight)
  BY <1>1 DEF States, Offer
<1>3. o \in States
  <2>1. Buffers - Len(t.flight) \in Int
    BY <1>1
  <2> QED
    BY <1>1, <2>1 DEF States, Offer
<1> HIDE DEF o
<1>4. Steady(t, o)
  BY <1>2 DEF Steady, SameStructs
<1>5. Counted(o.queue, o.list, o.info) /\ Pointed(o.next, o.members) /\ Len(o.flight) <= Buffers
  BY <1>2 DEF Sound
<1>6. Polling(o)
  <2>1. Sound(o)
    BY <1>3, <1>4, <1>5, SteadySound
  <2> QED
    BY <1>1, <1>2, <2>1 DEF Polling
<1> DEFINE a == PollGroup(o)
           b == PollGroup(a)
           c == PollGroup(b)
           u == PollGroup(c)
<1>7. Poll(t) = u
  BY DEF Poll, o
<1>8. Polling(a) /\ Steady(o, a) /\ (a.flight = <<>> => o.flight = <<>> /\ Unsent(o, a))
  BY <1>6, PollGroupFacts
<1> HIDE DEF a
<1>9. Polling(b) /\ Steady(a, b) /\ (b.flight = <<>> => a.flight = <<>> /\ Unsent(a, b))
  BY <1>8, PollGroupFacts
<1> HIDE DEF b
<1>10. Polling(c) /\ Steady(b, c) /\ (c.flight = <<>> => b.flight = <<>> /\ Unsent(b, c))
  BY <1>9, PollGroupFacts
<1> HIDE DEF c
<1>11. Polling(u) /\ Steady(c, u) /\ (u.flight = <<>> => c.flight = <<>> /\ Unsent(c, u))
  BY <1>10, PollGroupFacts
<1> HIDE DEF u
<1>12. Steady(o, c) /\ Steady(t, u)
  BY <1>4, <1>8, <1>9, <1>10, <1>11, SteadyTransitive
<1>13. ASSUME u.flight = <<>>
       PROVE  /\ u.queue[MANAGEMENT_QID] = <<>> /\ u.queue[MCAST_QID] = <<>>
              /\ \A e \in Range(u.members) : Skipped(u, e)
  <2>1. Unsent(o, a) /\ Unsent(a, b) /\ Unsent(b, c) /\ Unsent(c, u)
    BY <1>8, <1>9, <1>10, <1>11, <1>13
  <2>2. /\ u.queue = o.queue /\ a.queue = o.queue /\ b.queue = o.queue /\ c.queue = o.queue
        /\ u.info = o.info /\ a.info = o.info /\ b.info = o.info /\ c.info = o.info
        /\ u.members = o.members /\ a.members = o.members /\ b.members = o.members
        /\ c.members = o.members
    BY <1>8, <1>9, <1>10, <1>11, <2>1 DEF Unsent, Steady
  <2>3. ASSUME NEW v, v.queue = u.queue, v.info = u.info, v.members = u.members,
               \A j \in 0 .. Len(v.members) : IdleAt(v, j)
        PROVE  /\ u.queue[MCAST_QID] = <<>>
               /\ \A e \in Range(u.members) : Skipped(u, e)
    <3>1. u.members \in Seq(EntryType)
      BY <1>11 DEF Polling, Sound, States
    <3>2. \A j \in 0 .. Len(u.members) : IdleAt(u, j)
      BY <2>3 DEF IdleAt, Skipped
    <3>3. u.queue[MCAST_QID] = <<>>
      BY <3>1, <3>2, SMTT(20) DEF IdleAt
    <3>4. ASSUME NEW e \in Range(u.members) PROVE Skipped(u, e)
      <4>1. PICK j \in DOMAIN u.members : u.members[j] = e
        BY DEF Range
      <4>2. j \in 0 .. Len(u.members) /\ j # 0
        BY <3>1
      <4> QED
        BY <3>2, <4>1, <4>2 DEF IdleAt
    <3> QED
      BY <3>3, <3>4
  <2>4. CASE o.group = "MGMT"
    <3>1. /\ o.queue[MANAGEMENT_QID] = <<>> /\ a.group = "DATA" /\ AtPlace(b.next)
          /\ b.group = "MGMT" /\ c.group = "DATA" /\ c.next = b.next
      BY <2>1, <2>4 DEF Unsent
    <3>2. \A j \in 0 .. Len(c.members) : IdleAt(c, j)
      BY <2>1, <3>1 DEF Unsent
    <3> QED
      BY <2>2, <2>3, <3>1, <3>2
  <2>5. CASE o.group = "DATA"
    <3>1. /\ a.group = "MGMT" /\ AtPlace(a.next) /\ a.queue[MANAGEMENT_QID] = <<>>
          /\ b.group = "DATA" /\ b.next = a.next
      BY <2>1, <2>5 DEF Unsent
    <3>2. \A j \in 0 .. Len(b.members) : IdleAt(b, j)
      BY <2>1, <3>1 DEF Unsent
    <3> QED
      BY <2>2, <2>3, <3>1, <3>2
  <2> QED
    BY <1>3, <2>4, <2>5 DEF States
<1>14. ~ Backlog(u)
  BY <1>13 DEF Backlog
<1> QED
  BY <1>7, <1>11, <1>12, <1>14 DEF Polling, u

-----------------------------------------------------------------------------
(* Queueing a packet.                                                      *)

LEMMA EnqueueFacts ==
    ASSUME NEW t, Sound(t), NEW q \in Queues, NEW s \in Range(t.list), HasEntry(t)
    PROVE  LET u == Enqueue(t, q, s) IN Sound(u) /\ Steady(t, u) /\ ~ Backlog(u)
<1> DEFINE r == [t.queue EXCEPT ![q] = Append(@, s)]
           i == [t.info EXCEPT ![s].queued = @ + 1]
           v == [t EXCEPT !.queue[q] = Append(@, s), !.info[s].queued = @ + 1]
<1>1. /\ t \in States /\ t.queue \in [Queues -> Seq(Infos)] /\ t.list \in Seq(Infos)
      /\ t.info \in [Infos -> Structs] /\ Pool \in Nat
  BY ApStationsAssumption DEF Sound, States
<1>2. s \in Infos
  BY <1>1, RangeSubset
<1>3. r \in [Queues -> Seq(Infos)] /\ r[q] = Append(t.queue[q], s) /\ OnlyAt(t.queue, r, q)
  <2>1. Append(t.queue[q], s) \in Seq(Infos)
    BY <1>1, <1>2
  <2> QED
    BY <1>1, <2>1 DEF OnlyAt
<1>4. /\ i \in [Infos -> Structs] /\ i[s].queued = t.info[s].queued + 1
      /\ \A x \in Infos : x # s => i[x] = t.info[x]
      /\ SameStructs(t.info, i)
  <2>1. i \in [Infos -> Structs]
    BY <1>1, <1>2, StructChanged
  <2>2. t.info[s] \in Structs
    BY <1>1, <1>2
  <2>3. i[s] = [t.info[s] EXCEPT !.queued = @ + 1]
    BY <1>1, <1>2
  <2>4. \A x \in Infos : x # s => i[x] = t.info[x]
    BY <1>1
  <2>5. /\ i[s].queued = t.info[s].queued + 1 /\ i[s].addr = t.info[s].addr
        /\ i[s].keep = t.info[s].keep /\ i[s].doze = t.info[s].doze /\ i[s].id = t.info[s].id
    BY <2>2, <2>3 DEF Structs
  <2> HIDE DEF i
  <2>6. SameStructs(t.info, i)
    BY <2>4, <2>5 DEF SameStructs
  <2> QED
    BY <2>1, <2>4, <2>5, <2>6
<1>5. v = [t EXCEPT !.queue = r, !.info = i]
  BY <1>1 DEF States
<1> HIDE DEF r, i, v
<1>6. /\ v.list = t.list /\ v.info = i /\ v.members = t.members /\ v.auth = t.auth
      /\ v.queue = r /\ v.next = t.next /\ v.flight = t.flight
  BY <1>1, <1>5 DEF States
<1>7. v \in States
  BY <1>1, <1>3, <1>4, <1>5 DEF States
<1>8. Steady(t, v)
  BY <1>4, <1>6 DEF Steady
<1>9. Counted(r, t.list, i)
  <2>1. \A T : /\ s \in T => Cardinality(Spots(r, T)) = Cardinality(Spots(t.queue, T)) + 1
               /\ s \notin T => Cardinality(Spots(r, T)) = Cardinality(Spots(t.queue, T))
    <3>1. ASSUME NEW T
          PROVE  /\ s \in T => Cardinality(Spots(r, T)) = Cardinality(Spots(t.queue, T)) + 1
                 /\ s \notin T => Cardinality(Spots(r, T)) = Cardinality(Spots(t.queue, T))
      <4>1. t.queue \in [Queues -> Seq(Infos)] /\ s \in Infos /\ r \in [Queues -> Seq(Infos)]
        BY <1>1, <1>2, <1>3
      <4>2. AppendedAt(t.queue, r, q, s)
        BY <1>3 DEF AppendedAt
      <4> HIDE DEF r
      <4>3. OneMore(t.queue, r, s, T)
        BY <4>1, <4>2, AppendSpots
      <4> QED
        BY <4>3 DEF OneMore
    <3> QED
      BY <3>1
  <2>2. ASSUME NEW x \in Infos
        PROVE  /\ i[x].queued = Cardinality(Spots(r, {x}))
               /\ i[x].queued > 0 => x \in Range(t.list)
    <3>1. t.info[x].queued = Cardinality(Spots(t.queue, {x}))
      BY DEF Sound, Counted
    <3>2. CASE x = s
      BY <1>4, <2>1, <3>1, <3>2
    <3>3. CASE x # s
      <4>1. s \notin {x} /\ i[x] = t.info[x]
        BY <1>4, <3>3
      <4> QED
        BY <2>1, <3>1, <4>1 DEF Sound, Counted
    <3> QED
      BY <3>2, <3>3
  <2>3. Cardinality(Spots(r, Infos)) <= Pool
    <3>1. Entries(t) = Spots(t.queue, Infos)
      <4>1. ASSUME NEW p \in Entries(t) PROVE t.queue[p[1]][p[2]] \in Infos
        <5>1. PICK n \in Queues : p \in {n} \X DOMAIN t.queue[n]
          BY DEF Entries
        <5>2. t.queue[n] \in Seq(Infos) /\ p[1] = n /\ p[2] \in DOMAIN t.queue[n]
          BY <1>1, <5>1
        <5> QED
          BY <5>2
      <4> QED
        BY <4>1 DEF Entries, Spots
    <3>2. Cardinality(Spots(t.queue, Infos)) \in Nat
      BY <1>1, SpotsFinite
    <3>3. Cardinality(Spots(t.queue, Infos)) < Pool
      BY <3>1 DEF HasEntry
    <3>4. Cardinality(Spots(r, Infos)) = Cardinality(Spots(t.queue, Infos)) + 1
      BY <1>2, <2>1
    <3> QED
      BY <1>1, <3>2, <3>3, <3>4
  <2> QED
    BY <2>2, <2>3 DEF Counted
<1>10. Sound(v)
  <2>1. Counted(v.queue, v.list, v.info) /\ Pointed(v.next, v.members) /\ Len(v.flight) <= Buffers
    BY <1>6, <1>9 DEF Sound
  <2> QED
    BY <1>7, <1>8, <2>1, SteadySound
<1>11. Sound(Poll(v)) /\ Steady(v, Poll(v)) /\ ~ Backlog(Poll(v))
  BY <1>10, PollFacts
<1>12. Steady(t, Poll(v))
  BY <1>8, <1>11, SteadyTransitive
<1>13. Enqueue(t, q, s) = Poll(v)
  BY DEF Enqueue, v
<1> QED
  BY <1>11, <1>12, <1>13

\* A step that makes no member of nobody and leaves no packet waiting.
Calm(t, u) == Range(u.members) \subseteq Range(t.members) /\ (Backlog(u) => Backlog(t))

LEMMA CalmTransitive ==
    ASSUME NEW t, NEW u, NEW v, Calm(t, u), Calm(u, v)
    PROVE  Calm(t, v)
  BY DEF Calm

LEMMA EnqueueNewFacts ==
    ASSUME NEW t, Sound(t), NEW q \in Queues, NEW s \in Range(t.list)
    PROVE  LET u == EnqueueNew(t, q, s)
           IN Sound(u) /\ Steady(t, u) /\ Calm(t, u) /\ (u = t \/ ~ Backlog(u))
<1>1. CASE HasEntry(t)
  <2> DEFINE u == Enqueue(t, q, s)
  <2>1. Sound(u) /\ Steady(t, u) /\ ~ Backlog(u)
    BY <1>1, EnqueueFacts
  <2> HIDE DEF u
  <2>2. EnqueueNew(t, q, s) = u
    BY <1>1 DEF EnqueueNew, u
  <2> QED
    BY <2>1, <2>2 DEF Calm, Steady
<1>2. CASE ~ HasEntry(t)
  <2>1. EnqueueNew(t, q, s) = t
    BY <1>2 DEF EnqueueNew
  <2> QED
    BY <2>1 DEF Steady, SameStructs, Calm
<1> QED
  BY <1>1, <1>2

-----------------------------------------------------------------------------
(* The structs.                                                            *)

LEMMA OldestFacts ==
    ASSUME NEW t, Sound(t), NEW k \in Nat, Oldest(t, k) # {}
    PROVE  Min(Oldest(t, k)) \in 1 .. k /\ Removable(t, t.list[Min(Oldest(t, k))])
<1> DEFINE T == Oldest(t, k)
<1>1. T \subseteq Nat /\ T # {} /\ \A n \in T : n \in 1 .. k /\ Removable(t, t.list[n])
  BY DEF Oldest
<1> HIDE DEF T
<1>2. PICK n \in T : \A m \in T : n <= m
  BY <1>1, SmallestOf
<1>3. Min(T) \in T
  BY <1>2 DEF Min
<1> QED
  BY <1>1, <1>3 DEF T

\* The struct made for a station is the one it has, a free one or the oldest that may go.
LEMMA SlotFacts ==
    ASSUME NEW t, Sound(t), NEW a, CanCreate(t, a)
    PROVE  LET s == SlotOf(t, a)
           IN /\ s \in Infos
              /\ Known(t, a) # {} => s \in Range(t.list) /\ t.info[s].addr = a
              /\ Known(t, a) = {} => s \notin Range(t.list) \/ Removable(t, s)
<1>1. t.list \in Seq(Infos) /\ Range(t.list) \subseteq Infos /\ DOMAIN t.list = 1 .. Len(t.list)
      /\ Len(t.list) \in Nat
  BY RangeSubset DEF Sound, States
<1>2. CASE Known(t, a) # {}
  <2>1. SlotOf(t, a) \in Known(t, a)
    BY <1>2 DEF SlotOf
  <2> QED
    BY <1>1, <1>2, <2>1 DEF Known
<1>3. CASE Known(t, a) = {}
  <2>1. CASE Named(t) # {}
    <3>1. SlotOf(t, a) \in Named(t)
      BY <1>3, <2>1 DEF SlotOf
    <3> QED
      BY <1>3, <3>1 DEF Named, Free
  <2>2. CASE Named(t) = {} /\ Free(t) # {}
    <3>1. SlotOf(t, a) \in Free(t)
      BY <1>3, <2>2 DEF SlotOf
    <3> QED
      BY <1>3, <3>1 DEF Free
  <2>3. CASE Named(t) = {} /\ Free(t) = {}
    <3>1. SlotOf(t, a) = t.list[Min(Oldest(t, Len(t.list)))]
      BY <1>3, <2>3 DEF SlotOf
    <3>2. Oldest(t, Len(t.list)) # {}
      BY <1>3, <2>3 DEF CanCreate
    <3>3. /\ Min(Oldest(t, Len(t.list))) \in 1 .. Len(t.list)
          /\ Removable(t, t.list[Min(Oldest(t, Len(t.list)))])
      BY <1>1, <3>2, OldestFacts
    <3> QED
      BY <1>1, <1>3, <3>1, <3>3
  <2> QED
    BY <2>1, <2>2, <2>3
<1> QED
  BY <1>2, <1>3

\* What the functions of station_info.c leave alone.
SameQueues(t, u) ==
    /\ u.queue = t.queue /\ u.flight = t.flight /\ u.group = t.group
    /\ u.avail = t.avail /\ u.found = t.found

\* An entry outlives a change of structs other than its own.
LEMMA EntriesStay ==
    ASSUME NEW m, NEW l, NEW i, NEW k, NEW j, Entered(m, l, i),
           \A e \in Range(m) : e.info \in Range(k) /\ j[e.info] = i[e.info]
    PROVE  Entered(m, k, j)
  BY DEF Entered, EntryKept, EntryHeld

LEMMA HeldStay ==
    ASSUME NEW m, NEW l, NEW i, NEW k, NEW j, Held(m, l, i),
           \A e \in Range(m) : e.info \in Range(k) /\ j[e.info] = i[e.info]
    PROVE  Held(m, k, j)
  BY DEF Held, EntryHeld

\* The backlog is of the queues and of the members' power save.
LEMMA CalmStructs ==
    ASSUME NEW t, NEW u, SameQueues(t, u), Range(u.members) \subseteq Range(t.members),
           \A e \in Range(u.members) : u.info[e.info].doze = t.info[e.info].doze
    PROVE  Calm(t, u)
  BY DEF Calm, Backlog, SameQueues, Skipped

LEMMA CreateFacts ==
    ASSUME NEW t, Sound(t), NEW a \in Stations \cup {Mcast}, CanCreate(t, a)
    PROVE  LET s == SlotOf(t, a)
               u == Create(t, a)
           IN /\ Sound(u) /\ Calm(t, u) /\ SameQueues(t, u)
              /\ u.members = t.members /\ u.auth = t.auth /\ u.next = t.next
              /\ s \in Range(u.list) /\ s \in Infos /\ u.info[s].addr = a
              /\ Known(t, a) # {} => u.info = t.info
              /\ Known(t, a) = {} => ~ IsMember(t.members, s) /\ ~ IsMember(t.auth, s)
<1> DEFINE s == SlotOf(t, a)
           u == Create(t, a)
           l == Append(Without(t.list, s), s)
           i == [t.info EXCEPT ![s] = IF Known(t, a) # {} THEN @ ELSE Cleared(a)]
<1>1. /\ t \in States /\ t.list \in Seq(Infos) /\ t.info \in [Infos -> Structs]
      /\ t.members \in Seq(EntryType) /\ t.auth \in Seq(EntryType)
      /\ t.queue \in [Queues -> Seq(Infos)]
  BY DEF Sound, States
<1>2. /\ s \in Infos
      /\ Known(t, a) # {} => s \in Range(t.list) /\ t.info[s].addr = a
      /\ Known(t, a) = {} => s \notin Range(t.list) \/ Removable(t, s)
  BY SlotFacts
<1>3. u = [t EXCEPT !.list = l, !.info = i]
  BY <1>1 DEF Create, States
<1> HIDE DEF s, u
<1>4. l \in Seq(Infos) /\ Range(l) = Range(t.list) \cup {s} /\ IsInjective(l)
  <2> DEFINE w == Without(t.list, s)
  <2>1. w \in Seq(Infos) /\ Range(w) = Range(t.list) \ {s} /\ IsInjective(w)
    BY <1>1, WithoutFacts DEF Sound, Listed
  <2> HIDE DEF w
  <2>2. Append(w, s) \in Seq(Infos) /\ Range(Append(w, s)) = Range(w) \cup {s}
    BY <1>2, <2>1, RangeAppend
  <2>3. IsInjective(Append(w, s))
    BY <1>2, <2>1, InjectiveAppend
  <2> QED
    BY <2>1, <2>2, <2>3 DEF w
<1>5. /\ i \in [Infos -> Structs] /\ i[s].addr = a
      /\ \A x \in Infos : x # s => i[x] = t.info[x]
      /\ Known(t, a) # {} => i = t.info
      /\ Known(t, a) = {} => i[s].queued = 0
  <2>1. Cleared(a) \in Structs /\ Cleared(a).addr = a /\ Cleared(a).queued = 0
    BY Sizes DEF Cleared, Structs
  <2> QED
    BY <1>1, <1>2, <2>1
<1> HIDE DEF l, i
<1>6. /\ u.list = l /\ u.info = i /\ u.members = t.members /\ u.auth = t.auth
      /\ u.next = t.next /\ SameQueues(t, u) /\ u.last = t.last
  BY <1>1, <1>3 DEF States, SameQueues
<1>7. u \in States
  BY <1>1, <1>3, <1>4, <1>5 DEF States
<1>8. Range(t.list) \subseteq Infos
  BY <1>1, RangeSubset
<1>9. Listed(l, i)
  <2>1. ASSUME NEW x \in Range(l), x # s
        PROVE  /\ x \in Range(t.list) /\ i[x] = t.info[x] /\ t.info[x].addr # NoAddr
               /\ t.info[x].addr # a
    <3>1. x \in Range(t.list) /\ i[x] = t.info[x] /\ t.info[x].addr # NoAddr
      BY <1>4, <1>5, <1>8, <2>1 DEF Sound, Listed
    <3>2. CASE Known(t, a) = {}
      BY <3>1, <3>2 DEF Known
    <3>3. CASE Known(t, a) # {}
      BY <1>2, <2>1, <3>1, <3>3 DEF Sound, Listed
    <3> QED
      BY <3>1, <3>2, <3>3
  <2>2. a # NoAddr
    BY ApStationsAssumption
  <2>3. \A x \in Range(l) : i[x].addr # NoAddr
    BY <1>5, <2>1, <2>2
  <2>4. ASSUME NEW x \in Range(l), NEW y \in Range(l), i[x].addr = i[y].addr
        PROVE  x = y
    <3>1. CASE x # s /\ y # s
      BY <2>1, <2>4, <3>1 DEF Sound, Listed
    <3>2. CASE x = s \/ y = s
      BY <1>5, <2>1, <2>4, <3>2
    <3> QED
      BY <3>1, <3>2
  <2> QED
    BY <1>4, <2>3, <2>4 DEF Listed
<1>10. Known(t, a) = {} => Cardinality(Spots(t.queue, {s})) = 0
  <2>1. ASSUME Known(t, a) = {} PROVE Cardinality(Spots(t.queue, {s})) = 0
    <3>1. /\ t.info[s].queued = Cardinality(Spots(t.queue, {s}))
          /\ t.info[s].queued > 0 => s \in Range(t.list)
      BY <1>2 DEF Sound, Counted
    <3>2. Cardinality(Spots(t.queue, {s})) \in Nat
      BY <1>1, SpotsFinite
    <3>3. s \in Range(t.list) => t.info[s].queued = 0
      BY <1>2, <2>1 DEF Removable
    <3> QED
      BY <3>1, <3>2, <3>3
  <2> QED
    BY <2>1
<1>11. Counted(t.queue, l, i)
  <2>1. ASSUME NEW x \in Infos
        PROVE  /\ i[x].queued = Cardinality(Spots(t.queue, {x}))
               /\ i[x].queued > 0 => x \in Range(l)
    <3>1. /\ t.info[x].queued = Cardinality(Spots(t.queue, {x}))
          /\ t.info[x].queued > 0 => x \in Range(t.list)
      BY DEF Sound, Counted
    <3>2. CASE x # s
      BY <1>4, <1>5, <3>1, <3>2
    <3>3. CASE x = s
      BY <1>4, <1>5, <1>10, <3>1, <3>3
    <3> QED
      BY <3>2, <3>3
  <2> QED
    BY <2>1 DEF Sound, Counted
<1>12. ASSUME NEW e, EntryHeld(e, t.list, t.info)
       PROVE  /\ e.info \in Range(l) /\ i[e.info] = t.info[e.info]
              /\ Known(t, a) = {} => e.info # s
  <2>1. e.info \in Range(t.list) /\ t.info[e.info].keep
    BY <1>12 DEF EntryHeld
  <2>2. e.info \in Range(l) /\ e.info \in Infos
    BY <1>4, <1>8, <2>1
  <2>3. Known(t, a) = {} => e.info # s
    BY <1>2, <2>1 DEF Removable
  <2> QED
    BY <1>5, <2>2, <2>3
<1>13. /\ Entered(t.members, l, i) /\ Held(t.auth, l, i)
       /\ Known(t, a) = {} => ~ IsMember(t.members, s) /\ ~ IsMember(t.auth, s)
       /\ \A e \in Range(t.members) : i[e.info] = t.info[e.info]
  <2>1. \A e \in Range(t.members) \cup Range(t.auth) : EntryHeld(e, t.list, t.info)
    BY DEF Sound, Entered, EntryKept, Held
  <2>2. Entered(t.members, l, i) /\ Held(t.auth, l, i)
    BY <1>12, <2>1, EntriesStay, HeldStay DEF Sound
  <2> QED
    BY <1>12, <2>1, <2>2 DEF IsMember
<1>14. Sound(u)
  BY <1>6, <1>7, <1>9, <1>11, <1>13 DEF Sound, SameQueues
<1>15. Calm(t, u)
  BY <1>6, <1>13, CalmStructs
<1>16. s \in Range(u.list) /\ u.info[s].addr = a
  BY <1>4, <1>5, <1>6
<1>17. /\ Known(t, a) # {} => u.info = t.info
       /\ Known(t, a) = {} => ~ IsMember(t.members, s) /\ ~ IsMember(t.auth, s)
  BY <1>5, <1>6, <1>13
<1> QED
  BY <1>2, <1>6, <1>14, <1>15, <1>16, <1>17 DEF s, u

-----------------------------------------------------------------------------
(* A new entry: its ID and its place in the list.                          *)

LEMMA NoHoles ==
    ASSUME NEW n \in Nat, NEW f \in [0 .. n -> Nat], f[0] = 0,
           \A i \in 1 .. n : f[i] - f[i - 1] <= 1
    PROVE  f[n] <= n
<1> DEFINE P == {k \in Nat : k <= n => f[k] <= k}
<1>1. 0 \in P
  OBVIOUS
<1>2. ASSUME NEW k \in Nat, k \in P PROVE k + 1 \in P
  <2>1. CASE k + 1 <= n
    <3>1. k \in 0 .. n /\ k + 1 \in 0 .. n /\ k + 1 \in 1 .. n /\ (k + 1) - 1 = k
      BY <2>1
    <3>2. f[k] <= k /\ f[k] \in Nat /\ f[k + 1] \in Nat
      BY <1>2, <3>1
    <3>3. f[k + 1] - f[k] <= 1
      BY <3>1
    <3> QED
      BY <3>2, <3>3
  <2> QED
    BY <2>1
<1> HIDE DEF P
<1>3. n \in P
  BY <1>1, <1>2, NatInduct
<1> QED
  BY <1>3 DEF P

\* Stations that are not in a list leave it an ID.
LEMMA IdLeft ==
    ASSUME NEW l \in Seq(EntryType), Distinct(l), NEW a \in Stations, ~ HasAddr(l, a)
    PROVE  Len(l) + 1 <= MaxId
<1> DEFINE f == [i \in 1 .. Len(l) |-> l[i].addr]
           T == Stations \ {a}
<1>1. Len(l) \in Nat /\ DOMAIN l = 1 .. Len(l) /\ \A i \in 1 .. Len(l) : l[i] \in EntryType
  OBVIOUS
<1>2. ASSUME NEW i \in 1 .. Len(l) PROVE l[i].addr \in T
  <2>1. l[i].addr \in Stations
    BY <1>1 DEF EntryType
  <2>2. l[i] \in Range(l)
    BY <1>1 DEF Range
  <2> QED
    BY <2>1, <2>2 DEF HasAddr
<1>3. f \in Injection(1 .. Len(l), T)
  <2>1. ASSUME NEW x \in 1 .. Len(l), NEW y \in 1 .. Len(l), l[x].addr = l[y].addr PROVE x = y
    <3>1. ~ (x < y) /\ ~ (y < x)
      BY <1>1, <2>1 DEF Distinct
    <3> QED
      BY <1>1, <3>1
  <2> QED
    BY <1>1, <1>2, <2>1 DEF Injection, IsInjective
<1>4. IsFiniteSet(T) /\ Cardinality(T) = Cardinality(Stations) - 1
  BY ApStationsAssumption, FS_RemoveElement
<1> HIDE DEF f, T
<1>5. Cardinality(1 .. Len(l)) <= Cardinality(T)
  BY <1>3, <1>4, FS_Injection
<1>6. Cardinality(1 .. Len(l)) = Len(l)
  <2>1. \A n \in Nat : Cardinality(1 .. n) = n
    BY FS_Interval
  <2> QED
    BY <1>1, <2>1
<1> QED
  BY <1>1, <1>4, <1>5, <1>6, Sizes DEF MaxId

\* The ID and the place exist, in whatever order the IDs of the structs are.
LEMMA PlaceRange ==
    ASSUME NEW t, NEW l \in Seq(EntryType), Len(l) + 1 <= MaxId,
           \A i \in DOMAIN l : t.info[l[i].info].id \in 0 .. MaxId
    PROVE  LET p == Place(t, l) IN p.at \in 1 .. Len(l) + 1 /\ p.id \in 1 .. MaxId
<1> DEFINE n == Len(l)
           Id(i) == IF i = 0 THEN 0 ELSE t.info[l[i].info].id
           f == [i \in 0 .. n |-> Id(i)]
           holes == {i \in DOMAIN l : Id(i) - Id(i - 1) > 1}
           p == Place(t, l)
<1>1. n \in Nat /\ DOMAIN l = 1 .. n /\ MaxId \in Nat /\ n + 1 <= MaxId
  BY Sizes
<1>2. \A i \in 0 .. n : Id(i) \in 0 .. MaxId
  BY <1>1
<1>3. f \in [0 .. n -> Nat] /\ f[0] = 0 /\ \A i \in 0 .. n : f[i] = Id(i)
  BY <1>1, <1>2
<1>4. p = IF holes = {} THEN [at |-> n + 1, id |-> Id(n) + 1]
          ELSE [at |-> Min(holes), id |-> Id(Min(holes)) - 1]
  BY DEF Place
<1> HIDE DEF p, f, Id
<1>5. CASE holes = {}
  <2>1. p.at = n + 1 /\ p.id = f[n] + 1 /\ f[n] \in Nat
    BY <1>1, <1>3, <1>4, <1>5
  <2>2. ASSUME NEW i \in 1 .. n PROVE f[i] - f[i - 1] <= 1
    <3>1. i \in 0 .. n /\ i - 1 \in 0 .. n /\ i \in DOMAIN l
      BY <1>1
    <3>2. ~ (Id(i) - Id(i - 1) > 1)
      BY <1>5, <3>1
    <3>3. Id(i) = f[i] /\ Id(i - 1) = f[i - 1] /\ f[i] \in Nat /\ f[i - 1] \in Nat
      BY <1>3, <3>1
    <3> QED
      BY <3>2, <3>3
  <2>3. f[n] <= n
    <3> HIDE DEF n
    <3> QED
      BY <1>1, <1>3, <2>2, NoHoles
  <2> QED
    BY <1>1, <2>1, <2>3 DEF p
<1>6. CASE holes # {}
  <2> DEFINE h == Min(holes)
  <2>1. holes \subseteq Nat
    BY <1>1
  <2>2. PICK k \in holes : \A m \in holes : k <= m
    BY <1>6, <2>1, SmallestOf
  <2>3. h \in holes
    BY <2>2 DEF Min
  <2>4. p.at = h /\ p.id = Id(h) - 1
    BY <1>4, <1>6
  <2> HIDE DEF h
  <2>5. h \in 1 .. n /\ h \in 0 .. n /\ h - 1 \in 0 .. n /\ Id(h) - Id(h - 1) > 1
    BY <1>1, <2>3
  <2>6. Id(h) \in 0 .. MaxId /\ Id(h - 1) \in 0 .. MaxId
    BY <1>2, <2>5
  <2> QED
    BY <1>1, <2>4, <2>5, <2>6 DEF p
<1> QED
  BY <1>5, <1>6

LEMMA PlaceFacts ==
    ASSUME NEW t, NEW l \in Seq(EntryType), Rising(l), Len(l) + 1 <= MaxId,
           \A i \in DOMAIN l : t.info[l[i].info].id = l[i].id
    PROVE  LET p == Place(t, l)
           IN /\ p.at \in 1 .. Len(l) + 1 /\ p.id \in 1 .. MaxId
              /\ \A i \in DOMAIN l : /\ i < p.at => l[i].id < p.id
                                     /\ i >= p.at => p.id < l[i].id
<1> DEFINE n == Len(l)
           f == [i \in 0 .. n |-> IF i = 0 THEN 0 ELSE l[i].id]
           Id(i) == IF i = 0 THEN 0 ELSE t.info[l[i].info].id
           holes == {i \in DOMAIN l : Id(i) - Id(i - 1) > 1}
           p == Place(t, l)
<1>1. n \in Nat /\ DOMAIN l = 1 .. n /\ MaxId \in Nat /\ n + 1 <= MaxId
  BY Sizes
<1>2. \A i \in DOMAIN l : l[i].id \in 1 .. MaxId
  <2>1. \A i \in DOMAIN l : l[i] \in EntryType
    OBVIOUS
  <2> QED
    BY <2>1 DEF EntryType
<1>3. /\ f \in [0 .. n -> Nat] /\ f[0] = 0
      /\ \A i \in 0 .. n : Id(i) = f[i]
      /\ \A i \in 1 .. n : f[i] = l[i].id
  BY <1>1, <1>2
<1>4. p = IF holes = {} THEN [at |-> n + 1, id |-> Id(n) + 1]
          ELSE [at |-> Min(holes), id |-> Id(Min(holes)) - 1]
  BY DEF Place
<1> HIDE DEF p, f, Id
<1>5. \A i \in DOMAIN l : l[i].id = f[i] /\ f[i] \in 1 .. MaxId /\ i \in 0 .. n
  BY <1>1, <1>2, <1>3
<1>6. \A x, y \in DOMAIN l : x < y => f[x] < f[y]
  BY <1>5 DEF Rising
<1>7. CASE holes = {}
  <2>1. p.at = n + 1 /\ p.id = f[n] + 1
    BY <1>1, <1>3, <1>4, <1>7
  <2>2. ASSUME NEW i \in 1 .. n PROVE f[i] - f[i - 1] <= 1
    <3>1. i \in 0 .. n /\ i - 1 \in 0 .. n /\ i \in DOMAIN l
      BY <1>1
    <3>2. ~ (Id(i) - Id(i - 1) > 1)
      BY <1>7, <3>1
    <3>3. Id(i) = f[i] /\ Id(i - 1) = f[i - 1] /\ f[i] \in Nat /\ f[i - 1] \in Nat
      BY <1>3, <3>1
    <3> QED
      BY <3>2, <3>3
  <2>3. f[n] <= n /\ f[n] \in Nat
    <3> HIDE DEF n
    <3>1. f[n] <= n
      BY <1>1, <1>3, <2>2, NoHoles
    <3> QED
      BY <1>1, <1>3, <3>1
  <2>4. ASSUME NEW i \in DOMAIN l PROVE l[i].id < p.id
    <3>1. i = n \/ (i < n /\ n \in DOMAIN l)
      BY <1>1
    <3>2. f[i] <= f[n]
      BY <1>5, <1>6, <2>3, <3>1
    <3> QED
      BY <1>5, <2>1, <2>3, <3>2
  <2>5. \A i \in DOMAIN l : ~ (i >= p.at)
    BY <1>1, <2>1
  <2> QED
    BY <1>1, <2>1, <2>3, <2>4, <2>5 DEF p
<1>8. CASE holes # {}
  <2> DEFINE h == Min(holes)
  <2>1. holes \subseteq Nat
    BY <1>1
  <2>2. PICK k \in holes : \A m \in holes : k <= m
    BY <1>8, <2>1, SmallestOf
  <2>3. h \in holes
    BY <2>2 DEF Min
  <2>4. p.at = h /\ p.id = Id(h) - 1
    BY <1>4, <1>8
  <2> HIDE DEF h
  <2>5. h \in DOMAIN l /\ Id(h) - Id(h - 1) > 1
    BY <2>3
  <2>6. h \in 1 .. n /\ h \in 0 .. n /\ h - 1 \in 0 .. n
    BY <1>1, <2>5
  <2>7. f[h] - f[h - 1] > 1 /\ p.id = f[h] - 1 /\ f[h - 1] \in Nat /\ f[h] \in 1 .. MaxId
    BY <1>3, <1>5, <2>4, <2>5, <2>6
  <2>8. p.id \in 1 .. MaxId
    BY <1>1, <2>7
  <2>9. ASSUME NEW i \in DOMAIN l, i < h PROVE l[i].id < p.id
    <3>1. i = h - 1 \/ (i < h - 1 /\ h - 1 \in DOMAIN l)
      BY <1>1, <2>6, <2>9
    <3>2. f[i] <= f[h - 1]
      BY <1>5, <1>6, <2>7, <3>1
    <3> QED
      BY <1>5, <2>7, <3>2
  <2>10. ASSUME NEW i \in DOMAIN l, i >= h PROVE p.id < l[i].id
    <3>1. i = h \/ h < i
      BY <1>1, <2>6, <2>10
    <3>2. f[h] <= f[i]
      BY <1>5, <1>6, <2>5, <2>7, <3>1
    <3> QED
      BY <1>5, <2>7, <3>2
  <2> QED
    BY <1>1, <2>4, <2>6, <2>8, <2>9, <2>10 DEF p
<1> QED
  BY <1>7, <1>8

\* The list with the entry in its place.
Ordered(l, R) == \A x, y \in DOMAIN l : x < y => <<l[x], l[y]>> \in R

LEMMA InsertedFacts ==
    ASSUME NEW l \in Seq(EntryType), NEW e \in EntryType, NEW k \in 1 .. Len(l) + 1
    PROVE  LET m == InsertAt(l, k, e)
           IN /\ m \in Seq(EntryType) /\ Len(m) = Len(l) + 1
              /\ Range(m) = Range(l) \cup {e}
              /\ \A R : /\ Ordered(l, R)
                        /\ \A i \in DOMAIN l : /\ i < k => <<l[i], e>> \in R
                                               /\ i >= k => <<e, l[i]>> \in R
                        => Ordered(m, R)
<1> DEFINE m == InsertAt(l, k, e)
           n == Len(l)
<1>1. n \in Nat /\ DOMAIN l = 1 .. n /\ k \in 1 .. n + 1
  OBVIOUS
<1>2. /\ m \in Seq(EntryType) /\ Len(m) = n + 1
      /\ \A i \in 1 .. n + 1 :
            m[i] = IF i < k THEN l[i] ELSE IF i = k THEN e ELSE l[i - 1]
  <2>1. InsertAt(l, k, e) \in Seq(EntryType) /\ Len(InsertAt(l, k, e)) = Len(l) + 1
    BY InsertAtFacts
  <2>2. ASSUME NEW i \in 1 .. Len(l) + 1
        PROVE  InsertAt(l, k, e)[i] = IF i < k THEN l[i] ELSE IF i = k THEN e ELSE l[i - 1]
    BY InsertAtFacts
  <2> QED
    BY <2>1, <2>2
<1> HIDE DEF m
<1>3. DOMAIN m = 1 .. n + 1
  BY <1>1, <1>2
<1> HIDE DEF n
<1>4. ASSUME NEW i \in DOMAIN m
      PROVE  /\ i < k => i \in DOMAIN l /\ m[i] = l[i]
             /\ i = k => m[i] = e
             /\ i > k => i - 1 \in DOMAIN l /\ i - 1 >= k /\ m[i] = l[i - 1]
  <2>1. m[i] = IF i < k THEN l[i] ELSE IF i = k THEN e ELSE l[i - 1]
    BY <1>2, <1>3
  <2> QED
    BY <1>1, <1>3, <2>1
<1>5. ASSUME NEW R, Ordered(l, R),
             \A i \in DOMAIN l : /\ i < k => <<l[i], e>> \in R
                                 /\ i >= k => <<e, l[i]>> \in R,
             NEW x \in DOMAIN m, NEW y \in DOMAIN m, x < y
      PROVE  <<m[x], m[y]>> \in R
  <2>1. CASE y < k
    BY <1>1, <1>3, <1>4, <1>5, <2>1 DEF Ordered
  <2>2. CASE x < k /\ y = k
    BY <1>1, <1>3, <1>4, <1>5, <2>2
  <2>3. CASE x < k /\ k < y
    <3>1. m[x] = l[x] /\ m[y] = l[y - 1] /\ x \in DOMAIN l /\ y - 1 \in DOMAIN l /\ x < y - 1
      BY <1>1, <1>3, <1>4, <2>3
    <3> QED
      BY <1>5, <3>1 DEF Ordered
  <2>4. CASE x = k
    BY <1>1, <1>3, <1>4, <1>5, <2>4
  <2>5. CASE k < x
    <3>1. /\ m[x] = l[x - 1] /\ m[y] = l[y - 1] /\ x - 1 \in DOMAIN l /\ y - 1 \in DOMAIN l
          /\ x - 1 < y - 1
      BY <1>1, <1>3, <1>4, <1>5, <2>5
    <3> QED
      BY <1>5, <3>1 DEF Ordered
  <2> QED
    BY <1>1, <1>3, <1>5, <2>1, <2>2, <2>3, <2>4, <2>5
<1>6. ASSUME NEW x PROVE x \in Range(m) <=> x \in Range(l) \cup {e}
  <2>1. ASSUME x \in Range(m) PROVE x \in Range(l) \cup {e}
    <3>1. PICK i \in DOMAIN m : m[i] = x
      BY <2>1 DEF Range
    <3>2. i < k \/ i = k \/ i > k
      BY <1>1, <1>3
    <3> QED
      BY <1>4, <3>1, <3>2 DEF Range
  <2>2. ASSUME x \in Range(l) PROVE x \in Range(m)
    <3>1. PICK i \in DOMAIN l : l[i] = x
      BY <2>2 DEF Range
    <3>2. CASE i < k
      <4>1. i \in DOMAIN m /\ m[i] = l[i]
        BY <1>1, <1>3, <1>4, <3>2
      <4> QED
        BY <3>1, <4>1 DEF Range
    <3>3. CASE ~ (i < k)
      <4>1. i + 1 \in DOMAIN m /\ i + 1 > k /\ (i + 1) - 1 = i
        BY <1>1, <1>3, <3>3
      <4>2. m[i + 1] = l[i]
        BY <1>4, <4>1
      <4> QED
        BY <3>1, <4>1, <4>2 DEF Range
    <3> QED
      BY <3>2, <3>3
  <2>3. e \in Range(m)
    <3>1. k \in DOMAIN m /\ m[k] = e
      BY <1>1, <1>3, <1>4
    <3> QED
      BY <3>1 DEF Range
  <2> QED
    BY <2>1, <2>2, <2>3
<1>7. \A R : /\ Ordered(l, R)
             /\ \A i \in DOMAIN l : /\ i < k => <<l[i], e>> \in R
                                    /\ i >= k => <<e, l[i]>> \in R
             => Ordered(m, R)
  BY <1>5 DEF Ordered
<1>8. Range(m) = Range(l) \cup {e}
  BY <1>6
<1> QED
  BY <1>2, <1>7, <1>8 DEF m, n

\* The IDs still rise, or the addresses still differ.
ById == {p \in EntryType \X EntryType : p[1].id < p[2].id}
ByAddr == {p \in EntryType \X EntryType : p[1].addr # p[2].addr}

LEMMA OrderedBy ==
    ASSUME NEW l \in Seq(EntryType)
    PROVE  (Ordered(l, ById) <=> Rising(l)) /\ (Ordered(l, ByAddr) <=> Distinct(l))
<1>1. \A x \in DOMAIN l : l[x] \in EntryType
  OBVIOUS
<1> QED
  BY <1>1 DEF Ordered, ById, ByAddr, Rising, Distinct

LEMMA InsertedRising ==
    ASSUME NEW l \in Seq(EntryType), Rising(l), NEW e \in EntryType, NEW k \in 1 .. Len(l) + 1,
           \A i \in DOMAIN l : /\ i < k => l[i].id < e.id
                               /\ i >= k => e.id < l[i].id
    PROVE  Rising(InsertAt(l, k, e))
<1> DEFINE m == InsertAt(l, k, e)
<1>1. \A i \in DOMAIN l : /\ i < k => <<l[i], e>> \in ById
                          /\ i >= k => <<e, l[i]>> \in ById
  BY DEF ById
<1>2. m \in Seq(EntryType) /\ (Ordered(l, ById) => Ordered(m, ById))
  BY <1>1, InsertedFacts
<1> HIDE DEF m
<1>3. Rising(m)
  BY <1>2, OrderedBy
<1> QED
  BY <1>3 DEF m

LEMMA InsertedDistinct ==
    ASSUME NEW l \in Seq(EntryType), Distinct(l), NEW e \in EntryType, ~ HasAddr(l, e.addr),
           NEW k \in 1 .. Len(l) + 1
    PROVE  Distinct(InsertAt(l, k, e))
<1> DEFINE m == InsertAt(l, k, e)
<1>1. \A i \in DOMAIN l : l[i] \in EntryType /\ l[i].addr # e.addr
  BY DEF HasAddr, Range
<1>2. \A i \in DOMAIN l : /\ i < k => <<l[i], e>> \in ByAddr
                          /\ i >= k => <<e, l[i]>> \in ByAddr
  BY <1>1 DEF ByAddr
<1>3. m \in Seq(EntryType) /\ (Ordered(l, ByAddr) => Ordered(m, ByAddr))
  BY <1>2, InsertedFacts
<1> HIDE DEF m
<1>4. Distinct(m)
  BY <1>3, OrderedBy
<1> QED
  BY <1>4 DEF m

\* One field of one struct.
KeepSet(i, j, s, k) ==
    /\ j \in [Infos -> Structs] /\ j[s].keep = k
    /\ \A x \in Infos : /\ j[x].addr = i[x].addr /\ j[x].queued = i[x].queued
                        /\ j[x].doze = i[x].doze /\ j[x].id = i[x].id
                        /\ x # s => j[x].keep = i[x].keep
DozeSet(i, j, s, k) ==
    /\ j \in [Infos -> Structs] /\ j[s].doze = k
    /\ \A x \in Infos : /\ j[x].addr = i[x].addr /\ j[x].queued = i[x].queued
                        /\ j[x].keep = i[x].keep /\ j[x].id = i[x].id
                        /\ x # s => j[x].doze = i[x].doze
IdSet(i, j, s, k) ==
    /\ j \in [Infos -> Structs] /\ j[s].id = k
    /\ \A x \in Infos : /\ j[x].addr = i[x].addr /\ j[x].queued = i[x].queued
                        /\ j[x].keep = i[x].keep /\ j[x].doze = i[x].doze
                        /\ x # s => j[x].id = i[x].id

LEMMA KeepFields ==
    ASSUME NEW i \in [Infos -> Structs], NEW s \in Infos, NEW k \in BOOLEAN
    PROVE  KeepSet(i, [i EXCEPT ![s].keep = k], s, k)
<1> DEFINE j == [i EXCEPT ![s].keep = k]
<1>1. j \in [Infos -> Structs]
  BY StructChanged
<1>2. i[s] \in Structs /\ j[s] = [i[s] EXCEPT !.keep = k]
      /\ \A x \in Infos : x # s => j[x] = i[x]
  OBVIOUS
<1>3. /\ j[s].addr = i[s].addr /\ j[s].queued = i[s].queued /\ j[s].keep = k
      /\ j[s].doze = i[s].doze /\ j[s].id = i[s].id
  BY <1>2 DEF Structs
<1> HIDE DEF j
<1> QED
  BY <1>1, <1>2, <1>3 DEF j, KeepSet

LEMMA DozeFields ==
    ASSUME NEW i \in [Infos -> Structs], NEW s \in Infos, NEW k \in BOOLEAN
    PROVE  DozeSet(i, [i EXCEPT ![s].doze = k], s, k)
<1> DEFINE j == [i EXCEPT ![s].doze = k]
<1>1. j \in [Infos -> Structs]
  BY StructChanged
<1>2. i[s] \in Structs /\ j[s] = [i[s] EXCEPT !.doze = k]
      /\ \A x \in Infos : x # s => j[x] = i[x]
  OBVIOUS
<1>3. /\ j[s].addr = i[s].addr /\ j[s].queued = i[s].queued /\ j[s].doze = k
      /\ j[s].keep = i[s].keep /\ j[s].id = i[s].id
  BY <1>2 DEF Structs
<1> HIDE DEF j
<1> QED
  BY <1>1, <1>2, <1>3 DEF j, DozeSet

LEMMA IdFields ==
    ASSUME NEW i \in [Infos -> Structs], NEW s \in Infos, NEW k \in 0 .. MaxId
    PROVE  IdSet(i, [i EXCEPT ![s].id = k], s, k)
<1> DEFINE j == [i EXCEPT ![s].id = k]
<1>1. j \in [Infos -> Structs]
  BY StructChanged
<1>2. i[s] \in Structs /\ j[s] = [i[s] EXCEPT !.id = k]
      /\ \A x \in Infos : x # s => j[x] = i[x]
  OBVIOUS
<1>3. /\ j[s].addr = i[s].addr /\ j[s].queued = i[s].queued /\ j[s].id = k
      /\ j[s].keep = i[s].keep /\ j[s].doze = i[s].doze
  BY <1>2 DEF Structs
<1> HIDE DEF j
<1> QED
  BY <1>1, <1>2, <1>3 DEF j, IdSet

\* A change of the structs, of the members or of the other entries and nothing else.
LEMMA InfoSet ==
    ASSUME NEW t, Sound(t), NEW j \in [Infos -> Structs],
           \A x \in Infos : j[x].addr = t.info[x].addr /\ j[x].queued = t.info[x].queued,
           \A e \in Range(t.members) \cup Range(t.auth) : j[e.info].keep,
           \A e \in Range(t.members) : j[e.info].id = t.info[e.info].id
    PROVE  LET u == [t EXCEPT !.info = j]
           IN /\ Sound(u) /\ SameQueues(t, u) /\ u.info = j /\ u.list = t.list
              /\ u.members = t.members /\ u.auth = t.auth /\ u.next = t.next
<1> DEFINE u == [t EXCEPT !.info = j]
<1>1. t \in States /\ t.list \in Seq(Infos)
  BY DEF Sound, States
<1>2. /\ SameQueues(t, u) /\ u.info = j /\ u.list = t.list
      /\ u.members = t.members /\ u.auth = t.auth /\ u.next = t.next
  BY <1>1 DEF States, SameQueues
<1>3. u \in States
  BY <1>1 DEF States
<1> HIDE DEF u
<1>4. Range(t.list) \subseteq Infos
  BY <1>1, RangeSubset
<1>5. Listed(t.list, j)
  BY <1>4 DEF Sound, Listed
<1>6. Counted(t.queue, t.list, j)
  BY DEF Sound, Counted
<1>7. Entered(t.members, t.list, j) /\ Held(t.auth, t.list, j)
  BY <1>4 DEF Sound, Entered, Held, EntryKept, EntryHeld
<1> QED
  BY <1>2, <1>3, <1>5, <1>6, <1>7 DEF u, Sound, SameQueues

MembersAre(t, u, m, n) ==
    /\ Sound(u) /\ SameQueues(t, u) /\ u.info = t.info /\ u.list = t.list
    /\ u.members = m /\ u.auth = t.auth /\ u.next = n

LEMMA MembersSet ==
    ASSUME NEW t, Sound(t), NEW m \in Seq(EntryType), Entered(m, t.list, t.info),
           Len(m) <= MaxAssoc, NEW n \in NextType, Pointed(n, m)
    PROVE  MembersAre(t, [t EXCEPT !.members = m, !.next = n], m, n)
<1> DEFINE u == [t EXCEPT !.members = m, !.next = n]
<1>1. t \in States
  BY DEF Sound
<1>2. /\ SameQueues(t, u) /\ u.info = t.info /\ u.list = t.list
      /\ u.members = m /\ u.auth = t.auth /\ u.next = n
  BY <1>1 DEF States, SameQueues
<1>3. u \in States
  BY <1>1 DEF States
<1> HIDE DEF u
<1> QED
  BY <1>2, <1>3 DEF u, Sound, SameQueues, MembersAre

LEMMA AuthSet ==
    ASSUME NEW t, Sound(t), NEW m \in Seq(EntryType), Held(m, t.list, t.info)
    PROVE  LET u == [t EXCEPT !.auth = m]
           IN /\ Sound(u) /\ SameQueues(t, u) /\ u.info = t.info /\ u.list = t.list
              /\ u.members = t.members /\ u.auth = m /\ u.next = t.next
<1> DEFINE u == [t EXCEPT !.auth = m]
<1>1. t \in States
  BY DEF Sound
<1>2. /\ SameQueues(t, u) /\ u.info = t.info /\ u.list = t.list
      /\ u.members = t.members /\ u.auth = m /\ u.next = t.next
  BY <1>1 DEF States, SameQueues
<1>3. u \in States
  BY <1>1 DEF States
<1> HIDE DEF u
<1> QED
  BY <1>2, <1>3 DEF u, Sound, SameQueues

\* The KEEP flag goes up on any struct.
LEMMA KeepUp ==
    ASSUME NEW t, Sound(t), NEW s \in Infos
    PROVE  LET u == [t EXCEPT !.info[s].keep = TRUE]
           IN /\ Sound(u) /\ SameQueues(t, u) /\ u.list = t.list
              /\ u.members = t.members /\ u.auth = t.auth /\ u.next = t.next
              /\ u.info[s].keep
              /\ \A x \in Infos : /\ u.info[x].addr = t.info[x].addr
                                  /\ u.info[x].doze = t.info[x].doze
                                  /\ u.info[x].id = t.info[x].id
<1> DEFINE j == [t.info EXCEPT ![s].keep = TRUE]
           u == [t EXCEPT !.info[s].keep = TRUE]
<1>1. /\ t \in States /\ t.info \in [Infos -> Structs] /\ t.list \in Seq(Infos)
  BY DEF Sound, States
<1>2. u = [t EXCEPT !.info = j]
  BY <1>1 DEF States
<1>3. KeepSet(t.info, j, s, TRUE)
  BY <1>1, KeepFields
<1> HIDE DEF j, u
<1>4. Range(t.list) \subseteq Infos
  BY <1>1, RangeSubset
<1>5. \A e \in Range(t.members) \cup Range(t.auth) :
         e.info \in Infos /\ t.info[e.info].keep
  BY <1>4 DEF Sound, Entered, Held, EntryKept, EntryHeld
<1>6. \A e \in Range(t.members) \cup Range(t.auth) :
         j[e.info].keep /\ j[e.info].id = t.info[e.info].id
  BY <1>3, <1>5 DEF KeepSet
<1>7. /\ Sound(u) /\ SameQueues(t, u) /\ u.info = j /\ u.list = t.list
      /\ u.members = t.members /\ u.auth = t.auth /\ u.next = t.next
  BY <1>2, <1>3, <1>6, InfoSet DEF KeepSet
<1> QED
  BY <1>3, <1>7 DEF u, KeepSet

\* An entry with the station a has its struct, and the other way round.
LEMMA EntryStruct ==
    ASSUME NEW t, Sound(t), NEW m, \A e \in Range(m) : EntryHeld(e, t.list, t.info),
           NEW s \in Range(t.list), NEW a, t.info[s].addr = a
    PROVE  /\ IsMember(m, s) <=> HasAddr(m, a)
           /\ \A e \in Range(m) : e.info = s <=> e.addr = a
<1>1. ASSUME NEW e \in Range(m) PROVE e.info = s <=> e.addr = a
  BY DEF EntryHeld, Sound, Listed
<1> QED
  BY <1>1 DEF IsMember, HasAddr

\* The struct of a station that is not in l gets the ID of its new entry in l; it is
\* no member.
Placed(t, l, a) == Place([Create(t, a) EXCEPT !.info[SlotOf(t, a)].id = 0], l)
NewEntry(t, l, a) ==
    [addr |-> a, id |-> Placed(t, l, a).id, info |-> SlotOf(t, a)]

LEMMA AddedFacts ==
    ASSUME NEW t, Sound(t), NEW a \in Stations, CanCreate(t, a),
           ~ HasAddr(t.members, a),
           NEW l \in Seq(EntryType), l = t.members \/ (l = t.auth /\ ~ HasAddr(t.auth, a))
    PROVE  LET u == Added(t, l, a).state
               e == NewEntry(t, l, a)
               m == Added(t, l, a).list
           IN /\ Sound(u) /\ SameQueues(t, u)
              /\ u.members = t.members /\ u.auth = t.auth /\ u.next = t.next
              /\ e \in EntryType /\ e.addr = a /\ e.info = SlotOf(t, a)
              /\ e.info \in Range(u.list) /\ u.info[e.info].addr = a
              /\ u.info[e.info].id = e.id
              /\ u.info[e.info].keep = Create(t, a).info[e.info].keep
              /\ m \in Seq(EntryType) /\ Len(m) = Len(l) + 1
              /\ Range(m) = Range(l) \cup {e}
              /\ (l = t.members => Rising(m)) /\ Distinct(m)
              /\ \A x \in Infos : x # e.info => u.info[x] = Create(t, a).info[x]
<1> DEFINE s == SlotOf(t, a)
           c == Create(t, a)
           z == [c EXCEPT !.info[s].id = 0]
           k == [c.info EXCEPT ![s].id = 0]
           p == Place(z, l)
           j == [c.info EXCEPT ![s].id = p.id]
           u == Added(t, l, a).state
           e == NewEntry(t, l, a)
           m == Added(t, l, a).list
<1>1. /\ Sound(c) /\ SameQueues(t, c) /\ c.members = t.members /\ c.auth = t.auth
      /\ c.next = t.next /\ s \in Range(c.list) /\ s \in Infos /\ c.info[s].addr = a
  BY CreateFacts
<1>2. p = Placed(t, l, a)
  BY DEF Placed
<1>3. u = [c EXCEPT !.info[s].id = p.id]
  BY <1>2 DEF Placed, Added
<1>4. e = [addr |-> a, id |-> p.id, info |-> s] /\ m = InsertAt(l, p.at, e)
  BY <1>2 DEF NewEntry, Placed, Added
<1> HIDE DEF s, c
<1>5. c \in States /\ c.info \in [Infos -> Structs] /\ c.list \in Seq(Infos)
      /\ c.members \in Seq(EntryType) /\ c.auth \in Seq(EntryType)
  BY <1>1 DEF Sound, States
<1>6. Range(c.list) \subseteq Infos
  BY <1>5, RangeSubset
<1>7. /\ Entered(c.members, c.list, c.info) /\ Held(c.auth, c.list, c.info)
      /\ Listed(c.list, c.info) /\ ~ HasAddr(l, a) /\ Distinct(l)
  <2>1. /\ Entered(c.members, c.list, c.info) /\ Held(c.auth, c.list, c.info)
        /\ Listed(c.list, c.info)
    BY <1>1 DEF Sound
  <2>2. Distinct(c.members)
    BY <1>5, <2>1, DistinctEntries
  <2> QED
    BY <1>1, <2>1, <2>2 DEF Held
<1>8. ASSUME NEW x \in Range(c.members) \cup Range(c.auth)
      PROVE  x.info \in Infos /\ c.info[x.info].keep /\ (x \in Range(l) => x.info # s)
  <2>1. EntryHeld(x, c.list, c.info)
    BY <1>7 DEF Entered, Held, EntryKept
  <2>2. x \in Range(l) => x.addr # a
    BY <1>7 DEF HasAddr
  <2> QED
    BY <1>1, <1>6, <2>1, <2>2 DEF EntryHeld
<1>a. \A x \in Range(c.members) : x.info # s
  <2>1. ASSUME NEW x \in Range(c.members) PROVE x.info # s
    <3>1. EntryHeld(x, c.list, c.info) /\ x.addr # a
      BY <1>1, <1>7 DEF Entered, EntryKept, HasAddr
    <3> QED
      BY <1>1, <3>1 DEF EntryHeld
  <2> QED
    BY <2>1
<1>9. z.info = k
  BY <1>5 DEF States
<1>10. IdSet(c.info, k, s, 0)
  <2>1. 0 \in 0 .. MaxId
    BY Sizes
  <2> QED
    BY <1>1, <1>5, <2>1, IdFields
<1> HIDE DEF z, k
<1>11. ASSUME NEW i \in DOMAIN l
       PROVE  /\ z.info[l[i].info].id \in 0 .. MaxId
              /\ l = c.members => z.info[l[i].info].id = l[i].id
  <2>1. l[i] \in Range(l) /\ l[i] \in Range(c.members) \cup Range(c.auth)
    BY <1>1 DEF Range
  <2>2. l[i].info \in Infos /\ l[i].info # s
    BY <1>8, <2>1
  <2>3. z.info[l[i].info].id = c.info[l[i].info].id
    BY <1>9, <1>10, <2>2 DEF IdSet
  <2>4. c.info[l[i].info].id \in 0 .. MaxId
    BY <1>5, <2>2 DEF Structs
  <2>5. l = c.members => c.info[l[i].info].id = l[i].id
    BY <1>7, <2>1 DEF Entered, EntryKept
  <2> QED
    BY <2>3, <2>4, <2>5
<1>12. Len(l) + 1 <= MaxId
  BY <1>7, IdLeft
<1>13. /\ p.at \in 1 .. Len(l) + 1 /\ p.id \in 1 .. MaxId
       /\ l = c.members => \A i \in DOMAIN l : /\ i < p.at => l[i].id < p.id
                                               /\ i >= p.at => p.id < l[i].id
  <2>1. p.at \in 1 .. Len(l) + 1 /\ p.id \in 1 .. MaxId
    BY <1>11, <1>12, PlaceRange
  <2>2. ASSUME l = c.members
        PROVE  \A i \in DOMAIN l : /\ i < p.at => l[i].id < p.id
                                   /\ i >= p.at => p.id < l[i].id
    <3>1. Rising(l) /\ \A i \in DOMAIN l : z.info[l[i].info].id = l[i].id
      BY <1>7, <1>11, <2>2 DEF Entered
    <3> QED
      BY <1>12, <3>1, PlaceFacts
  <2> QED
    BY <2>1, <2>2
<1> HIDE DEF p
<1>14. e \in EntryType /\ e.addr = a /\ e.info = s /\ e.id = p.id
  BY <1>1, <1>4, <1>13 DEF EntryType
<1> HIDE DEF e
<1>15. /\ m \in Seq(EntryType) /\ Len(m) = Len(l) + 1 /\ Range(m) = Range(l) \cup {e}
       /\ (l = c.members => Rising(m)) /\ Distinct(m)
  <2> DEFINE at == p.at
  <2>1. at \in 1 .. Len(l) + 1 /\ e \in EntryType /\ m = InsertAt(l, at, e)
    BY <1>4, <1>13, <1>14
  <2>2. l = c.members => /\ Rising(l)
                         /\ \A i \in DOMAIN l : /\ i < at => l[i].id < e.id
                                                /\ i >= at => e.id < l[i].id
    <3>1. l = c.members => Rising(l)
      BY <1>7 DEF Entered
    <3> HIDE DEF m
    <3>2. at = p.at /\ e.id = p.id
      BY <1>14
    <3> HIDE DEF at
    <3> QED
      BY <1>13, <3>1, <3>2
  <2> HIDE DEF at, m
  <2>3. m \in Seq(EntryType) /\ Len(m) = Len(l) + 1 /\ Range(m) = Range(l) \cup {e}
    BY <2>1, InsertedFacts
  <2>4. l = c.members => Rising(m)
    BY <2>1, <2>2, InsertedRising
  <2>5. Distinct(m)
    BY <1>7, <1>14, <2>1, InsertedDistinct
  <2> QED
    BY <2>3, <2>4, <2>5
<1>16. u = [c EXCEPT !.info = j]
  BY <1>3, <1>5 DEF States
<1>17. IdSet(c.info, j, s, p.id)
  <2>1. p.id \in 0 .. MaxId
    BY <1>13, Sizes
  <2> QED
    BY <1>1, <1>5, <2>1, IdFields
<1>18. \A x \in Infos : x # s => j[x] = c.info[x]
  BY <1>5
<1> HIDE DEF j, u, m
<1>19. /\ \A x \in Range(c.members) \cup Range(c.auth) : j[x.info].keep
       /\ \A x \in Range(c.members) : j[x.info].id = c.info[x.info].id
  BY <1>8, <1>a, <1>17 DEF IdSet
<1>20. /\ j \in [Infos -> Structs]
       /\ \A x \in Infos : j[x].addr = c.info[x].addr /\ j[x].queued = c.info[x].queued
  BY <1>17 DEF IdSet
<1>21. /\ Sound(u) /\ SameQueues(c, u) /\ u.info = j /\ u.list = c.list
       /\ u.members = c.members /\ u.auth = c.auth /\ u.next = c.next
  BY <1>1, <1>16, <1>19, <1>20, InfoSet
<1>22. SameQueues(t, u)
  BY <1>1, <1>21 DEF SameQueues
<1>23. /\ u.info[s].addr = a /\ u.info[s].id = p.id /\ u.info[s].keep = c.info[s].keep
  BY <1>1, <1>17, <1>21 DEF IdSet
<1> QED
  BY <1>1, <1>14, <1>15, <1>18, <1>21, <1>22, <1>23 DEF u, e, m, s, c

-----------------------------------------------------------------------------
(* Adding and removing entries.                                            *)

\* Entries of some stations taken out of a list.
LEMMA NotOfFacts ==
    ASSUME NEW l \in Seq(EntryType), NEW A
    PROVE  /\ NotOf(l, A) \in Seq(EntryType) /\ Len(NotOf(l, A)) <= Len(l)
           /\ Range(NotOf(l, A)) = {e \in Range(l) : e.addr \notin A}
           /\ Rising(l) => Rising(NotOf(l, A))
           /\ Distinct(l) => Distinct(NotOf(l, A))
<1> DEFINE T == Range(l) \ {e \in Range(l) : e.addr \in A}
           m == IF {e \in Range(l) : e.addr \in A} = {} THEN l ELSE Selected(l, T)
<1>1. NotOf(l, A) = m
  BY DEF NotOf
<1>a. Range(l) \cap T = Range(l) \ {e \in Range(l) : e.addr \in A}
  OBVIOUS
<1> HIDE DEF T
<1>2. m \in Seq(EntryType) /\ Range(m) = Range(l) \cap T
  <2>1. Selected(l, T) \in Seq(EntryType) /\ Range(Selected(l, T)) = Range(l) \cap T
    BY SelectedFacts
  <2> QED
    BY <1>a, <2>1
<1>3. Len(m) <= Len(l)
  <2>1. Len(Selected(l, T)) <= Len(l) /\ Len(l) \in Nat
    BY SelectedShort
  <2> QED
    BY <2>1
<1>4. Range(l) \cap T = {e \in Range(l) : e.addr \notin A}
  BY DEF T
<1>5. ASSUME NEW R, Ordered(l, R) PROVE Ordered(m, R)
  <2>1. \A x, y \in DOMAIN l : x < y => <<l[x], l[y]>> \in R
    BY <1>5 DEF Ordered
  <2>2. \A x, y \in DOMAIN m : x < y => <<m[x], m[y]>> \in R
    BY <2>1, SelectedOrdered
  <2> QED
    BY <2>2 DEF Ordered
<1>6. (Rising(l) => Rising(m)) /\ (Distinct(l) => Distinct(m))
  <2> HIDE DEF m
  <2> QED
    BY <1>2, <1>5, OrderedBy
<1> QED
  BY <1>1, <1>2, <1>3, <1>4, <1>6

LEMMA RemoveAuthFacts ==
    ASSUME NEW t, Sound(t), NEW a
    PROVE  LET u == RemoveAuth(t, a)
           IN /\ Sound(u) /\ SameQueues(t, u) /\ Calm(t, u) /\ u.info = t.info
              /\ u.list = t.list /\ u.members = t.members /\ u.next = t.next
              /\ Range(u.auth) \subseteq Range(t.auth) /\ ~ HasAddr(u.auth, a)
<1> DEFINE m == NotOf(t.auth, {a})
           u == RemoveAuth(t, a)
<1>1. t \in States /\ t.auth \in Seq(EntryType) /\ Held(t.auth, t.list, t.info)
  BY DEF Sound, States
<1>2. m \in Seq(EntryType) /\ Range(m) = {e \in Range(t.auth) : e.addr \notin {a}} /\ Distinct(m)
  BY <1>1, NotOfFacts DEF Held
<1>3. u = [t EXCEPT !.auth = m]
  BY DEF RemoveAuth
<1> HIDE DEF m, u
<1>4. Held(m, t.list, t.info)
  BY <1>1, <1>2 DEF Held
<1>5. /\ Sound(u) /\ SameQueues(t, u) /\ u.info = t.info /\ u.list = t.list
      /\ u.members = t.members /\ u.auth = m /\ u.next = t.next
  BY <1>2, <1>3, <1>4, AuthSet
<1>6. Calm(t, u)
  BY <1>5, CalmStructs
<1>7. Range(m) \subseteq Range(t.auth) /\ ~ HasAddr(m, a)
  BY <1>2 DEF HasAddr
<1> QED
  BY <1>5, <1>6, <1>7 DEF u

LEMMA RemoveMemberFacts ==
    ASSUME NEW t, Sound(t), NEW a
    PROVE  LET u == RemoveMember(t, a)
           IN /\ Sound(u) /\ SameQueues(t, u) /\ Calm(t, u) /\ u.info = t.info
              /\ u.list = t.list /\ u.auth = t.auth
              /\ Range(u.members) = {e \in Range(t.members) : e.addr # a}
<1> DEFINE m == NotOf(t.members, {a})
           n == IF t.next.kind = "entry" /\ t.next.addr = a THEN Pointer("freed", t.next) ELSE t.next
           u == RemoveMember(t, a)
<1>1. /\ t \in States /\ t.members \in Seq(EntryType) /\ Entered(t.members, t.list, t.info)
      /\ t.next \in NextType /\ Pointed(t.next, t.members)
      /\ Len(t.members) <= MaxAssoc
  BY DEF Sound, States
<1>2. /\ m \in Seq(EntryType) /\ Range(m) = {e \in Range(t.members) : e.addr \notin {a}}
      /\ Rising(m) /\ Len(m) <= Len(t.members)
  BY <1>1, NotOfFacts DEF Entered
<1>3. u = [t EXCEPT !.members = m, !.next = n]
  BY <1>1 DEF RemoveMember, States
<1>4. \A e \in Range(t.members) : e \in EntryType
  BY <1>1, RangeSubset
<1>5. n \in NextType /\ Pointed(n, m)
  <2>1. CASE t.next.kind = "entry" /\ t.next.addr = a
    <3>1. PICK e \in Range(t.members) : t.next = Pointer("entry", e)
      BY <1>1, <2>1 DEF Pointed
    <3>2. Pointer("freed", t.next) = Pointer("freed", e)
      BY <1>4, <3>1, PointerTypes DEF Pointer
    <3>3. Pointer("freed", e) \in NextType /\ Pointer("freed", e).kind = "freed"
      BY <1>4, PointerTypes
    <3> QED
      BY <2>1, <3>2, <3>3 DEF Pointed
  <2>2. CASE ~ (t.next.kind = "entry" /\ t.next.addr = a)
    <3>1. ASSUME t.next.kind = "entry" PROVE \E e \in Range(m) : t.next = Pointer("entry", e)
      <4>1. PICK e \in Range(t.members) : t.next = Pointer("entry", e)
        BY <1>1, <3>1 DEF Pointed
      <4>2. e.addr = t.next.addr
        BY <1>4, <4>1, PointerTypes
      <4> QED
        BY <1>2, <2>2, <3>1, <4>1, <4>2
    <3> QED
      BY <1>1, <2>2, <3>1 DEF Pointed
  <2> QED
    BY <2>1, <2>2
<1> HIDE DEF m, n, u
<1>6. Entered(m, t.list, t.info)
  BY <1>1, <1>2 DEF Entered
<1>7. Len(m) <= MaxAssoc
  BY <1>1, <1>2, ApStationsAssumption
<1>8. /\ Sound(u) /\ SameQueues(t, u) /\ u.info = t.info /\ u.list = t.list
      /\ u.members = m /\ u.auth = t.auth /\ u.next = n
  <2>1. MembersAre(t, u, m, n)
    BY <1>2, <1>3, <1>5, <1>6, <1>7, MembersSet
  <2> QED
    BY <2>1 DEF MembersAre
<1>9. Calm(t, u)
  BY <1>2, <1>8, CalmStructs
<1>10. Range(m) = {e \in Range(t.members) : e.addr # a}
  BY <1>2
<1> QED
  BY <1>8, <1>9, <1>10 DEF u

LEMMA KnownSlot ==
    ASSUME NEW t, Sound(t), NEW s \in Range(t.list), NEW a, t.info[s].addr = a
    PROVE  Known(t, a) = {s} /\ SlotOf(t, a) = s /\ CanCreate(t, a)
<1>1. Known(t, a) = {s}
  BY DEF Known, Sound, Listed
<1>2. SlotOf(t, a) = s
  BY <1>1 DEF SlotOf
<1> QED
  BY <1>1, <1>2 DEF CanCreate

\* The entry a list has for a station after it was put in.
LEMMA EntryFound ==
    ASSUME NEW l, NEW m, NEW e, Range(m) = Range(l) \cup {e}, ~ HasAddr(l, e.addr)
    PROVE  EntryOf(m, e.addr) = e /\ HasAddr(m, e.addr)
<1>1. \A x \in Range(m) : x.addr = e.addr => x = e
  BY DEF HasAddr
<1>2. e \in Range(m)
  OBVIOUS
<1> QED
  BY <1>1, <1>2 DEF EntryOf, HasAddr

LEMMA EnteredMore ==
    ASSUME NEW l, NEW m, NEW e, NEW k, NEW i, Range(m) = Range(l) \cup {e}, Rising(m),
           Entered(l, k, i), EntryKept(e, k, i)
    PROVE  Entered(m, k, i)
  BY DEF Entered

LEMMA KeepEntry ==
    ASSUME NEW t, Sound(t), NEW a, NEW l, l = t.members \/ l = t.auth, HasAddr(l, a)
    PROVE  LET u == Keep(t, l, a)
           IN /\ Sound(u) /\ Calm(t, u) /\ SameQueues(t, u) /\ u.list = t.list
              /\ u.members = t.members /\ u.next = t.next
<1> DEFINE e == EntryOf(l, a)
           s == e.info
           u == [t EXCEPT !.info[s].keep = TRUE]
<1>1. e \in Range(l)
  BY DEF EntryOf, HasAddr
<1>2. t.auth \in Seq(EntryType) /\ t.members \in Seq(EntryType)
  BY DEF Sound, States
<1>3. s \in Infos /\ \A x \in Range(t.members) : x.info \in Infos
  <2>1. /\ l \in Seq(EntryType) /\ Range(l) \subseteq EntryType
        /\ Range(t.members) \subseteq EntryType
    BY <1>2, RangeSubset
  <2>2. \A x \in EntryType : x.info \in Infos
    BY DEF EntryType
  <2> HIDE DEF e
  <2> QED
    BY <1>1, <2>1, <2>2
<1>4. Keep(t, l, a) = u
  BY DEF Keep
<1> HIDE DEF e, s
<1>5. /\ Sound(u) /\ SameQueues(t, u) /\ u.list = t.list
      /\ u.members = t.members /\ u.auth = t.auth /\ u.next = t.next
      /\ \A x \in Infos : u.info[x].doze = t.info[x].doze
  BY <1>3, KeepUp
<1> HIDE DEF u
<1>6. Calm(t, u)
  BY <1>3, <1>5, CalmStructs
<1> QED
  BY <1>4, <1>5, <1>6

\* An accepted authentication makes an entry, and raises the KEEP flag.
LEMMA AuthKept ==
    ASSUME NEW t, Sound(t), NEW a \in Stations, NEW s \in Range(t.list), t.info[s].addr = a,
           ~ HasAddr(t.members, a)
    PROVE  LET r == AddAuth(t, a)
               v == Keep(r, r.auth, a)
           IN /\ Sound(v) /\ Calm(t, v) /\ v.members = t.members /\ s \in Range(v.list)
<1>1. CASE HasAddr(t.auth, a)
  <2>1. AddAuth(t, a) = t
    BY <1>1 DEF AddAuth
  <2> QED
    BY <1>1, <2>1, KeepEntry
<1>2. CASE ~ HasAddr(t.auth, a)
  <2> DEFINE u == Added(t, t.auth, a).state
             e == NewEntry(t, t.auth, a)
             m == Added(t, t.auth, a).list
             r == [u EXCEPT !.auth = m]
             v == [r EXCEPT !.info[s].keep = TRUE]
             w == [u EXCEPT !.info[s].keep = TRUE]
  <2>1. SlotOf(t, a) = s /\ CanCreate(t, a) /\ t.auth \in Seq(EntryType)
    <3>1. t.auth \in Seq(EntryType)
      BY DEF Sound, States
    <3> QED
      BY <3>1, KnownSlot
  <2>2. /\ Sound(u) /\ SameQueues(t, u)
        /\ u.members = t.members /\ u.auth = t.auth /\ u.next = t.next
        /\ e \in EntryType /\ e.addr = a /\ e.info = s
        /\ e.info \in Range(u.list) /\ u.info[e.info].addr = a
        /\ u.info[e.info].id = e.id
        /\ m \in Seq(EntryType) /\ Range(m) = Range(t.auth) \cup {e}
        /\ Distinct(m)
        /\ \A x \in Infos : x # e.info => u.info[x] = Create(t, a).info[x]
    BY <1>2, <2>1, AddedFacts
  <2>3. AddAuth(t, a) = r
    BY <1>2 DEF AddAuth
  <2> HIDE DEF u, e, m
  <2>4. u \in States /\ u.list \in Seq(Infos) /\ u.info \in [Infos -> Structs]
    BY <2>2 DEF Sound, States
  <2>5. s \in Infos
    BY <2>2, <2>4, RangeSubset
  <2>6. r \in States /\ r.auth = m /\ r.info = u.info
    BY <2>2, <2>4 DEF States
  <2>7. EntryOf(m, a) = e
    BY <1>2, <2>2, EntryFound
  <2>8. Keep(r, r.auth, a) = v
    BY <2>2, <2>6, <2>7 DEF Keep
  <2>9. /\ Sound(w) /\ SameQueues(u, w) /\ w.list = u.list
        /\ w.members = u.members /\ w.auth = u.auth /\ w.next = u.next
        /\ w.info[s].keep
        /\ \A x \in Infos : /\ w.info[x].addr = u.info[x].addr
                            /\ w.info[x].doze = u.info[x].doze
                            /\ w.info[x].id = u.info[x].id
    BY <2>2, <2>5, KeepUp
  <2>10. v = [w EXCEPT !.auth = m]
    BY <2>2, <2>4 DEF States
  <2> HIDE DEF v, w, r
  <2>11. EntryHeld(e, w.list, w.info)
    BY <2>2, <2>5, <2>9 DEF EntryHeld
  <2>12. Held(m, w.list, w.info)
    <3>1. Held(t.auth, w.list, w.info)
      BY <2>2, <2>9 DEF Sound
    <3> QED
      BY <2>2, <2>11, <3>1 DEF Held
  <2>14. /\ Sound(v) /\ SameQueues(w, v) /\ v.info = w.info /\ v.list = w.list
         /\ v.members = w.members
    BY <2>2, <2>9, <2>10, <2>12, AuthSet
  <2>15. ASSUME NEW x \in Range(t.members)
         PROVE  v.info[x.info].doze = t.info[x.info].doze
    <3>1. EntryKept(x, t.list, t.info) /\ x.addr # a
      BY DEF Sound, Entered, HasAddr
    <3>2. x.info # s /\ x.info \in Infos
      <4>1. t.list \in Seq(Infos)
        BY DEF Sound, States
      <4> QED
        BY <3>1, <4>1, RangeSubset DEF EntryKept, EntryHeld
    <3>3. Known(t, a) # {}
      BY KnownSlot
    <3>4. Create(t, a).info = t.info
      BY <2>1, <3>3, CreateFacts
    <3>5. u.info[x.info] = t.info[x.info]
      BY <2>2, <3>2, <3>4
    <3> QED
      BY <2>9, <2>14, <3>2, <3>5
  <2>16. SameQueues(t, v) /\ v.members = t.members
    BY <2>2, <2>9, <2>14 DEF SameQueues
  <2>17. Calm(t, v)
    BY <2>15, <2>16, CalmStructs
  <2> QED
    BY <2>2, <2>3, <2>6, <2>8, <2>9, <2>14, <2>16, <2>17
<1> QED
  BY <1>1, <1>2

\* A new member: with the KEEP flag that its struct has, or one that is raised.
NewMember(t, u) == ~ (Range(u.members) \subseteq Range(t.members))

\* An entry put into the list of members.
NewIn(x, y) == Sound(y) /\ NewMember(x, y) /\ y.list = x.list /\ y.info = x.info
LEMMA MemberPut ==
    ASSUME NEW x, Sound(x), NEW e \in EntryType, NEW m \in Seq(EntryType), Rising(m),
           Range(m) = Range(x.members) \cup {e}, e \notin Range(x.members),
           Len(m) <= MaxAssoc, EntryKept(e, x.list, x.info)
    PROVE  NewIn(x, [x EXCEPT !.members = m, !.next = x.next])
<1> DEFINE n == x.next
           y == [x EXCEPT !.members = m, !.next = n]
<1>1. Entered(x.members, x.list, x.info) /\ n \in NextType /\ Pointed(n, x.members)
  BY DEF Sound, States
<1> HIDE DEF n
<1>2. Entered(m, x.list, x.info)
  BY <1>1, EnteredMore
<1>3. Pointed(n, m)
  BY <1>1 DEF Pointed
<1>4. MembersAre(x, y, m, n)
  BY <1>1, <1>2, <1>3, MembersSet
<1> HIDE DEF y
<1>5. Sound(y) /\ y.members = m /\ y.list = x.list /\ y.info = x.info
  BY <1>4 DEF MembersAre
<1> QED
  BY <1>5 DEF NewMember, NewIn, y, n

LEMMA MemberAdded ==
    ASSUME NEW t, Sound(t), NEW a \in Stations, CanCreate(t, a),
           ~ HasAddr(t.members, a), Len(t.members) < MaxAssoc
    PROVE  LET r == AddMember(t, a)
               v == Keep(r, r.members, a)
           IN /\ Sound(v) /\ NewMember(t, v)
              /\ \A s \in Range(t.list) :
                    t.info[s].addr = a /\ t.info[s].keep =>
                        Sound(r) /\ NewMember(t, r) /\ s \in Range(r.list)
                        /\ r.info[s].id \in 1 .. MaxId
<1> DEFINE u == Added(t, t.members, a).state
           e == NewEntry(t, t.members, a)
           m == Added(t, t.members, a).list
           s == SlotOf(t, a)
           r == [u EXCEPT !.members = m]
           v == [r EXCEPT !.info[s].keep = TRUE]
           w == [u EXCEPT !.info[s].keep = TRUE]
<1>1. t.members \in Seq(EntryType) /\ Len(t.members) \in Nat
  BY DEF Sound, States
<1>2. /\ Sound(u) /\ SameQueues(t, u)
      /\ u.members = t.members /\ u.auth = t.auth /\ u.next = t.next
      /\ e \in EntryType /\ e.addr = a /\ e.info = s
      /\ e.info \in Range(u.list) /\ u.info[e.info].addr = a
      /\ u.info[e.info].id = e.id
      /\ u.info[e.info].keep = Create(t, a).info[e.info].keep
      /\ m \in Seq(EntryType) /\ Len(m) = Len(t.members) + 1 /\ Rising(m)
      /\ Range(m) = Range(t.members) \cup {e}
  BY <1>1, AddedFacts
<1>3. AddMember(t, a) = r
  BY DEF AddMember
<1> HIDE DEF u, e, m, s
<1>4. /\ u \in States /\ u.list \in Seq(Infos) /\ u.info \in [Infos -> Structs]
      /\ u.next \in NextType /\ Pointed(u.next, u.members)
  BY <1>2 DEF Sound, States
<1>5. s \in Infos
  BY <1>2, <1>4, RangeSubset
<1>6. r \in States /\ r.members = m /\ r.info = u.info
  BY <1>2, <1>4 DEF States
<1>7. EntryOf(m, a) = e /\ e \notin Range(t.members)
  BY <1>2, EntryFound DEF HasAddr
<1>8. Keep(r, r.members, a) = v
  BY <1>2, <1>6, <1>7 DEF Keep
<1>9. Len(m) <= MaxAssoc
  BY <1>1, <1>2, ApStationsAssumption
<1>10. /\ Sound(w) /\ SameQueues(u, w) /\ w.list = u.list
       /\ w.members = u.members /\ w.auth = u.auth /\ w.next = u.next
       /\ w.info[s].keep
       /\ \A x \in Infos : /\ w.info[x].addr = u.info[x].addr
                           /\ w.info[x].doze = u.info[x].doze
                           /\ w.info[x].id = u.info[x].id
  BY <1>2, <1>5, KeepUp
<1>11. v = [w EXCEPT !.members = m, !.next = w.next]
  <2>1. w \in States
    BY <1>10 DEF Sound
  <2>2. v = [w EXCEPT !.members = m]
    BY <1>2, <1>4 DEF States
  <2> QED
    BY <1>2, <2>1, <2>2 DEF States
<1>12. r = [u EXCEPT !.members = m, !.next = u.next]
  BY <1>2, <1>4 DEF States
<1> HIDE DEF v, w, r
<1>13. /\ e \in EntryType /\ m \in Seq(EntryType) /\ Rising(m) /\ Len(m) <= MaxAssoc
       /\ Range(m) = Range(u.members) \cup {e} /\ e \notin Range(u.members)
       /\ u.members = t.members
  BY <1>2, <1>7, <1>9
<1>14. Sound(v) /\ NewMember(t, v)
  <2>1. EntryKept(e, w.list, w.info)
    BY <1>2, <1>5, <1>10 DEF EntryKept, EntryHeld
  <2>2. Sound(w) /\ w.members = u.members
    BY <1>10
  <2>3. NewIn(w, v)
    BY <1>11, <1>13, <2>1, <2>2, MemberPut
  <2> QED
    BY <1>13, <2>2, <2>3 DEF NewMember, NewIn
<1>15. ASSUME NEW x \in Range(t.list), t.info[x].addr = a, t.info[x].keep
       PROVE  /\ Sound(r) /\ NewMember(t, r) /\ x \in Range(r.list)
              /\ r.info[x].id \in 1 .. MaxId
  <2>1. x = s /\ Known(t, a) # {}
    <3>1. Known(t, a) = {x} /\ SlotOf(t, a) = x
      BY <1>15, KnownSlot
    <3> QED
      BY <3>1 DEF s
  <2>2. Create(t, a).info = t.info
    BY <2>1, CreateFacts
  <2>3. EntryKept(e, u.list, u.info)
    BY <1>2, <1>15, <2>1, <2>2 DEF EntryKept, EntryHeld
  <2>4. Sound(r) /\ NewMember(t, r) /\ r.list = u.list /\ r.info = u.info
    <3>1. Sound(u)
      BY <1>2
    <3>2. NewIn(u, r)
      BY <1>12, <1>13, <2>3, <3>1, MemberPut
    <3> QED
      BY <1>13, <3>2 DEF NewMember, NewIn
  <2>5. e.id \in 1 .. MaxId
    BY <1>2 DEF EntryType
  <2> QED
    BY <1>2, <2>1, <2>4, <2>5
<1> QED
  BY <1>3, <1>8, <1>14, <1>15

-----------------------------------------------------------------------------
(* Frames of stations.                                                     *)

LEMMA AuthenticatedFacts ==
    ASSUME NEW t, Sound(t), NEW a \in Stations, NEW s \in Range(t.list), t.info[s].addr = a
    PROVE  LET u == Authenticated(t, a, s)
           IN Sound(u) /\ Calm(t, u) /\ s \in Range(u.list)
<1> DEFINE others == Len(t.auth) - IF ~ IsMember(t.members, s) /\ IsMember(t.auth, s) THEN 1 ELSE 0
           r == AddAuth(t, a)
<1>1. CASE IsMember(t.members, s) \/ others >= MaxAuth
  <2>1. Authenticated(t, a, s) = t
    BY <1>1 DEF Authenticated
  <2> QED
    BY <2>1 DEF Calm
<1>2. CASE ~ (IsMember(t.members, s) \/ others >= MaxAuth)
  <2>1. Authenticated(t, a, s) = Keep(r, r.auth, a)
    BY <1>2 DEF Authenticated
  <2>2. t.members \in Seq(EntryType) /\ Entered(t.members, t.list, t.info)
    BY DEF Sound, States
  <2>3. IsMember(t.members, s) <=> HasAddr(t.members, a)
    BY <2>2, EntryStruct DEF Entered, EntryKept
  <2>4. ~ HasAddr(t.members, a)
    BY <1>2, <2>3
  <2> QED
    BY <2>1, <2>4, AuthKept
<1> QED
  BY <1>1, <1>2

\* An association may make a member.
Eased(t, u) == Calm(t, u) \/ NewMember(t, u)

LEMMA AssociatedFacts ==
    ASSUME NEW t, Sound(t), NEW a \in Stations, NEW s \in Range(t.list), t.info[s].addr = a
    PROVE  LET u == Associated(t, a, s) IN Sound(u) /\ Eased(t, u)
<1> DEFINE reject == ~ IsMember(t.members, s) /\ Len(t.members) >= MaxAssoc
           r == RemoveAuth(t, a)
           w == AddMember(r, a)
           y == IF IsMember(t.auth, s) THEN w ELSE t
           q == STATION_ID_TO_QUEUE_ID(y.info[s].id)
           v == EnqueueNew(y, q, s)
<1>1. /\ t.list \in Seq(Infos) /\ t.info \in [Infos -> Structs]
      /\ Len(t.members) \in Nat /\ Len(t.members) <= MaxAssoc
      /\ \A e \in Range(t.members) \cup Range(t.auth) : EntryHeld(e, t.list, t.info)
  BY DEF Sound, States, Entered, Held, EntryKept
<1>2. s \in Infos /\ t.info[s].id \in 0 .. MaxId
  <2>1. s \in Infos
    BY <1>1, RangeSubset
  <2> QED
    BY <1>1, <2>1 DEF Structs
<1>3. CASE reject
  <2>1. Associated(t, a, s) = EnqueueNew(t, MANAGEMENT_QID, s)
    BY <1>3 DEF Associated
  <2> QED
    BY <2>1, Sizes, EnqueueNewFacts DEF Eased
<1>4. CASE ~ reject
  <2>1. Associated(t, a, s) = v
    BY <1>4 DEF Associated
  <2>2. /\ Sound(r) /\ r.info = t.info /\ Calm(t, r)
        /\ r.list = t.list /\ r.members = t.members /\ ~ HasAddr(r.auth, a)
    BY RemoveAuthFacts
  <2> HIDE DEF r
  <2>3. /\ Sound(y) /\ s \in Range(y.list) /\ y.info[s].id \in 0 .. MaxId
        /\ y = t \/ Calm(t, y) \/ NewMember(t, y)
    <3>1. CASE ~ IsMember(t.auth, s)
      BY <1>2, <3>1
    <3>2. CASE IsMember(t.auth, s) /\ HasAddr(t.members, a)
      <4>1. w = r
        BY <2>2, <3>2 DEF AddMember
      <4> QED
        BY <1>2, <2>2, <3>2, <4>1
    <3>3. CASE IsMember(t.auth, s) /\ ~ HasAddr(t.members, a)
      <4>1. ~ IsMember(t.members, s)
        BY <1>1, <3>3, EntryStruct
      <4>2. Len(r.members) < MaxAssoc
        BY <1>1, <1>4, <2>2, <4>1, ApStationsAssumption
      <4>3. t.info[s].keep
        BY <1>1, <3>3 DEF IsMember, EntryHeld
      <4>4. CanCreate(r, a)
        BY <2>2, KnownSlot
      <4>5. Sound(w) /\ NewMember(r, w) /\ s \in Range(w.list) /\ w.info[s].id \in 1 .. MaxId
        BY <2>2, <3>3, <4>2, <4>3, <4>4, MemberAdded
      <4> HIDE DEF w
      <4>6. NewMember(t, w) /\ w.info[s].id \in 0 .. MaxId
        BY <2>2, <4>5, Sizes DEF NewMember
      <4> QED
        BY <3>3, <4>5, <4>6
    <3> QED
      BY <3>1, <3>2, <3>3
  <2> HIDE DEF y
  <2>4. q \in Queues
    BY <2>3, Sizes
  <2> HIDE DEF q
  <2>5. Sound(v) /\ Steady(y, v) /\ Calm(y, v)
    BY <2>3, <2>4, EnqueueNewFacts
  <2> HIDE DEF v
  <2>6. Eased(t, v)
    <3>1. CASE y = t
      BY <2>5, <3>1 DEF Eased
    <3>2. CASE Calm(t, y)
      BY <2>5, <3>2, CalmTransitive DEF Eased
    <3>3. CASE NewMember(t, y)
      BY <2>5, <3>3 DEF Eased, NewMember, Steady
    <3> QED
      BY <2>3, <3>1, <3>2, <3>3
  <2> QED
    BY <2>1, <2>5, <2>6
<1> QED
  BY <1>3, <1>4

\* The KEEP flag goes down on a struct without an entry.
LEMMA KeepDown ==
    ASSUME NEW t, Sound(t), NEW s \in Infos,
           \A e \in Range(t.members) \cup Range(t.auth) : e.info # s
    PROVE  LET u == [t EXCEPT !.info[s].keep = FALSE]
           IN /\ Sound(u) /\ SameQueues(t, u) /\ Calm(t, u) /\ u.list = t.list
              /\ u.members = t.members /\ u.auth = t.auth /\ u.next = t.next
              /\ \A x \in Infos : u.info[x].addr = t.info[x].addr /\ u.info[x].id = t.info[x].id
<1> DEFINE j == [t.info EXCEPT ![s].keep = FALSE]
           u == [t EXCEPT !.info[s].keep = FALSE]
<1>1. /\ t \in States /\ t.info \in [Infos -> Structs] /\ t.list \in Seq(Infos)
  BY DEF Sound, States
<1>2. u = [t EXCEPT !.info = j]
  BY <1>1 DEF States
<1>3. KeepSet(t.info, j, s, FALSE)
  BY <1>1, KeepFields
<1> HIDE DEF j, u
<1>4. Range(t.list) \subseteq Infos
  BY <1>1, RangeSubset
<1>5. \A e \in Range(t.members) \cup Range(t.auth) :
         e.info \in Infos /\ t.info[e.info].keep
  BY <1>4 DEF Sound, Entered, Held, EntryKept, EntryHeld
<1>6. \A e \in Range(t.members) \cup Range(t.auth) :
         /\ j[e.info].keep /\ j[e.info].id = t.info[e.info].id
         /\ j[e.info].doze = t.info[e.info].doze
  BY <1>3, <1>5 DEF KeepSet
<1>7. /\ Sound(u) /\ SameQueues(t, u) /\ u.info = j /\ u.list = t.list
      /\ u.members = t.members /\ u.auth = t.auth /\ u.next = t.next
  BY <1>2, <1>3, <1>6, InfoSet DEF KeepSet
<1>8. Calm(t, u)
  BY <1>6, <1>7, CalmStructs
<1> QED
  BY <1>3, <1>7, <1>8 DEF u, KeepSet

LEMMA DisassocFacts ==
    ASSUME NEW t, Sound(t), NEW a, NEW s \in Range(t.list), t.info[s].addr = a
    PROVE  LET u == Disassoc(t, a) IN Sound(u) /\ Calm(t, u)
<1> DEFINE m == RemoveMember(t, a)
           r == RemoveAuth(m, a)
           u == [r EXCEPT !.info[s].keep = FALSE]
<1>1. Disassoc(t, a) = u
  BY KnownSlot DEF Disassoc
<1>2. /\ Sound(m) /\ Calm(t, m) /\ m.info = t.info /\ m.list = t.list
      /\ Range(m.members) = {e \in Range(t.members) : e.addr # a}
  BY RemoveMemberFacts
<1> HIDE DEF m
<1>3. /\ Sound(r) /\ Calm(m, r) /\ r.info = t.info /\ r.list = t.list
      /\ r.members = m.members /\ ~ HasAddr(r.auth, a)
  BY <1>2, RemoveAuthFacts
<1> HIDE DEF r
<1>4. r.list \in Seq(Infos) /\ s \in Infos
  <2>1. r.list \in Seq(Infos)
    BY <1>3 DEF Sound, States
  <2> QED
    BY <1>3, <2>1, RangeSubset
<1>5. ASSUME NEW e \in Range(r.members) \cup Range(r.auth) PROVE e.info # s
  <2>1. e.addr # a /\ EntryHeld(e, r.list, r.info)
    BY <1>2, <1>3 DEF HasAddr, Sound, Entered, EntryKept, Held
  <2> QED
    BY <1>3, <2>1 DEF EntryHeld
<1>6. Sound(u) /\ Calm(r, u)
  BY <1>3, <1>4, <1>5, KeepDown
<1> HIDE DEF u
<1>7. Calm(t, u)
  BY <1>2, <1>3, <1>6, CalmTransitive
<1> QED
  BY <1>1, <1>6, <1>7

-----------------------------------------------------------------------------
(* Purged queues and deauthentications.                                    *)

LEMMA PurgeFacts ==
    ASSUME NEW t, Sound(t), NEW Q \in SUBSET Queues
    PROVE  LET u == Purge(t, Q) IN Sound(u) /\ Steady(t, u) /\ Calm(t, u)
<1> DEFINE r == [q \in Queues |-> IF q \in Q THEN <<>> ELSE t.queue[q]]
           gone(s) == {p \in Spots(t.queue, {s}) : p[1] \in Q}
           j == [s \in Infos |-> [t.info[s] EXCEPT !.queued = @ - Cardinality(Purged(t, Q, s))]]
           u == Purge(t, Q)
<1>1. /\ t \in States /\ t.queue \in [Queues -> Seq(Infos)] /\ t.info \in [Infos -> Structs]
      /\ Counted(t.queue, t.list, t.info) /\ Pointed(t.next, t.members)
      /\ t.members \in Seq(EntryType) /\ Len(t.flight) <= Buffers /\ t.list \in Seq(Infos)
  BY DEF Sound, States
<1>2. u = [t EXCEPT !.queue = r, !.info = j]
  BY DEF Purge
<1>3. ASSUME NEW T
      PROVE  /\ r \in [Queues -> Seq(Infos)]
             /\ Cardinality(Spots(r, T)) =
                    Cardinality(Spots(t.queue, T)) -
                    Cardinality({p \in Spots(t.queue, T) : p[1] \in Q})
             /\ Cardinality(Spots(r, T)) <= Cardinality(Spots(t.queue, T))
             /\ Cardinality({p \in Spots(t.queue, T) : p[1] \in Q}) \in Nat
  BY <1>1, PurgeSpots
<1>4. ASSUME NEW s \in Infos PROVE Purged(t, Q, s) = gone(s)
  BY DEF Purged, Spots
<1>5. r \in [Queues -> Seq(Infos)]
  BY <1>3
<1>6. \A q \in Queues : r[q] = <<>> \/ r[q] = t.queue[q]
  OBVIOUS
<1> HIDE DEF r
<1>7. ASSUME NEW s \in Infos
      PROVE  /\ j[s] \in Structs /\ j[s].queued = Cardinality(Spots(r, {s}))
             /\ j[s].queued <= t.info[s].queued
             /\ j[s].addr = t.info[s].addr /\ j[s].keep = t.info[s].keep
             /\ j[s].doze = t.info[s].doze /\ j[s].id = t.info[s].id
  <2> DEFINE n == Cardinality(gone(s))
  <2>1. n \in Nat /\ Cardinality(Spots(r, {s})) = Cardinality(Spots(t.queue, {s})) - n
    BY <1>3
  <2>2. t.info[s].queued = Cardinality(Spots(t.queue, {s})) /\ t.info[s] \in Structs
    BY <1>1 DEF Counted
  <2>3. j[s] = [t.info[s] EXCEPT !.queued = @ - n]
    BY <1>4
  <2> HIDE DEF n, j
  <2>4. t.info[s].queued \in Int
    BY <2>2 DEF Structs
  <2>5. /\ j[s] \in Structs /\ j[s].queued = t.info[s].queued - n
        /\ j[s].addr = t.info[s].addr /\ j[s].keep = t.info[s].keep
        /\ j[s].doze = t.info[s].doze /\ j[s].id = t.info[s].id
    BY <2>1, <2>2, <2>3 DEF Structs
  <2> QED
    BY <2>1, <2>2, <2>4, <2>5
<1>8. j \in [Infos -> Structs]
  BY <1>7
<1> HIDE DEF j, u
<1>9. /\ u.list = t.list /\ u.info = j /\ u.members = t.members /\ u.auth = t.auth
      /\ u.queue = r /\ u.next = t.next /\ u.flight = t.flight
  BY <1>1, <1>2 DEF States
<1>10. u \in States
  BY <1>1, <1>2, <1>5, <1>8 DEF States
<1>11. Steady(t, u)
  BY <1>7, <1>9 DEF Steady, SameStructs
<1>12. Counted(r, t.list, j)
  <2>1. ASSUME NEW s \in Infos, j[s].queued > 0 PROVE s \in Range(t.list)
    <3>1. t.info[s].queued \in Int /\ j[s].queued \in Int
      BY <1>1, <1>7 DEF Structs
    <3>2. j[s].queued <= t.info[s].queued
      BY <1>7
    <3>3. \A x, y \in Int : x <= y /\ x > 0 => y > 0
      OBVIOUS
    <3>4. t.info[s].queued > 0
      BY <2>1, <3>1, <3>2, <3>3
    <3> QED
      BY <1>1, <3>4 DEF Counted
  <2>2. Cardinality(Spots(r, Infos)) <= Pool
    <3>1. Cardinality(Spots(r, Infos)) \in Nat /\ Cardinality(Spots(t.queue, Infos)) \in Nat
      BY <1>1, <1>5, SpotsFinite
    <3>2. Cardinality(Spots(t.queue, Infos)) <= Pool
      BY <1>1 DEF Counted
    <3>3. Cardinality(Spots(r, Infos)) <= Cardinality(Spots(t.queue, Infos))
      BY <1>3
    <3> QED
      BY <3>1, <3>2, <3>3, ApStationsAssumption
  <2> QED
    BY <1>7, <2>1, <2>2 DEF Counted
<1>13. Sound(u)
  BY <1>1, <1>9, <1>10, <1>11, <1>12, SteadySound
<1>14. Calm(t, u)
  <2>1. ASSUME NEW e \in Range(t.members), ~ Skipped(u, e) PROVE ~ Skipped(t, e)
    <3>1. e \in EntryType
      BY <1>1, RangeSubset
    <3>2. e.info \in Infos /\ STATION_ID_TO_QUEUE_ID(e.id) \in Queues
      BY <3>1, Sizes DEF EntryType
    <3> QED
      BY <1>6, <1>7, <1>9, <2>1, <3>2 DEF Skipped
  <2> QED
    BY <1>6, <1>9, <2>1, Sizes DEF Calm, Backlog
<1> QED
  BY <1>11, <1>13, <1>14 DEF u

\* A deauthenticated station loses its entry and nobody else's; it has no other.
LEMMA DeauthenticateFacts ==
    ASSUME NEW t, Sound(t), NEW e \in Range(t.members), ~ HasAddr(t.auth, e.addr)
    PROVE  LET u == Deauthenticate(t, e.info)
           IN /\ Sound(u) /\ Calm(t, u) /\ u.list = t.list /\ u.auth = t.auth
              /\ Range(u.members) = {x \in Range(t.members) : x.addr # e.addr}
              /\ \A x \in Infos : u.info[x].addr = t.info[x].addr
<1> DEFINE s == e.info
           q == STATION_ID_TO_QUEUE_ID(t.info[s].id)
           n == Enqueue(t, MANAGEMENT_QID, s)
           told == IF HasEntry(t) THEN Purge(n, {q}) ELSE t
           m == RemoveMember(told, told.info[s].addr)
           u == [m EXCEPT !.info[s].keep = FALSE]
<1>1. /\ Entered(t.members, t.list, t.info) /\ EntryKept(e, t.list, t.info)
      /\ t.list \in Seq(Infos)
  BY DEF Sound, States, Entered
<1>2. s \in Range(t.list) /\ s \in Infos /\ t.info[s].addr = e.addr
  BY <1>1, RangeSubset DEF EntryKept, EntryHeld
<1>3. Deauthenticate(t, s) = u
  BY DEF Deauthenticate
<1>4. Sound(told) /\ Steady(t, told) /\ Calm(t, told)
  <2>1. CASE ~ HasEntry(t)
    BY <2>1 DEF Steady, SameStructs, Calm
  <2>2. CASE HasEntry(t)
    <3>1. Sound(n) /\ Steady(t, n) /\ ~ Backlog(n)
      BY <1>2, <2>2, Sizes, EnqueueFacts
    <3> HIDE DEF n
    <3>a. {q} \in SUBSET Queues
      <4>1. t.info \in [Infos -> Structs]
        BY DEF Sound, States
      <4> QED
        BY <1>2, <4>1, Sizes DEF Structs
    <3>2. Sound(told) /\ Steady(n, told) /\ Calm(n, told)
      BY <2>2, <3>1, <3>a, PurgeFacts
    <3> HIDE DEF told
    <3>3. Steady(t, told)
      BY <3>1, <3>2, SteadyTransitive
    <3> QED
      BY <3>1, <3>2, <3>3 DEF Calm, Steady
  <2> QED
    BY <2>1, <2>2
<1> HIDE DEF told
<1>5. /\ told.list = t.list /\ told.members = t.members /\ told.auth = t.auth
      /\ \A x \in Infos : told.info[x].addr = t.info[x].addr
      /\ told.info[s].addr = e.addr
  BY <1>2, <1>4 DEF Steady, SameStructs
<1>6. /\ Sound(m) /\ Calm(told, m) /\ m.info = told.info
      /\ m.list = t.list /\ m.auth = t.auth
      /\ Range(m.members) = {x \in Range(t.members) : x.addr # e.addr}
  BY <1>4, <1>5, RemoveMemberFacts
<1> HIDE DEF m
<1>7. ASSUME NEW x \in Range(m.members) \cup Range(m.auth) PROVE x.info # s
  <2>1. x.addr # e.addr
    BY <1>6 DEF HasAddr
  <2>2. EntryHeld(x, m.list, m.info)
    BY <1>6 DEF Sound, Entered, EntryKept, Held
  <2> QED
    BY <1>5, <1>6, <2>1, <2>2 DEF EntryHeld
<1>8. /\ Sound(u) /\ Calm(m, u) /\ u.list = m.list
      /\ u.members = m.members /\ u.auth = m.auth
      /\ \A x \in Infos : u.info[x].addr = m.info[x].addr
  BY <1>2, <1>6, <1>7, KeepDown
<1> HIDE DEF u
<1>9. Calm(t, u)
  BY <1>4, <1>6, <1>8, CalmTransitive
<1> QED
  BY <1>3, <1>5, <1>6, <1>8, <1>9

\* One after the other.
RoundsUpTo(out, t, l, m) ==
    out = [n \in 0 .. m |-> IF n = 0 THEN t ELSE Deauthenticate(out[n - 1], l[n].info)]

LEMMA RoundsExist ==
    ASSUME NEW t, NEW l, NEW m \in Nat
    PROVE  \E out : RoundsUpTo(out, t, l, m)
<1> DEFINE P == {k \in Nat : \E out : RoundsUpTo(out, t, l, k)}
<1>1. 0 \in P
  <2>1. RoundsUpTo([n \in 0 .. 0 |-> t], t, l, 0)
    BY DEF RoundsUpTo
  <2> QED
    BY <2>1
<1>2. ASSUME NEW k \in Nat, k \in P PROVE k + 1 \in P
  <2>1. PICK out : RoundsUpTo(out, t, l, k)
    BY <1>2
  <2> DEFINE more == [n \in 0 .. k + 1 |->
                        IF n = k + 1 THEN Deauthenticate(out[k], l[n].info) ELSE out[n]]
  <2>2. ASSUME NEW n \in 0 .. k + 1
        PROVE  more[n] = IF n = 0 THEN t ELSE Deauthenticate(more[n - 1], l[n].info)
    <3>1. CASE n = k + 1
      <4>1. n # 0 /\ n - 1 = k /\ n - 1 \in 0 .. k + 1 /\ n - 1 # k + 1
        BY <3>1
      <4>2. more[n] = Deauthenticate(out[k], l[n].info) /\ more[n - 1] = out[k]
        BY <3>1, <4>1
      <4> QED
        BY <4>1, <4>2
    <3>2. CASE n # k + 1
      <4>1. n \in 0 .. k /\ more[n] = out[n]
        BY <3>2
      <4>2. n # 0 => n - 1 \in 0 .. k + 1 /\ n - 1 # k + 1
        BY <4>1
      <4>3. n # 0 => more[n - 1] = out[n - 1]
        BY <4>2
      <4>4. out[n] = IF n = 0 THEN t ELSE Deauthenticate(out[n - 1], l[n].info)
        BY <2>1, <4>1 DEF RoundsUpTo
      <4> HIDE DEF more
      <4> QED
        BY <4>1, <4>3, <4>4
    <3> QED
      BY <3>1, <3>2
  <2>3. more = [n \in 0 .. k + 1 |-> more[n]]
    OBVIOUS
  <2> HIDE DEF more
  <2>4. RoundsUpTo(more, t, l, k + 1)
    BY <2>2, <2>3 DEF RoundsUpTo
  <2> QED
    BY <2>4
<1> HIDE DEF P
<1>3. Nat \subseteq P
  BY <1>1, <1>2, NatInduct
<1> QED
  BY <1>3 DEF P

\* After k of them every entry of l behind place k is still there.
Left(t, u, l, k) ==
    /\ Sound(u) /\ Calm(t, u) /\ u.list = t.list /\ u.auth = t.auth
    /\ \A x \in Infos : u.info[x].addr = t.info[x].addr
    /\ \A i \in DOMAIN l : i > k => l[i] \in Range(u.members)
    /\ Range(u.members) =
          {e \in Range(t.members) : \A i \in DOMAIN l : i <= k => e.addr # l[i].addr}

LEMMA DeauthenticateEachFacts ==
    ASSUME NEW t, Sound(t), NEW l \in Seq(EntryType), Range(l) \subseteq Range(t.members),
           IsInjective(l), \A e \in Range(l) : ~ HasAddr(t.auth, e.addr)
    PROVE  LET u == DeauthenticateEach(t, l)
           IN /\ Sound(u) /\ Calm(t, u) /\ u.list = t.list /\ u.auth = t.auth
              /\ \A x \in Infos : u.info[x].addr = t.info[x].addr
              /\ Range(u.members) =
                    {e \in Range(t.members) : \A f \in Range(l) : e.addr # f.addr}
<1> DEFINE m == Len(l)
           out == CHOOSE f : RoundsUpTo(f, t, l, m)
<1>1. m \in Nat /\ DOMAIN l = 1 .. m
  OBVIOUS
<1>2. RoundsUpTo(out, t, l, m)
  BY <1>1, RoundsExist
<1>3. DeauthenticateEach(t, l) = out[m]
  BY DEF DeauthenticateEach, RoundsUpTo
<1> HIDE DEF out
<1>4. out[0] = t
  BY <1>1, <1>2 DEF RoundsUpTo
<1>5. ASSUME NEW k \in Nat, k + 1 <= m
      PROVE  out[k + 1] = Deauthenticate(out[k], l[k + 1].info)
  <2>1. k + 1 \in 0 .. m /\ k + 1 # 0 /\ (k + 1) - 1 = k
    BY <1>1, <1>5
  <2>2. out = [n \in 0 .. m |-> IF n = 0 THEN t ELSE Deauthenticate(out[n - 1], l[n].info)]
    BY <1>2 DEF RoundsUpTo
  <2> HIDE DEF m
  <2> QED
    BY <2>1, <2>2
<1> DEFINE P == {k \in Nat : k <= m => Left(t, out[k], l, k)}
<1>6. 0 \in P
  <2>1. \A i \in DOMAIN l : i > 0 /\ ~ (i <= 0) /\ l[i] \in Range(t.members)
    <3>1. \A i \in DOMAIN l : l[i] \in Range(l)
      BY DEF Range
    <3> QED
      BY <1>1, <3>1
  <2>2. Range(t.members) =
          {e \in Range(t.members) : \A i \in DOMAIN l : i <= 0 => e.addr # l[i].addr}
    BY <2>1
  <2>3. Left(t, t, l, 0)
    BY <2>1, <2>2 DEF Left, Calm
  <2> QED
    BY <1>4, <2>3
<1>7. ASSUME NEW v, NEW k \in Nat, k + 1 <= m, Left(t, v, l, k)
      PROVE  Left(t, Deauthenticate(v, l[k + 1].info), l, k + 1)
  <2> DEFINE e == l[k + 1]
             w == Deauthenticate(v, e.info)
  <2>1. k + 1 \in DOMAIN l /\ k + 1 > k
    BY <1>1, <1>7
  <2>2. e \in Range(v.members) /\ Sound(v) /\ ~ HasAddr(v.auth, e.addr)
    BY <1>7, <2>1 DEF Left, Range
  <2>3. /\ Sound(w) /\ Calm(v, w) /\ w.list = v.list /\ w.auth = v.auth
        /\ Range(w.members) = {x \in Range(v.members) : x.addr # e.addr}
        /\ \A x \in Infos : w.info[x].addr = v.info[x].addr
    BY <2>2, DeauthenticateFacts
  <2>4. \A x, y \in Range(v.members) : x.addr = y.addr => x = y
    BY <2>2, DistinctEntries DEF Sound, States
  <2>5. ASSUME NEW i \in DOMAIN l, i > k + 1 PROVE l[i] \in Range(w.members)
    <3>1. l[i] \in Range(v.members)
      BY <1>1, <1>7, <2>5 DEF Left
    <3>2. l[i] # e
      BY <1>1, <2>1, <2>5 DEF IsInjective
    <3> QED
      BY <2>2, <2>3, <2>4, <3>1, <3>2
  <2>6. ASSUME NEW x \in Range(t.members)
        PROVE  x \in Range(w.members) <=> \A i \in DOMAIN l : i <= k + 1 => x.addr # l[i].addr
    <3>1. x \in Range(v.members) <=> \A i \in DOMAIN l : i <= k => x.addr # l[i].addr
      BY <1>7 DEF Left
    <3>2. \A i \in DOMAIN l : i <= k + 1 <=> i <= k \/ i = k + 1
      BY <1>1
    <3> QED
      BY <2>1, <2>3, <3>1, <3>2
  <2>7. Range(w.members) \subseteq Range(t.members)
    BY <1>7, <2>3 DEF Left
  <2> HIDE DEF w, e
  <2>8. Calm(t, w)
    BY <1>7, <2>3, CalmTransitive DEF Left
  <2>9. Range(w.members) =
            {x \in Range(t.members) : \A i \in DOMAIN l : i <= k + 1 => x.addr # l[i].addr}
    BY <2>6, <2>7
  <2>10. Left(t, w, l, k + 1)
    BY <1>7, <2>3, <2>5, <2>8, <2>9 DEF Left
  <2> QED
    BY <2>10 DEF w, e
<1>8. ASSUME NEW k \in Nat, k \in P PROVE k + 1 \in P
  <2>1. CASE k + 1 <= m
    <3>1. k <= m
      BY <1>1, <2>1
    <3>2. Left(t, out[k], l, k)
      BY <1>8, <3>1
    <3> QED
      BY <1>5, <1>7, <2>1, <3>2
  <2>2. CASE ~ (k + 1 <= m)
    BY <2>2
  <2> QED
    BY <2>1, <2>2
<1> HIDE DEF P
<1>9. m \in P
  BY <1>1, <1>6, <1>8, NatInduct
<1>10. Left(t, out[m], l, m)
  BY <1>1, <1>9 DEF P
<1>11. ASSUME NEW e
       PROVE  (\A i \in DOMAIN l : i <= m => e.addr # l[i].addr)
                 <=> \A f \in Range(l) : e.addr # f.addr
  BY <1>1 DEF Range
<1> QED
  BY <1>3, <1>10, <1>11 DEF Left

-----------------------------------------------------------------------------
(* Stations that were silent for too long.                                 *)

\* Authenticated stations lose their entries.
LEMMA DroppedFacts ==
    ASSUME NEW t, Sound(t), NEW S
    PROVE  LET u == Dropped(t, S)
           IN /\ Sound(u) /\ Calm(t, u) /\ u.list = t.list /\ u.info = t.info
              /\ u.members = t.members
              /\ \A e \in Range(u.auth) : e.info \notin S
<1> DEFINE A == {t.info[e.info].addr : e \in Quiet(t.auth, S)}
           m == NotOf(t.auth, A)
           u == Dropped(t, S)
<1>1. t.auth \in Seq(EntryType) /\ Held(t.auth, t.list, t.info)
  BY DEF Sound, States
<1>2. u = [t EXCEPT !.auth = m]
  BY DEF Dropped
<1>3. /\ m \in Seq(EntryType) /\ Range(m) = {e \in Range(t.auth) : e.addr \notin A}
      /\ Distinct(m)
  BY <1>1, NotOfFacts DEF Held
<1>4. \A e \in Range(m) : e.info \notin S
  BY <1>1, <1>3 DEF Quiet, Held, EntryHeld
<1> HIDE DEF A, m, u
<1>5. Held(m, t.list, t.info)
  BY <1>1, <1>3 DEF Held
<1>6. /\ Sound(u) /\ SameQueues(t, u) /\ u.info = t.info /\ u.list = t.list
      /\ u.members = t.members /\ u.auth = m
  BY <1>2, <1>3, <1>5, AuthSet
<1>7. Calm(t, u)
  BY <1>6, CalmStructs
<1> QED
  BY <1>4, <1>6, <1>7 DEF u

\* Structs without an entry lose the KEEP flag.
LEMMA UnkeptFacts ==
    ASSUME NEW t, Sound(t), NEW T,
           \A e \in Range(t.members) \cup Range(t.auth) : e.info \notin T
    PROVE  LET u == Unkept(t, T) IN Sound(u) /\ Calm(t, u)
<1> DEFINE j == [s \in Infos |-> [t.info[s] EXCEPT !.keep = @ /\ s \notin T]]
           u == Unkept(t, T)
<1>1. /\ t \in States /\ t.info \in [Infos -> Structs]
      /\ t.members \in Seq(EntryType) /\ t.auth \in Seq(EntryType)
  BY DEF Sound, States
<1>2. u = [t EXCEPT !.info = j]
  BY DEF Unkept
<1> HIDE DEF u
<1>3. ASSUME NEW x \in Infos
      PROVE  /\ j[x] \in Structs
             /\ j[x].addr = t.info[x].addr /\ j[x].queued = t.info[x].queued
             /\ j[x].doze = t.info[x].doze /\ j[x].id = t.info[x].id
             /\ j[x].keep <=> t.info[x].keep /\ x \notin T
  <2> DEFINE k == t.info[x].keep /\ x \notin T
  <2>1. t.info[x] \in Structs /\ k \in BOOLEAN
    BY <1>1
  <2>2. j[x] = [t.info[x] EXCEPT !.keep = k]
    OBVIOUS
  <2> HIDE DEF k, j
  <2>3. /\ j[x] \in Structs
        /\ j[x].addr = t.info[x].addr /\ j[x].queued = t.info[x].queued
        /\ j[x].doze = t.info[x].doze /\ j[x].id = t.info[x].id
        /\ j[x].keep = k
    BY <2>1, <2>2 DEF Structs
  <2> QED
    BY <2>3, Zenon DEF k
<1>4. j \in [Infos -> Structs]
  BY <1>3
<1> HIDE DEF j
<1>5. ASSUME NEW e \in Range(t.members) \cup Range(t.auth)
      PROVE  /\ j[e.info].keep /\ j[e.info].id = t.info[e.info].id
             /\ j[e.info].doze = t.info[e.info].doze
  <2>1. e.info \in Infos
    <3>1. e \in EntryType
      BY <1>1, RangeSubset
    <3> QED
      BY <3>1 DEF EntryType
  <2>2. t.info[e.info].keep
    BY DEF Sound, Entered, EntryKept, Held, EntryHeld
  <2> QED
    BY <1>3, <2>1, <2>2
<1>6. Sound(u) /\ SameQueues(t, u) /\ u.info = j /\ u.members = t.members
  BY <1>2, <1>3, <1>4, <1>5, InfoSet
<1>7. Calm(t, u)
  BY <1>5, <1>6, CalmStructs
<1> QED
  BY <1>6, <1>7 DEF u

\* A struct that nothing needs leaves the list.
LEMMA ForgetFacts ==
    ASSUME NEW t, Sound(t), NEW k \in Nat, k <= Len(t.list), Oldest(t, k) # {}
    PROVE  LET s == t.list[Min(Oldest(t, k))]
               u == [t EXCEPT !.list = Without(@, s), !.info[s] = Cleared(NoAddr)]
           IN Sound(u) /\ Calm(t, u)
<1> DEFINE s == t.list[Min(Oldest(t, k))]
           l == Without(t.list, s)
           i == [t.info EXCEPT ![s] = Cleared(NoAddr)]
           u == [t EXCEPT !.list = Without(@, s), !.info[s] = Cleared(NoAddr)]
<1>1. /\ t \in States /\ t.list \in Seq(Infos) /\ t.info \in [Infos -> Structs]
      /\ t.queue \in [Queues -> Seq(Infos)] /\ t.members \in Seq(EntryType)
      /\ t.auth \in Seq(EntryType) /\ IsInjective(t.list)
  BY DEF Sound, States, Listed
<1>2. s \in Range(t.list) /\ Removable(t, s) /\ s \in Infos
  <2>1. Min(Oldest(t, k)) \in 1 .. k /\ Removable(t, s)
    BY OldestFacts
  <2> HIDE DEF s
  <2>2. Min(Oldest(t, k)) \in DOMAIN t.list
    BY <1>1, <2>1
  <2>3. s \in Range(t.list)
    BY <2>2 DEF Range, s
  <2> QED
    BY <1>1, <2>1, <2>3, RangeSubset
<1> HIDE DEF s
<1>3. /\ l \in Seq(Infos) /\ Range(l) = Range(t.list) \ {s} /\ IsInjective(l)
  BY <1>1, WithoutFacts
<1>4. /\ i \in [Infos -> Structs] /\ i[s] = Cleared(NoAddr)
      /\ \A x \in Infos : x # s => i[x] = t.info[x]
  <2>1. Cleared(NoAddr) \in Structs
    BY Sizes DEF Cleared, Structs
  <2> QED
    BY <1>1, <1>2, <2>1
<1>5. u = [t EXCEPT !.list = l, !.info = i]
  BY <1>1 DEF States
<1> HIDE DEF l, i, u
<1>6. /\ u.list = l /\ u.info = i /\ u.members = t.members /\ u.auth = t.auth
      /\ u.next = t.next /\ SameQueues(t, u)
  BY <1>1, <1>5 DEF States, SameQueues
<1>7. u \in States
  BY <1>1, <1>3, <1>4, <1>5 DEF States
<1>8. Range(t.list) \subseteq Infos
  BY <1>1, RangeSubset
<1>9. Listed(l, i)
  <2>1. \A x \in Range(l) : x \in Range(t.list) /\ i[x] = t.info[x]
    BY <1>3, <1>4, <1>8
  <2> QED
    BY <1>3, <2>1 DEF Sound, Listed
<1>10. Counted(t.queue, l, i)
  <2>1. ASSUME NEW x \in Infos
        PROVE  /\ i[x].queued = Cardinality(Spots(t.queue, {x}))
               /\ i[x].queued > 0 => x \in Range(l)
    <3>1. /\ t.info[x].queued = Cardinality(Spots(t.queue, {x}))
          /\ t.info[x].queued > 0 => x \in Range(t.list)
      BY DEF Sound, Counted
    <3>2. CASE x # s
      BY <1>3, <1>4, <3>1, <3>2
    <3>3. CASE x = s
      <4>1. i[x].queued = 0 /\ t.info[x].queued = 0
        BY <1>2, <1>4, <3>3 DEF Cleared, Removable
      <4> QED
        BY <3>1, <4>1
    <3> QED
      BY <3>2, <3>3
  <2> QED
    BY <2>1 DEF Sound, Counted
<1>11. ASSUME NEW e, EntryHeld(e, t.list, t.info)
       PROVE  e.info \in Range(l) /\ i[e.info] = t.info[e.info]
  <2>1. e.info \in Range(t.list) /\ t.info[e.info].keep
    BY <1>11 DEF EntryHeld
  <2>2. e.info # s
    BY <1>2, <2>1 DEF Removable
  <2> QED
    BY <1>3, <1>4, <1>8, <2>1, <2>2
<1>12. /\ Entered(t.members, l, i) /\ Held(t.auth, l, i)
       /\ \A e \in Range(t.members) : i[e.info] = t.info[e.info]
  <2>1. \A e \in Range(t.members) \cup Range(t.auth) : EntryHeld(e, t.list, t.info)
    BY DEF Sound, Entered, EntryKept, Held
  <2>2. Entered(t.members, l, i) /\ Held(t.auth, l, i)
    BY <1>11, <2>1, EntriesStay, HeldStay DEF Sound
  <2> QED
    BY <1>11, <2>1, <2>2
<1>13. Sound(u)
  BY <1>6, <1>7, <1>9, <1>10, <1>12 DEF Sound, SameQueues
<1>14. Calm(t, u)
  BY <1>6, <1>12, CalmStructs
<1> QED
  BY <1>13, <1>14 DEF s, u

-----------------------------------------------------------------------------
(* Receptions.                                                             *)

LEMMA ReceivedFacts ==
    ASSUME NEW t, Sound(t), NEW a \in Stations, CanCreate(t, a), NEW doze \in BOOLEAN
    PROVE  LET s == SlotOf(t, a)
               u == Received(t, a, doze)
           IN /\ Sound(u) /\ Calm(t, u) /\ u.members = t.members
              /\ s \in Range(u.list) /\ s \in Infos /\ u.info[s].addr = a
<1> DEFINE s == SlotOf(t, a)
           c == Create(t, a)
           j == [c.info EXCEPT ![s].doze = doze]
           k == [c EXCEPT !.info[s].doze = doze]
           u == Received(t, a, doze)
<1>1. /\ Sound(c) /\ Calm(t, c) /\ c.members = t.members
      /\ s \in Range(c.list) /\ s \in Infos /\ c.info[s].addr = a
  BY CreateFacts
<1>2. /\ ~ IsMember(c.members, s) => u = c
      /\ IsMember(c.members, s) /\ doze => u = k
      /\ IsMember(c.members, s) /\ ~ doze => u = Poll(k)
  BY DEF Received
<1> HIDE DEF c, s, u
<1>3. /\ c \in States /\ c.info \in [Infos -> Structs]
      /\ \A e \in Range(c.members) : EntryKept(e, c.list, c.info)
      /\ \A e \in Range(c.auth) : EntryHeld(e, c.list, c.info)
      /\ Range(c.list) \subseteq Infos
  <2>1. c.list \in Seq(Infos)
    BY <1>1 DEF Sound, States
  <2> QED
    BY <1>1, <2>1, RangeSubset DEF Sound, States, Entered, Held
<1>4. k = [c EXCEPT !.info = j]
  BY <1>3 DEF States
<1>5. DozeSet(c.info, j, s, doze)
  BY <1>1, <1>3, DozeFields
<1> HIDE DEF j, k
<1>6. \A e \in Range(c.members) \cup Range(c.auth) :
         j[e.info].keep /\ j[e.info].id = c.info[e.info].id
  BY <1>3, <1>5 DEF DozeSet, EntryKept, EntryHeld
<1>7. /\ Sound(k) /\ SameQueues(c, k) /\ k.info = j /\ k.list = c.list
      /\ k.members = c.members
  BY <1>1, <1>4, <1>5, <1>6, InfoSet DEF DozeSet
<1>8. s \in Range(k.list) /\ k.info[s].addr = a
  BY <1>1, <1>5, <1>7 DEF DozeSet
<1>9. CASE ~ IsMember(c.members, s)
  BY <1>1, <1>2, <1>9 DEF c, s, u
<1>10. CASE IsMember(c.members, s) /\ doze
  <2>1. ASSUME NEW e \in Range(c.members), ~ Skipped(k, e) PROVE ~ Skipped(c, e)
    <3>1. e.info \in Infos
      BY <1>3 DEF EntryKept, EntryHeld
    <3>2. ~ j[e.info].doze
      BY <1>7, <2>1 DEF Skipped
    <3>3. e.info # s
      BY <1>5, <1>10, <3>2 DEF DozeSet
    <3>4. ~ c.info[e.info].doze
      BY <1>5, <3>1, <3>2, <3>3 DEF DozeSet
    <3> QED
      BY <1>7, <2>1, <3>4 DEF Skipped, SameQueues
  <2>2. Calm(c, k)
    BY <1>7, <2>1 DEF Calm, Backlog, SameQueues
  <2>3. Calm(t, k)
    BY <1>1, <2>2, CalmTransitive
  <2> QED
    BY <1>1, <1>2, <1>7, <1>8, <1>10, <2>3 DEF s, u
<1>11. CASE IsMember(c.members, s) /\ ~ doze
  <2>1. u = Poll(k)
    BY <1>2, <1>11
  <2>2. Sound(u) /\ Steady(k, u) /\ ~ Backlog(u)
    BY <1>7, <2>1, PollFacts
  <2>3. /\ u.members = t.members /\ u.list = k.list
        /\ u.info[s].addr = k.info[s].addr
    BY <1>1, <1>7, <2>2 DEF Steady, SameStructs
  <2>4. Calm(t, u)
    BY <2>2, <2>3 DEF Calm
  <2> QED
    BY <1>1, <1>8, <2>2, <2>3, <2>4 DEF s, u
<1> QED
  BY <1>9, <1>10, <1>11

LEMMA ForwardedFacts ==
    ASSUME NEW t, Sound(t), NEW b, b = Mcast \/ HasAddr(t.members, b)
    PROVE  LET u == Forwarded(t, b) IN Sound(u) /\ Calm(t, u)
<1>1. CASE b # Mcast
  <2> DEFINE e == EntryOf(t.members, b)
  <2>1. e \in Range(t.members)
    BY <1>1 DEF HasAddr, EntryOf
  <2>2. e.info \in Range(t.list) /\ STATION_ID_TO_QUEUE_ID(e.id) \in Queues
    <3>1. t.members \in Seq(EntryType) /\ EntryKept(e, t.list, t.info)
      BY <2>1 DEF Sound, States, Entered
    <3>2. e \in EntryType
      BY <2>1, <3>1, RangeSubset
    <3>3. e.id \in 0 .. MaxId
      BY <3>2, Sizes DEF EntryType
    <3> QED
      BY <3>1, <3>3, Sizes DEF EntryKept, EntryHeld
  <2>3. Forwarded(t, b) = EnqueueNew(t, STATION_ID_TO_QUEUE_ID(e.id), e.info)
    BY <1>1 DEF Forwarded
  <2> HIDE DEF e
  <2> QED
    BY <2>2, <2>3, EnqueueNewFacts
<1>2. CASE b = Mcast /\ HasEntry(t) /\ CanCreate(t, b)
  <2> DEFINE c == Create(t, b)
             s == SlotOf(t, b)
             u == Enqueue(c, MCAST_QID, s)
  <2>1. /\ Sound(c) /\ Calm(t, c) /\ SameQueues(t, c) /\ s \in Range(c.list)
        /\ c.members = t.members
    BY <1>2, CreateFacts
  <2>2. Forwarded(t, b) = u
    BY <1>2 DEF Forwarded
  <2> HIDE DEF c, s
  <2>3. HasEntry(c)
    BY <1>2, <2>1 DEF HasEntry, Entries, SameQueues
  <2>4. Sound(u) /\ Steady(c, u) /\ ~ Backlog(u)
    BY <2>1, <2>3, Sizes, EnqueueFacts
  <2> HIDE DEF u
  <2> QED
    BY <2>1, <2>2, <2>4 DEF Calm, Steady
<1>3. CASE b = Mcast /\ ~ (HasEntry(t) /\ CanCreate(t, b))
  <2>1. Forwarded(t, b) = t
    BY <1>3 DEF Forwarded
  <2> QED
    BY <2>1 DEF Calm
<1> QED
  BY <1>1, <1>2, <1>3

LEMMA FlightSet ==
    ASSUME NEW t, Sound(t), t.flight # <<>>
    PROVE  LET u == [t EXCEPT !.flight = Tail(@)]
           IN Sound(u) /\ u.members = t.members
<1> DEFINE u == [t EXCEPT !.flight = Tail(@)]
           f == Tail(t.flight)
<1>1. /\ t \in States /\ t.flight \in Seq(Stations \cup {Mcast}) /\ Len(t.flight) <= Buffers
      /\ Buffers \in Nat
  BY ApStationsAssumption DEF Sound, States
<1>2. f \in Seq(Stations \cup {Mcast}) /\ Len(f) <= Buffers
  BY <1>1
<1>3. u = [t EXCEPT !.flight = f]
  BY <1>1 DEF States
<1> HIDE DEF f, u
<1>4. u \in States
  BY <1>1, <1>2, <1>3 DEF States
<1>5. /\ u.list = t.list /\ u.info = t.info /\ u.members = t.members /\ u.auth = t.auth
      /\ u.queue = t.queue /\ u.next = t.next /\ u.flight = f
  BY <1>1, <1>3 DEF States
<1>6. Sound(u)
  BY <1>2, <1>4, <1>5 DEF Sound
<1> QED
  BY <1>5, <1>6 DEF u

-----------------------------------------------------------------------------
(* Every step becomes a sound state that is eased from the one before.     *)

SoundStep == \E t : Sound(t) /\ Eased(Now, t) /\ Assign(t)

LEMMA NowFields ==
    /\ Now.list = list /\ Now.info = info /\ Now.members = members /\ Now.auth = auth
    /\ Now.queue = queue /\ Now.group = group /\ Now.next = next /\ Now.flight = flight
    /\ Now.last = Nothing
  BY DEF Now

LEMMA HeardFacts ==
    ASSUME Sound(Now), NEW a \in Stations, CanCreate(Now, a)
    PROVE  LET s == SlotOf(Now, a)
               h == Heard(a)
           IN /\ Sound(h) /\ Calm(Now, h) /\ h.members = members
              /\ s \in Range(h.list) /\ s \in Infos /\ h.info[s].addr = a
<1> DEFINE doze == \E s \in Known(Now, a) : info[s].doze
<1>1. doze \in BOOLEAN
  OBVIOUS
<1>2. Heard(a) = Received(Now, a, doze)
  BY DEF Heard
<1> HIDE DEF doze
<1> QED
  BY <1>1, <1>2, ReceivedFacts, NowFields

LEMMA MemberEntry ==
    ASSUME Sound(Now), NEW a, HasAddr(members, a)
    PROVE  LET e == EntryOf(members, a)
           IN /\ e \in Range(Now.members) /\ e.info \in Range(Now.list)
              /\ STATION_ID_TO_QUEUE_ID(e.id) \in Queues
<1> DEFINE e == EntryOf(members, a)
<1>1. e \in Range(Now.members)
  BY NowFields DEF HasAddr, EntryOf
<1>2. Now.members \in Seq(EntryType) /\ EntryKept(e, Now.list, Now.info)
  BY <1>1 DEF Sound, States, Entered
<1>3. e \in EntryType
  BY <1>1, <1>2, RangeSubset
<1>4. e.id \in 0 .. MaxId
  BY <1>3, Sizes DEF EntryType
<1> QED
  BY <1>1, <1>2, <1>4, Sizes DEF EntryKept, EntryHeld

LEMMA ReceptionStep ==
    ASSUME Sound(Now), Reception
    PROVE  SoundStep
<1>1. ASSUME NEW a \in Stations, NEW doze \in BOOLEAN, RxNull(a, doze)
      PROVE  SoundStep
  BY <1>1, ReceivedFacts DEF RxNull, SoundStep, Eased, Become
<1>2. ASSUME NEW a \in Stations, RxAnswered(a) PROVE SoundStep
  <2> DEFINE h == Heard(a)
             s == SlotOf(Now, a)
             u == EnqueueNew(h, MANAGEMENT_QID, s)
  <2>1. Sound(h) /\ Calm(Now, h) /\ s \in Range(h.list) /\ Assign(u)
    BY <1>2, HeardFacts DEF RxAnswered, Become
  <2> HIDE DEF h, s
  <2>2. Sound(u) /\ Calm(h, u)
    BY <2>1, Sizes, EnqueueNewFacts
  <2> HIDE DEF u
  <2> QED
    BY <2>1, <2>2, CalmTransitive DEF SoundStep, Eased
<1>3. ASSUME NEW a \in Stations, RxAuth(a) PROVE SoundStep
  <2> DEFINE h == Heard(a)
             s == SlotOf(Now, a)
             v == Authenticated(h, a, s)
             u == EnqueueNew(v, MANAGEMENT_QID, s)
  <2>1. /\ Sound(h) /\ Calm(Now, h) /\ s \in Range(h.list) /\ h.info[s].addr = a
        /\ Assign(u)
    BY <1>3, HeardFacts DEF RxAuth, Become
  <2> HIDE DEF h, s
  <2>2. Sound(v) /\ Calm(h, v) /\ s \in Range(v.list)
    BY <2>1, AuthenticatedFacts
  <2> HIDE DEF v
  <2>3. Sound(u) /\ Calm(v, u)
    BY <2>2, Sizes, EnqueueNewFacts
  <2> HIDE DEF u
  <2>4. Calm(Now, u)
    BY <2>1, <2>2, <2>3, CalmTransitive
  <2> QED
    BY <2>1, <2>3, <2>4 DEF SoundStep, Eased
<1>4. ASSUME NEW a \in Stations, RxAssoc(a) PROVE SoundStep
  <2> DEFINE h == Heard(a)
             s == SlotOf(Now, a)
             u == Associated(h, a, s)
  <2>1. /\ Sound(h) /\ Calm(Now, h) /\ s \in Range(h.list) /\ h.info[s].addr = a
        /\ h.members = members /\ Assign(u)
    BY <1>4, HeardFacts DEF RxAssoc, Become
  <2> HIDE DEF h, s
  <2>2. Sound(u) /\ Eased(h, u)
    BY <2>1, AssociatedFacts
  <2> HIDE DEF u
  <2>3. Eased(Now, u)
    BY <2>1, <2>2, NowFields DEF Eased, NewMember, Calm
  <2> QED
    BY <2>1, <2>2, <2>3 DEF SoundStep
<1>5. ASSUME NEW a \in Stations, RxDisassoc(a) PROVE SoundStep
  <2> DEFINE h == Heard(a)
             s == SlotOf(Now, a)
             u == Disassoc(h, a)
  <2>1. /\ Sound(h) /\ Calm(Now, h) /\ s \in Range(h.list) /\ h.info[s].addr = a
        /\ Assign(u)
    BY <1>5, HeardFacts DEF RxDisassoc, Become
  <2> HIDE DEF h, s
  <2>2. Sound(u) /\ Calm(h, u)
    BY <2>1, DisassocFacts
  <2> HIDE DEF u
  <2> QED
    BY <2>1, <2>2, CalmTransitive DEF SoundStep, Eased
<1>6. ASSUME NEW a \in Stations, NEW b \in Stations \cup {Mcast}, RxData(a, b)
      PROVE  SoundStep
  <2> DEFINE h == Heard(a)
             u == Forwarded(h, b)
  <2>1. Sound(h) /\ Calm(Now, h) /\ h.members = members /\ Assign(u)
    BY <1>6, HeardFacts DEF RxData, Become
  <2>2. b = Mcast \/ HasAddr(h.members, b)
    BY <1>6, <2>1 DEF RxData, HasAddr
  <2> HIDE DEF h
  <2>3. Sound(u) /\ Calm(h, u)
    BY <2>1, <2>2, ForwardedFacts
  <2> HIDE DEF u
  <2> QED
    BY <2>1, <2>3, CalmTransitive DEF SoundStep, Eased
<1> QED
  BY <1>1, <1>2, <1>3, <1>4, <1>5, <1>6 DEF Reception

LEMMA HighUnicastStep ==
    ASSUME Sound(Now), NEW a \in Stations, HighUnicast(a)
    PROVE  SoundStep
<1> DEFINE e == EntryOf(members, a)
           q == STATION_ID_TO_QUEUE_ID(e.id)
           u == Enqueue(Now, q, e.info)
<1>1. HasEntry(Now) /\ Assign(u) /\ HasAddr(members, a)
  BY DEF HighUnicast, Become
<1>2. e.info \in Range(Now.list) /\ q \in Queues
  BY <1>1, MemberEntry
<1> HIDE DEF q, e
<1>3. Sound(u) /\ Steady(Now, u) /\ ~ Backlog(u)
  BY <1>1, <1>2, EnqueueFacts
<1> HIDE DEF u
<1> QED
  BY <1>1, <1>3 DEF SoundStep, Eased, Calm, Steady

LEMMA HighMulticastStep ==
    ASSUME Sound(Now), HighMulticast
    PROVE  SoundStep
<1> DEFINE c == Create(Now, Mcast)
           s == SlotOf(Now, Mcast)
           u == Enqueue(c, MCAST_QID, s)
<1>1. HasEntry(Now) /\ Assign(u) /\ CanCreate(Now, Mcast)
  BY DEF HighMulticast, Become
<1>2. /\ Sound(c) /\ SameQueues(Now, c) /\ s \in Range(c.list)
      /\ c.members = Now.members
  BY <1>1, CreateFacts
<1> HIDE DEF c, s
<1>3. HasEntry(c)
  BY <1>1, <1>2 DEF HasEntry, Entries, SameQueues
<1>4. Sound(u) /\ Steady(c, u) /\ ~ Backlog(u)
  BY <1>2, <1>3, Sizes, EnqueueFacts
<1> HIDE DEF u
<1> QED
  BY <1>1, <1>2, <1>4 DEF SoundStep, Eased, Calm, Steady

LEMMA TxDoneStep ==
    ASSUME Sound(Now), TxDone
    PROVE  SoundStep
<1> DEFINE t == [Now EXCEPT !.flight = Tail(@)]
           p == Poll(t)
           a == Head(flight)
           u == Create(p, a)
<1>1. flight # <<>> /\ CanCreate(p, a) /\ Assign(u)
  BY DEF TxDone, Become
<1>2. Sound(t) /\ t.members = Now.members
  BY <1>1, NowFields, FlightSet
<1>3. a \in Stations \cup {Mcast}
  <2>1. flight \in Seq(Stations \cup {Mcast})
    BY NowFields DEF Sound, States
  <2> QED
    BY <1>1, <2>1
<1> HIDE DEF t, a
<1>4. Sound(p) /\ Steady(t, p) /\ ~ Backlog(p)
  BY <1>2, PollFacts
<1> HIDE DEF p
<1>5. Sound(u) /\ Calm(p, u) /\ u.members = p.members
  BY <1>1, <1>3, <1>4, CreateFacts
<1> HIDE DEF u
<1>6. Calm(Now, u)
  BY <1>2, <1>4, <1>5 DEF Calm, Steady
<1> QED
  BY <1>1, <1>5, <1>6 DEF SoundStep, Eased

LEMMA RemoveInactiveStep ==
    ASSUME Sound(Now), NEW S, RemoveInactive(S)
    PROVE  SoundStep
<1> DEFINE Q == Quiet(members, S)
           T == {e.info : e \in Quiet(auth, S)}
           l == Selected(members, Q)
           d == Dropped(Now, S)
           t == DeauthenticateEach(d, l)
           u == Unkept(t, T)
<1>1. Assign(u)
  BY DEF RemoveInactive, Become
<1>2. /\ members \in Seq(EntryType) /\ IsInjective(members)
      /\ Range(l) = Range(members) \cap Q /\ T \subseteq S
  <2>1. Now.members \in Seq(EntryType) /\ IsInjective(Now.members)
    BY DistinctEntries DEF Sound, States
  <2>2. members \in Seq(EntryType) /\ IsInjective(members)
    BY <2>1, NowFields
  <2>3. T \subseteq S
    BY DEF Quiet
  <2> HIDE DEF Q, T
  <2> QED
    BY <2>2, <2>3, SelectedFacts
<1>3. /\ Sound(d) /\ Calm(Now, d) /\ d.list = list /\ d.info = info /\ d.members = members
      /\ \A e \in Range(d.auth) : e.info \notin S
  BY DroppedFacts, NowFields
<1> HIDE DEF d
<1>4. l \in Seq(EntryType) /\ Range(l) \subseteq Range(d.members) /\ IsInjective(l)
  <2> HIDE DEF Q
  <2> QED
    BY <1>2, <1>3, SelectedFacts
<1>5. /\ \A e \in Range(d.members) : EntryHeld(e, d.list, d.info)
      /\ \A e \in Range(d.auth) : EntryHeld(e, d.list, d.info)
  BY <1>3 DEF Sound, Entered, EntryKept, Held
<1>6. ASSUME NEW e \in Range(l) PROVE ~ HasAddr(d.auth, e.addr)
  <2>1. e \in Range(d.members) /\ e.info \in S
    BY <1>2, <1>3 DEF Quiet
  <2>2. ASSUME NEW f \in Range(d.auth), f.addr = e.addr PROVE FALSE
    BY <1>3, <1>5, <2>1, <2>2 DEF EntryHeld, Sound, Listed
  <2> QED
    BY <2>2 DEF HasAddr
<1>7. \A e \in Range(d.members) : e.info \in S => e \in Range(l)
  BY <1>2, <1>3 DEF Quiet
<1> HIDE DEF l, T
<1>8. /\ Sound(t) /\ Calm(d, t) /\ t.auth = d.auth
      /\ Range(t.members) = {e \in Range(d.members) : \A f \in Range(l) : e.addr # f.addr}
  BY <1>3, <1>4, <1>6, DeauthenticateEachFacts
<1> HIDE DEF t
<1>9. \A e \in Range(t.members) \cup Range(t.auth) : e.info \notin T
  BY <1>2, <1>3, <1>7, <1>8
<1>10. Sound(u) /\ Calm(t, u)
  BY <1>8, <1>9, UnkeptFacts
<1> HIDE DEF u
<1>11. Calm(Now, u)
  BY <1>3, <1>8, <1>10, CalmTransitive
<1> QED
  BY <1>1, <1>10, <1>11 DEF SoundStep, Eased

\* No station in both lists is deauthenticated, or the lists are severed.
LEMMA DeauthenticateAllStep ==
    ASSUME Sound(Now), DeauthenticateAll, ~ severed'
    PROVE  SoundStep
<1> DEFINE u == DeauthenticateEach(Now, members)
<1>1. Assign(u)
  BY DEF DeauthenticateAll
<1>2. /\ members \in Seq(EntryType) /\ IsInjective(members)
      /\ Range(members) \subseteq Range(Now.members)
  <2>1. Now.members \in Seq(EntryType) /\ IsInjective(Now.members)
    BY DistinctEntries DEF Sound, States
  <2> QED
    BY <2>1, NowFields
<1>3. \A e \in Range(members) : ~ HasAddr(auth, e.addr)
  BY DEF DeauthenticateAll, InBoth
<1>4. Sound(u) /\ Calm(Now, u)
  BY <1>2, <1>3, DeauthenticateEachFacts, NowFields
<1> HIDE DEF u
<1> QED
  BY <1>1, <1>4 DEF SoundStep, Eased

LEMMA DeauthenticateStationStep ==
    ASSUME Sound(Now), NEW a \in Stations, DeauthenticateStation(a), ~ severed'
    PROVE  SoundStep
<1> DEFINE e == EntryOf(members, a)
           u == Deauthenticate(Now, e.info)
<1>1. Assign(u) /\ HasAddr(members, a) /\ ~ HasAddr(auth, e.addr)
  BY DEF DeauthenticateStation, InBoth
<1>2. e \in Range(Now.members)
  BY <1>1, MemberEntry
<1> HIDE DEF e
<1>3. Sound(u) /\ Calm(Now, u)
  BY <1>1, <1>2, DeauthenticateFacts, NowFields
<1> HIDE DEF u
<1> QED
  BY <1>1, <1>3 DEF SoundStep, Eased

LEMMA TimestampCheckStep ==
    ASSUME Sound(Now), NEW k \in Nat, TimestampCheck(k)
    PROVE  SoundStep
<1> DEFINE s == list[Min(Oldest(Now, k))]
           u == [Now EXCEPT !.list = Without(@, s), !.info[s] = Cleared(NoAddr)]
<1>1. k <= Len(list) /\ Oldest(Now, k) # {} /\ Assign(u)
  BY DEF TimestampCheck, Become
<1>2. k <= Len(Now.list) /\ s = Now.list[Min(Oldest(Now, k))]
  BY <1>1, NowFields
<1> HIDE DEF s
<1>3. Sound(u) /\ Calm(Now, u)
  BY <1>1, <1>2, ForgetFacts
<1> HIDE DEF u
<1> QED
  BY <1>1, <1>3 DEF SoundStep, Eased

LEMMA AddAssociationStep ==
    ASSUME Sound(Now), NEW a \in Stations, AddAssociation(a)
    PROVE  SoundStep
<1> DEFINE r == AddMember(Now, a)
           u == Keep(r, r.members, a)
<1>1. /\ HasAddr(members, a) \/ Len(members) < MaxAssoc
      /\ HasAddr(members, a) \/ CanCreate(Now, a)
      /\ Assign(u)
  BY DEF AddAssociation, Become
<1>2. CASE HasAddr(members, a)
  <2>1. r = Now
    BY <1>2, NowFields DEF AddMember
  <2>2. Sound(u) /\ Calm(Now, u)
    BY <1>2, <2>1, KeepEntry, NowFields
  <2> HIDE DEF u
  <2> QED
    BY <1>1, <2>2 DEF SoundStep, Eased
<1>3. CASE ~ HasAddr(members, a)
  <2>1. Sound(u) /\ NewMember(Now, u)
    BY <1>1, <1>3, MemberAdded, NowFields
  <2> HIDE DEF u
  <2> QED
    BY <1>1, <2>1 DEF SoundStep, Eased
<1> QED
  BY <1>2, <1>3

LEMMA PurgeAllStep ==
    ASSUME Sound(Now), PurgeAll
    PROVE  SoundStep
<1> DEFINE Q == {MCAST_QID} \cup {STATION_ID_TO_QUEUE_ID(e.id) : e \in Range(members)}
<1>1. Range(members) \subseteq EntryType
  <2>1. members \in Seq(EntryType)
    BY NowFields DEF Sound, States
  <2> QED
    BY <2>1, RangeSubset
<1>2. Q \in SUBSET Queues
  <2>1. ASSUME NEW e \in Range(members) PROVE STATION_ID_TO_QUEUE_ID(e.id) \in Queues
    <3>1. e.id \in 0 .. MaxId
      BY <1>1, Sizes DEF EntryType
    <3> QED
      BY <3>1, Sizes
  <2> QED
    BY <2>1, Sizes
<1>3. Assign(Purge(Now, Q))
  BY DEF PurgeAll, Become
<1> HIDE DEF Q
<1> QED
  BY <1>2, <1>3, PurgeFacts DEF SoundStep, Eased

LEMMA NextStep ==
    ASSUME Sound(Now), ~ severed', Next
    PROVE  SoundStep
<1>1. \A k \in 1 .. Cardinality(Infos) : k \in Nat
  BY FS_CardinalityType, ApStationsAssumption
<1> QED
  BY <1>1, ReceptionStep, HighUnicastStep, HighMulticastStep, TxDoneStep,
     RemoveInactiveStep, DeauthenticateStationStep, DeauthenticateAllStep, TimestampCheckStep,
     AddAssociationStep, PurgeAllStep DEF Next

-----------------------------------------------------------------------------
(* The invariant holds at first, and a step keeps it.                      *)

LEMMA InitSound ==
    ASSUME Init
    PROVE  ApInv
<1>1. /\ Now.list = <<>> /\ Now.info = [s \in Infos |-> Cleared(NoAddr)]
      /\ Now.members = <<>> /\ Now.auth = <<>>
      /\ Now.queue = [q \in Queues |-> <<>>] /\ Now.group = "MGMT" /\ Now.next = Null
      /\ Now.flight = <<>>
  BY NowFields DEF Init
<1>2. Nothing \in Lasts
  BY DEF Nothing, Lasts
<1>3. Now \in States
  <2>1. Cleared(NoAddr) \in Structs
    BY Sizes DEF Cleared, Structs
  <2>2. Null \in NextType
    BY PointerTypes
  <2>3. /\ list \in Seq(Infos) /\ info \in [Infos -> Structs] /\ members \in Seq(EntryType)
        /\ auth \in Seq(EntryType) /\ queue \in [Queues -> Seq(Infos)]
        /\ group \in {"MGMT", "DATA"} /\ next \in NextType
        /\ flight \in Seq(Stations \cup {Mcast})
    BY <2>1, <2>2 DEF Init
  <2> QED
    BY <1>2, <2>3 DEF Now, States
<1>4. \A T : Spots(Now.queue, T) = {}
  BY <1>1 DEF Spots
<1>5. Cardinality({}) = 0
  BY FS_EmptySet
<1>6. Counted(Now.queue, Now.list, Now.info)
  <2>1. \A s \in Infos : Now.info[s].queued = 0
    BY <1>1 DEF Cleared
  <2>2. \A T : Cardinality(Spots(Now.queue, T)) = 0
    BY <1>4, <1>5
  <2>3. \A s \in Infos : Now.info[s].queued = Cardinality(Spots(Now.queue, {s}))
    BY <2>1, <2>2
  <2>4. \A s \in Infos : Now.info[s].queued > 0 => s \in Range(Now.list)
    BY <2>1
  <2>5. Cardinality(Spots(Now.queue, Infos)) <= Pool
    BY <2>2, ApStationsAssumption
  <2> QED
    BY <2>3, <2>4, <2>5 DEF Counted
<1>7. Range(Now.list) = {} /\ Range(Now.members) = {} /\ Range(Now.auth) = {}
  BY <1>1 DEF Range
<1>8. Listed(Now.list, Now.info)
  BY <1>1, <1>7 DEF Listed, IsInjective
<1>9. Entered(Now.members, Now.list, Now.info) /\ Held(Now.auth, Now.list, Now.info)
  BY <1>1, <1>7 DEF Entered, Rising, Held, Distinct
<1>10. Pointed(Now.next, Now.members)
  BY <1>1, <1>7, PointerTypes DEF Pointed
<1>11. Len(Now.members) <= MaxAssoc /\ Len(Now.flight) <= Buffers
  BY <1>1, ApStationsAssumption
<1>12. last \in Lasts
  BY <1>2 DEF Init
<1> QED
  BY <1>3, <1>6, <1>8, <1>9, <1>10, <1>11, <1>12 DEF Sound, ApInv

\* The state of a step is the one it becomes, but for the pointer of the round
\* robin and for what only a poll needs.
LEMMA StateKept ==
    ASSUME NEW t, Sound(t), NEW n \in NextType, Pointed(n, t.members)
    PROVE  Sound([list |-> t.list, info |-> t.info, members |-> t.members, auth |-> t.auth,
                  queue |-> t.queue, group |-> t.group, next |-> n, flight |-> t.flight,
                  last |-> Nothing, avail |-> 0, found |-> FALSE])
<1> DEFINE u == [list |-> t.list, info |-> t.info, members |-> t.members, auth |-> t.auth,
                 queue |-> t.queue, group |-> t.group, next |-> n, flight |-> t.flight,
                 last |-> Nothing, avail |-> 0, found |-> FALSE]
<1>1. /\ u.list = t.list /\ u.info = t.info /\ u.members = t.members /\ u.auth = t.auth
      /\ u.queue = t.queue /\ u.next = n /\ u.flight = t.flight
  OBVIOUS
<1>2. /\ t.list \in Seq(Infos) /\ t.info \in [Infos -> Structs] /\ t.members \in Seq(EntryType)
      /\ t.auth \in Seq(EntryType) /\ t.queue \in [Queues -> Seq(Infos)]
      /\ t.group \in {"MGMT", "DATA"} /\ t.flight \in Seq(Stations \cup {Mcast})
  BY DEF Sound, States
<1>3. Nothing \in Lasts
  BY DEF Nothing, Lasts
<1>4. u \in States
  BY <1>2, <1>3 DEF States
<1> HIDE DEF u
<1>5. Sound(u)
  BY <1>1, <1>4 DEF Sound
<1> QED
  BY <1>5 DEF u

LEMMA BecomeFacts ==
    ASSUME NEW t, Sound(t), Assign(t)
    PROVE  ApInv' /\ (IdleBacklog' <=> Backlog(t)) /\ members' = t.members
<1>1. /\ list' = t.list /\ info' = t.info /\ members' = t.members /\ auth' = t.auth
      /\ queue' = t.queue /\ group' = t.group /\ next' \in Reused(t)
      /\ flight' = t.flight /\ last' = t.last
  BY DEF Assign
<1>2. /\ t.next \in NextType /\ t.last \in Lasts /\ t.members \in Seq(EntryType)
      /\ Pointed(t.next, t.members)
  BY DEF Sound, States
<1>3. next' \in NextType /\ Pointed(next', t.members)
  <2>1. CASE next' = t.next
    BY <1>2, <2>1
  <2>2. CASE next' = Garbage
    BY <2>2, PointerTypes DEF Pointed
  <2>3. ASSUME NEW e \in Range(t.members), next' = Pointer("entry", e)
        PROVE  next' \in NextType /\ Pointed(next', t.members)
    <3>1. e \in EntryType
      BY <1>2, RangeSubset
    <3> QED
      BY <2>3, <3>1, PointerTypes DEF Pointed
  <2> QED
    BY <1>1, <2>1, <2>2, <2>3 DEF Reused
<1>4. Sound(Now')
  <2>1. Now' = [list |-> t.list, info |-> t.info, members |-> t.members, auth |-> t.auth,
                queue |-> t.queue, group |-> t.group, next |-> next', flight |-> t.flight,
                last |-> Nothing, avail |-> 0, found |-> FALSE]
    BY <1>1 DEF Now
  <2> QED
    BY <1>3, <2>1, StateKept
<1>5. ApInv'
  BY <1>1, <1>2, <1>4 DEF ApInv
<1>6. IdleBacklog' <=> Backlog(t)
  BY <1>1 DEF IdleBacklog, Backlog, Skipped
<1> QED
  BY <1>1, <1>5, <1>6

LEMMA ApInvStep ==
    ASSUME ApInv, ~ severed', [Next]_vars
    PROVE  ApInv'
<1>1. CASE Next
  BY <1>1, NextStep, BecomeFacts DEF ApInv, SoundStep
<1>2. CASE UNCHANGED vars
  <2>1. Now' = Now /\ last' = last
    BY <1>2 DEF vars, Now
  <2> QED
    BY <2>1 DEF ApInv
<1> QED
  BY <1>1, <1>2

\* Lists once severed stay so.
LEMMA SeveredStays ==
    ASSUME [Next]_vars, ~ severed'
    PROVE  ~ severed
  BY DEF Next, Reception, RxNull, RxAnswered, RxAuth, RxAssoc, RxDisassoc, RxData, HighUnicast,
     HighMulticast, TxDone, RemoveInactive, TimestampCheck, DeauthenticateStation,
     DeauthenticateAll, AddAssociation, PurgeAll, Become, vars

-----------------------------------------------------------------------------
(* What follows from the invariant.                                        *)

LEMMA EntriesAreSpots ==
    ASSUME ApInv
    PROVE  /\ Entries(Now) = Spots(queue, Infos)
           /\ \A s \in Infos : {p \in Entries(Now) : queue[p[1]][p[2]] = s} = Spots(queue, {s})
<1>1. queue \in [Queues -> Seq(Infos)]
  BY NowFields DEF ApInv, Sound, States
<1>2. Entries(Now) = UNION {{n} \X DOMAIN queue[n] : n \in Queues}
  BY NowFields DEF Entries
<1>3. ASSUME NEW p \in Entries(Now) PROVE queue[p[1]][p[2]] \in Infos
  <2>1. PICK n \in Queues : p \in {n} \X DOMAIN queue[n]
    BY <1>2
  <2>2. queue[n] \in Seq(Infos) /\ p[1] = n /\ p[2] \in DOMAIN queue[n]
    BY <1>1, <2>1
  <2> QED
    BY <2>2
<1> QED
  BY <1>2, <1>3 DEF Spots

\* No list is longer than there are structs.
LEMMA ListShort ==
    ASSUME NEW l \in Seq(Infos), IsInjective(l)
    PROVE  Len(l) <= Cardinality(Infos)
<1> DEFINE m == Len(l)
<1>1. m \in Nat /\ l \in [1 .. m -> Infos]
  OBVIOUS
<1>2. l \in Injection(1 .. m, Infos)
  BY <1>1 DEF Injection, IsInjective
<1> HIDE DEF m
<1>3. IsFiniteSet(1 .. m) /\ Cardinality(1 .. m) = m
  BY <1>1, FS_Interval
<1>4. Cardinality(1 .. m) <= Cardinality(Infos)
  BY <1>2, <1>3, ApStationsAssumption, FS_Injection
<1> QED
  BY <1>3, <1>4 DEF m

LEMMA StructTyped ==
    ASSUME ApInv
    PROVE  info \in [Infos -> InfoType]
<1>1. /\ queue \in [Queues -> Seq(Infos)] /\ info \in [Infos -> Structs]
      /\ \A s \in Infos : info[s].queued = Cardinality(Spots(queue, {s}))
      /\ Cardinality(Spots(queue, Infos)) <= Pool
  BY NowFields DEF ApInv, Sound, States, Counted
<1>2. ASSUME NEW s \in Infos PROVE info[s] \in InfoType
  <2>1. IsFiniteSet(Spots(queue, Infos)) /\ Cardinality(Spots(queue, Infos)) \in Nat
    BY <1>1, SpotsFinite
  <2>2. Cardinality(Spots(queue, {s})) \in Nat
    BY <1>1, SpotsFinite
  <2>3. Spots(queue, {s}) \subseteq Spots(queue, Infos)
    BY DEF Spots
  <2>4. Cardinality(Spots(queue, {s})) <= Cardinality(Spots(queue, Infos))
    BY <2>1, <2>3, FS_Subset
  <2>5. info[s].queued \in 0 .. Pool
    BY <1>1, <2>1, <2>2, <2>4, ApStationsAssumption
  <2>6. info[s] \in Structs
    BY <1>1
  <2> QED
    BY <2>5, <2>6 DEF Structs, InfoType
<1> QED
  BY <1>1, <1>2

LEMMA Typed ==
    ASSUME ApInv
    PROVE  TypeOK
<1>1. /\ list \in Seq(Infos) /\ members \in Seq(EntryType) /\ Len(members) <= MaxAssoc
      /\ auth \in Seq(EntryType) /\ queue \in [Queues -> Seq(Infos)]
      /\ group \in {"MGMT", "DATA"} /\ next \in NextType
      /\ flight \in Seq(Stations \cup {Mcast}) /\ Len(flight) <= Buffers
      /\ IsInjective(list) /\ Cardinality(Spots(queue, Infos)) <= Pool
  BY NowFields DEF ApInv, Sound, States, Listed, Counted
<1>2. Len(list) <= Cardinality(Infos)
  BY <1>1, ListShort
<1>3. Cardinality(Entries(Now)) <= Pool
  BY <1>1, EntriesAreSpots
<1>4. last \in [more : BOOLEAN, waiting : BOOLEAN]
  BY DEF ApInv, Lasts
<1> QED
  BY <1>1, <1>2, <1>3, <1>4, StructTyped DEF TypeOK

LEMMA Pinned ==
    ASSUME ApInv
    PROVE  PacketsPinned
<1>1. /\ \A s \in Infos : info[s].queued = Cardinality(Spots(queue, {s}))
      /\ \A s \in Infos : info[s].queued > 0 => s \in Range(list)
  BY NowFields DEF ApInv, Sound, Counted
<1>2. \A s \in Infos : Cardinality({p \in Entries(Now) : queue[p[1]][p[2]] = s}) = info[s].queued
  BY <1>1, EntriesAreSpots
<1> QED
  BY <1>1, <1>2, Typed DEF PacketsPinned

LEMMA Kept ==
    ASSUME ApInv
    PROVE  MembersKept
  BY NowFields DEF ApInv, Sound, Entered, Held, Rising, EntryKept, EntryHeld, EntriesKept,
     MembersKept

LEMMA WakeupStep ==
    ASSUME ApInv, ~ severed', Next
    PROVE  IdleBacklog' => IdleBacklog \/ ~(Range(members') \subseteq Range(members))
<1>1. PICK t : Sound(t) /\ Eased(Now, t) /\ Assign(t)
  BY NextStep DEF ApInv, SoundStep
<1>2. (IdleBacklog' <=> Backlog(t)) /\ members' = t.members
  BY <1>1, BecomeFacts
<1>3. IdleBacklog <=> Backlog(Now)
  BY NowFields DEF IdleBacklog, Backlog, Skipped
<1> QED
  BY <1>1, <1>2, <1>3, NowFields DEF Eased, Calm, NewMember

-----------------------------------------------------------------------------
(* The theorems.                                                           *)

\* The station list, the lists of entries, the queues and the pointer of the
\* round robin belong together as Sound says, and stay in their types, until a
\* station in both lists is deauthenticated: the invariant the properties of the
\* stations follow from.
THEOREM ApInvariance ==
    Spec => []Inv /\ [](~severed => TypeOK)
<1>1. Init => Inv
  BY InitSound DEF Inv
<1>2. Inv /\ [Next]_vars => Inv'
  BY ApInvStep, SeveredStays DEF Inv
<1>3. Inv => (~severed => TypeOK)
  BY Typed DEF Inv
<1> QED
  BY <1>1, <1>2, <1>3, PTL DEF Spec

\* num_tx_queued of a station_info is the number of its packets in all queues, so
\* that no struct leaves the station list under a queued packet (station_info_create,
\* station_info_timestamp_check); for any number of stations, structs and packets.
THEOREM PacketsPinnedAlways ==
    Spec => []PacketsPinned
<1>1. Inv => PacketsPinned
  BY Pinned DEF Inv, PacketsPinned
<1> QED
  BY <1>1, ApInvariance, PTL

\* A station that is associated, has authenticated or both keeps its station_info,
\* and the IDs of the associated ones rise along the list (station_info_add fills
\* the first hole), so that no two stations share a transmit queue; until a station
\* in both lists is deauthenticated.
THEOREM MembersKeptAlways ==
    Spec => []MembersKept
<1>1. Inv => MembersKept
  BY Kept DEF Inv, MembersKept
<1> QED
  BY <1>1, ApInvariance, PTL

\* No handler leaves every packet buffer idle and a packet waiting: two polls of
\* each group get past a round-robin pointer to a freed entry, whatever its
\* memory holds now (poll_tx_queues).
THEOREM NoLostWakeupAlways ==
    Spec => NoLostWakeup
<1> DEFINE A == ~severed' /\ IdleBacklog' =>
                    IdleBacklog \/ ~(Range(members') \subseteq Range(members))
<1>1. Inv /\ [Next]_vars => [A]_vars
  BY WakeupStep, SeveredStays DEF Inv
<1>2. Spec => []Inv
  BY ApInvariance, PTL
<1>3. Spec => [][Next]_vars
  BY DEF Spec
<1>4. Spec => [][A]_vars
  BY <1>1, <1>2, <1>3, PTL
<1> QED
  BY <1>4 DEF NoLostWakeup
=============================================================================

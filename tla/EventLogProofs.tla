--------------------------- MODULE EventLogProofs ---------------------------
(***************************************************************************)
(* Machine-checked proofs about the event log, for any size of the log and *)
(* any lengths of its entries, as long as interrupts do not fill the log   *)
(* while the main loop writes one entry.                                   *)
(***************************************************************************)
EXTENDS EventLog, QueueLemmas

\* The length no entry exceeds.
Longest ==
    CHOOSE k \in 0 .. Size :
        /\ \A s \in Sizes : s <= k
        /\ NodeInfoEntry + 4 * k < Size
        /\ NodeInfoEntry + (Burst + 3) * k < Size

\* The constants, and that the log has room for the entries of one burst.
LEMMA LongestFacts ==
    /\ Longest \in Nat /\ Burst \in Nat /\ Size \in Nat /\ MaxAddress = Size - 1
    /\ NodeInfoEntry \in Nat \ {0} /\ NodeInfoEntry < Size
    /\ \A s \in Sizes : s \in Nat \ {0} /\ s <= Longest
    /\ NodeInfoEntry + 4 * Longest < Size
    /\ \A b \in 0 .. Burst :
        /\ b * Longest \in Nat
        /\ NodeInfoEntry + b * Longest + 3 * Longest < Size
        /\ (b + 1) * Longest = b * Longest + Longest
<1>1. /\ Longest \in 0 .. Size /\ \A s \in Sizes : s <= Longest
      /\ NodeInfoEntry + 4 * Longest < Size
      /\ NodeInfoEntry + (Burst + 3) * Longest < Size
  BY EventLogAssumption DEF Longest
<1>2. /\ Burst \in Nat /\ Size \in Nat /\ NodeInfoEntry \in Nat \ {0} /\ Longest \in Nat
  BY <1>1, EventLogAssumption
<1>3. ASSUME NEW b \in 0 .. Burst
      PROVE  /\ b * Longest \in Nat /\ (b + 1) * Longest = b * Longest + Longest
             /\ b * Longest <= Burst * Longest
  <2>1. b \in Nat /\ b <= Burst
    BY <1>2
  <2>2. (Burst - b) * Longest >= 0 /\ (Burst - b) * Longest = Burst * Longest - b * Longest
    BY <1>2, <2>1
  <2>3. b * Longest \in Nat /\ Burst * Longest \in Nat
    BY <1>2, <2>1
  <2> QED
    BY <1>2, <2>1, <2>2, <2>3
<1>4. (Burst + 3) * Longest = Burst * Longest + 3 * Longest /\ Burst * Longest \in Nat
  BY <1>2
<1>5. NodeInfoEntry < Size
  BY <1>1, <1>2, <1>4
<1>6. \A b \in 0 .. Burst : NodeInfoEntry + b * Longest + 3 * Longest < Size
  <2> SUFFICES ASSUME NEW b \in 0 .. Burst
               PROVE  NodeInfoEntry + b * Longest + 3 * Longest < Size
    OBVIOUS
  <2> DEFINE B == Burst * Longest
             C == b * Longest
             N == (Burst + 3) * Longest
  <2>1. C \in Nat /\ C <= B /\ B \in Nat /\ N = B + 3 * Longest /\ NodeInfoEntry + N < Size
    BY <1>1, <1>3, <1>4
  <2> HIDE DEF B, C, N
  <2>2. NodeInfoEntry + C + 3 * Longest < Size
    BY <1>2, <2>1
  <2> QED
    BY <2>2 DEF C
<1>7. \A s \in Sizes : s \in Nat \ {0} /\ s <= Longest
  BY <1>1, EventLogAssumption
<1> QED
  BY <1>1, <1>2, <1>3, <1>5, <1>6, <1>7 DEF MaxAddress

\* Only the node_info entry, at address 0, may be longer than Longest.
LEMMA HeaderFacts ==
    ASSUME NEW h \in HeaderType
    PROVE  /\ h.at \in Nat /\ h.at <= Size /\ h.size \in Nat \ {0} /\ h.size <= Size
           /\ h.at # 0 => h.size <= Longest
<1>1. NodeInfoEntry + 0 * Longest + 3 * Longest < Size /\ 0 * Longest = 0 /\ Longest \in Nat
  BY LongestFacts
<1>2. \A s \in Sizes \cup {NodeInfoEntry} : s \in Nat \ {0} /\ s <= Size
  BY <1>1, LongestFacts
<1>3. /\ h.at \in 0 .. Size /\ h.size \in Sizes \cup {NodeInfoEntry}
      /\ h.at # 0 => h.size \in Sizes
  <2>1. 0 \in 0 .. Size
    BY LongestFacts
  <2>2. CASE h \in [at : Addresses, size : Sizes, info : {FALSE}]
    BY <2>2 DEF Addresses
  <2>3. CASE h \in [at : {0}, size : {NodeInfoEntry}, info : {TRUE}]
    BY <2>1, <2>3
  <2> QED
    BY <2>2, <2>3 DEF HeaderType
<1> QED
  BY <1>2, <1>3, LongestFacts

-----------------------------------------------------------------------------
(* The walk over the entries.                                              *)

\* Where the walk that looks for a boundary goes from address a.
After(m, end, f, a) ==
    LET At(b) == {h \in m : h.at = b}
    IN  IF a > end THEN a
        ELSE IF At(a) = {} THEN Garbage
        ELSE f[a + (CHOOSE h \in At(a) : TRUE).size]

\* The walk only goes forward.
LEMMA AfterDepends ==
    ASSUME NEW m \in SUBSET HeaderType, NEW end, NEW f, NEW g, NEW a \in 0 .. 2 * Size,
           \A b \in 0 .. 2 * Size : a < b => f[b] = g[b]
    PROVE  After(m, end, f, a) = After(m, end, g, a)
<1> DEFINE H == {h \in m : h.at = a}
           x == CHOOSE h \in H : TRUE
<1>1. CASE H = {}
  BY <1>1 DEF After
<1>2. CASE H # {}
  <2>1. x \in H
    BY <1>2
  <2>2. x \in HeaderType /\ x.at = a
    BY <2>1
  <2>3. a + x.size \in 0 .. 2 * Size /\ a < a + x.size
    BY <2>2, HeaderFacts, LongestFacts
  <2>4. f[a + x.size] = g[a + x.size]
    BY <2>3
  <2> QED
    BY <1>2, <2>4 DEF After
<1> QED
  BY <1>1, <1>2

\* The recursion of Boundary ends: every entry has a length.
LEMMA BoundaryDef ==
    ASSUME NEW m \in SUBSET HeaderType, NEW end
    PROVE  \A a \in 0 .. 2 * Size : Boundary(m, end)[a] = After(m, end, Boundary(m, end), a)
<1> DEFINE D == 0 .. 2 * Size
           Good(g, k) == \A a \in D : a > 2 * Size - k => g[a] = After(m, end, g, a)
           bad == {k \in Nat : k <= 2 * Size + 1 /\ ~ \E g : g = [a \in D |-> g[a]] /\ Good(g, k)}
<1>1. bad = {}
  <2> SUFFICES ASSUME bad # {} PROVE FALSE
    OBVIOUS
  <2>1. PICK k \in bad : \A j \in bad : k <= j
    BY SmallestOf
  <2>2. k \in Nat /\ k <= 2 * Size + 1 /\ ~ \E g : g = [a \in D |-> g[a]] /\ Good(g, k)
    OBVIOUS
  <2>3. k # 0
    <3> DEFINE g == [a \in D |-> 0]
    <3>1. g = [a \in D |-> g[a]] /\ Good(g, 0)
      BY LongestFacts
    <3> QED
      BY <2>2, <3>1
  <2>4. k - 1 \in Nat /\ k - 1 \notin bad /\ k - 1 <= 2 * Size + 1
    <3>1. k - 1 \in Nat /\ ~ (k <= k - 1) /\ k - 1 <= 2 * Size + 1
      BY <2>2, <2>3, LongestFacts
    <3> HIDE DEF bad
    <3> QED
      BY <2>1, <3>1
  <2>5. PICK g : g = [a \in D |-> g[a]] /\ Good(g, k - 1)
    BY <2>4
  <2> DEFINE n == 2 * Size - (k - 1)
             f == [a \in D |-> IF a = n THEN After(m, end, g, n) ELSE g[a]]
  <2>6. n \in D
    <3>1. Size \in Nat
      BY LongestFacts
    <3> QED
      BY <2>2, <2>3, <3>1
  <2>7. f = [a \in D |-> f[a]]
    OBVIOUS
  <2>8. ASSUME NEW a \in D, a > 2 * Size - k PROVE f[a] = After(m, end, f, a)
    <3>1. a >= n /\ a \in Nat /\ n \in Nat
      BY <2>2, <2>6, <2>8, LongestFacts, SMTT(20)
    <3>2. \A b \in D : a < b => f[b] = g[b]
      BY <3>1
    <3>3. After(m, end, f, a) = After(m, end, g, a)
      <4> HIDE DEF f
      <4> QED
        BY <3>2, AfterDepends
    <3>4. CASE a = n
      BY <3>3, <3>4
    <3>5. CASE a # n
      <4>1. a > 2 * Size - (k - 1)
        BY <3>1, <3>5
      <4>2. g[a] = After(m, end, g, a)
        BY <2>5, <4>1
      <4> QED
        BY <3>3, <3>5, <4>2
    <3> QED
      BY <3>4, <3>5
  <2>9. Good(f, k)
    <3> HIDE DEF f
    <3> QED
      BY <2>8
  <2> HIDE DEF f
  <2> QED
    BY <2>2, <2>7, <2>9
<1>2. 2 * Size + 1 \in Nat
  BY LongestFacts
<1>3. PICK g : g = [a \in D |-> g[a]] /\ Good(g, 2 * Size + 1)
  <2> DEFINE n == 2 * Size + 1
  <2>1. n \in Nat /\ n \notin bad /\ n <= 2 * Size + 1
    BY <1>1, <1>2
  <2> HIDE DEF n
  <2>2. \E g : g = [a \in D |-> g[a]] /\ Good(g, n)
    BY <2>1
  <2> QED
    BY <2>2 DEF n
<1>4. \A a \in D : g[a] = After(m, end, g, a)
  BY <1>3, LongestFacts
<1>5. g = [a \in D |-> After(m, end, g, a)]
  BY <1>3, <1>4
<1>6. Boundary(m, end) = CHOOSE f : f = [a \in D |-> After(m, end, f, a)]
  BY DEF Boundary, After
<1>7. Boundary(m, end) = [a \in D |-> After(m, end, Boundary(m, end), a)]
  <2> HIDE DEF D
  <2> QED
    BY <1>5, <1>6, Zenon
<1> QED
  BY <1>7

-----------------------------------------------------------------------------
(* Chains of entries.                                                      *)

\* An address at which an entry starts, or the end of the chain.
Starts(E, b, hi) == b = hi \/ \E h \in E : h.at = b

\* A chain is cut in two at the start of an entry.
LEMMA TiledCut ==
    ASSUME NEW E \in SUBSET HeaderType, NEW lo \in Nat, NEW hi \in Nat, NEW b \in lo .. hi,
           Tiled(E, lo, hi), Starts(E, b, hi)
    PROVE  Tiled(E, lo, b) /\ Tiled(E, b, hi)
<1>1. Tiled(E, b, hi)
  BY DEF Tiled, Starts
<1>2. lo = b \/ \E h \in E : h.at = lo
  BY DEF Tiled
<1>3. ASSUME NEW h \in E, h.at \in lo .. (b - 1)
      PROVE  Followed(E, h, b)
  <2>1. Followed(E, h, hi)
    <3>1. h.at \in lo .. (hi - 1)
      BY <1>3
    <3> QED
      BY <3>1 DEF Tiled
  <2>2. h.at + h.size <= b
    <3>1. CASE b = hi
      BY <2>1, <3>1 DEF Followed
    <3>2. CASE \E g \in E : g.at = b
      <4>1. PICK g \in E : g.at = b
        BY <3>2
      <4>2. ~ (g.at <= h.at)
        BY <1>3, <4>1, HeaderFacts
      <4> QED
        BY <2>1, <4>1, <4>2 DEF Followed
    <3> QED
      BY <3>1, <3>2 DEF Starts
  <2>3. h.at + h.size = hi => h.at + h.size = b
    <3>1. h.at \in Nat /\ h.size \in Nat
      BY HeaderFacts
    <3> QED
      BY <2>2, <3>1
  <2> QED
    BY <2>1, <2>2, <2>3 DEF Followed
<1> QED
  BY <1>1, <1>2, <1>3 DEF Tiled

\* Two sets of headers are the same from lo up to hi.
Agree(m, E, lo, hi) ==
    \A h \in HeaderType : h.at \in lo .. (hi - 1) => (h \in m <=> h \in E)

\* The walk along a chain ends at the start of an entry, or at its end.
LEMMA Walk ==
    ASSUME NEW E \in SUBSET HeaderType, NEW m \in SUBSET HeaderType,
           NEW lo \in Nat, NEW hi \in Nat, NEW end \in Int,
           lo <= hi, hi <= Size, end < hi, Tiled(E, lo, hi),
           Agree(m, E, lo, hi)
    PROVE  /\ Boundary(m, end)[lo] \in lo .. hi
           /\ Boundary(m, end)[lo] > end
           /\ Starts(E, Boundary(m, end)[lo], hi)
<1> DEFINE past == Boundary(m, end)
           Fine(a) == past[a] \in a .. hi /\ past[a] > end /\ Starts(E, past[a], hi)
           bad == {d \in Nat : d <= hi - lo /\ Starts(E, hi - d, hi) /\ ~ Fine(hi - d)}
<1> HIDE DEF past
<1>1. bad = {}
  <2> SUFFICES ASSUME bad # {} PROVE FALSE
    OBVIOUS
  <2>1. PICK d \in bad : \A e \in bad : d <= e
    BY SmallestOf
  <2> DEFINE a == hi - d
  <2>2. d \in Nat /\ d <= hi - lo /\ Starts(E, a, hi) /\ ~ Fine(a)
    OBVIOUS
  <2>3. a \in lo .. hi /\ a \in 0 .. 2 * Size
    BY <2>2, LongestFacts
  <2>4. past[a] = After(m, end, past, a)
    BY <2>3, BoundaryDef DEF past
  <2> HIDE DEF a
  <2>5. ~ (a > end)
    <3> SUFFICES ASSUME a > end PROVE FALSE
      OBVIOUS
    <3>1. past[a] = a
      BY <2>4 DEF After
    <3> QED
      BY <2>2, <2>3, <3>1
  <2>6. a < hi /\ a \in lo .. (hi - 1) /\ a \in Nat
    BY <2>3, <2>5
  <2> DEFINE H == {h \in m : h.at = a}
             x == CHOOSE h \in H : TRUE
  <2>7. H # {}
    <3>1. PICK h \in E : h.at = a
      BY <2>2, <2>6 DEF Starts
    <3>2. h \in H
      BY <2>6, <3>1 DEF Agree
    <3> QED
      BY <3>2
  <2>8. past[a] = past[a + x.size]
    BY <2>4, <2>5, <2>7 DEF After
  <2>9. x \in H
    BY <2>7
  <2>10. x \in E /\ x.at = a /\ x \in HeaderType
    BY <2>6, <2>9 DEF Agree
  <2> HIDE DEF x
  <2>11. x.size \in Nat \ {0} /\ a + x.size <= hi /\ Starts(E, a + x.size, hi)
    BY <2>6, <2>10, HeaderFacts DEF Tiled, Followed, Starts
  <2> DEFINE e == d - x.size
  <2>12. e \in Nat /\ e < d /\ hi - e = a + x.size /\ e <= hi - lo
    BY <2>2, <2>3, <2>11 DEF a
  <2>13. e \notin bad
    <3> HIDE DEF bad, e
    <3> QED
      BY <2>1, <2>2, <2>12
  <2> HIDE DEF e
  <2>14. Fine(a + x.size)
    <3>1. Starts(E, hi - e, hi)
      BY <2>11, <2>12
    <3>2. Fine(hi - e)
      BY <2>12, <2>13, <3>1
    <3> QED
      BY <2>12, <3>2
  <2>15. Fine(a)
    <3>1. past[a] \in (a + x.size) .. hi /\ past[a] > end /\ Starts(E, past[a], hi)
      BY <2>8, <2>14
    <3> QED
      BY <2>6, <2>11, <3>1
  <2> QED
    BY <2>2, <2>15
<1>2. hi - lo \in Nat /\ hi - (hi - lo) = lo
  OBVIOUS
<1>3. Starts(E, lo, hi)
  BY DEF Starts, Tiled
<1>4. Fine(lo)
  <2> DEFINE d == hi - lo
  <2>1. d \in Nat /\ d <= hi - lo /\ hi - d = lo
    BY <1>2
  <2>2. d \notin bad
    BY <1>1, Zenon
  <2> HIDE DEF d, Fine
  <2> QED
    BY <1>3, <2>1, <2>2
<1> QED
  BY <1>4 DEF past

\* What is written to the headers.
LEMMA WrittenFacts ==
    ASSUME NEW E \in SUBSET HeaderType, NEW a \in Addresses,
           NEW size \in Sizes \cup {NodeInfoEntry}, NEW info,
           [at |-> a, size |-> size, info |-> info] \in HeaderType
    PROVE  /\ Written(E, a, size, info) \in SUBSET HeaderType
           /\ [at |-> a, size |-> size, info |-> info] \in Written(E, a, size, info)
           /\ \A h \in Written(E, a, size, info) :
                \/ h = [at |-> a, size |-> size, info |-> info]
                \/ h \in E /\ (h.at < a \/ h.at >= a + size)
           /\ \A h \in E :
                h.at < a \/ h.at >= a + size => h \in Written(E, a, size, info)
<1> DEFINE new == [at |-> a, size |-> size, info |-> info]
<1>1. new \in HeaderType /\ a \in Nat /\ size \in Nat
  BY LongestFacts DEF Addresses
<1>2. \A h \in E : h.at \in Nat
  BY HeaderFacts
<1>3. Written(E, a, size, info) = {h \in E : h.at \notin a .. (a + size - 1)} \cup {new}
  BY DEF Written
<1>4. \A h \in E : h.at \notin a .. (a + size - 1) <=> (h.at < a \/ h.at >= a + size)
  BY <1>1, <1>2
<1> HIDE DEF new
<1>5. /\ Written(E, a, size, info) \in SUBSET HeaderType
      /\ new \in Written(E, a, size, info)
      /\ \A h \in Written(E, a, size, info) :
            h = new \/ (h \in E /\ (h.at < a \/ h.at >= a + size))
      /\ \A h \in E : h.at < a \/ h.at >= a + size => h \in Written(E, a, size, info)
  BY <1>1, <1>3, <1>4
<1> QED
  BY <1>5 DEF new

\* A chain grows by the entry written at its end.
LEMMA TiledAppend ==
    ASSUME NEW E \in SUBSET HeaderType, NEW lo \in Nat, NEW a \in Addresses, lo <= a,
           NEW size \in Sizes \cup {NodeInfoEntry}, NEW info, Tiled(E, lo, a),
           [at |-> a, size |-> size, info |-> info] \in HeaderType
    PROVE  Tiled(Written(E, a, size, info), lo, a + size)
<1> DEFINE new == [at |-> a, size |-> size, info |-> info]
           W == Written(E, a, size, info)
<1>1. /\ W \in SUBSET HeaderType /\ new \in W
      /\ \A h \in W : h = new \/ (h \in E /\ (h.at < a \/ h.at >= a + size))
      /\ \A h \in E : h.at < a \/ h.at >= a + size => h \in W
  BY WrittenFacts
<1>2. new.at = a /\ new.size = size /\ a \in Nat /\ size \in Nat \ {0}
  BY LongestFacts DEF Addresses
<1> HIDE DEF new, W
<1>3. \E h \in W : h.at = lo
  <2>1. CASE lo = a
    BY <1>1, <1>2, <2>1
  <2>2. CASE lo < a
    BY <1>1, <1>2, <2>2 DEF Tiled
  <2> QED
    BY <1>2, <2>1, <2>2
<1>4. ASSUME NEW h \in W, h.at \in lo .. ((a + size) - 1)
      PROVE  Followed(W, h, a + size)
  <2>1. CASE h = new
    <3>1. \A g \in W : g.at <= a \/ g.at >= a + size
      BY <1>1, <1>2, HeaderFacts
    <3> QED
      BY <1>2, <2>1, <3>1 DEF Followed
  <2>2. CASE h # new
    <3>1. h \in E /\ h.at \in lo .. (a - 1) /\ h \in HeaderType
      BY <1>1, <1>2, <1>4, <2>2, HeaderFacts
    <3>2. Followed(E, h, a)
      BY <3>1 DEF Tiled
    <3>3. h.at \in Nat /\ h.size \in Nat
      BY <3>1, HeaderFacts
    <3>4. \E g \in W : g.at = h.at + h.size
      BY <1>1, <1>2, <3>2, <3>3 DEF Followed
    <3>5. \A g \in W : g.at <= h.at \/ g.at >= h.at + h.size
      BY <1>1, <1>2, <3>2, <3>3 DEF Followed
    <3> QED
      BY <1>2, <3>2, <3>3, <3>4, <3>5 DEF Followed
  <2> QED
    BY <2>1, <2>2
<1>5. Tiled(W, lo, a + size)
  BY <1>3, <1>4 DEF Tiled
<1> QED
  BY <1>5 DEF W

\* A chain is not disturbed by what is written before or after it.
LEMMA TiledKept ==
    ASSUME NEW E \in SUBSET HeaderType, NEW lo \in Nat, NEW hi \in Nat, NEW a \in Addresses,
           NEW size \in Sizes \cup {NodeInfoEntry}, NEW info, Tiled(E, lo, hi),
           [at |-> a, size |-> size, info |-> info] \in HeaderType,
           lo <= hi, a + size <= lo \/ hi <= a
    PROVE  Tiled(Written(E, a, size, info), lo, hi)
<1> DEFINE new == [at |-> a, size |-> size, info |-> info]
           W == Written(E, a, size, info)
<1>1. /\ W \in SUBSET HeaderType /\ new \in W
      /\ \A h \in W : h = new \/ (h \in E /\ (h.at < a \/ h.at >= a + size))
      /\ \A h \in E : h.at < a \/ h.at >= a + size => h \in W
  BY WrittenFacts
<1>2. new.at = a /\ a \in Nat /\ size \in Nat \ {0}
  BY LongestFacts DEF Addresses
<1> HIDE DEF new, W
<1>3. CASE lo = hi
  BY <1>3 DEF Tiled
<1>4. CASE lo < hi
  <2>1. \E h \in W : h.at = lo
    BY <1>1, <1>2, <1>4 DEF Tiled
  <2>2. ASSUME NEW h \in W, h.at \in lo .. (hi - 1)
        PROVE  Followed(W, h, hi)
    <3>1. h \in E /\ h \in HeaderType
      BY <1>1, <1>2, <2>2
    <3>2. Followed(E, h, hi)
      BY <2>2, <3>1 DEF Tiled
    <3>3. h.at \in Nat /\ h.size \in Nat
      BY <3>1, HeaderFacts
    <3>4. h.at + h.size = hi \/ \E g \in W : g.at = h.at + h.size
      BY <1>1, <1>2, <2>2, <3>2, <3>3 DEF Followed
    <3>5. \A g \in W : g.at <= h.at \/ g.at >= h.at + h.size
      BY <1>1, <1>2, <2>2, <3>2, <3>3 DEF Followed
    <3> QED
      BY <3>2, <3>4, <3>5 DEF Followed
  <2> QED
    BY <2>1, <2>2 DEF Tiled, W
<1> QED
  BY <1>3, <1>4

\* Entries written in different places may be written in any order.
LEMMA WrittenCommute ==
    ASSUME NEW E \in SUBSET HeaderType, NEW a \in Addresses, NEW b \in Addresses,
           NEW s \in Sizes \cup {NodeInfoEntry}, NEW r \in Sizes \cup {NodeInfoEntry},
           NEW i \in BOOLEAN, NEW j \in BOOLEAN, a + s <= b \/ b + r <= a
    PROVE  Written(Written(E, a, s, i), b, r, j) = Written(Written(E, b, r, j), a, s, i)
<1> DEFINE x == [at |-> a, size |-> s, info |-> i]
           y == [at |-> b, size |-> r, info |-> j]
<1>1. x.at \notin b .. (b + r - 1) /\ y.at \notin a .. (a + s - 1)
  BY LongestFacts DEF Addresses
<1>2. \A m : Written(m, a, s, i) = {h \in m : h.at \notin a .. (a + s - 1)} \cup {x}
  BY DEF Written
<1>3. \A m : Written(m, b, r, j) = {h \in m : h.at \notin b .. (b + r - 1)} \cup {y}
  BY DEF Written
<1> HIDE DEF x, y
<1> QED
  BY <1>1, <1>2, <1>3

-----------------------------------------------------------------------------
(* The inductive invariant.                                                *)

\* The node_info entry is the only one of its place.
Begins(E) ==
    {h \in E : h.at < NodeInfoEntry}
        = {[at |-> 0, size |-> NodeInfoEntry, info |-> TRUE]}

\* The entries from the start of the log to the next one are a chain, the
\* discarded ones included, and so are those that were there before a wrap; the
\* log wraps only where the next entry did not fit.
Chained(l, E) ==
    \/ /\ l.full
       /\ l.softEnd \in NodeInfoEntry .. MaxAddress /\ Tiled(E, 0, l.softEnd)
    \/ /\ ~l.full /\ l.next \in NodeInfoEntry .. MaxAddress /\ Tiled(E, 0, l.next)
       /\ \/ /\ l.next > l.oldest /\ l.softEnd = MaxAddress
             /\ l.oldest = 0 \/ (l.oldest >= NodeInfoEntry /\ Tiled(E, l.oldest, l.next))
          \/ /\ l.next > NodeInfoEntry /\ l.next <= l.oldest
             /\ l.oldest <= l.softEnd /\ l.softEnd <= MaxAddress
             /\ l.softEnd > MaxAddress - Longest /\ Tiled(E, l.oldest, l.softEnd)

\* The b entries that interrupts have logged since the main loop has its own at
\* address at did not reach it from behind.
Guarded(l, at, size, b) ==
    \/ /\ at + size <= l.next /\ l.next <= at + size + b * Longest
       /\ l.next > l.oldest => l.oldest <= at
    \/ /\ l.next <= l.oldest /\ l.oldest <= at /\ at + size <= l.softEnd
       /\ l.next + MaxAddress < at + NodeInfoEntry + b * Longest + 2 * Longest

LogInv ==
    /\ TypeOK
    /\ ~log.empty
    /\ log.mutex <=> main.pc = "locked"
    /\ main.pc \in {"checked", "locked"} => ~log.full
    /\ main.pc = "locked" => main.end = log.next + main.size
    /\ main.pc = "allocated" =>
        /\ main.at >= NodeInfoEntry
        /\ log.full \/ Guarded(log, main.at, main.size, burst)
    /\ Begins(mem)
    /\ Chained(log, Entries)

\* What is left of the types when the log has been spoilt: where the oldest entry
\* is, and whether there is one, may be anything.
LogShape(l) ==
    l \in [oldest : {l.oldest}, next : Addresses, softEnd : Addresses, empty : BOOLEAN,
           full : BOOLEAN, wrap : BOOLEAN, enabled : BOOLEAN, mutex : BOOLEAN]
Shaped ==
    /\ LogShape(log) /\ mem \in SUBSET HeaderType
    /\ main \in MainType /\ burst \in 0 .. Burst /\ spoilt \in BOOLEAN

EventLogInv == Shaped /\ (~spoilt => LogInv)

-----------------------------------------------------------------------------
(* What an allocation does to the pointers.                                *)

Fields(v, l, oldest, softEnd, next) ==
    /\ v \in LogType
    /\ v.oldest = oldest /\ v.softEnd = softEnd /\ v.next = next
    /\ ~v.mutex /\ ~v.full /\ (~l.empty => ~v.empty)

AsState(l, m) == [log |-> l, mem |-> m, at |-> None]

\* The entry is written where the next one goes, and the log is not wrapped.
GrowsAtEnd(u, l, E, size, hi) ==
    \E o \in Addresses :
        /\ u.at = l.next /\ l.next + size <= MaxAddress
        /\ Fields(u.log, l, o, MaxAddress, l.next + size)
        /\ \/ l.oldest < l.next /\ o = l.oldest
           \/ /\ l.next <= l.oldest /\ l.next + size >= l.softEnd
              /\ o \in NodeInfoEntry .. hi /\ Tiled(E, o, l.next)
\* The same, and the log is wrapped.
GrowsBefore(u, l, E, size, top) ==
    \E o \in Addresses :
        /\ u.at = l.next /\ l.next <= l.oldest
        /\ Fields(u.log, l, o, l.softEnd, l.next + size)
        /\ o \in l.oldest .. top /\ l.next + size <= o /\ Tiled(E, o, l.softEnd)
\* The log wraps.
Wraps(u, l, E, size, hi) ==
    \E o \in Addresses :
        /\ u.at = NodeInfoEntry /\ l.next + size > MaxAddress
        /\ Fields(u.log, l, o, l.next, NodeInfoEntry + size)
        /\ o \in (NodeInfoEntry + size) .. hi /\ Tiled(E, o, l.next)
\* The log is full.
Stops(u, l) ==
    /\ u.at = None /\ u.log \in LogType /\ u.log.softEnd = l.next
    /\ u.log.oldest = 0 /\ u.log.next = 0
    /\ ~u.log.mutex /\ u.log.full /\ (~l.empty => ~u.log.empty)

WithOldest(l, o) == [l EXCEPT !.oldest = o]

\* The oldest entry moves to the first one after end, and the log is not reset.
LEMMA MoveOldestFacts ==
    ASSUME NEW E \in SUBSET HeaderType, NEW m \in SUBSET HeaderType,
           NEW l \in LogType, NEW hi \in Nat, NEW end \in Int,
           l.oldest <= hi, hi <= Size, end < hi, Tiled(E, l.oldest, hi),
           Agree(m, E, l.oldest, hi)
    PROVE  \E o \in l.oldest .. hi :
              /\ o > end /\ o \in Addresses /\ Starts(E, o, hi)
              /\ MoveOldest(AsState(l, m), end) = AsState(WithOldest(l, o), m)
<1> DEFINE o == Boundary(m, end)[l.oldest]
<1>1. l.oldest \in Nat /\ Size \in Nat
  BY LongestFacts DEF LogType, Addresses
<1>2. o \in l.oldest .. hi /\ o > end /\ Starts(E, o, hi)
  BY <1>1, Walk
<1>3. AsState(l, m).log = l /\ AsState(l, m).mem = m
  BY DEF AsState
<1> HIDE DEF o
<1>4. o \in Addresses /\ o # Garbage
  BY <1>1, <1>2 DEF Addresses, Garbage
<1>5. MoveOldest(AsState(l, m), end) = [AsState(l, m) EXCEPT !.log.oldest = o]
  BY <1>3, <1>4 DEF MoveOldest, o
<1>6. [AsState(l, m) EXCEPT !.log.oldest = o] = AsState(WithOldest(l, o), m)
  BY DEF AsState, WithOldest
<1> QED
  BY <1>2, <1>4, <1>5, <1>6

Restarted(l, o) == [l EXCEPT !.softEnd = MaxAddress, !.oldest = o]

\* Room is made from the start of the log, after the node_info entry.
LEMMA RoomAtStart ==
    ASSUME NEW E \in SUBSET HeaderType, NEW m \in SUBSET HeaderType, NEW l \in LogType,
           NEW size \in Sizes, NEW hi \in Nat, ~l.full, Chained(l, E), Begins(E),
           hi <= l.next, Starts(E, hi, l.next), NodeInfoEntry + size < hi,
           Agree(m, E, 0, hi),
           l.next + size > l.oldest, l.next + size >= l.softEnd
    PROVE  \E o \in (NodeInfoEntry + size) .. hi :
              /\ o \in Addresses /\ Tiled(E, o, l.next)
              /\ Room(AsState(l, m), l.next + size, size)
                    = AsState(Restarted(l, o), m)
<1> DEFINE k == [l EXCEPT !.softEnd = MaxAddress, !.oldest = NodeInfoEntry]
<1>1. /\ NodeInfoEntry \in Nat /\ NodeInfoEntry <= Size /\ Size \in Nat /\ size \in Nat
      /\ MaxAddress \in Addresses /\ NodeInfoEntry \in Addresses
  BY LongestFacts DEF Addresses
<1>2. /\ l.next \in NodeInfoEntry .. MaxAddress /\ Tiled(E, 0, l.next)
      /\ l.next \in Nat /\ l.next <= Size
  BY <1>1, LongestFacts DEF Chained
<1>3. Starts(E, NodeInfoEntry, l.next)
  <2> DEFINE h == [at |-> 0, size |-> NodeInfoEntry, info |-> TRUE]
  <2>1. h \in E
    BY DEF Begins
  <2>2. h.at = 0 /\ h.size = NodeInfoEntry
    OBVIOUS
  <2> HIDE DEF h
  <2>3. Followed(E, h, l.next)
    BY <1>1, <1>2, <2>1, <2>2, LongestFacts DEF Tiled
  <2> QED
    BY <1>1, <2>2, <2>3 DEF Followed, Starts
<1>4. Tiled(E, NodeInfoEntry, l.next)
  BY <1>1, <1>2, <1>3, TiledCut
<1>5. Tiled(E, NodeInfoEntry, hi)
  BY <1>1, <1>2, <1>4, TiledCut
<1>6. k \in LogType /\ k.oldest = NodeInfoEntry
  BY <1>1 DEF LogType
<1>7. \A o : WithOldest(k, o) = Restarted(l, o)
  BY DEF LogType, WithOldest, Restarted
<1>8. Room(AsState(l, m), l.next + size, size)
        = MoveOldest(AsState(k, m), NodeInfoEntry + size)
  <2> DEFINE t == AsState(l, m)
             r == [t EXCEPT !.log = [@ EXCEPT !.softEnd = MaxAddress,
                                              !.oldest = NodeInfoEntry]]
  <2>1. t.log = l
    BY DEF AsState
  <2>2. r = AsState(k, m)
    BY DEF AsState
  <2> HIDE DEF t
  <2>3. Room(t, l.next + size, size) = MoveOldest(r, NodeInfoEntry + size)
    BY <2>1 DEF Room, IncrementOldest
  <2> QED
    BY <2>2, <2>3 DEF t
<1> HIDE DEF k
<1>9. PICK o \in NodeInfoEntry .. hi :
          /\ o > NodeInfoEntry + size /\ o \in Addresses /\ Starts(E, o, hi)
          /\ MoveOldest(AsState(k, m), NodeInfoEntry + size)
                = AsState(WithOldest(k, o), m)
  <2>1. Agree(m, E, NodeInfoEntry, hi)
    BY <1>1 DEF Agree
  <2>2. k.oldest <= hi /\ hi <= Size /\ NodeInfoEntry + size \in Int /\ Tiled(E, k.oldest, hi)
    BY <1>1, <1>2, <1>5, <1>6
  <2>3. Agree(m, E, k.oldest, hi)
    BY <1>6, <2>1
  <2> DEFINE first == NodeInfoEntry + size
  <2>4. first \in Int /\ first < hi
    BY <2>2
  <2> HIDE DEF first
  <2>5. \E o \in k.oldest .. hi :
          /\ o > first /\ o \in Addresses /\ Starts(E, o, hi)
          /\ MoveOldest(AsState(k, m), first) = AsState(WithOldest(k, o), m)
    BY <1>6, <2>2, <2>3, <2>4, MoveOldestFacts, ZenonT(40)
  <2> QED
    BY <1>6, <2>5 DEF first
<1>10. Starts(E, o, l.next) /\ o \in NodeInfoEntry .. l.next
  BY <1>1, <1>2, <1>9 DEF Starts
<1>11. Tiled(E, o, l.next)
  BY <1>1, <1>2, <1>4, <1>10, TiledCut
<1>12. o \in (NodeInfoEntry + size) .. hi
  BY <1>1, <1>9
<1> QED
  BY <1>7, <1>8, <1>9, <1>11, <1>12

Unlocked(u) == [u EXCEPT !.log.mutex = FALSE]

StateType == [log : LogType, mem : SUBSET HeaderType, at : Addresses \cup {None}]

\* The three ways an allocation ends: the pointers it leaves.
LEMMA InPlaceFields ==
    ASSUME NEW k \in LogType, NEW m \in SUBSET HeaderType, NEW end \in Addresses,
           ~k.full
    PROVE  /\ Unlocked(InPlace(AsState(k, m), end)) \in StateType
           /\ Unlocked(InPlace(AsState(k, m), end)).mem = m
           /\ Unlocked(InPlace(AsState(k, m), end)).at = k.next
           /\ Fields(Unlocked(InPlace(AsState(k, m), end)).log, k, k.oldest, k.softEnd, end)
BY DEF InPlace, Unlocked, AsState, Fields, LogType, StateType

LEMMA FromStartFields ==
    ASSUME NEW k \in LogType, NEW m \in SUBSET HeaderType, NEW end \in Addresses,
           ~k.full
    PROVE  /\ Unlocked(FromStart(AsState(k, m), end)) \in StateType
           /\ Unlocked(FromStart(AsState(k, m), end)).mem = m
           /\ Unlocked(FromStart(AsState(k, m), end)).at = NodeInfoEntry
           /\ Fields(Unlocked(FromStart(AsState(k, m), end)).log, k, k.oldest, k.next, end)
<1>1. NodeInfoEntry \in Addresses
  BY LongestFacts DEF Addresses
<1> QED
  BY <1>1 DEF FromStart, Unlocked, AsState, Fields, LogType, StateType

LEMMA StoppedFields ==
    ASSUME NEW k \in LogType, NEW m \in SUBSET HeaderType
    PROVE  /\ Unlocked(Stopped(AsState(k, m))) \in StateType
           /\ Unlocked(Stopped(AsState(k, m))).mem = m
           /\ Unlocked(Stopped(AsState(k, m))).at = None
           /\ Unlocked(Stopped(AsState(k, m))).log \in LogType
           /\ Unlocked(Stopped(AsState(k, m))).log.softEnd = k.next
           /\ Unlocked(Stopped(AsState(k, m))).log.oldest = 0
           /\ Unlocked(Stopped(AsState(k, m))).log.next = 0
           /\ ~Unlocked(Stopped(AsState(k, m))).log.mutex
           /\ Unlocked(Stopped(AsState(k, m))).log.full
           /\ (~k.empty => ~Unlocked(Stopped(AsState(k, m))).log.empty)
<1>1. 0 \in Addresses
  BY LongestFacts DEF Addresses
<1> QED
  BY <1>1 DEF Stopped, Unlocked, AsState, LogType, StateType

\* What an allocation does, by the shape of the log.
LEMMA AllocateShape ==
    ASSUME NEW l \in LogType, NEW m, NEW size, NEW end
    PROVE  LET t == AsState(l, m)
               first == NodeInfoEntry + size
               wrapped == Room(t, end, size)
           IN  Allocate(t, size, end) =
                IF NotWrapped(l)
                THEN IF end <= l.softEnd THEN Unlocked(InPlace(t, end))
                     ELSE IF l.wrap THEN Unlocked(FromStart(Room(t, first, size), first))
                     ELSE Unlocked(Stopped(t))
                ELSE IF end <= wrapped.log.softEnd THEN Unlocked(InPlace(wrapped, end))
                     ELSE IF l.wrap THEN Unlocked(FromStart(wrapped, first))
                     ELSE Unlocked(Stopped(wrapped))
<1>1. AsState(l, m).log = l
  BY DEF AsState
<1> QED
  BY <1>1 DEF Allocate, Unlocked

\* How far the entries are known: from the start up to hi, and from the oldest
\* one of a wrapped log up to top.
Known(m, E, l, size, hi, top) ==
    /\ hi <= l.next /\ Starts(E, hi, l.next) /\ Agree(m, E, 0, hi)
    /\ l.next + size >= l.softEnd => NodeInfoEntry + size < hi
    /\ l.oldest < l.next => l.oldest <= hi
    /\ l.next <= l.oldest =>
        /\ top \in l.oldest .. l.softEnd
        /\ Starts(E, top, l.softEnd) /\ Agree(m, E, l.oldest, top)
        /\ l.next + size < l.softEnd => l.next + size < top

AllocateResult(u, m, E, l, size, hi, top) ==
    /\ u \in StateType /\ u.mem = m
    /\ \/ GrowsAtEnd(u, l, E, size, hi) \/ GrowsBefore(u, l, E, size, top)
       \/ Wraps(u, l, E, size, hi) \/ Stops(u, l)

\* The log has not wrapped.
LEMMA AllocateUnwrapped ==
    ASSUME NEW E \in SUBSET HeaderType, NEW m \in SUBSET HeaderType, NEW l \in LogType,
           NEW size \in Sizes, NEW hi \in Nat, NEW top \in Nat,
           ~l.full, Chained(l, E), Begins(E), Known(m, E, l, size, hi, top),
           l.oldest < l.next
    PROVE  AllocateResult(Allocate(AsState(l, m), size, l.next + size), m, E, l, size, hi, top)
<1> DEFINE t == AsState(l, m)
           end == l.next + size
           first == NodeInfoEntry + size
           u == Allocate(t, size, end)
<1>1. /\ NodeInfoEntry \in Nat \ {0} /\ size \in Nat \ {0} /\ MaxAddress \in Nat
      /\ MaxAddress < Size /\ Size \in Nat /\ first \in Addresses /\ first <= MaxAddress
  <2>1. NodeInfoEntry + 0 * Longest + 3 * Longest < Size /\ 0 * Longest = 0 /\ size <= Longest
    BY LongestFacts
  <2> QED
    BY <2>1, LongestFacts DEF Addresses
<1>2. /\ l.next \in NodeInfoEntry .. MaxAddress /\ Tiled(E, 0, l.next)
      /\ l.softEnd = MaxAddress /\ l.oldest \in Nat /\ l.next \in Nat
      /\ l.oldest = 0 \/ (l.oldest >= NodeInfoEntry /\ Tiled(E, l.oldest, l.next))
  BY <1>1 DEF Chained, LogType, Addresses
<1>3. NotWrapped(l) /\ t.log = l
  BY <1>2 DEF NotWrapped, AsState
<1>4. u = IF end <= l.softEnd THEN Unlocked(InPlace(t, end))
          ELSE IF l.wrap THEN Unlocked(FromStart(Room(t, first, size), first))
          ELSE Unlocked(Stopped(t))
  BY <1>3, AllocateShape
<1>5. CASE end <= l.softEnd
  <2>1. u = Unlocked(InPlace(t, end)) /\ end \in Addresses
    BY <1>1, <1>2, <1>4, <1>5 DEF Addresses
  <2> HIDE DEF u, end
  <2>2. /\ u \in StateType /\ u.mem = m /\ u.at = l.next
        /\ Fields(u.log, l, l.oldest, l.softEnd, end)
    BY <2>1, InPlaceFields
  <2>3. GrowsAtEnd(u, l, E, size, hi)
    BY <1>2, <1>5, <2>2 DEF GrowsAtEnd, end, LogType
  <2> QED
    BY <2>2, <2>3 DEF AllocateResult, u, end
<1>6. CASE end > l.softEnd /\ ~l.wrap
  <2>1. u = Unlocked(Stopped(t))
    BY <1>1, <1>2, <1>4, <1>6
  <2> HIDE DEF u
  <2>2. u \in StateType /\ u.mem = m /\ Stops(u, l)
    BY <2>1, StoppedFields DEF Stops
  <2> QED
    BY <2>2 DEF AllocateResult, u
<1>7. CASE end > l.softEnd /\ l.wrap
  <2>1. u = Unlocked(FromStart(Room(t, first, size), first))
    BY <1>1, <1>2, <1>4, <1>7
  <2>2. Tiled(E, l.oldest, l.next) /\ l.oldest <= hi /\ hi <= l.next /\ first < hi
    BY <1>1, <1>2, <1>7 DEF Known
  <2>3. PICK o \in Addresses :
            /\ Room(t, first, size) = AsState(WithOldest(l, o), m)
            /\ o \in first .. hi /\ Tiled(E, o, l.next)
    <3>1. CASE first > l.oldest
      <4>1. Room(t, first, size) = MoveOldest(t, first)
        BY <1>1, <1>2, <1>3, <2>2, <3>1 DEF Room, IncrementOldest
      <4>2. Tiled(E, l.oldest, hi) /\ Starts(E, hi, l.next)
        BY <1>2, <2>2, TiledCut DEF Known
      <4>3. Agree(m, E, l.oldest, hi)
        BY <1>2 DEF Known, Agree
      <4>4. hi <= Size /\ first \in Int
        BY <1>1, <1>2, <2>2
      <4> HIDE DEF first
      <4>5. PICK o \in l.oldest .. hi :
                /\ o > first /\ o \in Addresses /\ Starts(E, o, hi)
                /\ MoveOldest(t, first) = AsState(WithOldest(l, o), m)
        BY <2>2, <4>2, <4>3, <4>4, MoveOldestFacts
      <4>6. Starts(E, o, l.next) /\ o \in l.oldest .. l.next
        BY <1>2, <2>2, <4>2, <4>5 DEF Starts
      <4>7. Tiled(E, o, l.next)
        BY <1>2, <2>2, <4>6, TiledCut
      <4> QED
        BY <1>2, <4>1, <4>4, <4>5, <4>7
    <3>2. CASE first <= l.oldest
      <4>1. Room(t, first, size) = t
        BY <1>1, <1>2, <1>3, <3>2 DEF Room
      <4>2. WithOldest(l, l.oldest) = l
        BY DEF WithOldest, LogType
      <4> QED
        BY <1>1, <1>2, <2>2, <3>2, <4>1, <4>2 DEF LogType
    <3> QED
      BY <1>1, <1>2, <3>1, <3>2
  <2> DEFINE k == WithOldest(l, o)
  <2>4. /\ k \in LogType /\ ~k.full /\ k.oldest = o /\ k.next = l.next /\ (~l.empty => ~k.empty)
    BY DEF WithOldest, LogType
  <2> HIDE DEF u, k, first
  <2>5. /\ u \in StateType /\ u.mem = m /\ u.at = NodeInfoEntry
        /\ Fields(u.log, k, o, l.next, first)
    BY <1>1, <2>1, <2>3, <2>4, FromStartFields DEF k
  <2>6. Wraps(u, l, E, size, hi)
    BY <1>2, <1>7, <2>3, <2>4, <2>5 DEF Wraps, Fields, first
  <2> QED
    BY <2>5, <2>6 DEF AllocateResult, u
<1> QED
  BY <1>1, <1>2, <1>5, <1>6, <1>7

\* The log has wrapped.
LEMMA AllocateWrapped ==
    ASSUME NEW E \in SUBSET HeaderType, NEW m \in SUBSET HeaderType, NEW l \in LogType,
           NEW size \in Sizes, NEW hi \in Nat, NEW top \in Nat,
           ~l.full, Chained(l, E), Begins(E), Known(m, E, l, size, hi, top),
           l.next <= l.oldest
    PROVE  AllocateResult(Allocate(AsState(l, m), size, l.next + size), m, E, l, size, hi, top)
<1> DEFINE t == AsState(l, m)
           end == l.next + size
           first == NodeInfoEntry + size
           wrapped == Room(t, end, size)
           u == Allocate(t, size, end)
<1>1. /\ NodeInfoEntry \in Nat \ {0} /\ size \in Nat \ {0} /\ MaxAddress \in Nat
      /\ MaxAddress < Size /\ Size \in Nat /\ first \in Addresses
      /\ MaxAddress \in Addresses /\ \A a \in Nat : a <= MaxAddress => a \in Addresses
  <2>1. NodeInfoEntry + 0 * Longest + 3 * Longest < Size /\ 0 * Longest = 0 /\ size <= Longest
    BY LongestFacts
  <2> QED
    BY <2>1, LongestFacts DEF Addresses
<1>2. /\ l.next \in NodeInfoEntry .. MaxAddress /\ l.next \in Nat /\ l.oldest \in Nat
      /\ l.oldest <= l.softEnd /\ l.softEnd \in Nat /\ l.softEnd <= MaxAddress
      /\ Tiled(E, l.oldest, l.softEnd)
  BY <1>1 DEF Chained, LogType, Addresses
<1>3. ~NotWrapped(l) /\ t.log = l /\ end \in Nat
  BY <1>1, <1>2 DEF NotWrapped, AsState
<1>4. u = IF end <= wrapped.log.softEnd THEN Unlocked(InPlace(wrapped, end))
          ELSE IF l.wrap THEN Unlocked(FromStart(wrapped, first))
          ELSE Unlocked(Stopped(wrapped))
  BY <1>3, AllocateShape
<1>5. CASE end <= l.oldest \/ end < l.softEnd
  <2>1. PICK o \in Addresses :
            /\ wrapped = AsState(WithOldest(l, o), m)
            /\ o \in l.oldest .. top /\ end <= o /\ Tiled(E, o, l.softEnd)
    <3>1. CASE end <= l.oldest
      <4>1. wrapped = t
        BY <1>1, <1>2, <1>3, <3>1 DEF Room
      <4>2. WithOldest(l, l.oldest) = l
        BY DEF WithOldest, LogType
      <4>3. top \in l.oldest .. l.softEnd
        BY DEF Known
      <4> QED
        BY <1>2, <3>1, <4>1, <4>2, <4>3 DEF LogType
    <3>2. CASE end > l.oldest
      <4>1. end < l.softEnd
        BY <1>2, <1>3, <1>5, <3>2
      <4>2. wrapped = MoveOldest(t, end)
        BY <1>2, <1>3, <3>2, <4>1 DEF Room, IncrementOldest
      <4>3. /\ top \in l.oldest .. l.softEnd /\ Starts(E, top, l.softEnd)
            /\ Agree(m, E, l.oldest, top) /\ end < top
        BY <4>1 DEF Known
      <4>4. Tiled(E, l.oldest, top) /\ l.oldest <= top /\ top <= Size
        BY <1>1, <1>2, <4>3, TiledCut
      <4> HIDE DEF end, t
      <4>5. PICK o \in l.oldest .. top :
                /\ o > end /\ o \in Addresses /\ Starts(E, o, top)
                /\ MoveOldest(t, end) = AsState(WithOldest(l, o), m)
        BY <1>3, <4>3, <4>4, MoveOldestFacts DEF t
      <4>6. Starts(E, o, l.softEnd) /\ o \in l.oldest .. l.softEnd
        BY <1>2, <4>3, <4>5 DEF Starts
      <4>7. Tiled(E, o, l.softEnd)
        BY <1>2, <4>6, TiledCut
      <4> QED
        BY <1>2, <1>3, <4>2, <4>5, <4>7
    <3> QED
      BY <1>2, <1>3, <3>1, <3>2
  <2> DEFINE k == WithOldest(l, o)
  <2>2. /\ k \in LogType /\ ~k.full /\ k.oldest = o /\ k.next = l.next /\ (~l.empty => ~k.empty)
        /\ k.softEnd = l.softEnd
    BY DEF WithOldest, LogType
  <2>3. wrapped.log = k /\ o <= l.softEnd
    <3>1. top <= l.softEnd
      BY DEF Known
    <3> QED
      BY <1>2, <2>1, <3>1 DEF AsState
  <2> HIDE DEF k, wrapped
  <2>4. u = Unlocked(InPlace(AsState(k, m), end))
    BY <1>1, <1>2, <1>3, <1>4, <2>1, <2>2, <2>3 DEF k
  <2>5. end \in Addresses
    BY <1>1, <1>2, <1>3, <2>1, <2>3
  <2> HIDE DEF u, end
  <2>6. u \in StateType /\ u.mem = m /\ u.at = l.next /\ Fields(u.log, k, o, l.softEnd, end)
    BY <2>2, <2>4, <2>5, InPlaceFields
  <2>7. GrowsBefore(u, l, E, size, top)
    BY <2>1, <2>2, <2>6 DEF GrowsBefore, Fields, end
  <2> QED
    BY <2>6, <2>7 DEF AllocateResult, u, end
<1>6. CASE end > l.oldest /\ end >= l.softEnd
  <2>1. /\ hi <= l.next /\ Starts(E, hi, l.next) /\ first < hi /\ Agree(m, E, 0, hi)
    BY <1>6 DEF Known
  <2>2. PICK o \in first .. hi :
            /\ o \in Addresses /\ Tiled(E, o, l.next)
            /\ wrapped = AsState(Restarted(l, o), m)
    BY <1>6, <2>1, RoomAtStart
  <2> DEFINE k == Restarted(l, o)
  <2>3. /\ k \in LogType /\ ~k.full /\ k.oldest = o /\ k.next = l.next /\ (~l.empty => ~k.empty)
        /\ k.softEnd = MaxAddress
    BY <1>1, <2>2 DEF LogType, Restarted
  <2> HIDE DEF k
  <2>4. wrapped = AsState(k, m) /\ wrapped.log = k
    BY <2>2 DEF AsState, k
  <2> HIDE DEF wrapped
  <2>5. CASE end <= MaxAddress
    <3>1. u = Unlocked(InPlace(AsState(k, m), end)) /\ end \in Addresses
      BY <1>1, <1>3, <1>4, <2>3, <2>4, <2>5
    <3> HIDE DEF u, end
    <3>2. u \in StateType /\ u.mem = m /\ u.at = l.next /\ Fields(u.log, k, o, MaxAddress, end)
      BY <2>3, <3>1, InPlaceFields
    <3>3. o \in NodeInfoEntry .. hi
      BY <1>1, <2>2
    <3>4. GrowsAtEnd(u, l, E, size, hi)
      BY <1>6, <2>2, <2>3, <2>5, <3>2, <3>3 DEF GrowsAtEnd, Fields, end
    <3> QED
      BY <3>2, <3>4 DEF AllocateResult, u, end
  <2>6. CASE end > MaxAddress /\ ~l.wrap
    <3>1. u = Unlocked(Stopped(AsState(k, m)))
      BY <1>1, <1>3, <1>4, <2>3, <2>4, <2>6
    <3> HIDE DEF u, end
    <3>2. u \in StateType /\ u.mem = m /\ Stops(u, l)
      BY <2>3, <3>1, StoppedFields DEF Stops
    <3> QED
      BY <3>2 DEF AllocateResult, u, end
  <2>7. CASE end > MaxAddress /\ l.wrap
    <3>1. u = Unlocked(FromStart(AsState(k, m), first))
      BY <1>1, <1>3, <1>4, <2>3, <2>4, <2>7
    <3> HIDE DEF u, first
    <3>2. k \in LogType /\ first \in Addresses /\ ~k.full
      BY <1>1, <2>3
    <3>3. u \in StateType /\ u.mem = m /\ u.at = NodeInfoEntry
          /\ Fields(u.log, k, k.oldest, k.next, first)
      BY <3>1, <3>2, FromStartFields
    <3>4. Fields(u.log, k, o, l.next, first)
      BY <2>3, <3>3
    <3>5. Wraps(u, l, E, size, hi)
      BY <2>2, <2>3, <2>7, <3>3, <3>4 DEF Wraps, Fields, first
    <3> QED
      BY <3>3, <3>5 DEF AllocateResult, u
  <2> QED
    BY <1>1, <1>3, <2>5, <2>6, <2>7
<1> QED
  BY <1>2, <1>3, <1>5, <1>6

\* What an allocation does to a log that is known far enough.
LEMMA AllocateFacts ==
    ASSUME NEW E \in SUBSET HeaderType, NEW m \in SUBSET HeaderType, NEW l \in LogType,
           NEW size \in Sizes, NEW hi \in Nat, NEW top \in Nat,
           ~l.full, Chained(l, E), Begins(E), Known(m, E, l, size, hi, top)
    PROVE  AllocateResult(Allocate(AsState(l, m), size, l.next + size), m, E, l, size, hi, top)
<1>1. l.oldest \in Nat /\ l.next \in Nat
  BY LongestFacts DEF LogType, Addresses
<1> QED
  BY <1>1, AllocateUnwrapped, AllocateWrapped

-----------------------------------------------------------------------------
(* What an allocation does to the invariant.                               *)

\* The last entry of a chain.
LEMMA LastEntry ==
    ASSUME NEW E \in SUBSET HeaderType, NEW hi \in Nat, hi > 0, Tiled(E, 0, hi)
    PROVE  \E h \in E :
              /\ h.at < hi /\ h.at + h.size = hi
              /\ \A lo \in Nat : lo < hi /\ Tiled(E, lo, hi) => lo <= h.at
<1> DEFINE before == {hi - h.at : h \in {g \in E : g.at < hi}}
<1>1. \A h \in E : h.at \in Nat /\ h.size \in Nat \ {0}
  BY HeaderFacts
<1>2. before \subseteq Nat
  BY <1>1
<1>3. before # {}
  <2>1. PICK h \in E : h.at = 0
    BY DEF Tiled
  <2>2. hi - h.at \in before
    BY <2>1
  <2> QED
    BY <2>2
<1>4. PICK n \in before : \A k \in before : n <= k
  BY <1>2, <1>3, SmallestOf
<1>5. PICK h \in E : h.at < hi /\ n = hi - h.at
  OBVIOUS
<1>6. \A g \in E : g.at < hi => g.at <= h.at
  <2> SUFFICES ASSUME NEW g \in E, g.at < hi PROVE g.at <= h.at
    OBVIOUS
  <2>1. hi - g.at \in before
    OBVIOUS
  <2>2. n <= hi - g.at
    BY <1>4, <2>1
  <2> QED
    BY <1>1, <1>5, <2>2
<1>7. Followed(E, h, hi)
  BY <1>1, <1>5 DEF Tiled
<1>8. h.at + h.size = hi
  <2> SUFFICES ASSUME h.at + h.size # hi PROVE FALSE
    OBVIOUS
  <2>1. PICK g \in E : g.at = h.at + h.size
    BY <1>7 DEF Followed
  <2>2. g.at < hi /\ g.at > h.at
    BY <1>1, <1>7, <2>1 DEF Followed
  <2> QED
    BY <1>1, <1>6, <2>2
<1>9. ASSUME NEW lo \in Nat, lo < hi, Tiled(E, lo, hi)
      PROVE  lo <= h.at
  <2>1. PICK g \in E : g.at = lo
    BY <1>9 DEF Tiled
  <2> QED
    BY <1>6, <1>9, <2>1
<1> QED
  BY <1>5, <1>8, <1>9

\* With all entries written, all of the log is known; an allocation that wraps
\* keeps at least the last entry.
LEMMA AllKnown ==
    ASSUME NEW E \in SUBSET HeaderType, NEW l \in LogType, NEW size \in Sizes,
           ~l.full, Chained(l, E), Begins(E)
    PROVE  /\ l.softEnd \in Nat
           /\ \E hi \in Nat : hi < l.next /\ Known(E, E, l, size, hi, l.softEnd)
<1>1. l.next \in Nat /\ l.softEnd \in Nat /\ l.oldest \in Nat /\ Longest \in Nat
  BY LongestFacts DEF LogType, Addresses
<1>2. /\ NodeInfoEntry + 4 * Longest <= MaxAddress /\ size <= Longest /\ size \in Nat \ {0}
      /\ NodeInfoEntry \in Nat \ {0} /\ MaxAddress \in Nat
  BY LongestFacts
<1>3. /\ l.softEnd > MaxAddress - Longest /\ (l.next <= l.oldest => l.oldest <= l.softEnd)
      /\ l.next >= NodeInfoEntry /\ Tiled(E, 0, l.next)
      /\ l.oldest < l.next /\ l.oldest # 0 => Tiled(E, l.oldest, l.next)
  BY <1>1, <1>2 DEF Chained
<1>4. PICK h \in E :
          /\ h.at < l.next /\ h.at + h.size = l.next
          /\ \A lo \in Nat : lo < l.next /\ Tiled(E, lo, l.next) => lo <= h.at
  BY <1>1, <1>2, <1>3, LastEntry
<1>5. h.at \in Nat /\ h.size \in Nat /\ (h.at # 0 => h.size <= Longest)
  BY HeaderFacts
<1>6. h.at = 0 => h.size = NodeInfoEntry
  <2> SUFFICES ASSUME h.at = 0 PROVE h.size = NodeInfoEntry
    OBVIOUS
  <2>1. h \in {g \in E : g.at < NodeInfoEntry}
    BY <1>2
  <2> QED
    BY <2>1 DEF Begins
<1>7. l.next + size >= l.softEnd => NodeInfoEntry + size < h.at
  BY <1>1, <1>2, <1>3, <1>4, <1>5, <1>6
<1>8. l.oldest < l.next => l.oldest <= h.at
  BY <1>1, <1>3, <1>4, <1>5
<1>9. Known(E, E, l, size, h.at, l.softEnd)
  BY <1>1, <1>3, <1>4, <1>5, <1>7, <1>8 DEF Known, Starts, Agree
<1> QED
  BY <1>1, <1>4, <1>5, <1>9

\* Chains with the entry of an allocation.
LEMMA EntryWritten ==
    ASSUME NEW E \in SUBSET HeaderType, NEW a \in Addresses, NEW size \in Sizes
    PROVE  /\ Written(E, a, size, FALSE) \in SUBSET HeaderType
           /\ \A lo \in Nat :
                lo <= a /\ Tiled(E, lo, a) => Tiled(Written(E, a, size, FALSE), lo, a + size)
           /\ \A lo, hi \in Nat :
                lo <= hi /\ Tiled(E, lo, hi) /\ (a + size <= lo \/ hi <= a)
                    => Tiled(Written(E, a, size, FALSE), lo, hi)
<1> DEFINE no == FALSE
<1>1. /\ [at |-> a, size |-> size, info |-> no] \in HeaderType
      /\ size \in Sizes \cup {NodeInfoEntry}
  BY DEF HeaderType
<1> HIDE DEF no
<1>2. Written(E, a, size, no) \in SUBSET HeaderType
  BY <1>1, WrittenFacts
<1>3. ASSUME NEW lo \in Nat, lo <= a, Tiled(E, lo, a)
      PROVE  Tiled(Written(E, a, size, no), lo, a + size)
  BY <1>1, <1>3, TiledAppend
<1>4. ASSUME NEW lo \in Nat, NEW hi \in Nat, lo <= hi, Tiled(E, lo, hi),
             a + size <= lo \/ hi <= a
      PROVE  Tiled(Written(E, a, size, no), lo, hi)
  BY <1>1, <1>4, TiledKept
<1>5. no = FALSE
  BY DEF no
<1> QED
  BY <1>2, <1>3, <1>4, <1>5

\* The log with the entry of an allocation.
LEMMA AllocatedChained ==
    ASSUME NEW E \in SUBSET HeaderType, NEW m, NEW l \in LogType,
           NEW size \in Sizes, NEW hi \in Nat, NEW top \in Nat, NEW u, NEW b \in 0 .. Burst,
           ~l.full, Chained(l, E), Begins(E), hi <= l.next, l.next <= l.oldest => top <= l.softEnd,
           AllocateResult(u, m, E, l, size, hi, top), u.at # None
    PROVE  /\ u.at \in Addresses /\ u.at >= NodeInfoEntry
           /\ u.log \in LogType /\ ~u.log.mutex /\ ~u.log.full /\ (~l.empty => ~u.log.empty)
           /\ Chained(u.log, Written(E, u.at, size, FALSE))
           /\ Guarded(u.log, u.at, size, b)
<1> DEFINE W == Written(E, u.at, size, FALSE)
           L == Longest
<1>1. /\ NodeInfoEntry \in Nat \ {0} /\ size \in Nat \ {0} /\ MaxAddress \in Nat /\ L \in Nat
      /\ size <= L /\ NodeInfoEntry + size <= MaxAddress /\ b * L \in Nat
      /\ NodeInfoEntry \in Addresses /\ Addresses \subseteq Nat
  <2>1. NodeInfoEntry + 0 * L + 3 * L < Size /\ 0 * L = 0 /\ size <= L
    BY LongestFacts
  <2> QED
    BY <2>1, LongestFacts DEF Addresses
<1>2. /\ l.next \in NodeInfoEntry .. MaxAddress /\ l.next \in Nat /\ l.oldest \in Nat
      /\ l.softEnd \in Nat /\ Tiled(E, 0, l.next) /\ l.next \in Addresses
  BY <1>1 DEF Chained, LogType
<1>3. CASE GrowsAtEnd(u, l, E, size, hi)
  <2>1. PICK o \in Addresses :
            /\ u.at = l.next /\ l.next + size <= MaxAddress
            /\ Fields(u.log, l, o, MaxAddress, l.next + size)
            /\ \/ l.oldest < l.next /\ o = l.oldest
               \/ /\ l.next <= l.oldest /\ l.next + size >= l.softEnd
                  /\ o \in NodeInfoEntry .. hi /\ Tiled(E, o, l.next)
    BY <1>3 DEF GrowsAtEnd
  <2>2. o \in Nat /\ o <= l.next /\ (o = 0 \/ (o >= NodeInfoEntry /\ Tiled(E, o, l.next)))
    BY <1>1, <1>2, <2>1 DEF Chained
  <2>3. Tiled(W, 0, l.next + size) /\ (o # 0 => Tiled(W, o, l.next + size))
    <3>1. /\ u.at \in Addresses /\ u.at = l.next /\ 0 <= u.at /\ Tiled(E, 0, u.at)
          /\ o # 0 => o \in Nat /\ o <= u.at /\ Tiled(E, o, u.at)
      BY <1>2, <2>1, <2>2
    <3>2. Tiled(W, 0, u.at + size) /\ (o # 0 => Tiled(W, o, u.at + size))
      BY <3>1, EntryWritten
    <3> QED
      BY <3>1, <3>2
  <2> HIDE DEF W, L
  <2>4. Chained(u.log, W)
    BY <1>1, <1>2, <2>1, <2>2, <2>3 DEF Chained, Fields
  <2>5. Guarded(u.log, u.at, size, b)
    BY <1>1, <1>2, <2>1, <2>2 DEF Guarded, Fields, L
  <2>6. /\ u.at \in Addresses /\ u.at >= NodeInfoEntry
        /\ u.log \in LogType /\ ~u.log.mutex /\ ~u.log.full /\ (~l.empty => ~u.log.empty)
    BY <1>1, <1>2, <2>1 DEF Fields
  <2> QED
    BY <2>4, <2>5, <2>6 DEF W
<1>4. CASE GrowsBefore(u, l, E, size, top)
  <2>1. PICK o \in Addresses :
            /\ u.at = l.next /\ l.next <= l.oldest
            /\ Fields(u.log, l, o, l.softEnd, l.next + size)
            /\ o \in l.oldest .. top /\ l.next + size <= o /\ Tiled(E, o, l.softEnd)
    BY <1>4 DEF GrowsBefore
  <2>2. /\ o \in Nat /\ o <= l.softEnd /\ l.softEnd <= MaxAddress
        /\ l.softEnd > MaxAddress - Longest
    BY <1>1, <1>2, <2>1 DEF Chained
  <2>3. Tiled(W, 0, l.next + size)
    <3>1. u.at \in Addresses /\ u.at = l.next /\ 0 <= u.at /\ Tiled(E, 0, u.at)
      BY <1>2, <2>1
    <3>2. Tiled(W, 0, u.at + size)
      BY <3>1, EntryWritten
    <3> QED
      BY <3>1, <3>2
  <2>4. Tiled(W, o, l.softEnd)
    BY <1>1, <1>2, <2>1, <2>2, EntryWritten
  <2> HIDE DEF W, L
  <2>5. Chained(u.log, W)
    BY <1>1, <1>2, <2>1, <2>2, <2>3, <2>4 DEF Chained, Fields
  <2>6. Guarded(u.log, u.at, size, b)
    BY <1>1, <1>2, <2>1, <2>2 DEF Guarded, Fields, L
  <2>7. /\ u.at \in Addresses /\ u.at >= NodeInfoEntry
        /\ u.log \in LogType /\ ~u.log.mutex /\ ~u.log.full /\ (~l.empty => ~u.log.empty)
    BY <1>1, <1>2, <2>1 DEF Fields
  <2> QED
    BY <2>5, <2>6, <2>7 DEF W
<1>5. CASE Wraps(u, l, E, size, hi)
  <2>1. PICK o \in Addresses :
            /\ u.at = NodeInfoEntry /\ l.next + size > MaxAddress
            /\ Fields(u.log, l, o, l.next, NodeInfoEntry + size)
            /\ o \in (NodeInfoEntry + size) .. hi /\ Tiled(E, o, l.next)
    BY <1>5 DEF Wraps
  <2>2. o \in Nat /\ o <= l.next /\ l.next > MaxAddress - Longest
    BY <1>1, <1>2, <2>1
  <2>3. Tiled(E, 0, NodeInfoEntry)
    <3> DEFINE h == [at |-> 0, size |-> NodeInfoEntry, info |-> TRUE]
    <3>1. h \in E
      BY DEF Begins
    <3>2. h.at = 0 /\ h.size = NodeInfoEntry
      OBVIOUS
    <3> HIDE DEF h
    <3>3. Followed(E, h, l.next)
      BY <1>1, <1>2, <3>1, <3>2 DEF Tiled
    <3>4. Starts(E, NodeInfoEntry, l.next)
      BY <1>1, <3>2, <3>3 DEF Followed, Starts
    <3> QED
      BY <1>1, <1>2, <3>4, TiledCut
  <2>4. Tiled(W, 0, NodeInfoEntry + size)
    <3>1. /\ u.at \in Addresses /\ u.at = NodeInfoEntry /\ 0 <= u.at
          /\ Tiled(E, 0, u.at)
      BY <1>1, <2>1, <2>3
    <3>2. Tiled(W, 0, u.at + size)
      BY <3>1, EntryWritten
    <3> QED
      BY <3>1, <3>2
  <2>5. Tiled(W, o, l.next)
    <3>1. u.at \in Addresses /\ u.at + size <= o
      BY <1>1, <2>1, <2>2
    <3> QED
      BY <1>2, <2>1, <2>2, <3>1, EntryWritten
  <2> HIDE DEF W, L
  <2>6. Chained(u.log, W)
    BY <1>1, <1>2, <2>1, <2>2, <2>4, <2>5 DEF Chained, Fields
  <2>7. Guarded(u.log, u.at, size, b)
    BY <1>1, <1>2, <2>1, <2>2 DEF Guarded, Fields, L
  <2>8. /\ u.at \in Addresses /\ u.at >= NodeInfoEntry
        /\ u.log \in LogType /\ ~u.log.mutex /\ ~u.log.full /\ (~l.empty => ~u.log.empty)
    BY <1>1, <1>2, <2>1 DEF Fields
  <2> QED
    BY <2>6, <2>7, <2>8 DEF W
<1> QED
  BY <1>3, <1>4, <1>5 DEF AllocateResult, Stops

\* What an interrupt knows while the main loop has an entry to write: all before
\* that entry, and all after it.
GuardHi(l, at, size) == IF at + size <= l.next THEN at ELSE l.next
GuardTop(l, at, size) == IF at + size <= l.next THEN l.softEnd ELSE at

\* That is far enough for an allocation.
LEMMA GuardedKnown ==
    ASSUME NEW m \in SUBSET HeaderType, NEW l \in LogType, NEW size \in Sizes,
           NEW at \in Addresses, NEW own \in Sizes, NEW b \in 0 .. Burst, b < Burst,
           ~l.full, Chained(l, Written(m, at, own, FALSE)), Guarded(l, at, own, b)
    PROVE  /\ GuardHi(l, at, own) \in Nat /\ GuardTop(l, at, own) \in Nat
           /\ Known(m, Written(m, at, own, FALSE), l, size,
                    GuardHi(l, at, own), GuardTop(l, at, own))
<1> DEFINE E == Written(m, at, own, FALSE)
           L == Longest
<1>1. /\ NodeInfoEntry \in Nat /\ MaxAddress \in Nat /\ L \in Nat /\ b * L \in Nat
      /\ size \in Nat \ {0} /\ size <= L /\ own \in Nat \ {0} /\ own <= L
      /\ l.next \in Nat /\ l.softEnd \in Nat /\ l.oldest \in Nat /\ at \in Nat
  BY LongestFacts DEF LogType, Addresses
<1>2. NodeInfoEntry + b * L + 4 * L <= MaxAddress
  <2>1. b + 1 \in 0 .. Burst /\ (b + 1) * L = b * L + L
    BY LongestFacts
  <2>2. NodeInfoEntry + (b + 1) * L + 3 * L < Size
    BY <2>1, LongestFacts
  <2> DEFINE B == b * L
             C == (b + 1) * L
  <2>3. NodeInfoEntry + C + 3 * L < Size /\ C = B + L /\ B \in Nat
    BY <1>1, <2>1, <2>2
  <2> HIDE DEF B, C, L
  <2>4. NodeInfoEntry + B + 4 * L <= Size - 1
    BY <1>1, <2>3, LongestFacts
  <2> QED
    BY <2>4 DEF B, MaxAddress
<1>3. /\ \E h \in E : h.at = at
      /\ \A h \in HeaderType : h.at < at \/ h.at >= at + own => (h \in m <=> h \in E)
  <2> DEFINE no == FALSE
             new == [at |-> at, size |-> own, info |-> no]
  <2>1. new \in HeaderType /\ own \in Sizes \cup {NodeInfoEntry} /\ new.at = at
    BY DEF HeaderType
  <2> HIDE DEF no, new
  <2>2. /\ new \in Written(m, at, own, no)
        /\ \A h \in Written(m, at, own, no) :
              h = new \/ (h \in m /\ (h.at < at \/ h.at >= at + own))
        /\ \A h \in m : h.at < at \/ h.at >= at + own => h \in Written(m, at, own, no)
    BY <2>1, WrittenFacts DEF new
  <2>3. E = Written(m, at, own, no)
    BY DEF no
  <2> HIDE DEF E
  <2> QED
    BY <1>1, <2>1, <2>2, <2>3
<1>4. Chained(l, E)
  OBVIOUS
<1> HIDE DEF E
<1>5. l.softEnd > MaxAddress - L /\ (l.next <= l.oldest => l.oldest <= l.softEnd)
      /\ (l.oldest < l.next => l.softEnd = MaxAddress)
  BY <1>1, <1>2, <1>4 DEF Chained, L
<1>6. \A h \in HeaderType : h.at \in Nat
  BY HeaderFacts
<1>7. CASE at + own <= l.next
  <2>1. GuardHi(l, at, own) = at /\ GuardTop(l, at, own) = l.softEnd
    BY <1>7 DEF GuardHi, GuardTop
  <2>2. l.next <= at + own + b * L /\ (l.oldest < l.next => l.oldest <= at)
    BY <1>1, <1>7 DEF Guarded, L
  <2>3. l.next + size >= l.softEnd => NodeInfoEntry + size < at
    <3> DEFINE B == b * L
    <3>1. /\ B \in Nat /\ NodeInfoEntry + B + 4 * L <= MaxAddress /\ l.next <= at + own + B
      BY <1>1, <1>2, <2>2
    <3> HIDE DEF B, L
    <3> QED
      BY <1>1, <1>5, <3>1
  <2>4. Agree(m, E, 0, at)
    BY <1>1, <1>3 DEF Agree
  <2>5. l.next <= l.oldest => Agree(m, E, l.oldest, l.softEnd)
    BY <1>1, <1>3, <1>6, <1>7 DEF Agree
  <2> HIDE DEF L
  <2>6. Known(m, E, l, size, at, l.softEnd)
    BY <1>1, <1>3, <1>5, <1>7, <2>2, <2>3, <2>4, <2>5 DEF Known, Starts
  <2> QED
    BY <1>1, <2>1, <2>6 DEF E
<1>8. CASE at + own > l.next
  <2>1. GuardHi(l, at, own) = l.next /\ GuardTop(l, at, own) = at
    BY <1>1, <1>8 DEF GuardHi, GuardTop
  <2>2. /\ l.next <= l.oldest /\ l.oldest <= at /\ at + own <= l.softEnd
        /\ l.next + MaxAddress < at + NodeInfoEntry + b * L + 2 * L
    BY <1>1, <1>8 DEF Guarded, L
  <2>3. l.next + size < at
    <3> DEFINE B == b * L
    <3>1. /\ B \in Nat /\ NodeInfoEntry + B + 4 * L <= MaxAddress
          /\ l.next + MaxAddress < at + NodeInfoEntry + B + 2 * L
      BY <1>1, <1>2, <2>2
    <3> HIDE DEF B, L
    <3> QED
      BY <1>1, <3>1
  <2>4. Agree(m, E, 0, l.next) /\ Agree(m, E, l.oldest, at)
    BY <1>1, <1>3, <1>6, <2>2 DEF Agree
  <2> HIDE DEF L
  <2>5. Known(m, E, l, size, l.next, at)
    BY <1>1, <1>3, <2>2, <2>3, <2>4 DEF Known, Starts
  <2> QED
    BY <1>1, <2>1, <2>5 DEF E
<1>9. at + own <= l.next \/ at + own > l.next
  BY <1>1
<1> QED
  BY <1>7, <1>8, <1>9, Zenon

\* It stays away from that entry.
LEMMA GuardedKept ==
    ASSUME NEW E \in SUBSET HeaderType, NEW m, NEW u, NEW l \in LogType, NEW size \in Sizes,
           NEW at \in Addresses, NEW own \in Sizes, NEW b \in 0 .. Burst, b < Burst,
           at >= NodeInfoEntry, ~l.full, Chained(l, E), Guarded(l, at, own, b),
           AllocateResult(u, m, E, l, size, GuardHi(l, at, own), GuardTop(l, at, own)),
           u.at # None
    PROVE  /\ Guarded(u.log, at, own, b + 1)
           /\ u.at + size <= at \/ at + own <= u.at
           /\ \/ GuardHi(l, at, own) < l.next
              \/ /\ ~GrowsAtEnd(u, l, E, size, GuardHi(l, at, own))
                 /\ ~Wraps(u, l, E, size, GuardHi(l, at, own))
<1> DEFINE L == Longest
           B == b * Longest
           C == (b + 1) * Longest
<1>1. /\ NodeInfoEntry \in Nat /\ MaxAddress \in Nat /\ L \in Nat /\ B \in Nat
      /\ C = B + L /\ size \in Nat \ {0} /\ size <= L /\ own \in Nat \ {0} /\ own <= L
      /\ l.next \in Nat /\ l.softEnd \in Nat /\ l.oldest \in Nat /\ at \in Nat
      /\ NodeInfoEntry + B + 3 * L <= MaxAddress /\ Addresses \subseteq Nat
  BY LongestFacts DEF LogType, Addresses
<1> HIDE DEF L, B, C
<1>2. l.softEnd <= MaxAddress
  BY <1>1 DEF Chained
<1>3. CASE at + own <= l.next
  <2>1. GuardHi(l, at, own) = at /\ GuardTop(l, at, own) = l.softEnd
    BY <1>3 DEF GuardHi, GuardTop
  <2>2. l.next <= at + own + B /\ (l.oldest < l.next => l.oldest <= at)
    BY <1>1, <1>3 DEF Guarded, B
  <2>3. GuardHi(l, at, own) < l.next
    BY <1>1, <1>3, <2>1
  <2>4. CASE GrowsAtEnd(u, l, E, size, at)
    <3>1. PICK o \in Addresses :
              /\ u.at = l.next /\ u.log.oldest = o /\ u.log.next = l.next + size
              /\ \/ l.oldest < l.next /\ o = l.oldest
                 \/ o \in NodeInfoEntry .. at
      BY <2>4 DEF GrowsAtEnd, Fields
    <3>2. u.log.oldest <= at
      BY <1>1, <2>2, <3>1
    <3> QED
      BY <1>1, <1>3, <2>2, <2>3, <3>1, <3>2 DEF Guarded, B, C
  <2>5. CASE GrowsBefore(u, l, E, size, l.softEnd)
    <3>1. PICK o \in Addresses :
              /\ u.at = l.next /\ u.log.oldest = o /\ u.log.next = l.next + size
              /\ l.next + size <= o
      BY <2>5 DEF GrowsBefore, Fields
    <3> QED
      BY <1>1, <1>3, <2>2, <2>3, <3>1 DEF Guarded, B, C
  <2>6. CASE Wraps(u, l, E, size, at)
    <3>1. PICK o \in Addresses :
              /\ u.at = NodeInfoEntry /\ l.next + size > MaxAddress
              /\ u.log.oldest = o /\ u.log.next = NodeInfoEntry + size
              /\ u.log.softEnd = l.next /\ o \in (NodeInfoEntry + size) .. at
      BY <2>6 DEF Wraps, Fields
    <3>2. u.log.next + MaxAddress < at + NodeInfoEntry + C + 2 * L
      BY <1>1, <2>2, <3>1
    <3> QED
      BY <1>1, <1>3, <2>3, <3>1, <3>2 DEF Guarded, C, L
  <2> QED
    BY <2>1, <2>4, <2>5, <2>6, <2>3 DEF AllocateResult, Stops
<1>4. CASE at + own > l.next
  <2>1. GuardHi(l, at, own) = l.next /\ GuardTop(l, at, own) = at
    BY <1>1, <1>4 DEF GuardHi, GuardTop
  <2>2. /\ l.next <= l.oldest /\ l.oldest <= at /\ at + own <= l.softEnd
        /\ l.next + MaxAddress < at + NodeInfoEntry + B + 2 * L
    BY <1>1, <1>4 DEF Guarded, B, L
  <2>3. l.next + size < l.softEnd
    <3>1. l.next + size <= at
      BY <1>1, <2>2
    <3> QED
      BY <1>1, <2>2, <3>1
  <2>4. ~GrowsAtEnd(u, l, E, size, l.next) /\ ~Wraps(u, l, E, size, l.next)
    BY <1>1, <1>2, <2>2, <2>3 DEF GrowsAtEnd, Wraps
  <2>5. CASE GrowsBefore(u, l, E, size, at)
    <3>1. PICK o \in Addresses :
              /\ u.at = l.next /\ u.log.oldest = o /\ u.log.next = l.next + size
              /\ u.log.softEnd = l.softEnd
              /\ l.next + size <= o /\ o \in l.oldest .. at
      BY <2>5 DEF GrowsBefore, Fields
    <3> QED
      BY <1>1, <2>1, <2>2, <2>4, <3>1 DEF Guarded, B, C, L
  <2> QED
    BY <2>1, <2>4, <2>5 DEF AllocateResult, Stops
<1> QED
  BY <1>1, <1>3, <1>4

-----------------------------------------------------------------------------
(* The steps.                                                              *)

\* The node_info entry is not overwritten by another entry.
LEMMA BeginsKept ==
    ASSUME NEW E \in SUBSET HeaderType, NEW a \in Addresses, a >= NodeInfoEntry,
           NEW size \in Sizes, Begins(E)
    PROVE  Begins(Written(E, a, size, FALSE))
<1> DEFINE no == FALSE
           new == [at |-> a, size |-> size, info |-> no]
           first == {[at |-> 0, size |-> NodeInfoEntry, info |-> TRUE]}
           W == Written(E, a, size, no)
<1>1. new \in HeaderType /\ size \in Sizes \cup {NodeInfoEntry} /\ new.at = a
  BY DEF HeaderType
<1>2. {h \in E : h.at < NodeInfoEntry} = first
  BY DEF Begins
<1>3. a \in Nat /\ NodeInfoEntry \in Nat
  BY LongestFacts DEF Addresses
<1> HIDE DEF no, new, first, W
<1>4. /\ \A h \in W : h = new \/ (h \in E /\ (h.at < a \/ h.at >= a + size))
      /\ \A h \in E : h.at < a \/ h.at >= a + size => h \in W
  BY <1>1, WrittenFacts DEF W, new
<1>5. {h \in W : h.at < NodeInfoEntry} = {h \in E : h.at < NodeInfoEntry}
  <2>1. \A h \in E : h.at \in Nat
    BY HeaderFacts
  <2> QED
    BY <1>1, <1>3, <1>4, <2>1
<1>6. {h \in Written(E, a, size, FALSE) : h.at < NodeInfoEntry} = first
  BY <1>2, <1>5 DEF W, no
<1> QED
  BY <1>6 DEF Begins, first

\* An interrupt that could not log an entry counts as one that did.
LEMMA GuardedMore ==
    ASSUME NEW l \in LogType, NEW at \in Addresses, NEW own \in Sizes,
           NEW b \in 0 .. Burst, Guarded(l, at, own, b)
    PROVE  Guarded(l, at, own, b + 1)
<1> DEFINE L == Longest
           B == b * Longest
           C == (b + 1) * Longest
<1>1. /\ NodeInfoEntry \in Nat /\ MaxAddress \in Nat /\ L \in Nat /\ B \in Nat /\ C = B + L
      /\ own \in Nat /\ l.next \in Nat /\ at \in Nat
  BY LongestFacts DEF LogType, Addresses
<1> HIDE DEF B, C, L
<1>2. \/ /\ at + own <= l.next /\ l.next <= at + own + B
         /\ l.next > l.oldest => l.oldest <= at
      \/ /\ l.next <= l.oldest /\ l.oldest <= at /\ at + own <= l.softEnd
         /\ l.next + MaxAddress < at + NodeInfoEntry + B + 2 * L
  BY DEF Guarded, B, L
<1>3. \/ /\ at + own <= l.next /\ l.next <= at + own + C
         /\ l.next > l.oldest => l.oldest <= at
      \/ /\ l.next <= l.oldest /\ l.oldest <= at /\ at + own <= l.softEnd
         /\ l.next + MaxAddress < at + NodeInfoEntry + C + 2 * L
  BY <1>1, <1>2
<1> QED
  BY <1>3 DEF Guarded, C, L

\* The entry of the main loop, and what the memory is like once it is written.
LEMMA MainFacts ==
    ASSUME TypeOK
    PROVE  /\ main.pc \in {"idle", "checked", "locked", "allocated"}
           /\ main.pc # "idle" => main.size \in Sizes
           /\ main.pc = "locked" => main.end \in Nat
           /\ main.pc = "allocated" => main.at \in Addresses
BY DEF TypeOK, MainType

\* The memory, with the entry the main loop has yet to write.
LEMMA EntriesFacts ==
    ASSUME LogInv
    PROVE  /\ mem \in SUBSET HeaderType /\ Entries \in SUBSET HeaderType
           /\ Begins(Entries)
           /\ main.pc # "allocated" => Entries = mem
           /\ main.pc = "allocated" =>
                /\ main.at \in Addresses /\ main.size \in Sizes
                /\ Entries = Written(mem, main.at, main.size, FALSE)
<1>1. mem \in SUBSET HeaderType /\ Begins(mem)
  BY DEF LogInv, TypeOK
<1>2. CASE main.pc # "allocated"
  BY <1>1, <1>2 DEF Entries
<1>3. CASE main.pc = "allocated"
  <2>1. /\ main.at \in Addresses /\ main.size \in Sizes /\ main.at >= NodeInfoEntry
        /\ Entries = Written(mem, main.at, main.size, FALSE)
    BY <1>3, MainFacts DEF LogInv, Entries
  <2> QED
    BY <1>1, <1>3, <2>1, BeginsKept, EntryWritten
<1> QED
  BY <1>2, <1>3

\* The state as a record.
LEMMA NowFacts ==
    ASSUME LogInv
    PROVE  /\ Now = AsState(log, mem) /\ NotEmpty(Now) = Now
           /\ Now.log = log /\ Now.mem = mem
           /\ log \in LogType
<1>1. log \in LogType /\ log.empty = FALSE
  BY DEF LogInv, TypeOK, LogType
<1>2. [log EXCEPT !.empty = FALSE] = log
  BY <1>1 DEF LogType
<1>3. NotEmpty(Now) = [Now EXCEPT !.log = [log EXCEPT !.empty = FALSE]]
  BY DEF NotEmpty, Now
<1>4. Now = AsState(log, mem) /\ Now.log = log /\ Now.mem = mem
  BY DEF Now, AsState
<1>5. [Now EXCEPT !.log = log] = Now
  BY DEF Now
<1> QED
  BY <1>1, <1>2, <1>3, <1>4, <1>5

\* A log that is full remains the chain it was.
LEMMA StopsChained ==
    ASSUME NEW E \in SUBSET HeaderType, NEW l \in LogType, NEW u,
           ~l.full, Chained(l, E), Stops(u, l)
    PROVE  Chained(u.log, E)
BY DEF Chained, Stops

\* None is no address.
LEMMA NoAddress == None \notin Addresses /\ NodeInfoEntry \in Addresses
BY LongestFacts DEF None, Addresses

\* An entry is allocated, and then it is written or the log is full.
Logged(u, size, hi, top) ==
    /\ ~log.full
    /\ AllocateResult(u, mem, Entries, log, size, hi, top)
    /\ hi <= log.next
    /\ log.next <= log.oldest => top <= log.softEnd
    /\ \/ hi < log.next
       \/ ~GrowsAtEnd(u, log, Entries, size, hi) /\ ~Wraps(u, log, Entries, size, hi)
    /\ log' = u.log
    /\ Entries' = IF u.at = None THEN Entries ELSE Written(Entries, u.at, size, FALSE)
EntryLogged ==
    \E size \in Sizes : \E hi, top \in Nat : \E u : Logged(u, size, hi, top)

\* An interrupt while the main loop has nothing allocated.
LEMMA LogsIdle ==
    ASSUME LogInv, NEW size \in Sizes,
           InterruptLogs(size), Free(log), main.pc # "allocated"
    PROVE  EntryLogged /\ (~spoilt' => LogInv')
<1> DEFINE u == Allocate(AsState(log, mem), size, log.next + size)
           top == log.softEnd
<1>1. /\ main.pc \in {"idle", "checked"} /\ main' = main /\ burst' \in 0 .. Burst
      /\ ~log'.full \/ main.pc = "idle" \/ spoilt'
      /\ log \in LogType /\ mem \in SUBSET HeaderType /\ Entries = mem
      /\ ~log.full /\ Chained(log, mem) /\ Begins(mem)
  <2>1. main.pc \in {"idle", "checked"}
    BY MainFacts DEF LogInv, Free
  <2>2. burst' \in 0 .. Burst
    BY LongestFacts DEF LogInv, TypeOK, InterruptLogs
  <2>3. ~log'.full \/ main.pc = "idle" \/ spoilt'
    BY <2>1 DEF InterruptLogs
  <2> QED
    BY <2>1, <2>2, <2>3, NowFacts, EntriesFacts DEF LogInv, InterruptLogs, Free
<1>2. PICK hi \in Nat : hi < log.next /\ Known(mem, mem, log, size, hi, top)
  BY <1>1, AllKnown
<1>3. top \in Nat /\ log.next \in Nat
  BY <1>1, LongestFacts DEF LogType, Addresses
<1> HIDE DEF top
<1>4. AllocateResult(u, mem, mem, log, size, hi, top)
  BY <1>1, <1>2, <1>3, AllocateFacts
<1>5. IF u.at = None THEN log' = u.log /\ mem' = u.mem
      ELSE log' = u.log /\ mem' = Written(u.mem, u.at, size, FALSE)
  <2> HIDE DEF u
  <2>1. Set(IF u.at = None THEN u ELSE [u EXCEPT !.mem = Written(@, u.at, size, FALSE)])
    BY <1>1, NowFacts DEF InterruptLogs, u
  <2>2. /\ [u EXCEPT !.mem = Written(@, u.at, size, FALSE)].log = u.log
        /\ [u EXCEPT !.mem = Written(@, u.at, size, FALSE)].mem
             = Written(u.mem, u.at, size, FALSE)
    BY <1>4 DEF AllocateResult, StateType
  <2> QED
    BY <2>1, <2>2 DEF Set
<1> HIDE DEF u
<1>6. main'.pc \in {"idle", "checked"} /\ Entries' = mem'
  BY <1>1 DEF Entries
<1>7. CASE u.at = None
  <2>1. Stops(u, log) /\ mem' = mem /\ log' = u.log
    <3>1. ~GrowsAtEnd(u, log, mem, size, hi) /\ ~Wraps(u, log, mem, size, hi)
          /\ ~GrowsBefore(u, log, mem, size, top)
      BY <1>1, <1>7, NoAddress DEF GrowsAtEnd, GrowsBefore, Wraps, LogType
    <3> QED
      BY <1>4, <1>5, <1>7, <3>1 DEF AllocateResult
  <2>2. Chained(log', mem')
    BY <1>1, <2>1, StopsChained
  <2>3. TypeOK'
    BY <1>1, <2>1 DEF LogInv, TypeOK, Stops
  <2>4. EntryLogged
    <3>1. Entries' = IF u.at = None THEN Entries ELSE Written(Entries, u.at, size, FALSE)
      BY <1>1, <1>6, <1>7, <2>1
    <3>2. Logged(u, size, hi, top)
      BY <1>1, <1>4, <1>2, <1>3, <2>1, <3>1 DEF Logged, top
    <3> QED
      BY <1>2, <1>3, <3>2 DEF EntryLogged
  <2> QED
    BY <1>1, <1>6, <2>1, <2>2, <2>3, <2>4 DEF LogInv, Stops
<1>8. CASE u.at # None
  <2>1. log' = u.log /\ mem' = Written(mem, u.at, size, FALSE)
    BY <1>4, <1>5, <1>8 DEF AllocateResult
  <2>2. /\ u.at \in Addresses /\ u.at >= NodeInfoEntry
        /\ u.log \in LogType /\ ~u.log.mutex /\ ~u.log.full /\ (~log.empty => ~u.log.empty)
        /\ Chained(u.log, Written(mem, u.at, size, FALSE))
    <3>1. 0 \in 0 .. Burst /\ hi <= log.next /\ (log.next <= log.oldest => top <= log.softEnd)
      BY <1>2, <1>3, LongestFacts DEF top
    <3> QED
      BY <1>1, <1>4, <1>8, <1>2, <1>3, <3>1, AllocatedChained
  <2>3. Begins(mem') /\ mem' \in SUBSET HeaderType
    BY <1>1, <2>1, <2>2, BeginsKept, EntryWritten
  <2>4. TypeOK'
    BY <1>1, <2>1, <2>2, <2>3 DEF LogInv, TypeOK
  <2>5. EntryLogged
    <3>1. Entries' = IF u.at = None THEN Entries ELSE Written(Entries, u.at, size, FALSE)
      BY <1>1, <1>6, <1>8, <2>1
    <3>2. Logged(u, size, hi, top)
      BY <1>1, <1>4, <1>2, <1>3, <2>1, <3>1 DEF Logged, top
    <3> QED
      BY <1>2, <1>3, <3>2 DEF EntryLogged
  <2> QED
    BY <1>1, <1>6, <2>1, <2>2, <2>3, <2>4, <2>5 DEF LogInv
<1> QED
  BY <1>7, <1>8

\* An interrupt while the main loop has yet to write its entry.
LEMMA LogsGuarded ==
    ASSUME LogInv, NEW size \in Sizes,
           InterruptLogs(size), Free(log), main.pc = "allocated"
    PROVE  LogInv' /\ EntryLogged
<1> DEFINE u == Allocate(AsState(log, mem), size, log.next + size)
           at == main.at
           own == main.size
           E == Written(mem, at, own, FALSE)
           hi == GuardHi(log, at, own)
           top == GuardTop(log, at, own)
           W == Written(mem, u.at, size, FALSE)
<1>1. /\ main' = main /\ burst' = burst + 1 /\ burst < Burst /\ burst \in 0 .. Burst
      /\ log \in LogType /\ mem \in SUBSET HeaderType /\ Entries = E /\ E \in SUBSET HeaderType
      /\ ~log.full /\ Chained(log, E) /\ Begins(mem) /\ Begins(E)
      /\ at \in Addresses /\ at >= NodeInfoEntry /\ own \in Sizes
      /\ Guarded(log, at, own, burst)
  BY NowFacts, EntriesFacts DEF LogInv, TypeOK, InterruptLogs, Free
<1>2. burst + 1 \in 0 .. Burst
  BY <1>1, LongestFacts
<1>3. hi \in Nat /\ top \in Nat /\ Known(mem, E, log, size, hi, top)
  BY <1>1, GuardedKnown
<1>4. AllocateResult(u, mem, E, log, size, hi, top)
  <2> HIDE DEF E, hi, top
  <2> QED
    BY <1>1, <1>3, AllocateFacts
<1>5. IF u.at = None THEN log' = u.log /\ mem' = mem ELSE log' = u.log /\ mem' = W
  <2> HIDE DEF u
  <2>1. Set(IF u.at = None THEN u ELSE [u EXCEPT !.mem = Written(@, u.at, size, FALSE)])
    BY <1>1, NowFacts DEF InterruptLogs, u
  <2>2. /\ [u EXCEPT !.mem = Written(@, u.at, size, FALSE)].log = u.log
        /\ [u EXCEPT !.mem = Written(@, u.at, size, FALSE)].mem
             = Written(u.mem, u.at, size, FALSE)
    BY <1>4 DEF AllocateResult, StateType
  <2>3. u.mem = mem
    BY <1>4 DEF AllocateResult
  <2> QED
    BY <2>1, <2>2, <2>3 DEF Set
<1>6. Entries' = Written(mem', at, own, FALSE)
  BY <1>1 DEF Entries
<1> HIDE DEF u
<1>7. hi <= log.next /\ (log.next <= log.oldest => top <= log.softEnd)
  <2> HIDE DEF E, hi, top
  <2>1. log.next \in Nat /\ log.oldest \in Nat /\ log.softEnd \in Nat
    BY <1>1, LongestFacts DEF LogType, Addresses
  <2> QED
    BY <1>3, <2>1 DEF Known
<1>8. CASE u.at = None
  <2>1. Stops(u, log) /\ mem' = mem /\ log' = u.log
    <3>1. ~GrowsAtEnd(u, log, E, size, hi) /\ ~Wraps(u, log, E, size, hi)
          /\ ~GrowsBefore(u, log, E, size, top)
      BY <1>1, <1>8, NoAddress DEF GrowsAtEnd, GrowsBefore, Wraps, LogType
    <3> HIDE DEF E, hi, top
    <3> QED
      BY <1>4, <1>5, <1>8, <3>1 DEF AllocateResult
  <2>2. Chained(log', Entries')
    BY <1>1, <1>6, <2>1, StopsChained
  <2>3. TypeOK'
    BY <1>1, <1>2, <2>1 DEF LogInv, TypeOK, Stops
  <2>4. Logged(u, size, hi, top)
    <3>1. Entries' = IF u.at = None THEN Entries ELSE Written(Entries, u.at, size, FALSE)
      BY <1>1, <1>6, <1>8, <2>1
    <3>2. ~GrowsAtEnd(u, log, E, size, hi) /\ ~Wraps(u, log, E, size, hi)
      BY <1>1, <1>8, NoAddress DEF GrowsAtEnd, Wraps, LogType
    <3> HIDE DEF E, hi, top
    <3> QED
      BY <1>1, <1>4, <1>7, <2>1, <3>1, <3>2 DEF Logged
  <2>5. EntryLogged
    <3> HIDE DEF hi, top
    <3> QED
      BY <1>3, <2>4 DEF EntryLogged
  <2> QED
    BY <1>1, <2>1, <2>2, <2>3, <2>5 DEF LogInv, Stops
<1>9. CASE u.at # None
  <2>1. log' = u.log /\ mem' = W
    BY <1>5, <1>9
  <2>2. /\ u.at \in Addresses /\ u.at >= NodeInfoEntry
        /\ u.log \in LogType /\ ~u.log.mutex /\ ~u.log.full /\ (~log.empty => ~u.log.empty)
        /\ Chained(u.log, Written(E, u.at, size, FALSE))
    <3> HIDE DEF E, hi, top
    <3> QED
      BY <1>1, <1>3, <1>4, <1>9, <1>7, AllocatedChained
  <2>3. /\ Guarded(u.log, at, own, burst + 1)
        /\ u.at + size <= at \/ at + own <= u.at
        /\ \/ hi < log.next
           \/ ~GrowsAtEnd(u, log, E, size, hi) /\ ~Wraps(u, log, E, size, hi)
    <3> HIDE DEF E
    <3> QED
      BY <1>1, <1>4, <1>9, GuardedKept
  <2>4. Entries' = Written(E, u.at, size, FALSE)
    <3> DEFINE no == FALSE
    <3>1. /\ no \in BOOLEAN /\ size \in Sizes \cup {NodeInfoEntry}
          /\ own \in Sizes \cup {NodeInfoEntry}
      BY <1>1
    <3> HIDE DEF no, at, own
    <3>2. Written(Written(mem, u.at, size, no), at, own, no)
            = Written(Written(mem, at, own, no), u.at, size, no)
      BY <1>1, <2>2, <2>3, <3>1, WrittenCommute
    <3> QED
      BY <1>6, <2>1, <3>2 DEF no
  <2>5. Begins(mem') /\ mem' \in SUBSET HeaderType
    BY <1>1, <2>1, <2>2, BeginsKept, EntryWritten
  <2>6. TypeOK'
    BY <1>1, <1>2, <2>1, <2>2, <2>5 DEF LogInv, TypeOK
  <2>7. Chained(log', Entries') /\ Guarded(log', at, own, burst')
    BY <1>1, <2>1, <2>2, <2>3, <2>4
  <2>8. EntryLogged
    <3> HIDE DEF E, hi, top
    <3>1. Logged(u, size, hi, top)
      BY <1>1, <1>4, <1>9, <1>7, <2>1, <2>3, <2>4 DEF Logged
    <3> QED
      BY <1>3, <3>1 DEF EntryLogged
  <2> HIDE DEF E, W
  <2> QED
    BY <1>1, <2>1, <2>2, <2>5, <2>6, <2>7, <2>8 DEF LogInv
<1> QED
  BY <1>8, <1>9

\* The log and its entries stay as they are.
LogKept ==
    /\ Entries' = Entries
    /\ log'.oldest = log.oldest /\ log'.next = log.next /\ log'.softEnd = log.softEnd
    /\ log'.full <=> log.full

\* The steps, one by one.
LEMMA InterruptStep ==
    ASSUME LogInv, NEW size \in Sizes, InterruptLogs(size)
    PROVE  (~spoilt' => LogInv') /\ (EntryLogged \/ LogKept)
<1>1. CASE Free(log)
  BY <1>1, LogsIdle, LogsGuarded
<1>2. CASE ~Free(log)
  <2>1. log' = log /\ mem' = mem /\ main' = main
    BY <1>2, NowFacts DEF InterruptLogs, Set
  <2>2. Entries' = Entries
    BY <2>1 DEF Entries
  <2>3. burst' \in 0 .. Burst /\ (burst' = burst \/ (burst' = burst + 1 /\ burst \in 0 .. Burst))
    BY LongestFacts DEF LogInv, TypeOK, InterruptLogs
  <2>4. TypeOK'
    BY <2>1, <2>3 DEF LogInv, TypeOK
  <2>5. main.pc = "allocated" => log.full \/ Guarded(log, main.at, main.size, burst')
    <3>1. CASE burst' = burst
      BY <3>1 DEF LogInv
    <3>2. CASE burst' = burst + 1 /\ burst \in 0 .. Burst
      <4> SUFFICES ASSUME main.pc = "allocated", ~log.full
                   PROVE  Guarded(log, main.at, main.size, burst + 1)
        BY <3>2
      <4>1. Guarded(log, main.at, main.size, burst)
        BY DEF LogInv
      <4> QED
        BY <3>2, <4>1, NowFacts, EntriesFacts, GuardedMore
    <3> QED
      BY <2>3, <3>1, <3>2
  <2> QED
    BY <2>1, <2>2, <2>4, <2>5 DEF LogInv, LogKept
<1> QED
  BY <1>1, <1>2

LEMMA MainCheckStep ==
    ASSUME LogInv, NEW size \in Sizes, MainCheck(size)
    PROVE  LogInv' /\ LogKept
<1>1. log' = log /\ mem' = mem /\ burst' = burst /\ main.pc = "idle"
  BY NowFacts DEF MainCheck, Set
<1>2. CASE Free(log)
  <2>1. main' = [pc |-> "checked", size |-> size] /\ ~log.full
    BY <1>2 DEF MainCheck, Free
  <2>2. main' \in MainType /\ main'.pc = "checked"
    BY <2>1 DEF MainType
  <2>3. Entries' = Entries
    BY <1>1, <2>2 DEF Entries
  <2>4. TypeOK'
    BY <1>1, <2>2 DEF LogInv, TypeOK
  <2> QED
    BY <1>1, <2>1, <2>2, <2>3, <2>4 DEF LogInv, LogKept
<1>3. CASE ~Free(log)
  <2>1. main' = main
    BY <1>3 DEF MainCheck
  <2>2. Entries' = Entries /\ TypeOK'
    BY <1>1, <2>1 DEF Entries, TypeOK, LogInv
  <2> QED
    BY <1>1, <2>1, <2>2 DEF LogInv, LogKept
<1> QED
  BY <1>2, <1>3

\* The flags and the mutex are nothing to the chains.
LEMMA ChainedSame ==
    ASSUME NEW l, NEW k, NEW E, Chained(l, E), k.full = l.full, k.next = l.next,
           k.oldest = l.oldest, k.softEnd = l.softEnd
    PROVE  Chained(k, E)
BY DEF Chained

LEMMA MainLockStep ==
    ASSUME LogInv, MainLock
    PROVE  LogInv' /\ LogKept
<1>1. /\ main.pc = "checked" /\ mem' = mem /\ burst' = burst /\ ~log.full
      /\ log' = [log EXCEPT !.mutex = TRUE]
      /\ main' = [pc |-> "locked", size |-> main.size, end |-> log.next + main.size]
  BY DEF MainLock, LogInv
<1>2. main.size \in Sizes /\ log.next + main.size \in Nat
  BY <1>1, MainFacts, NowFacts, LongestFacts DEF LogInv, LogType, Addresses
<1>3. /\ log' \in LogType /\ log'.mutex /\ log'.full = log.full /\ log'.next = log.next
      /\ log'.oldest = log.oldest /\ log'.softEnd = log.softEnd /\ (~log.empty => ~log'.empty)
      /\ ~log'.full
  BY <1>1, NowFacts DEF LogType
<1>4. /\ main' \in MainType /\ main'.pc = "locked" /\ main'.end = log'.next + main'.size
  BY <1>1, <1>2, <1>3 DEF MainType
<1>5. Entries' = Entries
  BY <1>1, <1>4 DEF Entries
<1>6. Chained(log', Entries')
  BY <1>3, <1>5, ChainedSame DEF LogInv
<1>7. TypeOK'
  BY <1>1, <1>3, <1>4 DEF LogInv, TypeOK
<1> QED
  BY <1>1, <1>3, <1>4, <1>5, <1>6, <1>7 DEF LogInv, LogKept

LEMMA MainWriteStep ==
    ASSUME LogInv, MainWrite
    PROVE  LogInv' /\ LogKept
<1>1. /\ main.pc = "allocated" /\ main' = [pc |-> "idle"] /\ burst' = 0 /\ log' = log
      /\ mem' = Entries
  BY DEF MainWrite, Entries
<1>2. main' \in MainType /\ main'.pc = "idle" /\ 0 \in 0 .. Burst
  BY <1>1, LongestFacts DEF MainType
<1>3. Entries' = mem' /\ mem' \in SUBSET HeaderType /\ Begins(mem')
  BY <1>1, <1>2, EntriesFacts DEF Entries
<1>4. TypeOK'
  BY <1>1, <1>2, <1>3 DEF LogInv, TypeOK
<1> QED
  BY <1>1, <1>2, <1>3, <1>4 DEF LogInv, LogKept

LEMMA MainAllocateStep ==
    ASSUME LogInv, MainAllocate
    PROVE  LogInv' /\ EntryLogged
<1> DEFINE size == main.size
           u == Allocate(AsState(log, mem), size, log.next + size)
           top == log.softEnd
<1>1. /\ main.pc = "locked" /\ size \in Sizes /\ burst \in 0 .. Burst
      /\ log \in LogType /\ mem \in SUBSET HeaderType /\ Entries = mem
      /\ ~log.full /\ Chained(log, mem) /\ Begins(mem) /\ main.end = log.next + size
  BY MainFacts, NowFacts, EntriesFacts DEF LogInv, TypeOK, MainAllocate
<1>2. /\ log' = u.log /\ mem' = u.mem
      /\ IF u.at = None
         THEN main' = [pc |-> "idle"] /\ burst' = 0
         ELSE /\ main' = [pc |-> "allocated", size |-> size, at |-> u.at]
              /\ burst' = burst
  BY <1>1, NowFacts DEF MainAllocate, Set
<1> HIDE DEF size
<1>3. PICK hi \in Nat : hi < log.next /\ Known(mem, mem, log, size, hi, top)
  BY <1>1, AllKnown
<1>4. top \in Nat /\ log.next \in Nat
  BY <1>1, LongestFacts DEF LogType, Addresses
<1> HIDE DEF top
<1>5. AllocateResult(u, mem, mem, log, size, hi, top)
  BY <1>1, <1>3, <1>4, AllocateFacts
<1> HIDE DEF u
<1>6. CASE u.at = None
  <2>1. Stops(u, log) /\ mem' = mem /\ log' = u.log
    <3>1. ~GrowsAtEnd(u, log, mem, size, hi) /\ ~Wraps(u, log, mem, size, hi)
          /\ ~GrowsBefore(u, log, mem, size, top)
      BY <1>1, <1>6, NoAddress DEF GrowsAtEnd, GrowsBefore, Wraps, LogType
    <3> QED
      BY <1>2, <1>5, <3>1 DEF AllocateResult
  <2>2. main' \in MainType /\ main'.pc = "idle" /\ 0 \in 0 .. Burst /\ burst' = 0
    BY <1>2, <1>6, LongestFacts DEF MainType
  <2>3. Entries' = mem' /\ Chained(log', mem')
    BY <1>1, <2>1, <2>2, StopsChained DEF Entries
  <2>4. TypeOK'
    BY <1>1, <2>1, <2>2 DEF LogInv, TypeOK, Stops
  <2>5. Logged(u, size, hi, top)
    <3>1. Entries' = IF u.at = None THEN Entries ELSE Written(Entries, u.at, size, FALSE)
      BY <1>1, <1>6, <2>1, <2>3
    <3> QED
      BY <1>1, <1>3, <1>5, <1>4, <2>1, <3>1 DEF Logged, top
  <2>6. EntryLogged
    BY <1>1, <1>3, <1>4, <2>5 DEF EntryLogged
  <2> QED
    BY <1>1, <2>1, <2>2, <2>3, <2>4, <2>6 DEF LogInv, Stops
<1>7. CASE u.at # None
  <2>1. /\ log' = u.log /\ mem' = mem /\ burst' = burst
        /\ main' = [pc |-> "allocated", size |-> size, at |-> u.at]
    BY <1>2, <1>5, <1>7 DEF AllocateResult
  <2>2. /\ u.at \in Addresses /\ u.at >= NodeInfoEntry
        /\ u.log \in LogType /\ ~u.log.mutex /\ ~u.log.full /\ (~log.empty => ~u.log.empty)
        /\ Chained(u.log, Written(mem, u.at, size, FALSE))
        /\ Guarded(u.log, u.at, size, burst)
    <3>1. hi <= log.next /\ (log.next <= log.oldest => top <= log.softEnd)
      BY <1>3, <1>4 DEF top
    <3> QED
      BY <1>1, <1>3, <1>5, <1>7, <1>4, <3>1, AllocatedChained
  <2>3. main' \in MainType /\ main'.pc = "allocated" /\ main'.at = u.at /\ main'.size = size
    BY <1>1, <2>1, <2>2 DEF MainType
  <2>4. Entries' = Written(mem, u.at, size, FALSE)
    BY <2>1, <2>3 DEF Entries
  <2>5. TypeOK'
    BY <1>1, <2>1, <2>2, <2>3 DEF LogInv, TypeOK
  <2>6. Logged(u, size, hi, top)
    <3>1. Entries' = IF u.at = None THEN Entries ELSE Written(Entries, u.at, size, FALSE)
      BY <1>1, <1>7, <2>4
    <3> QED
      BY <1>1, <1>3, <1>5, <1>4, <2>1, <3>1 DEF Logged, top
  <2>7. EntryLogged
    BY <1>1, <1>3, <1>4, <2>6 DEF EntryLogged
  <2> QED
    BY <1>1, <2>1, <2>2, <2>3, <2>4, <2>5, <2>7 DEF LogInv
<1> QED
  BY <1>6, <1>7

LEMMA ConfigStep ==
    ASSUME LogInv, NEW enable \in BOOLEAN, ConfigLogging(enable) \/ ConfigWrap(enable)
    PROVE  LogInv' /\ LogKept
<1>1. /\ mem' = mem /\ main' = main /\ burst' = burst
      /\ log' = [log EXCEPT !.enabled = enable] \/ log' = [log EXCEPT !.wrap = enable]
  BY DEF ConfigLogging, ConfigWrap
<1>2. /\ log' \in LogType /\ log'.mutex = log.mutex /\ log'.full = log.full
      /\ log'.next = log.next /\ log'.oldest = log.oldest /\ log'.softEnd = log.softEnd
      /\ log'.empty = log.empty
  BY <1>1, NowFacts DEF LogType
<1>3. Entries' = Entries /\ Chained(log', Entries')
  BY <1>1, <1>2, ChainedSame DEF Entries, LogInv
<1>4. main.pc = "allocated" => log'.full \/ Guarded(log', main.at, main.size, burst)
  BY <1>2 DEF LogInv, Guarded
<1>5. TypeOK'
  BY <1>1, <1>2 DEF LogInv, TypeOK
<1>6. (log'.mutex <=> log.mutex) /\ (log'.full <=> log.full) /\ (log'.empty <=> log.empty)
  BY <1>2
<1> QED
  BY <1>1, <1>2, <1>3, <1>4, <1>5, <1>6 DEF LogInv, LogKept

\* The log begins anew with its node_info entry.
LEMMA BeginChained ==
    ASSUME NEW E \in SUBSET HeaderType, NEW l, ~l.full, l.next = NodeInfoEntry,
           l.oldest = 0, l.softEnd = MaxAddress
    PROVE  /\ Written(E, 0, NodeInfoEntry, TRUE) \in SUBSET HeaderType
           /\ Begins(Written(E, 0, NodeInfoEntry, TRUE))
           /\ Chained(l, Written(E, 0, NodeInfoEntry, TRUE))
<1> DEFINE yes == TRUE
           new == [at |-> 0, size |-> NodeInfoEntry, info |-> yes]
           W == Written(E, 0, NodeInfoEntry, yes)
<1>1. /\ new \in HeaderType /\ NodeInfoEntry \in Sizes \cup {NodeInfoEntry} /\ 0 \in Addresses
      /\ NodeInfoEntry \in Nat \ {0} /\ NodeInfoEntry <= MaxAddress /\ new.at = 0
      /\ MaxAddress \in Nat
  BY LongestFacts DEF Addresses, HeaderType
<1> HIDE DEF yes, new, W
<1>2. /\ W \in SUBSET HeaderType /\ new \in W
      /\ \A h \in W : h = new \/ (h \in E /\ (h.at < 0 \/ h.at >= 0 + NodeInfoEntry))
  BY <1>1, WrittenFacts DEF W, new
<1>3. {h \in W : h.at < NodeInfoEntry} = {new}
  <2>1. \A h \in E : h.at \in Nat
    BY HeaderFacts
  <2> QED
    BY <1>1, <1>2, <2>1
<1>4. Tiled(W, 0, NodeInfoEntry)
  <2>1. Tiled(E, 0, 0)
    BY DEF Tiled
  <2>2. Tiled(W, 0, 0 + NodeInfoEntry)
    BY <1>1, <2>1, TiledAppend DEF W, new
  <2> QED
    BY <1>1, <2>2
<1>5. Chained(l, W)
  BY <1>1, <1>4 DEF Chained
<1>6. Begins(W)
  BY <1>3 DEF Begins, new, yes
<1> QED
  BY <1>2, <1>5, <1>6 DEF W, yes

\* A reset with logging enabled.
LEMMA ResetStep ==
    ASSUME Shaped, HostReset, log.enabled
    PROVE  LogInv'
<1>1. main.pc = "idle" /\ log.enabled /\ main' = main /\ burst' = burst /\ Set(Reset(Now))
  BY DEF HostReset
<1>2. /\ LogShape(log) /\ mem \in SUBSET HeaderType /\ Now = AsState(log, mem)
      /\ main \in MainType /\ burst \in 0 .. Burst
  BY DEF Shaped, Now, AsState
<1> DEFINE k == [log EXCEPT !.softEnd = MaxAddress, !.oldest = 0, !.next = NodeInfoEntry,
                            !.empty = FALSE, !.full = FALSE, !.mutex = FALSE]
<1>3. log' = k /\ mem' = Written(mem, 0, NodeInfoEntry, TRUE)
  BY <1>1, <1>2 DEF Set, Reset, AsState
<1>4. /\ k \in LogType /\ ~k.full /\ ~k.empty /\ ~k.mutex /\ k.next = NodeInfoEntry
      /\ k.oldest = 0 /\ k.softEnd = MaxAddress
  <2>1. 0 \in Addresses /\ NodeInfoEntry \in Addresses /\ MaxAddress \in Addresses
    BY LongestFacts DEF Addresses
  <2> QED
    BY <1>2, <2>1 DEF LogType, LogShape
<1> HIDE DEF k
<1>5. mem' \in SUBSET HeaderType /\ Begins(mem') /\ Chained(log', mem')
  BY <1>2, <1>3, <1>4, BeginChained
<1>6. Entries' = mem'
  BY <1>1 DEF Entries
<1>7. TypeOK'
  BY <1>1, <1>2, <1>3, <1>4, <1>5 DEF TypeOK
<1> QED
  BY <1>1, <1>3, <1>4, <1>5, <1>6, <1>7 DEF LogInv

\* The log as event_log_init leaves it.
LEMMA EventLogInit ==
    ASSUME Init
    PROVE  LogInv
<1>1. /\ log = [oldest |-> 0, next |-> NodeInfoEntry, softEnd |-> MaxAddress,
                empty |-> FALSE, full |-> FALSE, wrap |-> TRUE, enabled |-> TRUE,
                mutex |-> FALSE]
      /\ mem = {[at |-> 0, size |-> NodeInfoEntry, info |-> TRUE]}
      /\ main = [pc |-> "idle"] /\ burst = 0
  BY DEF Init
<1>2. /\ log \in LogType /\ ~log.full /\ ~log.empty /\ ~log.mutex /\ log.next = NodeInfoEntry
      /\ log.oldest = 0 /\ log.softEnd = MaxAddress
  BY <1>1, LongestFacts DEF LogType, Addresses
<1>3. mem = Written({}, 0, NodeInfoEntry, TRUE)
  BY <1>1 DEF Written
<1>4. {} \in SUBSET HeaderType
  OBVIOUS
<1>5. mem \in SUBSET HeaderType /\ Begins(mem) /\ Chained(log, mem)
  BY <1>2, <1>3, <1>4, BeginChained
<1>6. main \in MainType /\ main.pc = "idle" /\ burst \in 0 .. Burst
  BY <1>1, LongestFacts DEF MainType
<1>7. Entries = mem
  BY <1>6 DEF Entries
<1>8. TypeOK
  BY <1>2, <1>5, <1>6 DEF TypeOK
<1> QED
  BY <1>2, <1>5, <1>6, <1>7, <1>8 DEF LogInv

\* LogInv is kept until an interrupt fills the log after the test of log_full or the
\* host resets it with logging disabled.
LEMMA EventLogStep ==
    ASSUME LogInv, [Next]_vars, ~HostReset
    PROVE  (~spoilt' => LogInv') /\ (EntryLogged \/ LogKept)
<1>1. CASE UNCHANGED vars
  <2>1. log' = log /\ mem' = mem /\ main' = main /\ burst' = burst
    BY <1>1 DEF vars
  <2>2. Entries' = Entries /\ TypeOK'
    BY <2>1 DEF Entries, LogInv, TypeOK
  <2> QED
    BY <2>1, <2>2 DEF LogInv, LogKept
<1>2. CASE \E size \in Sizes : MainCheck(size) \/ InterruptLogs(size)
  BY <1>2, MainCheckStep, InterruptStep
<1>3. CASE MainLock
  BY <1>3, MainLockStep
<1>4. CASE MainAllocate
  BY <1>4, MainAllocateStep
<1>5. CASE MainWrite
  BY <1>5, MainWriteStep
<1>6. CASE \E enable \in BOOLEAN : ConfigLogging(enable) \/ ConfigWrap(enable)
  BY <1>6, ConfigStep
<1> QED
  BY <1>1, <1>2, <1>3, <1>4, <1>5, <1>6 DEF Next

-----------------------------------------------------------------------------
(* The types when the log has been spoilt.                                 *)

StateShape(t) ==
    /\ t \in [log : {t.log}, mem : SUBSET HeaderType, at : {t.at}]
    /\ LogShape(t.log)

\* A log that is as it should be has the shape.
LEMMA ShapedFrom ==
    ASSUME TypeOK, spoilt \in BOOLEAN
    PROVE  Shaped
<1>1. log \in LogType /\ mem \in SUBSET HeaderType
  BY DEF TypeOK
<1>2. LogShape(log)
  BY <1>1 DEF LogShape, LogType
<1> QED
  BY <1>1, <1>2 DEF Shaped, TypeOK

LEMMA NowShape ==
    ASSUME Shaped
    PROVE  /\ StateShape(Now) /\ StateShape(NotEmpty(Now))
           /\ Now.at = None /\ NotEmpty(Now).at = None /\ Now.log = log /\ Now.mem = mem
<1>1. Now = [log |-> log, mem |-> mem, at |-> None]
  BY DEF Now
<1>2. LogShape(log) /\ mem \in SUBSET HeaderType
  BY DEF Shaped
<1>3. LogShape([log EXCEPT !.empty = FALSE])
  BY <1>2 DEF LogShape
<1> DEFINE k == [log EXCEPT !.empty = FALSE]
<1>4. NotEmpty(Now) = [Now EXCEPT !.log = k]
  BY <1>1 DEF NotEmpty
<1> HIDE DEF k
<1>5. NotEmpty(Now) = [log |-> k, mem |-> mem, at |-> None]
  BY <1>1, <1>4
<1>6. LogShape(k)
  BY <1>3 DEF k
<1> QED
  BY <1>1, <1>2, <1>5, <1>6 DEF StateShape

\* An entry is written to an address of the log.
LEMMA WrittenShape ==
    ASSUME NEW m \in SUBSET HeaderType, NEW a \in Addresses, NEW size \in Sizes
    PROVE  Written(m, a, size, FALSE) \in SUBSET HeaderType
<1> DEFINE no == FALSE
           new == [at |-> a, size |-> size, info |-> no]
<1>1. no \in {FALSE}
  OBVIOUS
<1> HIDE DEF no
<1>2. new \in HeaderType
  BY <1>1 DEF HeaderType
<1>3. Written(m, a, size, no) \in SUBSET HeaderType
  BY <1>2, WrittenFacts DEF new
<1> QED
  BY <1>3 DEF no

LEMMA ResetShape ==
    ASSUME NEW t, StateShape(t)
    PROVE  StateShape(Reset(t)) /\ Reset(t).at = t.at
<1> DEFINE k == [t.log EXCEPT !.softEnd = MaxAddress, !.oldest = 0,
                !.next = IF t.log.enabled THEN NodeInfoEntry ELSE 0,
                !.empty = ~t.log.enabled, !.full = FALSE, !.mutex = FALSE]
           W == Written(t.mem, 0, NodeInfoEntry, TRUE)
           m == IF t.log.enabled THEN W ELSE t.mem
<1>1. 0 \in Addresses /\ NodeInfoEntry \in Addresses /\ MaxAddress \in Addresses
  BY LongestFacts DEF Addresses
<1>2. LogShape(k)
  BY <1>1 DEF StateShape, LogShape
<1>3. W \in SUBSET HeaderType
  <2> DEFINE yes == TRUE
             new == [at |-> 0, size |-> NodeInfoEntry, info |-> yes]
  <2>1. yes \in {TRUE}
    OBVIOUS
  <2> HIDE DEF yes
  <2>2. new \in HeaderType
    BY <2>1 DEF HeaderType
  <2>3. Written(t.mem, 0, NodeInfoEntry, yes) \in SUBSET HeaderType
    BY <1>1, <2>2, WrittenFacts DEF new, StateShape
  <2> QED
    BY <2>3 DEF yes
<1>4. Reset(t) = [log |-> k, mem |-> m, at |-> t.at]
  <2>1. t = [log |-> t.log, mem |-> t.mem, at |-> t.at]
    BY DEF StateShape
  <2> DEFINE u == [t EXCEPT !.log = k]
  <2>2. Reset(t) = IF t.log.enabled THEN [u EXCEPT !.mem = Written(u.mem, 0, NodeInfoEntry, TRUE)]
                   ELSE u
    BY DEF Reset
  <2> HIDE DEF k
  <2>3. u = [log |-> k, mem |-> t.mem, at |-> t.at]
    BY <2>1
  <2> HIDE DEF u
  <2> QED
    BY <2>2, <2>3
<1> HIDE DEF k, W
<1>5. m \in SUBSET HeaderType
  BY <1>3 DEF StateShape
<1> HIDE DEF m
<1> QED
  BY <1>2, <1>4, <1>5 DEF StateShape

LEMMA MoveShape ==
    ASSUME NEW t, StateShape(t), NEW end
    PROVE  StateShape(MoveOldest(t, end)) /\ MoveOldest(t, end).at = t.at
<1> DEFINE past == Boundary(t.mem, end)[t.log.oldest]
<1>1. MoveOldest(t, end) = IF past = Garbage THEN Reset(t) ELSE [t EXCEPT !.log.oldest = past]
  BY DEF MoveOldest
<1> HIDE DEF past
<1>2. StateShape([t EXCEPT !.log.oldest = past]) /\ [t EXCEPT !.log.oldest = past].at = t.at
  <2> DEFINE k == [t.log EXCEPT !.oldest = past]
  <2>1. LogShape(k)
    BY DEF StateShape, LogShape
  <2>2. [t EXCEPT !.log.oldest = past] = [log |-> k, mem |-> t.mem, at |-> t.at]
    BY DEF StateShape
  <2> HIDE DEF k
  <2> QED
    BY <2>1, <2>2 DEF StateShape
<1> QED
  BY <1>1, <1>2, ResetShape

LEMMA RoomShape ==
    ASSUME NEW t, StateShape(t), NEW end, NEW size
    PROVE  StateShape(Room(t, end, size)) /\ Room(t, end, size).at = t.at
<1> DEFINE k == [t.log EXCEPT !.softEnd = MaxAddress, !.oldest = NodeInfoEntry]
           v == [t EXCEPT !.log = k]
<1>1. StateShape(v) /\ v.at = t.at
  <2>1. MaxAddress \in Addresses
    BY LongestFacts DEF Addresses
  <2>2. LogShape(k)
    BY <2>1 DEF StateShape, LogShape
  <2>3. v = [log |-> k, mem |-> t.mem, at |-> t.at]
    BY DEF StateShape
  <2> HIDE DEF k, v
  <2> QED
    BY <2>2, <2>3 DEF StateShape
<1>2. IncrementOldest(t, end, size) = IF end >= t.log.softEnd
                                      THEN MoveOldest(v, NodeInfoEntry + size)
                                      ELSE MoveOldest(t, end)
  BY DEF IncrementOldest
<1> HIDE DEF v
<1>3. /\ StateShape(IncrementOldest(t, end, size))
      /\ IncrementOldest(t, end, size).at = t.at
  BY <1>1, <1>2, MoveShape
<1> QED
  BY <1>3 DEF Room

\* Where an allocation leaves the next entry and the end, in each of its three ways.
LEMMA PlaceShape ==
    ASSUME NEW t, StateShape(t), NEW end \in Nat, NEW first \in Addresses
    PROVE  /\ StateShape(FromStart(t, first)) /\ FromStart(t, first).at \in Addresses
           /\ StateShape(Stopped(t)) /\ Stopped(t).at = t.at
           /\ end <= t.log.softEnd => StateShape(InPlace(t, end)) /\ InPlace(t, end).at \in Addresses
<1> DEFINE a == [t.log EXCEPT !.softEnd = t.log.next, !.next = first]
           b == [t.log EXCEPT !.full = TRUE, !.softEnd = t.log.next, !.oldest = 0, !.next = 0]
           c == [t.log EXCEPT !.next = end]
<1>1. 0 \in Addresses /\ NodeInfoEntry \in Addresses /\ Addresses = 0 .. Size /\ Size \in Nat
  BY LongestFacts DEF Addresses
<1>2. LogShape(a) /\ LogShape(b)
  BY <1>1 DEF StateShape, LogShape
<1>3. end <= t.log.softEnd => LogShape(c)
  <2> SUFFICES ASSUME end <= t.log.softEnd PROVE LogShape(c)
    OBVIOUS
  <2>1. t.log.softEnd \in Addresses
    BY DEF StateShape, LogShape
  <2>2. end \in Addresses
    BY <1>1, <2>1
  <2> QED
    BY <2>2 DEF StateShape, LogShape
<1>4. /\ FromStart(t, first) = [log |-> a, mem |-> t.mem, at |-> NodeInfoEntry]
      /\ Stopped(t) = [log |-> b, mem |-> t.mem, at |-> t.at]
      /\ InPlace(t, end) = [log |-> c, mem |-> t.mem, at |-> t.log.next]
  <2>1. t = [log |-> t.log, mem |-> t.mem, at |-> t.at]
    BY DEF StateShape
  <2>2. /\ FromStart(t, first) = [t EXCEPT !.log = a, !.at = NodeInfoEntry]
        /\ Stopped(t) = [t EXCEPT !.log = b]
        /\ InPlace(t, end) = [t EXCEPT !.log = c, !.at = t.log.next]
    BY DEF FromStart, Stopped, InPlace
  <2> HIDE DEF a, b, c
  <2> QED
    BY <2>1, <2>2
<1>5. t.log.next \in Addresses /\ t.mem \in SUBSET HeaderType
  BY DEF StateShape, LogShape
<1> HIDE DEF a, b, c
<1> QED
  BY <1>1, <1>2, <1>3, <1>4, <1>5 DEF StateShape

LEMMA AllocateTypes ==
    ASSUME NEW t, StateShape(t), t.at = None, NEW end \in Nat, NEW size \in Sizes
    PROVE  /\ StateShape(Allocate(t, size, end))
           /\ Allocate(t, size, end).at \in Addresses \cup {None}
<1> DEFINE first == NodeInfoEntry + size
           wrapped == Room(t, end, size)
           early == Room(t, first, size)
           u == IF NotWrapped(t.log)
                THEN IF end <= t.log.softEnd THEN InPlace(t, end)
                     ELSE IF t.log.wrap THEN FromStart(early, first)
                     ELSE Stopped(t)
                ELSE IF end <= wrapped.log.softEnd THEN InPlace(wrapped, end)
                     ELSE IF t.log.wrap THEN FromStart(wrapped, first)
                     ELSE Stopped(wrapped)
<1>1. Allocate(t, size, end) = [u EXCEPT !.log.mutex = FALSE]
  BY DEF Allocate
<1>2. first \in Addresses
  BY LongestFacts DEF Addresses
<1>3. StateShape(wrapped) /\ wrapped.at = None /\ StateShape(early) /\ early.at = None
  BY RoomShape
<1> HIDE DEF first, wrapped, early
<1>4. StateShape(u) /\ u.at \in Addresses \cup {None}
  BY <1>2, <1>3, PlaceShape
<1> HIDE DEF u
<1> DEFINE k == [u.log EXCEPT !.mutex = FALSE]
<1>5. LogShape(k)
  BY <1>4 DEF StateShape, LogShape
<1>6. [u EXCEPT !.log.mutex = FALSE] = [u EXCEPT !.log = k]
  BY <1>4 DEF StateShape
<1> HIDE DEF k
<1>7. [u EXCEPT !.log = k] = [log |-> k, mem |-> u.mem, at |-> u.at]
  BY <1>4 DEF StateShape
<1> QED
  BY <1>1, <1>4, <1>5, <1>6, <1>7 DEF StateShape

LEMMA ShapedStep ==
    ASSUME Shaped, [Next]_vars
    PROVE  Shaped'
<1>1. CASE UNCHANGED vars
  BY <1>1 DEF vars, Shaped
<1>2. ASSUME NEW size \in Sizes, MainCheck(size)
      PROVE  Shaped'
  <2>1. LogShape(log') /\ mem' \in SUBSET HeaderType
    BY <1>2, NowShape DEF MainCheck, Set, StateShape
  <2>2. main' \in MainType
    BY <1>2 DEF MainCheck, MainType, Shaped
  <2> QED
    BY <1>2, <2>1, <2>2 DEF MainCheck, Shaped
<1>3. ASSUME NEW size \in Sizes, InterruptLogs(size)
      PROVE  Shaped'
  <2> DEFINE end == log.next + size
             t == Allocate(NotEmpty(Now), size, end)
  <2>1. end \in Nat
    BY LongestFacts DEF Shaped, LogShape, Addresses
  <2>2. /\ Set(IF ~Free(log) THEN NotEmpty(Now)
               ELSE IF t.at = None THEN t
               ELSE [t EXCEPT !.mem = Written(@, t.at, size, FALSE)])
        /\ main' = main
    BY <1>3 DEF InterruptLogs
  <2> HIDE DEF end
  <2>3. StateShape(t) /\ t.at \in Addresses \cup {None} /\ StateShape(NotEmpty(Now))
    BY <2>1, NowShape, AllocateTypes
  <2> HIDE DEF t
  <2>4. t.at # None => StateShape([t EXCEPT !.mem = Written(@, t.at, size, FALSE)])
    <3> SUFFICES ASSUME t.at # None
                 PROVE  StateShape([t EXCEPT !.mem = Written(t.mem, t.at, size, FALSE)])
      OBVIOUS
    <3> DEFINE W == Written(t.mem, t.at, size, FALSE)
    <3>1. W \in SUBSET HeaderType
      BY <2>3, WrittenShape DEF StateShape
    <3>2. [t EXCEPT !.mem = W] = [log |-> t.log, mem |-> W, at |-> t.at]
      <4> HIDE DEF W
      <4> QED
        BY <2>3 DEF StateShape
    <3> HIDE DEF W
    <3>3. StateShape([t EXCEPT !.mem = W])
      BY <2>3, <3>1, <3>2 DEF StateShape
    <3> QED
      BY <3>3 DEF W
  <2>5. LogShape(log') /\ mem' \in SUBSET HeaderType
    BY <2>2, <2>3, <2>4 DEF Set, StateShape
  <2>6. burst' \in 0 .. Burst /\ spoilt' \in BOOLEAN
    BY <1>3, LongestFacts DEF InterruptLogs, Shaped
  <2> QED
    BY <2>2, <2>5, <2>6 DEF Shaped
<1>4. CASE MainLock
  <2>1. LogShape(log')
    BY <1>4 DEF MainLock, Shaped, LogShape
  <2>2. main.size \in Sizes /\ log.next + main.size \in Nat
    BY <1>4, LongestFacts DEF MainLock, Shaped, MainType, LogShape, Addresses
  <2>3. main' \in MainType
    BY <1>4, <2>2 DEF MainLock, MainType
  <2> QED
    BY <1>4, <2>1, <2>3 DEF MainLock, Shaped
<1>5. CASE MainAllocate
  <2> DEFINE t == Allocate(Now, main.size, main.end)
  <2>1. main.size \in Sizes /\ main.end \in Nat
    BY <1>5 DEF MainAllocate, Shaped, MainType
  <2>2. StateShape(t) /\ t.at \in Addresses \cup {None}
    BY <2>1, NowShape, AllocateTypes
  <2>3. /\ Set(t) /\ spoilt' = spoilt
        /\ IF t.at = None
           THEN main' = [pc |-> "idle"] /\ burst' = 0
           ELSE main' = [pc |-> "allocated", size |-> main.size, at |-> t.at] /\ burst' = burst
    BY <1>5 DEF MainAllocate
  <2> HIDE DEF t
  <2>4. LogShape(log') /\ mem' \in SUBSET HeaderType
    BY <2>2, <2>3 DEF Set, StateShape
  <2>5. main' \in MainType /\ burst' \in 0 .. Burst
    BY <2>1, <2>2, <2>3, LongestFacts DEF MainType, Shaped
  <2> QED
    BY <2>3, <2>4, <2>5 DEF Shaped
<1>6. CASE MainWrite
  <2>1. main.at \in Addresses /\ main.size \in Sizes
    BY <1>6 DEF MainWrite, Shaped, MainType
  <2>2. mem' \in SUBSET HeaderType
    BY <1>6, <2>1, WrittenShape DEF MainWrite, Shaped
  <2>3. main' \in MainType /\ burst' \in 0 .. Burst
    BY <1>6, LongestFacts DEF MainWrite, MainType
  <2> QED
    BY <1>6, <2>2, <2>3 DEF MainWrite, Shaped
<1>7. ASSUME NEW enable \in BOOLEAN, ConfigLogging(enable) \/ ConfigWrap(enable)
      PROVE  Shaped'
  <2>1. LogShape(log')
    BY <1>7 DEF ConfigLogging, ConfigWrap, Shaped, LogShape
  <2> QED
    BY <1>7, <2>1 DEF ConfigLogging, ConfigWrap, Shaped
<1>8. CASE HostReset
  <2>1. StateShape(Reset(Now)) /\ Set(Reset(Now)) /\ main' = main /\ burst' = burst
    BY <1>8, NowShape, ResetShape DEF HostReset
  <2>2. spoilt' \in BOOLEAN
    BY <1>8 DEF HostReset, Shaped, LogShape
  <2> QED
    BY <2>1, <2>2 DEF Set, StateShape, Shaped
<1> QED
  BY <1>1, <1>2, <1>3, <1>4, <1>5, <1>6, <1>7, <1>8 DEF Next

\* Only a reset makes a log that has been spoilt good again.
LEMMA SpoiltStep ==
    ASSUME Shaped, [Next]_vars, ~HostReset, ~spoilt'
    PROVE  ~spoilt
  BY DEF Shaped, Next, vars, MainCheck, InterruptLogs, MainLock, MainAllocate, MainWrite,
     ConfigLogging, ConfigWrap

LEMMA InvariantStep ==
    ASSUME EventLogInv, [Next]_vars
    PROVE  EventLogInv'
<1>1. Shaped /\ Shaped'
  BY ShapedStep DEF EventLogInv
<1>2. ASSUME ~spoilt'
      PROVE  LogInv'
  <2>1. CASE HostReset
    <3>1. log.enabled
      BY <1>1, <1>2, <2>1 DEF HostReset, Shaped, LogShape
    <3> QED
      BY <1>1, <2>1, <3>1, ResetStep
  <2>2. CASE ~HostReset
    BY <1>1, <1>2, <2>2, SpoiltStep, EventLogStep DEF EventLogInv
  <2> QED
    BY <2>1, <2>2
<1> QED
  BY <1>1, <1>2 DEF EventLogInv

-----------------------------------------------------------------------------
(* What the invariant says of the log as its readers see it.               *)

\* The node_info entry is an entry of every chain from the start.
LEMMA FirstTiled ==
    ASSUME NEW E \in SUBSET HeaderType, NEW hi \in Nat, NodeInfoEntry <= hi,
           Begins(E), Tiled(E, 0, hi)
    PROVE  Starts(E, NodeInfoEntry, hi) /\ Tiled(E, 0, NodeInfoEntry)
<1> DEFINE h == [at |-> 0, size |-> NodeInfoEntry, info |-> TRUE]
<1>1. h \in E /\ NodeInfoEntry \in Nat \ {0}
  BY LongestFacts DEF Begins
<1>2. h.at = 0 /\ h.size = NodeInfoEntry
  OBVIOUS
<1> HIDE DEF h
<1>3. Followed(E, h, hi)
  BY <1>1, <1>2 DEF Tiled
<1>4. Starts(E, NodeInfoEntry, hi)
  BY <1>1, <1>2, <1>3 DEF Followed, Starts
<1> QED
  BY <1>1, <1>4, TiledCut

\* The invariant implies that the log is readable.
LEMMA Readable ==
    ASSUME LogInv
    PROVE  /\ TypeOK
           /\ \A s \in Segments(log) :
                 s[1] <= s[2] /\ s[2] <= MaxAddress /\ Tiled(Entries, s[1], s[2])
           /\ \A s, r \in Segments(log) : s[1] < r[1] => s[2] <= r[1]
           /\ NodeInfoFirst
<1>1. /\ log \in LogType /\ Entries \in SUBSET HeaderType /\ Begins(Entries)
      /\ Chained(log, Entries) /\ TypeOK
  BY NowFacts, EntriesFacts DEF LogInv
<1>2. /\ NodeInfoEntry \in Nat \ {0} /\ MaxAddress \in Nat /\ log.next \in Nat
      /\ log.softEnd \in Nat /\ log.oldest \in Nat /\ NodeInfoEntry <= MaxAddress
  BY <1>1, LongestFacts DEF LogType, Addresses
<1>3. NodeInfoFirst
  <2>1. [at |-> 0, size |-> NodeInfoEntry, info |-> TRUE] \in mem
    BY DEF LogInv, Begins
  <2> QED
    BY <2>1 DEF NodeInfoFirst
<1>4. ~log.full => Tiled(Entries, 0, NodeInfoEntry)
  BY <1>1, <1>2, FirstTiled DEF Chained
<1>5. \A s \in Segments(log) :
          s[1] <= s[2] /\ s[2] <= MaxAddress /\ Tiled(Entries, s[1], s[2])
  <2>1. CASE log.full
    BY <1>1, <1>2, <2>1 DEF Chained, Segments
  <2>2. CASE ~log.full /\ log.oldest < log.next
    BY <1>1, <1>2, <1>4, <2>2 DEF Chained, Segments
  <2>3. CASE ~log.full /\ log.next <= log.oldest
    BY <1>1, <1>2, <2>3 DEF Chained, Segments
  <2> QED
    BY <1>2, <2>1, <2>2, <2>3
<1>6. \A s, r \in Segments(log) : s[1] < r[1] => s[2] <= r[1]
  BY <1>1, <1>2 DEF Chained, Segments
<1> QED
  BY <1>1, <1>3, <1>5, <1>6

\* Where the entries of the log are, the first one aside.
Within(l, a) ==
    \/ l.full /\ a < l.softEnd
    \/ ~l.full /\ l.oldest < l.next /\ l.oldest <= a /\ a < l.next
    \/ ~l.full /\ l.next <= l.oldest /\ (a < l.next \/ (l.oldest <= a /\ a < l.softEnd))

\* Live in terms of the pointers.
LEMMA LiveFacts ==
    ASSUME NEW E \in SUBSET HeaderType, NEW l \in LogType, Chained(l, E), Begins(E)
    PROVE  \A h \in HeaderType :
              h \in Live(l, E) <=> h \in E /\ h.at >= NodeInfoEntry /\ Within(l, h.at)
<1> SUFFICES ASSUME NEW h \in HeaderType, h \in E
             PROVE  h \in Live(l, E) <=> h.at >= NodeInfoEntry /\ Within(l, h.at)
  BY DEF Live
<1>1. /\ NodeInfoEntry \in Nat \ {0} /\ MaxAddress \in Nat /\ l.next \in Nat
      /\ l.softEnd \in Nat /\ l.oldest \in Nat /\ h.at \in Nat
  BY LongestFacts, HeaderFacts DEF LogType, Addresses
<1>2. h.at # 0 <=> h.at >= NodeInfoEntry
  <2>1. h.at < NodeInfoEntry => h.at = 0
    BY DEF Begins
  <2> QED
    BY <1>1, <2>1
<1>3. h.at >= NodeInfoEntry => ((\E s \in Segments(l) : h.at \in s[1] .. (s[2] - 1)) <=> Within(l, h.at))
  <2> DEFINE In(s) == h.at \in s[1] .. (s[2] - 1)
  <2>1. /\ \A b \in Nat : In(<<0, b>>) <=> h.at < b
        /\ \A a, b \in Nat : In(<<a, b>>) <=> a <= h.at /\ h.at < b
    BY <1>1
  <2> HIDE DEF In
  <2>2. \A x, y : /\ (\E s \in {x} : In(s)) <=> In(x)
                 /\ (\E s \in {x, y} : In(s)) <=> In(x) \/ In(y)
    OBVIOUS
  <2>3. CASE l.full
    <3>1. Segments(l) = {<<0, l.softEnd>>}
      BY <2>3 DEF Segments
    <3> QED
      BY <1>1, <2>1, <2>2, <2>3, <3>1 DEF In, Within
  <2>4. CASE ~l.full /\ l.oldest < l.next /\ l.oldest = 0
    <3>1. Segments(l) = {<<0, l.next>>}
      BY <2>4 DEF Segments
    <3> QED
      BY <1>1, <2>1, <2>2, <2>4, <3>1 DEF In, Within
  <2>5. CASE ~l.full /\ l.oldest < l.next /\ l.oldest # 0
    <3>1. Segments(l) = {<<0, NodeInfoEntry>>, <<l.oldest, l.next>>}
      BY <1>1, <2>5 DEF Segments
    <3>2. (\E s \in Segments(l) : In(s)) <=> In(<<0, NodeInfoEntry>>) \/ In(<<l.oldest, l.next>>)
      BY <2>2, <3>1
    <3> QED
      BY <1>1, <2>1, <2>5, <3>2 DEF In, Within
  <2>6. CASE ~l.full /\ l.next <= l.oldest
    <3>1. Segments(l) = {<<0, l.next>>, <<l.oldest, l.softEnd>>}
      BY <1>1, <2>6 DEF Chained, Segments
    <3>2. (\E s \in Segments(l) : In(s)) <=> In(<<0, l.next>>) \/ In(<<l.oldest, l.softEnd>>)
      BY <2>2, <3>1
    <3> QED
      BY <1>1, <2>1, <2>6, <3>2 DEF In, Within
  <2> QED
    BY <1>1, <2>3, <2>4, <2>5, <2>6
<1> QED
  BY <1>2, <1>3 DEF Live

-----------------------------------------------------------------------------
(* What an allocation discards.                                            *)

\* The entries that stay in memory and the one that is written.
LEMMA EntryFacts ==
    ASSUME NEW E \in SUBSET HeaderType, NEW a \in Addresses, NEW size \in Sizes
    PROVE  /\ \A h \in Written(E, a, size, FALSE) :
                (h.at = a /\ h.size = size) \/ (h \in E /\ (h.at < a \/ h.at >= a + size))
           /\ \A h \in E :
                h.at < a \/ h.at >= a + size => h \in Written(E, a, size, FALSE)
<1> DEFINE no == FALSE
           new == [at |-> a, size |-> size, info |-> no]
<1>1. new \in HeaderType /\ size \in Sizes \cup {NodeInfoEntry} /\ new.at = a /\ new.size = size
  BY DEF HeaderType
<1> HIDE DEF no, new
<1>2. /\ \A h \in Written(E, a, size, no) : h = new \/ (h \in E /\ (h.at < a \/ h.at >= a + size))
      /\ \A h \in E : h.at < a \/ h.at >= a + size => h \in Written(E, a, size, no)
  BY <1>1, WrittenFacts DEF new
<1> QED
  BY <1>1, <1>2 DEF no

\* An allocation discards the oldest entries, and not all.
LEMMA OldestGone ==
    ASSUME NEW E \in SUBSET HeaderType, NEW m, NEW l \in LogType,
           NEW size \in Sizes, NEW hi \in Nat, NEW top \in Nat, NEW u,
           ~l.full, Chained(l, E), Begins(E), hi <= l.next, l.next <= l.oldest => top <= l.softEnd,
           AllocateResult(u, m, E, l, size, hi, top),
           hi < l.next \/ (~GrowsAtEnd(u, l, E, size, hi) /\ ~Wraps(u, l, E, size, hi))
    PROVE  DiscardsOldest(l, E, u.log, IF u.at = None THEN E ELSE Written(E, u.at, size, FALSE))
<1> DEFINE F == IF u.at = None THEN E ELSE Written(E, u.at, size, FALSE)
           k == u.log
<1>1. /\ NodeInfoEntry \in Nat \ {0} /\ size \in Nat \ {0} /\ Size \in Nat
      /\ l.next \in Nat /\ l.oldest \in Nat /\ l.softEnd \in Nat /\ Addresses \subseteq Nat
      /\ \A h \in HeaderType : h.at \in Nat /\ h.at <= Size /\ h.size \in Nat \ {0}
  BY LongestFacts, HeaderFacts DEF LogType, Addresses
<1>2. /\ l.next >= NodeInfoEntry /\ Tiled(E, 0, l.next)
      /\ l.next <= l.oldest => l.next > NodeInfoEntry /\ l.oldest <= l.softEnd
      /\ l.oldest < l.next => Tiled(E, l.oldest, l.next)
  BY <1>1 DEF Chained
<1>3. /\ F \in SUBSET HeaderType /\ k \in LogType /\ Chained(k, F) /\ Begins(F)
      /\ u.at # None => u.at \in Addresses /\ u.at >= NodeInfoEntry
  <2>1. CASE u.at = None
    <3>1. Stops(u, l)
      BY <2>1, NoAddress DEF AllocateResult, GrowsAtEnd, GrowsBefore, Wraps, LogType
    <3>2. Chained(k, E)
      BY <3>1, StopsChained
    <3> QED
      BY <2>1, <3>1, <3>2 DEF Stops
  <2>2. CASE u.at # None
    <3>1. 0 \in 0 .. Burst
      BY LongestFacts
    <3>2. /\ u.at \in Addresses /\ u.at >= NodeInfoEntry /\ k \in LogType
          /\ Chained(k, Written(E, u.at, size, FALSE))
      BY <2>2, <3>1, AllocatedChained
    <3> QED
      BY <2>2, <3>2, BeginsKept, EntryWritten
  <2> QED
    BY <2>1, <2>2
<1>4. /\ u.at = None => F = E
      /\ u.at # None =>
            /\ \A h \in F : (h.at = u.at /\ h.size = size)
                            \/ (h \in E /\ (h.at < u.at \/ h.at >= u.at + size))
            /\ \A h \in E : h.at < u.at \/ h.at >= u.at + size => h \in F
  BY <1>3, EntryFacts
<1> HIDE DEF F, k
<1>5. \A h \in HeaderType :
          /\ h \in Live(l, E) <=> h \in E /\ h.at >= NodeInfoEntry /\ Within(l, h.at)
          /\ h \in Live(k, F) <=> h \in F /\ h.at >= NodeInfoEntry /\ Within(k, h.at)
  BY <1>3, LiveFacts
<1>6. Live(l, E) \subseteq HeaderType
  BY DEF Live
<1> DEFINE gone == Live(l, E) \ Live(k, F)
           kept == {h \in Live(l, E) \cap Live(k, F) : h.at + h.size # k.next}
\* The entry before the next one, and the first one after the node_info entry.
<1>7. PICK x \in E :
          /\ x.at < l.next /\ x.at + x.size = l.next
          /\ \A lo \in Nat : lo < l.next /\ Tiled(E, lo, l.next) => lo <= x.at
  BY <1>1, <1>2, LastEntry
<1>8. ASSUME l.next <= l.oldest
      PROVE  \E y \in E : y.at = NodeInfoEntry /\ y.at + y.size <= l.next
  <2>1. Starts(E, NodeInfoEntry, l.next)
    BY <1>1, <1>2, FirstTiled
  <2>2. PICK y \in E : y.at = NodeInfoEntry
    BY <1>1, <1>2, <1>8, <2>1 DEF Starts
  <2>3. Followed(E, y, l.next)
    BY <1>1, <1>2, <1>8, <2>2 DEF Tiled
  <2> QED
    BY <2>2, <2>3 DEF Followed
<1>9. CASE GrowsAtEnd(u, l, E, size, hi) /\ l.oldest < l.next
  <2>1. /\ u.at = l.next /\ k.oldest = l.oldest /\ k.next = l.next + size /\ ~k.full
    BY <1>1, <1>9 DEF GrowsAtEnd, Fields, k
  <2>2. u.at # None
    BY <1>1, <2>1 DEF None
  <2>3. \A h \in HeaderType : h \in Live(l, E) => h \in Live(k, F)
    BY <1>1, <1>4, <1>5, <1>9, <2>1, <2>2 DEF Within
  <2> QED
    BY <1>6, <2>3 DEF DiscardsOldest, F, k
<1>10. CASE GrowsAtEnd(u, l, E, size, hi) /\ l.next <= l.oldest
  <2>1. PICK o \in Nat :
            /\ u.at = l.next /\ k.oldest = o /\ k.next = l.next + size /\ ~k.full
            /\ o \in NodeInfoEntry .. hi /\ Tiled(E, o, l.next)
    BY <1>1, <1>10 DEF GrowsAtEnd, Fields, k
  <2>2. u.at # None /\ o < l.next
    BY <1>1, <1>10, <2>1 DEF None
  <2>3. \A h \in HeaderType : h \in kept => h.at < l.next /\ o <= h.at
    BY <1>1, <1>4, <1>5, <1>10, <2>1, <2>2 DEF Within
  <2>4. \A g \in HeaderType : g \in gone => g.at < o \/ g.at >= l.next
    BY <1>1, <1>4, <1>5, <1>10, <2>1, <2>2 DEF Within
  <2>5. \A g \in gone, h \in kept : Order(l, g) < Order(l, h)
    BY <1>1, <1>6, <1>10, <2>1, <2>2, <2>3, <2>4 DEF Order
  <2>6. x \in kept
    BY <1>1, <1>4, <1>5, <1>7, <1>10, <2>1, <2>2 DEF Within
  <2> QED
    BY <2>5, <2>6 DEF DiscardsOldest, F, k
<1>11. CASE GrowsBefore(u, l, E, size, top)
  <2>1. PICK o \in Nat :
            /\ u.at = l.next /\ k.oldest = o /\ k.next = l.next + size /\ ~k.full
            /\ k.softEnd = l.softEnd /\ l.next <= l.oldest
            /\ l.oldest <= o /\ o <= l.softEnd /\ l.next + size <= o
    BY <1>1, <1>11 DEF GrowsBefore, Fields, k
  <2>2. u.at # None
    BY <1>1, <2>1 DEF None
  <2>3. \A h \in HeaderType : h \in kept => h.at < l.next \/ o <= h.at
    BY <1>1, <1>4, <1>5, <2>1, <2>2 DEF Within
  <2>4. \A g \in HeaderType : g \in gone => g.at >= l.oldest /\ g.at < o
    BY <1>1, <1>4, <1>5, <2>1, <2>2 DEF Within
  <2>5. \A g \in gone, h \in kept : Order(l, g) < Order(l, h)
    <3> SUFFICES ASSUME NEW g \in gone, NEW h \in kept PROVE Order(l, g) < Order(l, h)
      OBVIOUS
    <3>1. /\ g.at \in Nat /\ h.at \in Nat /\ g.at <= Size /\ g.at >= l.oldest /\ g.at < o
          /\ h.at < l.next \/ o <= h.at
      BY <1>1, <1>5, <1>6, <2>3, <2>4
    <3>2. h.at >= NodeInfoEntry
      BY <1>5, <1>6
    <3> HIDE DEF gone, kept
    <3>3. Order(l, g) = g.at
      BY <1>1, <2>1, <3>1 DEF Order
    <3>4. Order(l, h) = IF h.at < l.next THEN h.at + Size ELSE h.at
      BY <2>1 DEF Order
    <3> QED
      BY <1>1, <2>1, <3>1, <3>2, <3>3, <3>4
  <2>6. PICK y \in E : y.at = NodeInfoEntry /\ y.at + y.size <= l.next
    BY <1>8, <2>1
  <2>7. y \in kept
    BY <1>1, <1>2, <1>4, <1>5, <2>1, <2>2, <2>6 DEF Within
  <2> QED
    BY <2>5, <2>7 DEF DiscardsOldest, F, k
<1>12. CASE Wraps(u, l, E, size, hi)
  <2>1. PICK o \in Nat :
            /\ u.at = NodeInfoEntry /\ k.oldest = o /\ k.next = NodeInfoEntry + size /\ ~k.full
            /\ k.softEnd = l.next /\ k.next <= o /\ o <= hi /\ Tiled(E, o, l.next)
    BY <1>1, <1>12 DEF Wraps, Fields, k
  <2>2. u.at # None /\ o < l.next
    BY <1>1, <1>12, <2>1 DEF None
  <2>3. \A h \in HeaderType : h \in kept => o <= h.at /\ h.at < l.next
    BY <1>1, <1>4, <1>5, <2>1, <2>2 DEF Within
  <2>4. \A g \in HeaderType : g \in gone => g.at < o \/ (g.at >= l.next /\ l.next <= l.oldest)
    BY <1>1, <1>4, <1>5, <2>1, <2>2 DEF Within
  <2>5. \A g \in gone, h \in kept : Order(l, g) < Order(l, h)
    <3> SUFFICES ASSUME NEW g \in gone, NEW h \in kept PROVE Order(l, g) < Order(l, h)
      OBVIOUS
    <3>1. /\ g.at \in Nat /\ h.at \in Nat /\ g.at <= Size /\ o <= h.at /\ h.at < l.next
          /\ g.at < o \/ (g.at >= l.next /\ l.next <= l.oldest)
      BY <1>1, <1>6, <2>3, <2>4
    <3>2. h.at >= NodeInfoEntry
      BY <1>5, <1>6
    <3> HIDE DEF gone, kept
    <3> QED
      BY <1>1, <2>2, <3>1, <3>2 DEF Order
  <2>6. x \in kept
    <3>1. o <= x.at /\ (l.oldest < l.next => l.oldest <= x.at)
      BY <1>1, <1>2, <1>7, <2>1, <2>2
    <3> QED
      BY <1>1, <1>4, <1>5, <1>7, <2>1, <2>2, <3>1 DEF Within
  <2> QED
    BY <2>5, <2>6 DEF DiscardsOldest, F, k
<1>13. CASE Stops(u, l)
  <2>1. u.at = None /\ k.full /\ k.softEnd = l.next /\ k.next = 0
    BY <1>13 DEF Stops, k
  <2>2. \A g \in HeaderType : g \in gone => g.at >= l.next /\ l.next <= l.oldest
    BY <1>1, <1>4, <1>5, <2>1 DEF Within
  <2>3. \A h \in HeaderType : h \in kept => h.at < l.next /\ h.at >= NodeInfoEntry
    BY <1>1, <1>4, <1>5, <2>1 DEF Within
  <2>4. \A g \in gone, h \in kept : Order(l, g) < Order(l, h)
    BY <1>1, <1>6, <2>2, <2>3 DEF Order
  <2>5. gone = {} \/ kept # {}
    <3>1. CASE l.next <= l.oldest
      <4>1. PICK y \in E : y.at = NodeInfoEntry /\ y.at + y.size <= l.next
        BY <1>8, <3>1
      <4>2. y \in kept
        BY <1>1, <1>2, <1>4, <1>5, <2>1, <3>1, <4>1 DEF Within
      <4> QED
        BY <4>2
    <3>2. CASE l.oldest < l.next
      BY <1>1, <1>6, <2>2, <3>2
    <3> QED
      BY <1>1, <3>1, <3>2
  <2> QED
    BY <2>4, <2>5 DEF DiscardsOldest, F, k
<1> HIDE DEF gone, kept
<1>14. \/ GrowsAtEnd(u, l, E, size, hi) \/ GrowsBefore(u, l, E, size, top)
       \/ Wraps(u, l, E, size, hi) \/ Stops(u, l)
  BY DEF AllocateResult
<1>15. l.oldest < l.next \/ l.next <= l.oldest
  BY <1>1
<1> QED
  BY <1>9, <1>10, <1>11, <1>12, <1>13, <1>14, <1>15

\* Every step discards the oldest entries.
LEMMA OldestStep ==
    ASSUME LogInv, [Next]_vars, ~HostReset
    PROVE  DiscardsOldest(log, Entries, log', Entries')
<1>1. EntryLogged \/ LogKept
  BY EventLogStep
<1>2. /\ log \in LogType /\ Entries \in SUBSET HeaderType /\ Begins(Entries)
      /\ Chained(log, Entries)
  BY NowFacts, EntriesFacts DEF LogInv
<1>3. CASE LogKept
  <2>1. Live(log, Entries) = Live(log', Entries')
    BY <1>3 DEF LogKept, Live, Segments
  <2> QED
    BY <2>1 DEF DiscardsOldest
<1>4. CASE EntryLogged
  <2>1. PICK size \in Sizes, hi \in Nat, top \in Nat : \E v : Logged(v, size, hi, top)
    BY <1>4 DEF EntryLogged
  <2>2. PICK u : Logged(u, size, hi, top)
    BY <2>1
  <2>3. /\ ~log.full /\ AllocateResult(u, mem, Entries, log, size, hi, top)
        /\ hi <= log.next
        /\ log.next <= log.oldest => top <= log.softEnd
        /\ \/ hi < log.next
           \/ ~GrowsAtEnd(u, log, Entries, size, hi) /\ ~Wraps(u, log, Entries, size, hi)
        /\ log' = u.log
        /\ Entries' = IF u.at = None THEN Entries ELSE Written(Entries, u.at, size, FALSE)
    BY <2>2 DEF Logged
  <2> QED
    BY <1>2, <2>3, OldestGone
<1> QED
  BY <1>1, <1>3, <1>4

-----------------------------------------------------------------------------
(* The theorems.                                                           *)

\* The entries from the start of the log to the next one, and those before a
\* wrap, are chains, and the entry the main loop is writing is out of the way of
\* interrupts, from a reset that writes a node_info entry until the log is spoilt
\* (event_log_get_next_empty_entry, event_log_reset).
THEOREM EventLogInvariance == Spec => []EventLogInv
<1>1. Init => EventLogInv
  <2> SUFFICES ASSUME Init PROVE EventLogInv
    OBVIOUS
  <2>1. LogInv /\ spoilt \in BOOLEAN
    BY EventLogInit DEF Init
  <2> QED
    BY <2>1, ShapedFrom DEF EventLogInv, LogInv
<1>2. EventLogInv /\ [Next]_vars => EventLogInv'
  BY InvariantStep
<1> QED
  BY <1>1, <1>2, PTL DEF Spec

\* Whoever follows the lengths of the entries of the event log (the log reader
\* of wlan_exp, event_log_move_oldest_address) comes from entry to entry to the
\* end of the log, which begins with the node_info entry, until the log is spoilt and
\* again after a reset; for every size of the log, lengths of entries and number of
\* entries interrupts log.
THEOREM LogReadableAlways == Spec => []LogReadable
<1>1. EventLogInv => LogReadable
  BY Readable DEF EventLogInv, LogReadable
<1> QED
  BY <1>1, EventLogInvariance, PTL

\* The event log discards an entry only after all older ones, and never all of
\* them without a reset (event_log_increment_oldest_address makes room for an
\* entry of any length, before and after a wrap), unless it has been spoilt.
THEOREM OldestFirstAlways == Spec => OldestFirst
<1> DEFINE A == ~spoilt /\ ~HostReset => DiscardsOldest(log, Entries, log', Entries')
<1>1. EventLogInv /\ [Next]_vars => [A]_vars
  BY OldestStep DEF EventLogInv
<1>2. Spec => []EventLogInv
  BY EventLogInvariance
<1>3. Spec => [][Next]_vars
  BY DEF Spec
<1>4. Spec => [][A]_vars
  BY <1>1, <1>2, <1>3, PTL
<1> QED
  BY <1>4 DEF OldestFirst
=============================================================================

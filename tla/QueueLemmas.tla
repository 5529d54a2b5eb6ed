----------------------------- MODULE QueueLemmas -----------------------------
(***************************************************************************)
(* Facts about the queues of the models, the mailboxes and the lists of    *)
(* packet buffers: what reading the oldest entry and adding a new one do.  *)
(***************************************************************************)
EXTENDS Selection, SequenceTheorems, WellFoundedInduction, TLAPS

\* Removing the oldest message of a mailbox, or the oldest list entry.
LEMMA TailFacts ==
    ASSUME NEW S, NEW s \in Seq(S), s # <<>>
    PROVE  /\ Tail(s) \in Seq(S)
           /\ Head(s) = s[1] /\ Head(s) \in S
           /\ Len(s) > 0
           /\ Len(Tail(s)) = Len(s) - 1
           /\ \A i \in 1 .. Len(Tail(s)) : Tail(s)[i] = s[i + 1]
    OBVIOUS

\* Posting a message, or adding a list entry.
LEMMA AppendFacts ==
    ASSUME NEW S, NEW s \in Seq(S), NEW e \in S
    PROVE  /\ Append(s, e) \in Seq(S)
           /\ Len(Append(s, e)) = Len(s) + 1
           /\ \A i \in 1 .. Len(s) : Append(s, e)[i] = s[i]
           /\ Append(s, e)[Len(s) + 1] = e
           /\ Append(s, e) # <<>>
    OBVIOUS

\* Two queues read one after the other.
LEMMA ConcatFacts ==
    ASSUME NEW S, NEW s \in Seq(S), NEW t \in Seq(S)
    PROVE  /\ s \o t \in Seq(S)
           /\ Range(s \o t) = Range(s) \cup Range(t)
           /\ IsInjective(s) /\ IsInjective(t) /\ Range(s) \cap Range(t) = {}
                => IsInjective(s \o t)
<1>1. /\ s \o t \in Seq(S)
      /\ Len(s \o t) = Len(s) + Len(t)
      /\ \A i \in 1 .. Len(s) : (s \o t)[i] = s[i]
      /\ \A i \in 1 .. Len(t) : (s \o t)[Len(s) + i] = t[i]
      /\ Len(s) \in Nat /\ Len(t) \in Nat
      /\ DOMAIN s = 1 .. Len(s) /\ DOMAIN t = 1 .. Len(t)
      /\ DOMAIN (s \o t) = 1 .. (Len(s) + Len(t))
  OBVIOUS
<1>2. \A i \in 1 .. (Len(s) + Len(t)) :
         \/ i \in 1 .. Len(s) /\ (s \o t)[i] = s[i]
         \/ i - Len(s) \in 1 .. Len(t) /\ (s \o t)[i] = t[i - Len(s)]
  BY <1>1
<1>3. Range(s \o t) \subseteq Range(s) \cup Range(t)
  BY <1>1, <1>2 DEF Range
<1>4. Range(s) \subseteq Range(s \o t)
  BY <1>1 DEF Range
<1>5. Range(t) \subseteq Range(s \o t)
  <2> SUFFICES ASSUME NEW i \in 1 .. Len(t)
               PROVE  t[i] \in Range(s \o t)
    BY <1>1 DEF Range
  <2>1. Len(s) + i \in DOMAIN (s \o t)
    BY <1>1
  <2> QED
    BY <1>1, <2>1 DEF Range
<1>6. ASSUME IsInjective(s), IsInjective(t), Range(s) \cap Range(t) = {}
      PROVE  IsInjective(s \o t)
  <2> SUFFICES ASSUME NEW i \in 1 .. (Len(s) + Len(t)),
                      NEW j \in 1 .. (Len(s) + Len(t)),
                      (s \o t)[i] = (s \o t)[j]
               PROVE  i = j
    BY <1>1 DEF IsInjective
  <2>1. CASE i \in 1 .. Len(s) /\ j \in 1 .. Len(s)
    BY <2>1, <1>1, <1>6 DEF IsInjective
  <2>2. CASE i \notin 1 .. Len(s) /\ j \notin 1 .. Len(s)
    <3>1. t[i - Len(s)] = t[j - Len(s)]
          /\ i - Len(s) \in DOMAIN t /\ j - Len(s) \in DOMAIN t
      BY <2>2, <1>1, <1>2
    <3> QED
      BY <3>1, <1>1, <1>6 DEF IsInjective
  <2>3. CASE i \in 1 .. Len(s) /\ j \notin 1 .. Len(s)
    <3>1. s[i] \in Range(s) /\ t[j - Len(s)] \in Range(t)
      BY <2>3, <1>1, <1>2 DEF Range
    <3> QED
      BY <3>1, <2>3, <1>1, <1>2, <1>6
  <2>4. CASE i \notin 1 .. Len(s) /\ j \in 1 .. Len(s)
    <3>1. s[j] \in Range(s) /\ t[i - Len(s)] \in Range(t)
      BY <2>4, <1>1, <1>2 DEF Range
    <3> QED
      BY <3>1, <2>4, <1>1, <1>2, <1>6
  <2> QED
    BY <2>1, <2>2, <2>3, <2>4
<1> QED
  BY <1>1, <1>3, <1>4, <1>5, <1>6

\* The entries of a queue.
LEMMA RangeFacts ==
    ASSUME NEW S, NEW s \in Seq(S), NEW e \in S
    PROVE  /\ Range(Append(s, e)) = Range(s) \cup {e}
           /\ s # <<>> => Range(s) = Range(Tail(s)) \cup {Head(s)}
           /\ Range(s) \subseteq S
           /\ Range(<<>>) = {}
           /\ Range(<<e>>) = {e} /\ <<e>> \in Seq(S)
<1>1. Range(Append(s, e)) = Range(s) \cup {e}
  <2>1. /\ DOMAIN Append(s, e) = 1 .. (Len(s) + 1) /\ DOMAIN s = 1 .. Len(s)
        /\ Len(s) \in Nat
    OBVIOUS
  <2>2. 1 .. (Len(s) + 1) = (1 .. Len(s)) \cup {Len(s) + 1}
    BY <2>1
  <2> QED
    BY <2>1, <2>2, AppendFacts DEF Range
<1>2. ASSUME s # <<>>
      PROVE  Range(s) = Range(Tail(s)) \cup {Head(s)}
  <2>1. /\ DOMAIN s = 1 .. Len(s) /\ DOMAIN Tail(s) = 1 .. Len(Tail(s))
        /\ Len(s) \in Nat
    BY <1>2, TailFacts
  <2>2. Range(Tail(s)) \subseteq Range(s) /\ Head(s) \in Range(s)
    BY <1>2, <2>1, TailFacts DEF Range
  <2>3. ASSUME NEW i \in 1 .. Len(s), i # 1
        PROVE  s[i] \in Range(Tail(s))
    <3>1. i - 1 \in 1 .. Len(Tail(s)) /\ Tail(s)[i - 1] = s[i]
      BY <1>2, <2>1, <2>3, TailFacts
    <3> QED
      BY <3>1, <2>1 DEF Range
  <2> QED
    BY <1>2, <2>1, <2>2, <2>3, TailFacts DEF Range
<1>3. Range(s) \subseteq S /\ Range(<<>>) = {} /\ Range(<<e>>) = {e}
      /\ <<e>> \in Seq(S)
  BY DEF Range
<1> QED
  BY <1>1, <1>2, <1>3

LEMMA RangeSubset ==
    ASSUME NEW S, NEW s \in Seq(S)
    PROVE  Range(s) \subseteq S
  BY DEF Range

LEMMA RangeExtended ==
    ASSUME NEW S, NEW s \in Seq(S), NEW t \in Seq(S), NEW e,
           Len(t) = Len(s) + 1, t[Len(s) + 1] = e,
           \A i \in 1 .. Len(s) : t[i] = s[i]
    PROVE  Range(t) = Range(s) \cup {e}
<1>1. /\ DOMAIN t = 1 .. (Len(s) + 1) /\ DOMAIN s = 1 .. Len(s)
      /\ Len(s) \in Nat
  OBVIOUS
<1>2. 1 .. (Len(s) + 1) = (1 .. Len(s)) \cup {Len(s) + 1}
  BY <1>1
<1> QED
  BY <1>1, <1>2 DEF Range

LEMMA RangeTail ==
    ASSUME NEW S, NEW s \in Seq(S), s # <<>>, NEW t, t = Tail(s)
    PROVE  /\ Range(s) = Range(t) \cup {Head(s)}
           /\ Head(s) \in S
<1>1. Head(s) \in S
  BY TailFacts
<1>2. Range(s) = Range(Tail(s)) \cup {Head(s)}
  BY <1>1, RangeFacts, Zenon
<1> QED
  BY <1>1, <1>2

LEMMA RangeAppend ==
    ASSUME NEW S, NEW s \in Seq(S), NEW e \in S
    PROVE  Append(s, e) \in Seq(S) /\ Range(Append(s, e)) = Range(s) \cup {e}
<1> DEFINE t == Append(s, e)
<1>1. /\ t \in Seq(S) /\ Len(t) = Len(s) + 1 /\ t[Len(s) + 1] = e
      /\ \A i \in 1 .. Len(s) : t[i] = s[i]
  BY AppendFacts
<1> HIDE DEF t
<1>2. Range(t) = Range(s) \cup {e}
  BY <1>1, RangeExtended
<1> QED
  BY <1>1, <1>2 DEF t

\* A message that moves from one queue to the end of the one before it leaves
\* the two queues, read one after the other, as they were.
LEMMA ConcatMove ==
    ASSUME NEW S, NEW s \in Seq(S), NEW t \in Seq(S), t # <<>>
    PROVE  (s \o <<Head(t)>>) \o Tail(t) = s \o t
<1>1. /\ Head(t) \in S /\ Tail(t) \in Seq(S) /\ Len(Tail(t)) = Len(t) - 1
      /\ Head(t) = t[1] /\ Len(t) > 0
      /\ \A i \in 1 .. Len(Tail(t)) : Tail(t)[i] = t[i + 1]
  BY TailFacts
<1>2. /\ <<Head(t)>> \in Seq(S) /\ Len(<<Head(t)>>) = 1 /\ <<Head(t)>>[1] = Head(t)
  BY <1>1
<1>3. /\ s \o <<Head(t)>> \in Seq(S) /\ Len(s \o <<Head(t)>>) = Len(s) + 1
      /\ \A i \in 1 .. Len(s) + 1 :
            (s \o <<Head(t)>>)[i] = IF i <= Len(s) THEN s[i] ELSE Head(t)
  BY <1>1, <1>2, ConcatProperties
<1> DEFINE left == (s \o <<Head(t)>>) \o Tail(t)
           right == s \o t
<1>4. /\ left \in Seq(S) /\ Len(left) = Len(s) + Len(t)
      /\ \A i \in 1 .. Len(s) + Len(t) :
            left[i] = IF i <= Len(s) + 1 THEN (s \o <<Head(t)>>)[i]
                      ELSE Tail(t)[i - (Len(s) + 1)]
  <2> DEFINE u == s \o <<Head(t)>>
             v == Tail(t)
  <2>1. u \in Seq(S) /\ v \in Seq(S) /\ Len(u) = Len(s) + 1 /\ Len(v) = Len(t) - 1
        /\ Len(s) \in Nat /\ Len(t) \in Nat
    BY <1>1, <1>3
  <2> HIDE DEF u, v
  <2>2. /\ u \o v \in Seq(S) /\ Len(u \o v) = Len(u) + Len(v)
        /\ \A i \in 1 .. Len(u) + Len(v) :
              (u \o v)[i] = IF i <= Len(u) THEN u[i] ELSE v[i - Len(u)]
    BY <2>1, ConcatProperties
  <2>3. /\ u \o v \in Seq(S) /\ Len(u \o v) = Len(s) + Len(t)
        /\ \A i \in 1 .. Len(s) + Len(t) :
              (u \o v)[i] = IF i <= Len(s) + 1 THEN u[i] ELSE v[i - (Len(s) + 1)]
    BY <2>1, <2>2
  <2> QED
    BY <2>3 DEF u, v
<1>5. /\ right \in Seq(S) /\ Len(right) = Len(s) + Len(t)
      /\ \A i \in 1 .. Len(s) + Len(t) :
            right[i] = IF i <= Len(s) THEN s[i] ELSE t[i - Len(s)]
  BY ConcatProperties
<1> HIDE DEF left, right
<1>6. ASSUME NEW i \in 1 .. Len(s) + Len(t)
      PROVE  left[i] = right[i]
  <2>1. Len(s) \in Nat /\ Len(t) \in Nat
    OBVIOUS
  <2>2. CASE i <= Len(s)
    <3>1. i \in 1 .. Len(s) + 1 /\ i <= Len(s) + 1
      BY <2>1, <2>2
    <3>2. left[i] = (s \o <<Head(t)>>)[i]
      BY <1>4, <3>1
    <3>3. (s \o <<Head(t)>>)[i] = s[i]
      BY <1>3, <2>2, <3>1
    <3>4. right[i] = s[i]
      BY <1>5, <2>2
    <3> QED
      BY <3>2, <3>3, <3>4
  <2>3. CASE i = Len(s) + 1
    BY <1>1, <1>3, <1>4, <1>5, <2>1, <2>3
  <2>4. CASE i > Len(s) + 1
    <3>1. /\ i - (Len(s) + 1) \in 1 .. Len(Tail(t))
          /\ (i - (Len(s) + 1)) + 1 = i - Len(s)
      BY <1>1, <2>1, <2>4
    <3>2. Tail(t)[i - (Len(s) + 1)] = t[i - Len(s)]
      BY <1>1, <3>1
    <3> QED
      BY <1>4, <1>5, <2>1, <2>4, <3>2
  <2> QED
    BY <2>1, <2>2, <2>3, <2>4
<1>7. left = right
  BY <1>4, <1>5, <1>6, SeqEqual
<1> QED
  BY <1>7 DEF left, right

\* The oldest entry of two queues is the oldest of the first one.
LEMMA ConcatTail ==
    ASSUME NEW S, NEW s \in Seq(S), NEW t \in Seq(S), s # <<>>
    PROVE  /\ s \o t # <<>> /\ Head(s \o t) = Head(s)
           /\ Tail(s \o t) = Tail(s) \o t
<1>1. /\ Tail(s) \in Seq(S) /\ Len(Tail(s)) = Len(s) - 1 /\ Len(s) > 0
      /\ \A i \in 1 .. Len(Tail(s)) : Tail(s)[i] = s[i + 1]
      /\ Head(s) = s[1]
  BY TailFacts
<1> DEFINE both == s \o t
           rest == Tail(s) \o t
<1>2. /\ both \in Seq(S) /\ Len(both) = Len(s) + Len(t)
      /\ \A i \in 1 .. Len(s) + Len(t) :
            both[i] = IF i <= Len(s) THEN s[i] ELSE t[i - Len(s)]
  BY ConcatProperties
<1>3. /\ rest \in Seq(S) /\ Len(rest) = Len(Tail(s)) + Len(t)
      /\ \A i \in 1 .. Len(Tail(s)) + Len(t) :
            rest[i] = IF i <= Len(Tail(s)) THEN Tail(s)[i] ELSE t[i - Len(Tail(s))]
  BY <1>1, ConcatProperties
<1> HIDE DEF both, rest
<1>4. both # <<>>
  BY <1>1, <1>2
<1>5. /\ Tail(both) \in Seq(S) /\ Len(Tail(both)) = Len(both) - 1
      /\ \A i \in 1 .. Len(Tail(both)) : Tail(both)[i] = both[i + 1]
      /\ Head(both) = both[1]
  BY <1>2, <1>4, TailFacts
<1>6. Len(s) \in Nat /\ Len(t) \in Nat
  OBVIOUS
<1>7. Head(both) = Head(s)
  BY <1>1, <1>2, <1>5, <1>6
<1>8. ASSUME NEW i \in 1 .. Len(Tail(both))
      PROVE  Tail(both)[i] = rest[i]
  <2>1. Len(Tail(both)) = Len(s) - 1 + Len(t) /\ i \in Nat /\ i > 0
        /\ Tail(both)[i] = both[i + 1]
    BY <1>2, <1>5, <1>6
  <2>2. CASE i <= Len(s) - 1
    BY <1>1, <1>2, <1>3, <1>6, <2>1, <2>2
  <2>3. CASE i > Len(s) - 1
    <3>1. (i + 1) - Len(s) = i - Len(Tail(s))
      BY <1>1, <1>6, <2>1
    <3>2. rest[i] = t[i - Len(Tail(s))]
      BY <1>1, <1>3, <1>6, <2>1, <2>3
    <3>3. both[i + 1] = t[(i + 1) - Len(s)]
      BY <1>2, <1>6, <2>1, <2>3
    <3> QED
      BY <2>1, <3>1, <3>2, <3>3
  <2> QED
    BY <1>6, <2>1, <2>2, <2>3
<1>9. Tail(both) = rest
  BY <1>1, <1>2, <1>3, <1>5, <1>6, <1>8, SeqEqual
<1> QED
  BY <1>4, <1>7, <1>9 DEF both, rest

\* A new entry at the end of the second queue is the newest of both.
LEMMA ConcatAppend ==
    ASSUME NEW S, NEW s \in Seq(S), NEW t \in Seq(S), NEW e \in S
    PROVE  s \o Append(t, e) = Append(s \o t, e)
<1>1. s \o t \in Seq(S) /\ <<e>> \in Seq(S)
  BY ConcatProperties
<1>2. Append(t, e) = t \o <<e>> /\ Append(s \o t, e) = (s \o t) \o <<e>>
  BY <1>1, AppendIsConcat
<1> QED
  BY <1>1, <1>2, ConcatAssociative

LEMMA HeadInRange ==
    ASSUME NEW S, NEW s \in Seq(S), s # <<>>
    PROVE  Head(s) \in Range(s) /\ Head(s) \in S
<1>1. 1 \in DOMAIN s /\ Head(s) = s[1] /\ Head(s) \in S
  BY TailFacts
<1> QED
  BY <1>1 DEF Range

LEMMA HeadAppend ==
    ASSUME NEW S, NEW s \in Seq(S), NEW e \in S, s # <<>>
    PROVE  Append(s, e) # <<>> /\ Head(Append(s, e)) = Head(s)
<1>1. /\ Append(s, e) \in Seq(S) /\ Append(s, e) # <<>>
      /\ Append(s, e)[1] = s[1]
  BY AppendFacts, TailFacts
<1> QED
  BY <1>1, TailFacts

\* A new entry at the end.
LEMMA InjectiveAppend ==
    ASSUME NEW S, NEW s \in Seq(S), NEW e \in S, IsInjective(s), e \notin Range(s)
    PROVE  IsInjective(Append(s, e))
<1> DEFINE t == Append(s, e)
<1>1. /\ Len(t) = Len(s) + 1 /\ t[Len(s) + 1] = e /\ DOMAIN t = 1 .. Len(s) + 1
      /\ \A i \in 1 .. Len(s) : t[i] = s[i]
      /\ Len(s) \in Nat /\ DOMAIN s = 1 .. Len(s)
  BY AppendFacts
<1> HIDE DEF t
<1>2. \A i \in 1 .. Len(s) : s[i] # e
  BY <1>1 DEF Range
<1>3. ASSUME NEW i \in 1 .. Len(s) + 1, NEW j \in 1 .. Len(s) + 1, t[i] = t[j]
      PROVE  i = j
  <2>1. i = Len(s) + 1 \/ i \in 1 .. Len(s)
    BY <1>1
  <2>2. j = Len(s) + 1 \/ j \in 1 .. Len(s)
    BY <1>1
  <2> QED
    BY <1>1, <1>2, <1>3, <2>1, <2>2 DEF IsInjective
<1>4. IsInjective(t)
  BY <1>1, <1>3 DEF IsInjective
<1> QED
  BY <1>4 DEF t

\* The oldest entry leaves.
LEMMA InjectiveTail ==
    ASSUME NEW S, NEW s \in Seq(S), s # <<>>, IsInjective(s)
    PROVE  IsInjective(Tail(s)) /\ Head(s) \notin Range(Tail(s))
<1> DEFINE t == Tail(s)
<1>1. /\ Head(s) = s[1] /\ Len(s) \in Nat /\ Len(s) > 0 /\ Len(t) = Len(s) - 1
      /\ \A i \in 1 .. Len(t) : t[i] = s[i + 1]
      /\ DOMAIN s = 1 .. Len(s) /\ DOMAIN t = 1 .. Len(t)
  BY TailFacts
<1> HIDE DEF t
<1>2. \A i \in 1 .. Len(t) : i + 1 \in 1 .. Len(s) /\ i + 1 # 1 /\ 1 \in 1 .. Len(s)
  BY <1>1
<1>3. \A i \in 1 .. Len(t) : t[i] # s[1]
  BY <1>1, <1>2 DEF IsInjective
<1>4. ASSUME NEW i \in 1 .. Len(t), NEW j \in 1 .. Len(t), t[i] = t[j] PROVE i = j
  <2>1. i + 1 = j + 1
    BY <1>1, <1>2, <1>4 DEF IsInjective
  <2> QED
    BY <1>1, <2>1
<1>5. IsInjective(t)
  BY <1>1, <1>4 DEF IsInjective
<1>6. Head(s) \notin Range(t)
  BY <1>1, <1>3 DEF Range
<1> QED
  BY <1>5, <1>6 DEF t

-----------------------------------------------------------------------------
(* Induction, with a set for its hypothesis.                               *)

LEMMA SmallestOf ==
    ASSUME NEW T, T \subseteq Nat, T # {}
    PROVE  \E n \in T : \A m \in T : n <= m
<1> DEFINE R == OpToRel(<, Nat)
<1>1. IsWellFoundedOn(R, Nat)
  BY NatLessThanWellFounded
<1>2. \A x, y \in Nat : <<y, x>> \in R <=> y < x
  BY DEF OpToRel
<1> HIDE DEF R
<1>3. PICK n \in T : \A m \in T : ~ (<<m, n>> \in R)
  BY <1>1, WFMin
<1>4. ASSUME NEW m \in T PROVE n <= m
  <2>1. m \in Nat /\ n \in Nat
    OBVIOUS
  <2>2. ~ (m < n)
    BY <1>2, <1>3, <2>1
  <2> QED
    BY <2>1, <2>2
<1> QED
  BY <1>4

LEMMA NatInduct ==
    ASSUME NEW T, 0 \in T, \A n \in Nat : n \in T => n + 1 \in T
    PROVE  Nat \subseteq T
<1> DEFINE left == Nat \ T
<1> SUFFICES ASSUME left # {} PROVE FALSE
  OBVIOUS
<1>1. PICK n \in left : \A m \in left : n <= m
  BY SmallestOf
<1>2. n # 0 /\ n - 1 \in Nat /\ n - 1 \notin left
  BY <1>1
<1> QED
  BY <1>1, <1>2

-----------------------------------------------------------------------------
(* Selected entries.                                                       *)

SelectedUpTo(sel, s, T, m) ==
    sel = [n \in 0 .. m |->
              IF n = 0 THEN <<>>
              ELSE IF s[n] \in T THEN Append(sel[n - 1], s[n]) ELSE sel[n - 1]]

\* The function Selected is defined by exists.
LEMMA SelectionExists ==
    ASSUME NEW s, NEW T, NEW m \in Nat
    PROVE  \E sel : SelectedUpTo(sel, s, T, m)
<1> DEFINE P == {k \in Nat : \E sel : SelectedUpTo(sel, s, T, k)}
<1>1. 0 \in P
  <2>1. SelectedUpTo([n \in 0 .. 0 |-> <<>>], s, T, 0)
    BY DEF SelectedUpTo
  <2> QED
    BY <2>1
<1>2. ASSUME NEW k \in Nat, k \in P PROVE k + 1 \in P
  <2>1. PICK sel : SelectedUpTo(sel, s, T, k)
    BY <1>2
  <2> DEFINE last == IF s[k + 1] \in T THEN Append(sel[k], s[k + 1]) ELSE sel[k]
             more == [n \in 0 .. k + 1 |-> IF n = k + 1 THEN last ELSE sel[n]]
  <2>2. ASSUME NEW n \in 0 .. k + 1
        PROVE  more[n] = IF n = 0 THEN <<>>
                         ELSE IF s[n] \in T THEN Append(more[n - 1], s[n]) ELSE more[n - 1]
    <3>1. CASE n = k + 1
      <4>1. n # 0 /\ n - 1 = k /\ n - 1 \in 0 .. k + 1 /\ n - 1 # k + 1
        BY <3>1
      <4>2. more[n] = last /\ more[n - 1] = sel[k]
        BY <3>1, <4>1
      <4> QED
        BY <3>1, <4>1, <4>2
    <3>2. CASE n # k + 1
      <4>1. n \in 0 .. k /\ more[n] = sel[n]
        BY <3>2
      <4>2. n # 0 => n - 1 \in 0 .. k + 1 /\ n - 1 # k + 1
        BY <4>1
      <4>3. n # 0 => more[n - 1] = sel[n - 1]
        BY <4>2
      <4>4. sel[n] = IF n = 0 THEN <<>>
                     ELSE IF s[n] \in T THEN Append(sel[n - 1], s[n]) ELSE sel[n - 1]
        BY <2>1, <4>1 DEF SelectedUpTo
      <4> HIDE DEF more
      <4> QED
        BY <4>1, <4>3, <4>4
    <3> QED
      BY <3>1, <3>2
  <2>3. more = [n \in 0 .. k + 1 |-> more[n]]
    OBVIOUS
  <2> HIDE DEF more
  <2>4. SelectedUpTo(more, s, T, k + 1)
    BY <2>2, <2>3 DEF SelectedUpTo
  <2> QED
    BY <2>4
<1> HIDE DEF P
<1>3. Nat \subseteq P
  BY <1>1, <1>2, NatInduct
<1> QED
  BY <1>3 DEF P

\* Selecting entry by entry.
SelectedBy(sel, s, T) ==
    /\ sel[0] = <<>> /\ Selected(s, T) = sel[Len(s)]
    /\ \A n \in 1 .. Len(s) :
          sel[n] = IF s[n] \in T THEN Append(sel[n - 1], s[n]) ELSE sel[n - 1]

LEMMA SelectedSteps ==
    ASSUME NEW S, NEW s \in Seq(S), NEW T
    PROVE  \E sel : SelectedBy(sel, s, T)
<1>1. Len(s) \in Nat
  OBVIOUS
<1> DEFINE sel == CHOOSE g : SelectedUpTo(g, s, T, Len(s))
<1>2. SelectedUpTo(sel, s, T, Len(s))
  BY <1>1, SelectionExists
<1>3. Selected(s, T) = sel[Len(s)]
  BY DEF Selected, SelectedUpTo
<1> HIDE DEF sel
<1>4. sel[0] = <<>>
  BY <1>1, <1>2 DEF SelectedUpTo
<1>5. ASSUME NEW n \in 1 .. Len(s)
      PROVE  sel[n] = IF s[n] \in T THEN Append(sel[n - 1], s[n]) ELSE sel[n - 1]
  <2>1. n \in 0 .. Len(s) /\ n # 0
    BY <1>1
  <2>2. sel = [k \in 0 .. Len(s) |->
                 IF k = 0 THEN <<>>
                 ELSE IF s[k] \in T THEN Append(sel[k - 1], s[k]) ELSE sel[k - 1]]
    BY <1>2 DEF SelectedUpTo
  <2> QED
    BY <2>1, <2>2
<1> QED
  BY <1>3, <1>4, <1>5 DEF SelectedBy

\* What selecting keeps: the entries in T and nothing else, each at most once if
\* the list held it once, and the head if it is in T.
LEMMA SelectedFacts ==
    ASSUME NEW S, NEW s \in Seq(S), NEW T
    PROVE  /\ Selected(s, T) \in Seq(S)
           /\ Range(Selected(s, T)) = Range(s) \cap T
           /\ IsInjective(s) => IsInjective(Selected(s, T))
           /\ s # <<>> /\ Head(s) \in T
                => Selected(s, T) # <<>> /\ Head(Selected(s, T)) = Head(s)
<1>1. Len(s) \in Nat /\ DOMAIN s = 1 .. Len(s) /\ \A i \in 1 .. Len(s) : s[i] \in S
  OBVIOUS
<1>2. PICK sel : SelectedBy(sel, s, T)
  BY SelectedSteps
<1>3. Selected(s, T) = sel[Len(s)]
  BY <1>2 DEF SelectedBy
<1>4. sel[0] = <<>>
  BY <1>2 DEF SelectedBy
<1>5. \A n \in 1 .. Len(s) :
         sel[n] = IF s[n] \in T THEN Append(sel[n - 1], s[n]) ELSE sel[n - 1]
  BY <1>2 DEF SelectedBy
<1> DEFINE Sound(n) ==
             /\ sel[n] \in Seq(S)
             /\ Range(sel[n]) = {s[i] : i \in 1 .. n} \cap T
             /\ IsInjective(s) => IsInjective(sel[n])
             /\ n > 0 /\ s[1] \in T => sel[n] # <<>> /\ sel[n][1] = s[1]
           P == {n \in Nat : n <= Len(s) => Sound(n)}
<1>6. 0 \in P
  <2>1. <<>> \in Seq(S) /\ Range(<<>>) = {} /\ IsInjective(<<>>)
    BY DEF Range, IsInjective
  <2>2. {s[i] : i \in 1 .. 0} = {}
    OBVIOUS
  <2>3. Sound(0)
    BY <1>4, <2>1, <2>2
  <2> HIDE DEF Sound
  <2> QED
    BY <2>3
<1>7. ASSUME NEW k \in Nat, k \in P PROVE k + 1 \in P
  <2> SUFFICES ASSUME k + 1 <= Len(s) PROVE Sound(k + 1)
    OBVIOUS
  <2> DEFINE n == k + 1
  <2>1. n \in 1 .. Len(s) /\ n - 1 = k /\ k <= Len(s)
    BY <1>1
  <2>2. /\ sel[k] \in Seq(S)
        /\ Range(sel[k]) = {s[i] : i \in 1 .. k} \cap T
        /\ IsInjective(s) => IsInjective(sel[k])
        /\ k > 0 /\ s[1] \in T => sel[k] # <<>> /\ sel[k][1] = s[1]
    BY <1>7, <2>1
  <2>3. sel[n] = IF s[n] \in T THEN Append(sel[k], s[n]) ELSE sel[k]
    BY <1>5, <2>1
  <2>4. {s[i] : i \in 1 .. n} = {s[i] : i \in 1 .. k} \cup {s[n]}
    BY <2>1
  <2>5. CASE s[n] \in T
    <3>1. s[n] \in S
      BY <1>1, <2>1
    <3>2. /\ Append(sel[k], s[n]) \in Seq(S)
          /\ Range(Append(sel[k], s[n])) = Range(sel[k]) \cup {s[n]}
      BY <2>2, <3>1, RangeAppend
    <3>3. sel[n] \in Seq(S) /\ Range(sel[n]) = {s[i] : i \in 1 .. n} \cap T
      BY <2>2, <2>3, <2>4, <2>5, <3>2
    <3>4. IsInjective(s) => IsInjective(sel[n])
      <4> SUFFICES ASSUME IsInjective(s) PROVE IsInjective(sel[n])
        OBVIOUS
      <4>1. s[n] \notin Range(sel[k])
        <5>1. \A i \in 1 .. k : i \in DOMAIN s /\ n \in DOMAIN s /\ i # n
          BY <1>1, <2>1
        <5>2. \A i \in 1 .. k : s[i] # s[n]
          BY <5>1 DEF IsInjective
        <5> QED
          BY <2>2, <5>2
      <4>2. IsInjective(Append(sel[k], s[n]))
        BY <2>2, <3>1, <4>1, InjectiveAppend
      <4> QED
        BY <2>3, <2>5, <4>2
    <3>5. s[1] \in T => sel[n] # <<>> /\ sel[n][1] = s[1]
      <4>1. CASE k = 0
        BY <1>4, <2>3, <2>5, <4>1
      <4>2. CASE k > 0
        <5>1. s[1] \in T => 1 \in 1 .. Len(sel[k])
          BY <2>2, <4>2
        <5> QED
          BY <2>2, <2>3, <2>5, <3>1, <4>2, <5>1, AppendFacts
      <4> QED
        BY <4>1, <4>2
    <3> QED
      BY <3>3, <3>4, <3>5
  <2>6. CASE s[n] \notin T
    <3>1. sel[n] = sel[k]
      BY <2>3, <2>6
    <3>2. {s[i] : i \in 1 .. n} \cap T = {s[i] : i \in 1 .. k} \cap T
      BY <2>4, <2>6
    <3>3. s[1] \in T => k > 0
      BY <2>6
    <3> QED
      BY <2>2, <3>1, <3>2, <3>3
  <2> QED
    BY <2>5, <2>6
<1> HIDE DEF P
<1>8. Nat \subseteq P
  BY <1>6, <1>7, NatInduct
<1>9. Sound(Len(s))
  BY <1>1, <1>8 DEF P
<1>10. Range(s) = {s[i] : i \in 1 .. Len(s)}
  BY <1>1 DEF Range
<1>11. s # <<>> => Len(s) > 0 /\ Head(s) = s[1]
  BY <1>1, TailFacts
<1>12. sel[Len(s)] # <<>> => Head(sel[Len(s)]) = sel[Len(s)][1]
  BY <1>9, TailFacts
<1> QED
  BY <1>3, <1>9, <1>10, <1>11, <1>12

\* Selected entries are in the order of the list.
LEMMA SelectedOrdered ==
    ASSUME NEW S, NEW s \in Seq(S), NEW T, NEW R,
           \A i, j \in DOMAIN s : i < j => <<s[i], s[j]>> \in R
    PROVE  \A i, j \in DOMAIN Selected(s, T) :
              i < j => <<Selected(s, T)[i], Selected(s, T)[j]>> \in R
<1>1. Len(s) \in Nat /\ DOMAIN s = 1 .. Len(s) /\ \A i \in 1 .. Len(s) : s[i] \in S
  OBVIOUS
<1>2. PICK sel : SelectedBy(sel, s, T)
  BY SelectedSteps
<1>3. Selected(s, T) = sel[Len(s)]
  BY <1>2 DEF SelectedBy
<1>4. sel[0] = <<>>
  BY <1>2 DEF SelectedBy
<1>5. \A n \in 1 .. Len(s) :
         sel[n] = IF s[n] \in T THEN Append(sel[n - 1], s[n]) ELSE sel[n - 1]
  BY <1>2 DEF SelectedBy
<1> DEFINE Sound(n) ==
             /\ sel[n] \in Seq(S)
             /\ \A i \in 1 .. Len(sel[n]) : \E k \in 1 .. n : sel[n][i] = s[k]
             /\ \A i, j \in 1 .. Len(sel[n]) : i < j => <<sel[n][i], sel[n][j]>> \in R
           P == {n \in Nat : n <= Len(s) => Sound(n)}
<1>6. 0 \in P
  <2>1. <<>> \in Seq(S) /\ Len(<<>>) = 0 /\ 1 .. 0 = {}
    OBVIOUS
  <2>2. Sound(0)
    BY <1>4, <2>1
  <2> HIDE DEF Sound
  <2> QED
    BY <2>2
<1>7. ASSUME NEW k \in Nat, k \in P PROVE k + 1 \in P
  <2> SUFFICES ASSUME k + 1 <= Len(s) PROVE Sound(k + 1)
    OBVIOUS
  <2> DEFINE n == k + 1
             old == sel[k]
  <2>1. n \in 1 .. Len(s) /\ n - 1 = k /\ k <= Len(s) /\ s[n] \in S
    BY <1>1
  <2>2. /\ old \in Seq(S)
        /\ \A i \in 1 .. Len(old) : \E x \in 1 .. k : old[i] = s[x]
        /\ \A i, j \in 1 .. Len(old) : i < j => <<old[i], old[j]>> \in R
    BY <1>7, <2>1
  <2>3. sel[n] = IF s[n] \in T THEN Append(old, s[n]) ELSE old
    BY <1>5, <2>1
  <2> HIDE DEF old
  <2>4. CASE s[n] \in T
    <3> DEFINE new == Append(old, s[n])
    <3>1. /\ new \in Seq(S) /\ Len(new) = Len(old) + 1 /\ new[Len(old) + 1] = s[n]
          /\ \A i \in 1 .. Len(old) : new[i] = old[i]
          /\ Len(old) \in Nat
      BY <2>1, <2>2, AppendFacts
    <3> HIDE DEF new
    <3>2. ASSUME NEW i \in 1 .. Len(new)
          PROVE  /\ i \in 1 .. Len(old) \/ i = Len(old) + 1
                 /\ \E x \in 1 .. n : new[i] = s[x]
      <4>1. CASE i = Len(old) + 1
        <5>1. n \in 1 .. n /\ new[i] = s[n]
          BY <2>1, <3>1, <4>1
        <5> QED
          BY <4>1, <5>1
      <4>2. CASE i \in 1 .. Len(old)
        <5>1. PICK x \in 1 .. k : old[i] = s[x]
          BY <2>2, <4>2
        <5> QED
          BY <2>1, <3>1, <4>2, <5>1
      <4> QED
        BY <3>1, <4>1, <4>2
    <3>3. ASSUME NEW i \in 1 .. Len(new), NEW j \in 1 .. Len(new), i < j
          PROVE  <<new[i], new[j]>> \in R
      <4>1. i \in 1 .. Len(old)
        BY <3>1, <3>3
      <4>2. CASE j \in 1 .. Len(old)
        BY <2>2, <3>1, <3>3, <4>1, <4>2
      <4>3. CASE j = Len(old) + 1
        <5>1. PICK x \in 1 .. k : old[i] = s[x]
          BY <2>2, <4>1
        <5>2. x \in DOMAIN s /\ n \in DOMAIN s /\ x < n
          BY <1>1, <2>1
        <5> QED
          BY <3>1, <4>1, <4>3, <5>1, <5>2
      <4> QED
        BY <3>2, <4>2, <4>3
    <3>4. sel[n] = new
      BY <2>3, <2>4 DEF new
    <3> QED
      BY <3>1, <3>2, <3>3, <3>4
  <2>5. CASE s[n] \notin T
    <3>1. sel[n] = old
      BY <2>3, <2>5
    <3>2. \A x \in 1 .. k : x \in 1 .. n
      OBVIOUS
    <3> QED
      BY <2>2, <3>1, <3>2
  <2> QED
    BY <2>4, <2>5
<1> HIDE DEF P
<1>8. Nat \subseteq P
  BY <1>6, <1>7, NatInduct
<1>9. Sound(Len(s))
  BY <1>1, <1>8 DEF P
<1>10. DOMAIN sel[Len(s)] = 1 .. Len(sel[Len(s)])
  BY <1>9
<1> QED
  BY <1>3, <1>9, <1>10

\* Selecting makes no list longer.
LEMMA SelectedShort ==
    ASSUME NEW S, NEW s \in Seq(S), NEW T
    PROVE  Len(Selected(s, T)) <= Len(s)
<1>1. Len(s) \in Nat /\ \A i \in 1 .. Len(s) : s[i] \in S
  OBVIOUS
<1>2. PICK sel : SelectedBy(sel, s, T)
  BY SelectedSteps
<1> DEFINE P == {n \in Nat : n <= Len(s) => sel[n] \in Seq(S) /\ Len(sel[n]) <= n}
<1>3. 0 \in P
  <2>1. sel[0] = <<>>
    BY <1>2 DEF SelectedBy
  <2>2. sel[0] \in Seq(S) /\ Len(sel[0]) = 0
    BY <2>1
  <2> QED
    BY <2>2
<1>4. ASSUME NEW k \in Nat, k \in P PROVE k + 1 \in P
  <2> SUFFICES ASSUME k + 1 <= Len(s)
               PROVE  sel[k + 1] \in Seq(S) /\ Len(sel[k + 1]) <= k + 1
    OBVIOUS
  <2>1. /\ k + 1 \in 1 .. Len(s) /\ (k + 1) - 1 = k /\ s[k + 1] \in S
        /\ sel[k] \in Seq(S) /\ Len(sel[k]) <= k
    BY <1>1, <1>4
  <2>2. sel[k + 1] = IF s[k + 1] \in T THEN Append(sel[k], s[k + 1]) ELSE sel[k]
    BY <1>2, <2>1 DEF SelectedBy
  <2>3. Append(sel[k], s[k + 1]) \in Seq(S) /\ Len(Append(sel[k], s[k + 1])) = Len(sel[k]) + 1
    BY <2>1, AppendFacts
  <2>4. Len(sel[k]) \in Nat
    BY <2>1
  <2> QED
    BY <2>1, <2>2, <2>3, <2>4
<1> HIDE DEF P
<1>5. Len(s) \in P
  BY <1>1, <1>3, <1>4, NatInduct
<1> QED
  BY <1>1, <1>2, <1>5 DEF P, SelectedBy
=============================================================================

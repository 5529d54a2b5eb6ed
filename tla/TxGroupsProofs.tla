--------------------------- MODULE TxGroupsProofs ---------------------------
(***************************************************************************)
(* Machine-checked proofs about the packet buffer groups of the access     *)
(* point, for any number of buffers, any limits, any length of the         *)
(* multicast queue and any number of configuration changes.                *)
(***************************************************************************)
EXTENDS TxGroups, QueueLemmas, FiniteSetTheorems

-----------------------------------------------------------------------------
(* Numbers, messages and frames.                                           *)

LEMMA NumberFacts ==
    /\ NumMpdu \in Nat /\ GeneralLimit \in Nat /\ DtimLimit \in Nat /\ MaxPending \in Nat
    /\ MaxQueued \in Nat /\ MaxSwitches \in Nat
    /\ \A g \in Groups : Limit(g) \in 0 .. GeneralLimit + DtimLimit
    /\ NoBuf \notin Bufs /\ Groups = {"GENERAL", "DTIM_MCAST"}
    /\ Limit("GENERAL") = GeneralLimit /\ Limit("DTIM_MCAST") = DtimLimit
  BY GroupsAssumption DEF Groups, Limit, NoBuf, Bufs

LEMMA BufsFinite == IsFiniteSet(Bufs) /\ Cardinality(Bufs) = NumMpdu
<1>1. NumMpdu \in Nat /\ NumMpdu > 0
  BY GroupsAssumption
<1>2. /\ IsFiniteSet(0 .. NumMpdu - 1)
      /\ Cardinality(0 .. NumMpdu - 1) = IF 0 > NumMpdu - 1 THEN 0 ELSE NumMpdu - 1 - 0 + 1
  BY <1>1, FS_Interval
<1> QED
  BY <1>1, <1>2 DEF Bufs

\* The buffers of a group that CPU_LOW owns can be counted.
LEMMA OwnedFacts ==
    ASSUME NEW g \in Groups
    PROVE  /\ LowOwned(g) \subseteq Bufs /\ IsFiniteSet(LowOwned(g))
           /\ Cardinality(LowOwned(g)) \in Nat
           /\ Available(g) \in 0 .. GeneralLimit + DtimLimit
<1>1. LowOwned(g) \subseteq Bufs
  BY DEF LowOwned
<1>2. IsFiniteSet(LowOwned(g))
  BY <1>1, BufsFinite, FS_Subset
<1>3. Cardinality(LowOwned(g)) \in Nat
  BY <1>2, FS_CardinalityType
<1>4. Limit(g) \in Nat /\ Limit(g) <= GeneralLimit + DtimLimit
  BY NumberFacts
<1>5. Available(g) \in 0 .. GeneralLimit + DtimLimit
  <2> DEFINE n == Cardinality(LowOwned(g))
  <2>1. n \in Nat
    BY <1>3
  <2>2. Available(g) = IF Empty = {} \/ n > Limit(g) THEN 0 ELSE Limit(g) - n
    BY DEF Available
  <2> HIDE DEF n
  <2> QED
    BY <1>4, <2>1, <2>2, NumberFacts
<1> QED
  BY <1>1, <1>2, <1>3, <1>5

\* A message is a READY buffer or a configuration.
LEMMA MessageFacts ==
    /\ \A b \in Bufs : <<"READY", b>> \in Messages
    /\ \A n \in {0, 1} : <<"MCAST", n>> \in Messages /\ <<"BEACON", n>> \in Messages
    /\ \A m \in Messages : /\ m[1] \in {"READY", "MCAST", "BEACON"}
                           /\ m[1] = "READY" => m[2] \in Bufs /\ m = <<"READY", m[2]>>
                           /\ m[1] # "READY" => m[2] \in {0, 1}
    /\ \A b, c : /\ <<"READY", b>> = <<"READY", c>> => b = c
                 /\ <<"READY", b>>[1] = "READY" /\ <<"READY", b>>[2] = b
                 /\ <<"MCAST", b>>[1] = "MCAST" /\ <<"MCAST", b>>[2] = b
                 /\ <<"BEACON", b>>[1] = "BEACON" /\ <<"BEACON", b>>[2] = b
  BY DEF Messages

-----------------------------------------------------------------------------
(* The inductive invariant.                                                *)

\* Every buffer is in one place, and its frame says so: announced once to
\* CPU_LOW, in one of its lists, on the way back, or being recycled.
Places ==
    /\ \A b \in Bufs : <<"READY", b>> \in Range(toLow) => frame[b].state = "READY"
    /\ \A i, j \in 1 .. Len(toLow) :
          toLow[i] = toLow[j] /\ toLow[i][1] = "READY" => i = j
    /\ IsInjective(general) /\ IsInjective(dtim)
    /\ Range(general) \cap Range(dtim) = {}
    /\ \A b \in Range(general) \cup Range(dtim) : frame[b].state = "LOW_CTRL"
    /\ IsInjective(toHigh) /\ hdone \notin Range(toHigh)
    /\ hpc = "idle" => hdone = NoBuf
    /\ \A b \in Bufs : frame[b].state = "DONE" <=> b \in Range(toHigh) \/ b = hdone
    /\ \A b \in Bufs : /\ frame[b].prepared => frame[b].state = "LOW_CTRL"
                       /\ frame[b].group = "DTIM_MCAST" => frame[b].mcast

Buffering == lmcast = 1 /\ lbeacon = 1

\* The lists follow the mode of CPU_LOW.
Lists ==
    /\ Buffering => \A b \in Range(general) :
                       ~ frame[b].prepared => frame[b].group = "GENERAL"
    /\ ~ Buffering => \A b \in Range(dtim) : frame[b].prepared
    /\ \A b \in Range(dtim) : frame[b].mcast

\* The frame the MORE_DATA bit stands for: it waits behind the one in the
\* controller, and if buffering is stopped it comes back when buffering starts.
MoreWaits ==
    bpc \in {"dtim", "sent", "check"} /\ "MORE_DATA" \in mcret =>
        IF Buffering THEN \E b \in Range(dtim) : ~ frame[b].prepared
        ELSE \E b \in Range(general) \cup Range(dtim) :
                ~ frame[b].prepared /\ frame[b].mcast

GroupsInv == TypeOK /\ Places /\ Lists /\ HeadKept /\ MoreWaits

\* While nobody changes the configuration: CPU_LOW reads how it was configured
\* before it reads of the first buffer,
Booted ==
    switches = 0 =>
        /\ hmcast = 1 /\ hbeacon = 1 /\ ~ hunsent
        /\ \A i \in 1 .. Len(toLow) : toLow[i][1] # "READY" =>
              /\ general = <<>> /\ dtim = <<>> /\ \A b \in Bufs : frame[b].state # "LOW_CTRL"
              /\ \A j \in 1 .. i : toLow[j][1] # "READY"

\* CPU_HIGH fills no more buffers than it counted when it began its poll,
Counted ==
    switches = 0 =>
        /\ \A g \in Groups : Cardinality(LowOwned(g)) <= Limit(g)
        /\ hpc = "general" => havail + Cardinality(LowOwned("GENERAL")) <= GeneralLimit
        /\ hpc = "dtim" => havail + Cardinality(LowOwned("DTIM_MCAST")) <= DtimLimit

\* each buffer CPU_LOW has read of is in a list,
Listed ==
    switches = 0 =>
        \A b \in Bufs : frame[b].state = "LOW_CTRL" => b \in Range(general) \cup Range(dtim)

\* and a poll that leaves packets has filled every buffer it may, or a DONE
\* message has come meanwhile.
Awake ==
    switches = 0 /\ toHigh = <<>> =>
        /\ hpc = "dtim" => havail + Cardinality(LowOwned("DTIM_MCAST")) = DtimLimit
        /\ hpc = "idle" /\ mcastQueue > 0 => Cardinality(LowOwned("DTIM_MCAST")) = DtimLimit

LimitsInv == GroupsInv /\ Booted /\ Counted /\ Listed

-----------------------------------------------------------------------------
(* Types.                                                                  *)

LEMMA PollTypes ==
    ASSUME TypeOK
    PROVE  /\ StartPoll => hpc' = "general" /\ havail' \in 0 .. GeneralLimit + DtimLimit
           /\ havail > 0 => havail - 1 \in 0 .. GeneralLimit + DtimLimit
           /\ 0 \in 0 .. GeneralLimit + DtimLimit
<1>1. "GENERAL" \in Groups
  BY DEF Groups
<1>2. Available("GENERAL") \in 0 .. GeneralLimit + DtimLimit
  BY <1>1, OwnedFacts
<1>3. havail \in 0 .. GeneralLimit + DtimLimit /\ GeneralLimit + DtimLimit \in Nat
  BY NumberFacts DEF TypeOK
<1> QED
  BY <1>2, <1>3 DEF StartPoll

LEMMA UpdatedTypes ==
    ASSUME TypeOK, NEW buffering \in BOOLEAN, UpdateLists(buffering)
    PROVE  /\ frame' \in [Bufs -> Frames] /\ general' \in Seq(Bufs) /\ dtim' \in Seq(Bufs)
           /\ ctrlD' \in Bufs \cup {NoBuf}
<1> DEFINE from == IF buffering THEN general ELSE dtim
           to == IF buffering THEN dtim ELSE general
           group == IF buffering THEN "DTIM_MCAST" ELSE "GENERAL"
           moves == {b \in Bufs : ~ frame[b].prepared /\ (buffering => frame[b].mcast)}
           moved == Selected(from, moves)
           kept == Selected(from, Bufs \ moves)
<1>1. from \in Seq(Bufs) /\ to \in Seq(Bufs)
  BY DEF TypeOK
<1>2. /\ general' = IF buffering THEN kept ELSE to \o moved
      /\ dtim' = IF buffering THEN to \o moved ELSE kept
      /\ frame' = [b \in Bufs |-> IF b \in Range(moved)
                      THEN [frame[b] EXCEPT !.group = group] ELSE frame[b]]
      /\ ctrlD' = IF buffering THEN ctrlD ELSE NoBuf
  BY DEF UpdateLists
<1> HIDE DEF from, to, moves
<1>3. moved \in Seq(Bufs) /\ kept \in Seq(Bufs)
  BY <1>1, SelectedFacts
<1>4. to \o moved \in Seq(Bufs)
  BY <1>1, <1>3, ConcatFacts
<1>5. frame \in [Bufs -> Frames] /\ group \in Groups
  BY DEF TypeOK, Groups
<1> HIDE DEF group, moved, kept
<1>6. frame' \in [Bufs -> Frames]
  BY <1>2, <1>5 DEF Frames
<1> QED
  BY <1>2, <1>3, <1>4, <1>6 DEF TypeOK
LEMMA SubmitTypes ==
    ASSUME TypeOK, NEW g \in Groups, NEW mcast \in BOOLEAN, Submit(g, mcast) \/ Discard
    PROVE  /\ frame' \in [Bufs -> Frames] /\ toLow' \in Seq(Messages)
           /\ havail' \in 0 .. GeneralLimit + DtimLimit
<1>1. havail' \in 0 .. GeneralLimit + DtimLimit
  BY PollTypes DEF Submit, Discard
<1>2. CASE Discard
  BY <1>1, <1>2 DEF Discard, TypeOK
<1>3. CASE Submit(g, mcast)
  <2>1. PICK b \in Empty :
           /\ frame' = [frame EXCEPT ![b] = [state |-> "READY", group |-> g,
                                             mcast |-> mcast, prepared |-> FALSE]]
           /\ toLow' = Append(toLow, <<"READY", b>>)
    BY <1>3 DEF Submit
  <2>2. b \in Bufs /\ <<"READY", b>> \in Messages
    BY MessageFacts DEF Empty
  <2>3. toLow' \in Seq(Messages)
    BY <2>1, <2>2, AppendFacts DEF TypeOK
  <2>4. frame \in [Bufs -> Frames]
    BY DEF TypeOK
  <2>5. frame' \in [Bufs -> Frames]
    BY <2>1, <2>2, <2>4 DEF Frames
  <2> QED
    BY <1>1, <2>3, <2>5
<1> QED
  BY <1>2, <1>3

LEMMA RecycleTypes ==
    ASSUME TypeOK,
           frame' = IF hdone = NoBuf THEN frame
                    ELSE [frame EXCEPT ![hdone].state = "HIGH_CTRL"]
    PROVE  frame' \in [Bufs -> Frames]
<1>1. frame \in [Bufs -> Frames] /\ hdone \in Bufs \cup {NoBuf}
  BY DEF TypeOK
<1> QED
  BY <1>1 DEF Frames

\* CPU_HIGH.
LEMMA HighTypes ==
    ASSUME TypeOK, HighNext
    PROVE  TypeOK'
<1>1. CASE HighEnqueueMcast
  <2>1. mcastQueue' \in 0 .. MaxQueued
    BY <1>1, NumberFacts DEF HighEnqueueMcast, TypeOK
  <2>2. hpc' = "general" /\ havail' \in 0 .. GeneralLimit + DtimLimit
    BY <1>1, PollTypes DEF HighEnqueueMcast
  <2> QED
    BY <1>1, <2>1, <2>2 DEF HighEnqueueMcast, TypeOK, lowVars
<1>2. CASE HighPollRequest
  <2>1. hpc' = "general" /\ havail' \in 0 .. GeneralLimit + DtimLimit
    BY <1>2, PollTypes DEF HighPollRequest
  <2> QED
    BY <1>2, <2>1 DEF HighPollRequest, TypeOK, lowVars
<1>3. CASE HighFillGeneral
  <2>1. PICK mcast \in BOOLEAN : Submit("GENERAL", mcast) \/ Discard
    BY <1>3 DEF HighFillGeneral
  <2>2. /\ frame' \in [Bufs -> Frames] /\ toLow' \in Seq(Messages)
        /\ havail' \in 0 .. GeneralLimit + DtimLimit
    BY <2>1, SubmitTypes DEF Groups
  <2> QED
    BY <1>3, <2>2 DEF HighFillGeneral, TypeOK, lowVars
<1>4. CASE HighFillUnbuffered
  <2>1. /\ frame' \in [Bufs -> Frames] /\ toLow' \in Seq(Messages)
        /\ havail' \in 0 .. GeneralLimit + DtimLimit
    BY <1>4, SubmitTypes DEF HighFillUnbuffered, Groups
  <2>2. mcastQueue' \in 0 .. MaxQueued
    BY <1>4, NumberFacts DEF HighFillUnbuffered, TypeOK
  <2> QED
    BY <1>4, <2>1, <2>2 DEF HighFillUnbuffered, TypeOK, lowVars
<1>5. CASE HighGeneralEnd
  <2>1. CASE hmcast = 1 /\ hbeacon = 1
    <3>1. havail' \in 0 .. GeneralLimit + DtimLimit
      BY <1>5, <2>1, OwnedFacts DEF HighGeneralEnd, Groups
    <3> QED
      BY <1>5, <2>1, <3>1 DEF HighGeneralEnd, TypeOK, lowVars
  <2>2. CASE ~ (hmcast = 1 /\ hbeacon = 1)
    <3>1. frame' \in [Bufs -> Frames] /\ havail' \in 0 .. GeneralLimit + DtimLimit
      BY <1>5, <2>2, RecycleTypes, PollTypes DEF HighGeneralEnd
    <3> QED
      BY <1>5, <2>2, <3>1 DEF HighGeneralEnd, TypeOK, lowVars
  <2> QED
    BY <2>1, <2>2
<1>6. CASE HighFillDtim
  <2>1. /\ frame' \in [Bufs -> Frames] /\ toLow' \in Seq(Messages)
        /\ havail' \in 0 .. GeneralLimit + DtimLimit
    BY <1>6, SubmitTypes DEF HighFillDtim, Groups
  <2>2. mcastQueue' \in 0 .. MaxQueued
    BY <1>6, NumberFacts DEF HighFillDtim, TypeOK
  <2> QED
    BY <1>6, <2>1, <2>2 DEF HighFillDtim, TypeOK, lowVars
<1>7. CASE HighDtimEnd
  <2>1. frame' \in [Bufs -> Frames] /\ havail' \in 0 .. GeneralLimit + DtimLimit
    BY <1>7, RecycleTypes, PollTypes DEF HighDtimEnd
  <2> QED
    BY <1>7, <2>1 DEF HighDtimEnd, TypeOK, lowVars
<1>8. CASE HighDone
  <2>1. Head(toHigh) \in Bufs /\ Tail(toHigh) \in Seq(Bufs)
    BY <1>8, TailFacts DEF HighDone, TypeOK
  <2>2. hpc' = "general" /\ havail' \in 0 .. GeneralLimit + DtimLimit
    BY <1>8, PollTypes DEF HighDone
  <2> QED
    BY <1>8, <2>1, <2>2 DEF HighDone, TypeOK, lowVars
<1>9. CASE HighSetMcast
  <2>1. hmcast' \in {0, 1} /\ switches' \in 0 .. MaxSwitches
    BY <1>9, NumberFacts DEF HighSetMcast, TypeOK
  <2> QED
    BY <1>9, <2>1 DEF HighSetMcast, TypeOK, lowVars
<1>10. CASE HighSendMcast
  <2>1. toLow' \in Seq(Messages)
    <3>1. <<"MCAST", hmcast>> \in Messages /\ toLow \in Seq(Messages)
      BY MessageFacts DEF TypeOK
    <3> QED
      BY <1>10, <3>1, AppendFacts DEF HighSendMcast
  <2> QED
    BY <1>10, <2>1 DEF HighSendMcast, TypeOK, lowVars
<1>11. CASE HighConfigBeacon
  <2>1. hbeacon' \in {0, 1} /\ toLow' \in Seq(Messages)
    <3>1. PICK mode \in {0, 1} : /\ hbeacon' = mode
                                 /\ toLow' = Append(toLow, <<"BEACON", mode>>)
      BY <1>11 DEF HighConfigBeacon
    <3>2. <<"BEACON", mode>> \in Messages /\ toLow \in Seq(Messages)
      BY MessageFacts DEF TypeOK
    <3> QED
      BY <3>1, <3>2, AppendFacts
  <2>2. switches' \in 0 .. MaxSwitches
    BY <1>11, NumberFacts DEF HighConfigBeacon, TypeOK
  <2> QED
    BY <1>11, <2>1, <2>2 DEF HighConfigBeacon, TypeOK, lowVars
<1> QED
  BY <1>1, <1>2, <1>3, <1>4, <1>5, <1>6, <1>7, <1>8, <1>9, <1>10, <1>11
  DEF HighNext, HighPoll

LEMMA ReceiveTypes ==
    ASSUME TypeOK, NEW kind, Receive(kind)
    PROVE  /\ toLow' \in Seq(Messages) /\ Head(toLow) \in Messages
           /\ bpc' \in {"out", "tbtt", "beacon", "window", "dtim", "sent", "check"}
           /\ Head(toLow)[1] = kind
           /\ UNCHANGED <<toHigh, highVars, txGeneral, mcret, paused>>
<1>1. toLow' \in Seq(Messages) /\ Head(toLow) \in Messages
  BY TailFacts DEF Receive, TypeOK
<1> QED
  BY <1>1 DEF Receive

LEMMA FinishTypes ==
    ASSUME TypeOK, NEW b \in Bufs, Finish(b)
    PROVE  frame' \in [Bufs -> Frames] /\ toHigh' \in Seq(Bufs)
<1>1. toHigh' \in Seq(Bufs)
  BY AppendFacts DEF Finish, TypeOK
<1>2. frame \in [Bufs -> Frames]
  BY DEF TypeOK
<1>3. [NoFrame EXCEPT !.state = "DONE"] \in Frames
  BY DEF NoFrame, Frames, Groups
<1>4. frame' = [frame EXCEPT ![b] = [NoFrame EXCEPT !.state = "DONE"]]
  BY DEF Finish
<1> QED
  BY <1>1, <1>2, <1>3, <1>4

LEMMA PrepareTypes ==
    ASSUME TypeOK, NEW b \in Bufs, Prepare(b)
    PROVE  frame' \in [Bufs -> Frames]
<1>1. frame \in [Bufs -> Frames]
  BY DEF TypeOK
<1> QED
  BY <1>1 DEF Prepare, Frames

\* CPU_LOW.
LEMMA LowTypes ==
    ASSUME TypeOK, HeadKept, LowNext
    PROVE  TypeOK'
<1>1. CASE LowReady
  <2>1. Receive("READY")
    BY <1>1 DEF LowReady
  <2> DEFINE b == Head(toLow)[2]
  <2>2. b \in Bufs
    BY <2>1, ReceiveTypes, MessageFacts
  <2>3. frame' = [frame EXCEPT ![b].state = "LOW_CTRL"] /\ Enlist(b)
    BY <1>1 DEF LowReady
  <2> HIDE DEF b
  <2>4. frame' \in [Bufs -> Frames]
    <3>1. frame \in [Bufs -> Frames]
      BY DEF TypeOK
    <3> QED
      BY <2>2, <2>3, <3>1 DEF Frames
  <2>5. general' \in Seq(Bufs) /\ dtim' \in Seq(Bufs)
    <3>1. general \in Seq(Bufs) /\ dtim \in Seq(Bufs)
      BY DEF TypeOK
    <3>2. Append(general, b) \in Seq(Bufs) /\ Append(dtim, b) \in Seq(Bufs)
      BY <2>2, <3>1, AppendFacts
    <3> QED
      BY <2>3, <3>1, <3>2 DEF Enlist
  <2> QED
    BY <1>1, <2>1, <2>4, <2>5, ReceiveTypes DEF LowReady, TypeOK, highVars
<1>2. CASE LowMcastEnable
  <2>1. Receive("MCAST") /\ lmcast' = Head(toLow)[2]
    BY <1>2 DEF LowMcastEnable
  <2>2. lmcast' \in {0, 1}
    BY <2>1, ReceiveTypes, MessageFacts
  <2>3. /\ frame' \in [Bufs -> Frames] /\ general' \in Seq(Bufs) /\ dtim' \in Seq(Bufs)
        /\ ctrlD' \in Bufs \cup {NoBuf}
    BY <1>2, UpdatedTypes DEF LowMcastEnable
  <2> QED
    BY <1>2, <2>1, <2>2, <2>3, ReceiveTypes DEF LowMcastEnable, TypeOK, highVars
<1>3. CASE LowBeaconConfig
  <2>1. Receive("BEACON") /\ lbeacon' = Head(toLow)[2]
    BY <1>3 DEF LowBeaconConfig
  <2>2. lbeacon' \in {0, 1}
    BY <2>1, ReceiveTypes, MessageFacts
  <2>3. /\ frame' \in [Bufs -> Frames] /\ general' \in Seq(Bufs) /\ dtim' \in Seq(Bufs)
        /\ ctrlD' \in Bufs \cup {NoBuf}
    BY <1>3, UpdatedTypes DEF LowBeaconConfig
  <2> QED
    BY <1>3, <2>1, <2>2, <2>3, ReceiveTypes DEF LowBeaconConfig, TypeOK, highVars
<1>4. CASE LowTxStart
  <2>1. Head(general) \in Bufs
    BY <1>4, TailFacts DEF LowTxStart, TypeOK
  <2>2. frame' \in [Bufs -> Frames]
    BY <1>4, <2>1, PrepareTypes DEF LowTxStart
  <2> QED
    BY <1>4, <2>2 DEF LowTxStart, TypeOK, highVars
<1>5. CASE LowTxEnd /\ general # <<>>
  <2>1. Head(general) \in Bufs /\ Tail(general) \in Seq(Bufs)
    BY <1>5, TailFacts DEF TypeOK
  <2>2. frame' \in [Bufs -> Frames] /\ toHigh' \in Seq(Bufs)
    BY <1>5, <2>1, FinishTypes DEF LowTxEnd
  <2> QED
    BY <1>5, <2>1, <2>2 DEF LowTxEnd, TypeOK, highVars
<1>6. CASE LowDtimStart
  <2>1. Head(dtim) \in Bufs
    BY <1>6, TailFacts DEF LowDtimStart, TypeOK
  <2>2. frame' \in [Bufs -> Frames] /\ ctrlD' \in Bufs \cup {NoBuf}
    BY <1>6, <2>1, PrepareTypes DEF LowDtimStart, TypeOK
  <2> QED
    BY <1>6, <2>2 DEF LowDtimStart, TypeOK, highVars
<1>7. CASE LowDtimFinish /\ dtim # <<>>
  <2>1. Head(dtim) \in Bufs /\ Tail(dtim) \in Seq(Bufs)
    BY <1>7, TailFacts DEF TypeOK
  <2>2. frame' \in [Bufs -> Frames] /\ toHigh' \in Seq(Bufs)
    BY <1>7, <2>1, FinishTypes DEF LowDtimFinish
  <2> QED
    BY <1>7, <2>1, <2>2 DEF LowDtimFinish, TypeOK, highVars
<1>8. CASE \/ Tbtt \/ LowTbtt \/ LowBeaconSkip \/ LowBeaconStart \/ LowDtimBeacon
           \/ LowBeacon \/ LowDtimPause \/ LowTbttEnd \/ LowWindowNext \/ LowWindowEmpty
  BY <1>8 DEF Tbtt, LowTbtt, LowBeaconSkip, LowBeaconStart, LowDtimBeacon, LowBeacon,
              BeaconSent, LowDtimPause, LowTbttEnd, LowWindowNext, LowWindowEmpty,
              TypeOK, highVars
<1>9. /\ LowTxEnd => general # <<>>
      /\ LowDtimFinish => dtim # <<>>
  BY DEF HeadKept, LowTxEnd, LowDtimFinish
<1> QED
  BY <1>1, <1>2, <1>3, <1>4, <1>5, <1>6, <1>7, <1>8, <1>9
  DEF LowNext, LowReceive, LowWindow
-----------------------------------------------------------------------------
(* Every buffer is in one place.                                           *)

\* What CPU_LOW has been told of before and is told of now.
LEMMA ToLowAppend ==
    ASSUME TypeOK, NEW m \in Messages, toLow' = Append(toLow, m)
    PROVE  /\ Range(toLow') = Range(toLow) \cup {m}
           /\ Len(toLow') = Len(toLow) + 1 /\ toLow'[Len(toLow) + 1] = m
           /\ \A i \in 1 .. Len(toLow) : toLow'[i] = toLow[i] /\ toLow[i] \in Range(toLow)
           /\ Len(toLow) \in Nat
<1>1. toLow \in Seq(Messages)
  BY DEF TypeOK
<1>2. \A i \in 1 .. Len(toLow) : toLow[i] \in Range(toLow)
  BY <1>1 DEF Range
<1> QED
  BY <1>1, <1>2, AppendFacts, RangeAppend

LEMMA ToLowTail ==
    ASSUME TypeOK, toLow # <<>>, toLow' = Tail(toLow)
    PROVE  /\ Range(toLow) = Range(toLow') \cup {Head(toLow)}
           /\ Len(toLow) \in Nat /\ Len(toLow) > 0 /\ Len(toLow') = Len(toLow) - 1
           /\ Head(toLow) = toLow[1] /\ Head(toLow) \in Messages
           /\ \A i \in 1 .. Len(toLow') : toLow'[i] = toLow[i + 1] /\ i + 1 \in 1 .. Len(toLow)
           /\ \A m \in Range(toLow') : \E i \in 1 .. Len(toLow') : toLow'[i] = m
<1>1. toLow \in Seq(Messages) /\ toLow' \in Seq(Messages)
  BY TailFacts DEF TypeOK
<1>2. \A m \in Range(toLow') : \E i \in 1 .. Len(toLow') : toLow'[i] = m
  BY <1>1 DEF Range
<1>3. /\ Len(toLow) \in Nat /\ Len(toLow) > 0 /\ Len(toLow') = Len(toLow) - 1
      /\ Head(toLow) = toLow[1] /\ Head(toLow) \in Messages
      /\ \A i \in 1 .. Len(toLow') : toLow'[i] = toLow[i + 1]
  BY <1>1, TailFacts
<1>4. Range(toLow) = Range(toLow') \cup {Head(toLow)}
  BY <1>1, RangeTail
<1> QED
  BY <1>1, <1>2, <1>3, <1>4

LEMMA QuietPlaces ==
    ASSUME Places, UNCHANGED <<frame, toLow, toHigh, hdone, general, dtim>>,
           hpc' = "idle" => hpc = "idle"
    PROVE  Places'
  BY DEF Places

LEMMA FilledPlaces ==
    ASSUME TypeOK, Places, NEW b \in Bufs, NEW g \in Groups, NEW mcast \in BOOLEAN,
           frame[b].state = "HIGH_CTRL", g = "DTIM_MCAST" => mcast,
           frame' = [frame EXCEPT ![b] = [state |-> "READY", group |-> g, mcast |-> mcast,
                                          prepared |-> FALSE]],
           toLow' = Append(toLow, <<"READY", b>>),
           UNCHANGED <<toHigh, hdone, hpc, general, dtim>>
    PROVE  Places'
<1> DEFINE m == <<"READY", b>>
<1>1. m \in Messages /\ m[1] = "READY" /\ \A c : m = <<"READY", c>> => b = c
  BY MessageFacts
<1> HIDE DEF m
<1>2. /\ Range(toLow') = Range(toLow) \cup {m}
      /\ Len(toLow') = Len(toLow) + 1 /\ toLow'[Len(toLow) + 1] = m
      /\ \A i \in 1 .. Len(toLow) : toLow'[i] = toLow[i] /\ toLow[i] \in Range(toLow)
      /\ Len(toLow) \in Nat
  BY <1>1, ToLowAppend DEF m
<1>3. m \notin Range(toLow)
  BY DEF m, Places
<1>4. /\ \A c \in Bufs : c # b => frame'[c] = frame[c]
      /\ frame'[b].state = "READY" /\ frame'[b].group = g /\ frame'[b].mcast = mcast
      /\ frame'[b].prepared = FALSE
  BY DEF TypeOK
<1>5. \A c \in Bufs : <<"READY", c>> \in Range(toLow') => frame'[c].state = "READY"
  BY <1>1, <1>2, <1>4 DEF Places
<1>6. \A i, j \in 1 .. Len(toLow') :
         toLow'[i] = toLow'[j] /\ toLow'[i][1] = "READY" => i = j
  <2> SUFFICES ASSUME NEW i \in 1 .. Len(toLow'), NEW j \in 1 .. Len(toLow'),
                      toLow'[i] = toLow'[j], toLow'[i][1] = "READY"
               PROVE  i = j
    OBVIOUS
  <2>1. /\ i = Len(toLow) + 1 \/ i \in 1 .. Len(toLow)
        /\ j = Len(toLow) + 1 \/ j \in 1 .. Len(toLow)
    BY <1>2
  <2> QED
    BY <1>2, <1>3, <2>1 DEF Places
<1>7. b \notin Range(general) \cup Range(dtim) \cup Range(toHigh) \cup {hdone}
  BY DEF Places
<1>8. Range(general) \cup Range(dtim) \subseteq Bufs
  BY RangeSubset DEF TypeOK
<1>9. \A c \in Range(general) \cup Range(dtim) : frame'[c].state = "LOW_CTRL"
  BY <1>4, <1>7, <1>8 DEF Places
<1>10. \A c \in Bufs : frame'[c].state = "DONE" <=> c \in Range(toHigh) \/ c = hdone
  BY <1>4, <1>7 DEF Places
<1>11. \A c \in Bufs : /\ frame'[c].prepared => frame'[c].state = "LOW_CTRL"
                       /\ frame'[c].group = "DTIM_MCAST" => frame'[c].mcast
  BY <1>4 DEF Places
<1> QED
  BY <1>5, <1>6, <1>9, <1>10, <1>11 DEF Places

LEMMA RecycledPlaces ==
    ASSUME TypeOK, Places,
           frame' = IF hdone = NoBuf THEN frame
                    ELSE [frame EXCEPT ![hdone].state = "HIGH_CTRL"],
           hdone' = NoBuf, UNCHANGED <<toLow, toHigh, general, dtim>>
    PROVE  Places'
<1>1. frame \in [Bufs -> Frames] /\ hdone \in Bufs \cup {NoBuf} /\ NoBuf \notin Bufs
  BY NumberFacts DEF TypeOK
<1>2. \A c \in Bufs : /\ c # hdone => frame'[c] = frame[c]
                      /\ c = hdone => /\ frame'[c].state = "HIGH_CTRL"
                                      /\ frame'[c].group = frame[c].group
                                      /\ frame'[c].mcast = frame[c].mcast
                                      /\ frame'[c].prepared = frame[c].prepared
                                      /\ frame[c].state = "DONE"
  BY <1>1 DEF Frames, Places
<1>3. /\ Range(general) \cup Range(dtim) \subseteq Bufs /\ Range(toHigh) \subseteq Bufs
  BY RangeSubset DEF TypeOK
<1>4. \A c \in Bufs : <<"READY", c>> \in Range(toLow) => frame'[c].state = "READY"
  BY <1>2 DEF Places
<1>5. \A c \in Range(general) \cup Range(dtim) : frame'[c].state = "LOW_CTRL"
  BY <1>2, <1>3 DEF Places
<1>6. \A c \in Bufs : frame'[c].state = "DONE" <=> c \in Range(toHigh) \/ c = NoBuf
  BY <1>1, <1>2 DEF Places
<1>7. \A c \in Bufs : /\ frame'[c].prepared => frame'[c].state = "LOW_CTRL"
                      /\ frame'[c].group = "DTIM_MCAST" => frame'[c].mcast
  BY <1>2 DEF Places
<1>8. NoBuf \notin Range(toHigh)
  BY <1>1, <1>3
<1> QED
  BY <1>4, <1>5, <1>6, <1>7, <1>8 DEF Places

LEMMA DonePlaces ==
    ASSUME TypeOK, Places, HighDone
    PROVE  Places'
<1>1. /\ toHigh \in Seq(Bufs) /\ toHigh # <<>> /\ hdone' = Head(toHigh)
      /\ toHigh' = Tail(toHigh) /\ hdone = NoBuf /\ hpc' = "general"
      /\ UNCHANGED <<frame, toLow, general, dtim>>
  BY DEF TypeOK, Places, HighDone, StartPoll, lowVars
<1>2. /\ Range(toHigh) = Range(toHigh') \cup {Head(toHigh)} /\ Head(toHigh) \in Bufs
  BY <1>1, RangeTail
<1>3. IsInjective(toHigh') /\ Head(toHigh) \notin Range(toHigh')
  BY <1>1, InjectiveTail DEF Places
<1>4. NoBuf \notin Bufs
  BY NumberFacts
<1>5. \A c \in Bufs : frame'[c].state = "DONE" <=> c \in Range(toHigh') \/ c = hdone'
  BY <1>1, <1>2, <1>4 DEF Places
<1> QED
  BY <1>1, <1>3, <1>5 DEF Places

LEMMA ToldPlaces ==
    ASSUME TypeOK, Places, NEW m \in Messages, m[1] # "READY", toLow' = Append(toLow, m),
           UNCHANGED <<frame, toHigh, hdone, hpc, general, dtim>>
    PROVE  Places'
<1>1. /\ Range(toLow') = Range(toLow) \cup {m}
      /\ Len(toLow') = Len(toLow) + 1 /\ toLow'[Len(toLow) + 1] = m
      /\ \A i \in 1 .. Len(toLow) : toLow'[i] = toLow[i] /\ toLow[i] \in Range(toLow)
      /\ Len(toLow) \in Nat
  BY ToLowAppend
<1>2. \A c \in Bufs : <<"READY", c>> \in Range(toLow') => <<"READY", c>> \in Range(toLow)
  BY <1>1, MessageFacts
<1>3. \A i, j \in 1 .. Len(toLow') :
         toLow'[i] = toLow'[j] /\ toLow'[i][1] = "READY" => i = j
  <2> SUFFICES ASSUME NEW i \in 1 .. Len(toLow'), NEW j \in 1 .. Len(toLow'),
                      toLow'[i] = toLow'[j], toLow'[i][1] = "READY"
               PROVE  i = j
    OBVIOUS
  <2>1. i \in 1 .. Len(toLow) /\ j \in 1 .. Len(toLow)
    BY <1>1
  <2> QED
    BY <1>1, <2>1 DEF Places
<1> QED
  BY <1>2, <1>3 DEF Places

\* The oldest message is read.
LEMMA ReadPlaces ==
    ASSUME TypeOK, Places, toLow # <<>>, toLow' = Tail(toLow)
    PROVE  /\ \A c \in Bufs : <<"READY", c>> \in Range(toLow')
                 => frame[c].state = "READY" /\ <<"READY", c>> # Head(toLow)
           /\ \A i, j \in 1 .. Len(toLow') :
                 toLow'[i] = toLow'[j] /\ toLow'[i][1] = "READY" => i = j
<1>1. /\ Range(toLow) = Range(toLow') \cup {Head(toLow)}
      /\ Len(toLow) \in Nat /\ Len(toLow) > 0 /\ Len(toLow') = Len(toLow) - 1
      /\ Head(toLow) = toLow[1]
      /\ \A i \in 1 .. Len(toLow') : toLow'[i] = toLow[i + 1] /\ i + 1 \in 1 .. Len(toLow)
      /\ \A m \in Range(toLow') : \E i \in 1 .. Len(toLow') : toLow'[i] = m
  BY ToLowTail
<1>2. \A i \in 1 .. Len(toLow') : i + 1 # 1 /\ 1 \in 1 .. Len(toLow)
  BY <1>1
<1>3. ASSUME NEW c \in Bufs, <<"READY", c>> \in Range(toLow')
      PROVE  frame[c].state = "READY" /\ <<"READY", c>> # Head(toLow)
  <2>1. PICK i \in 1 .. Len(toLow') : toLow'[i] = <<"READY", c>>
    BY <1>1, <1>3
  <2>2. toLow[i + 1] # toLow[1]
    BY <1>1, <1>2, <2>1, MessageFacts DEF Places
  <2> QED
    BY <1>1, <1>3, <2>1, <2>2 DEF Places
<1>4. \A i, j \in 1 .. Len(toLow') :
         toLow'[i] = toLow'[j] /\ toLow'[i][1] = "READY" => i = j
  <2> SUFFICES ASSUME NEW i \in 1 .. Len(toLow'), NEW j \in 1 .. Len(toLow'),
                      toLow'[i] = toLow'[j], toLow'[i][1] = "READY"
               PROVE  i = j
    OBVIOUS
  <2>1. i + 1 = j + 1
    BY <1>1 DEF Places
  <2> QED
    BY <1>1, <2>1
<1> QED
  BY <1>3, <1>4

LEMMA ReadyPlaces ==
    ASSUME TypeOK, Places, LowReady
    PROVE  Places'
<1> DEFINE b == Head(toLow)[2]
<1>1. /\ toLow # <<>> /\ toLow' = Tail(toLow) /\ Head(toLow)[1] = "READY"
      /\ UNCHANGED <<toHigh, hdone, hpc>>
  BY DEF LowReady, Receive, highVars
<1>2. /\ Head(toLow) \in Messages /\ Head(toLow) \in Range(toLow)
  BY <1>1, ToLowTail
<1>3. b \in Bufs /\ Head(toLow) = <<"READY", b>>
  BY <1>1, <1>2, MessageFacts
<1>4. frame[b].state = "READY"
  BY <1>2, <1>3 DEF Places
<1>5. frame' = [frame EXCEPT ![b].state = "LOW_CTRL"] /\ Enlist(b)
  BY DEF LowReady
<1> HIDE DEF b
<1>6. /\ \A c \in Bufs : c # b => frame'[c] = frame[c]
      /\ frame'[b].state = "LOW_CTRL" /\ frame'[b].group = frame[b].group
      /\ frame'[b].mcast = frame[b].mcast /\ frame'[b].prepared = frame[b].prepared
  BY <1>3, <1>5 DEF TypeOK, Frames
<1>7. /\ \A c \in Bufs : <<"READY", c>> \in Range(toLow')
            => frame[c].state = "READY" /\ <<"READY", c>> # Head(toLow)
      /\ \A i, j \in 1 .. Len(toLow') :
            toLow'[i] = toLow'[j] /\ toLow'[i][1] = "READY" => i = j
  BY <1>1, ReadPlaces
<1>8. \A c \in Bufs : <<"READY", c>> \in Range(toLow') => frame'[c].state = "READY"
  BY <1>3, <1>6, <1>7
<1>9. b \notin Range(general) /\ b \notin Range(dtim)
  BY <1>4 DEF Places
<1>10. general \in Seq(Bufs) /\ dtim \in Seq(Bufs)
  BY DEF TypeOK
<1>11. /\ IsInjective(general') /\ IsInjective(dtim')
       /\ Range(general') \cap Range(dtim') = {}
       /\ Range(general') \cup Range(dtim') \subseteq Range(general) \cup Range(dtim) \cup {b}
  <2>1. /\ IsInjective(Append(general, b)) /\ Range(Append(general, b)) = Range(general) \cup {b}
        /\ IsInjective(Append(dtim, b)) /\ Range(Append(dtim, b)) = Range(dtim) \cup {b}
    BY <1>3, <1>9, <1>10, RangeAppend, InjectiveAppend DEF Places
  <2>2. IsInjective(general) /\ IsInjective(dtim) /\ Range(general) \cap Range(dtim) = {}
    BY DEF Places
  <2>3. \/ general' = general /\ dtim' = dtim
        \/ general' = general /\ dtim' = Append(dtim, b)
        \/ general' = Append(general, b) /\ dtim' = dtim
    BY <1>5 DEF Enlist
  <2>4. CASE general' = general /\ dtim' = dtim
    BY <2>2, <2>4
  <2>5. CASE general' = general /\ dtim' = Append(dtim, b)
    BY <1>9, <2>1, <2>2, <2>5
  <2>6. CASE general' = Append(general, b) /\ dtim' = dtim
    BY <1>9, <2>1, <2>2, <2>6
  <2> QED
    BY <2>3, <2>4, <2>5, <2>6
<1>12. Range(general) \cup Range(dtim) \subseteq Bufs
  BY <1>10, RangeSubset
<1>13. \A c \in Range(general') \cup Range(dtim') : frame'[c].state = "LOW_CTRL"
  BY <1>6, <1>11, <1>12 DEF Places
<1>14. \A c \in Bufs : frame'[c].state = "DONE" <=> c \in Range(toHigh) \/ c = hdone
  BY <1>4, <1>6 DEF Places
<1>15. \A c \in Bufs : /\ frame'[c].prepared => frame'[c].state = "LOW_CTRL"
                       /\ frame'[c].group = "DTIM_MCAST" => frame'[c].mcast
  BY <1>6 DEF Places
<1> QED
  BY <1>1, <1>7, <1>8, <1>11, <1>13, <1>14, <1>15 DEF Places

-----------------------------------------------------------------------------
(* The lists are updated.                                                  *)

\* Entries move from one list to the end of the other.
LEMMA MovedFacts ==
    ASSUME NEW from \in Seq(Bufs), NEW to \in Seq(Bufs), NEW moves \in SUBSET Bufs,
           IsInjective(from), IsInjective(to), Range(from) \cap Range(to) = {},
           NEW moved, moved = Selected(from, moves),
           NEW kept, kept = Selected(from, Bufs \ moves)
    PROVE  /\ kept \in Seq(Bufs) /\ to \o moved \in Seq(Bufs)
           /\ Range(moved) = Range(from) \cap moves
           /\ Range(kept) = Range(from) \ moves
           /\ Range(to \o moved) = Range(to) \cup (Range(from) \cap moves)
           /\ IsInjective(kept) /\ IsInjective(to \o moved)
           /\ to # <<>> => to \o moved # <<>> /\ Head(to \o moved) = Head(to)
           /\ from # <<>> /\ Head(from) \notin moves
                => kept # <<>> /\ Head(kept) = Head(from)
<1>1. /\ moved \in Seq(Bufs) /\ Range(moved) = Range(from) \cap moves /\ IsInjective(moved)
      /\ kept \in Seq(Bufs) /\ Range(kept) = Range(from) \cap (Bufs \ moves)
      /\ IsInjective(kept)
      /\ from # <<>> /\ Head(from) \in Bufs \ moves
           => kept # <<>> /\ Head(kept) = Head(from)
  <2>1. /\ moved \in Seq(Bufs) /\ Range(moved) = Range(from) \cap moves /\ IsInjective(moved)
    BY SelectedFacts
  <2>2. /\ kept \in Seq(Bufs) /\ Range(kept) = Range(from) \cap (Bufs \ moves)
        /\ IsInjective(kept)
        /\ from # <<>> /\ Head(from) \in Bufs \ moves
             => kept # <<>> /\ Head(kept) = Head(from)
    <3> DEFINE rest == Bufs \ moves
    <3>1. kept = Selected(from, rest)
      OBVIOUS
    <3> HIDE DEF rest
    <3>2. kept \in Seq(Bufs)
      BY <3>1, SelectedFacts
    <3>5. Range(kept) = Range(from) \cap rest
      BY <3>1, SelectedFacts
    <3>4. IsInjective(kept)
      BY <3>1, SelectedFacts
    <3>3. ASSUME from # <<>>, Head(from) \in rest
          PROVE  kept # <<>> /\ Head(kept) = Head(from)
      BY <3>1, <3>3, SelectedFacts
    <3> QED
      BY <3>2, <3>3, <3>4, <3>5 DEF rest
  <2> QED
    BY <2>1, <2>2
<1>2. /\ Range(from) \subseteq Bufs
      /\ from # <<>> => Head(from) \in Bufs
  BY RangeSubset, TailFacts
<1>3. Range(kept) = Range(from) \ moves
  BY <1>1, <1>2
<1>4. Range(to) \cap Range(moved) = {}
  BY <1>1
<1>5. /\ to \o moved \in Seq(Bufs) /\ Range(to \o moved) = Range(to) \cup Range(moved)
      /\ IsInjective(to \o moved)
  BY <1>1, <1>4, ConcatFacts
<1>6. to # <<>> => to \o moved # <<>> /\ Head(to \o moved) = Head(to)
  BY <1>1, ConcatTail
<1> QED
  BY <1>1, <1>2, <1>3, <1>5, <1>6

\* CPU_LOW buffers: what it has not prepared and is multicast moves to the DTIM list.
LEMMA StartedFacts ==
    ASSUME TypeOK, Places, UpdateLists(TRUE)
    PROVE  /\ Range(general') = {b \in Range(general) : frame[b].prepared \/ ~ frame[b].mcast}
           /\ Range(dtim') = Range(dtim)
                  \cup {b \in Range(general) : ~ frame[b].prepared /\ frame[b].mcast}
           /\ IsInjective(general') /\ IsInjective(dtim')
           /\ \A b \in Bufs :
                 /\ frame'[b].state = frame[b].state /\ frame'[b].mcast = frame[b].mcast
                 /\ frame'[b].prepared = frame[b].prepared
                 /\ frame'[b].group = IF b \in Range(general) /\ ~ frame[b].prepared
                                         /\ frame[b].mcast
                                      THEN "DTIM_MCAST" ELSE frame[b].group
           /\ dtim # <<>> => dtim' # <<>> /\ Head(dtim') = Head(dtim)
           /\ general # <<>> /\ frame[Head(general)].prepared
                => general' # <<>> /\ Head(general') = Head(general)
           /\ ctrlD' = ctrlD
<1> DEFINE moves == {b \in Bufs : ~ frame[b].prepared /\ (TRUE => frame[b].mcast)}
           moved == Selected(general, moves)
           kept == Selected(general, Bufs \ moves)
<1>1. /\ general \in Seq(Bufs) /\ dtim \in Seq(Bufs) /\ frame \in [Bufs -> Frames]
      /\ IsInjective(general) /\ IsInjective(dtim) /\ Range(general) \cap Range(dtim) = {}
  BY DEF TypeOK, Places
<1>2. /\ general' = kept /\ dtim' = dtim \o moved /\ ctrlD' = ctrlD
      /\ frame' = [b \in Bufs |-> IF b \in Range(moved)
                      THEN [frame[b] EXCEPT !.group = "DTIM_MCAST"] ELSE frame[b]]
  BY DEF UpdateLists
<1>3. moves \in SUBSET Bufs
  OBVIOUS
<1>4. \A b \in Bufs : b \in moves <=> ~ frame[b].prepared /\ frame[b].mcast
  OBVIOUS
<1> HIDE DEF moves
<1>5. /\ Range(moved) = Range(general) \cap moves
      /\ Range(kept) = Range(general) \ moves
      /\ Range(dtim \o moved) = Range(dtim) \cup (Range(general) \cap moves)
      /\ IsInjective(kept) /\ IsInjective(dtim \o moved)
      /\ dtim # <<>> => dtim \o moved # <<>> /\ Head(dtim \o moved) = Head(dtim)
      /\ general # <<>> /\ Head(general) \notin moves
           => kept # <<>> /\ Head(kept) = Head(general)
  <2>1. moved = Selected(general, moves) /\ kept = Selected(general, Bufs \ moves)
    OBVIOUS
  <2> HIDE DEF moved, kept
  <2> QED
    BY <1>1, <1>3, <2>1, MovedFacts
<1> HIDE DEF moved, kept
<1>6. Range(general) \subseteq Bufs /\ (general # <<>> => Head(general) \in Bufs)
  BY <1>1, RangeSubset, TailFacts
<1>7. Range(general') = {b \in Range(general) : frame[b].prepared \/ ~ frame[b].mcast}
  BY <1>2, <1>4, <1>5, <1>6
<1>8. Range(dtim') = Range(dtim)
          \cup {b \in Range(general) : ~ frame[b].prepared /\ frame[b].mcast}
  BY <1>2, <1>4, <1>5, <1>6
<1>9. \A b \in Bufs : b \in Range(moved) <=> /\ b \in Range(general)
                                             /\ ~ frame[b].prepared /\ frame[b].mcast
  BY <1>4, <1>5
<1>10. \A b \in Bufs :
          /\ frame'[b].state = frame[b].state /\ frame'[b].mcast = frame[b].mcast
          /\ frame'[b].prepared = frame[b].prepared
          /\ frame'[b].group = IF b \in Range(moved) THEN "DTIM_MCAST" ELSE frame[b].group
  BY <1>1, <1>2 DEF Frames
<1>11. general # <<>> /\ frame[Head(general)].prepared
         => general' # <<>> /\ Head(general') = Head(general)
  BY <1>2, <1>4, <1>5, <1>6
<1> QED
  BY <1>2, <1>5, <1>7, <1>8, <1>9, <1>10, <1>11

\* CPU_LOW does not buffer: the DTIM list keeps only what was prepared.
LEMMA StoppedFacts ==
    ASSUME TypeOK, Places, UpdateLists(FALSE)
    PROVE  /\ Range(dtim') = {b \in Range(dtim) : frame[b].prepared}
           /\ Range(general') = Range(general) \cup {b \in Range(dtim) : ~ frame[b].prepared}
           /\ IsInjective(general') /\ IsInjective(dtim')
           /\ \A b \in Bufs :
                 /\ frame'[b].state = frame[b].state /\ frame'[b].mcast = frame[b].mcast
                 /\ frame'[b].prepared = frame[b].prepared
                 /\ frame'[b].group = IF b \in Range(dtim) /\ ~ frame[b].prepared
                                      THEN "GENERAL" ELSE frame[b].group
           /\ general # <<>> => general' # <<>> /\ Head(general') = Head(general)
           /\ dtim # <<>> /\ frame[Head(dtim)].prepared
                => dtim' # <<>> /\ Head(dtim') = Head(dtim)
<1> DEFINE moves == {b \in Bufs : ~ frame[b].prepared /\ (FALSE => frame[b].mcast)}
           moved == Selected(dtim, moves)
           kept == Selected(dtim, Bufs \ moves)
<1>1. /\ general \in Seq(Bufs) /\ dtim \in Seq(Bufs) /\ frame \in [Bufs -> Frames]
      /\ IsInjective(general) /\ IsInjective(dtim) /\ Range(general) \cap Range(dtim) = {}
  BY DEF TypeOK, Places
<1>2. /\ dtim' = kept /\ general' = general \o moved
      /\ frame' = [b \in Bufs |-> IF b \in Range(moved)
                      THEN [frame[b] EXCEPT !.group = "GENERAL"] ELSE frame[b]]
  BY DEF UpdateLists
<1>3. moves \in SUBSET Bufs
  OBVIOUS
<1>4. \A b \in Bufs : b \in moves <=> ~ frame[b].prepared
  OBVIOUS
<1> HIDE DEF moves
<1>5. /\ Range(moved) = Range(dtim) \cap moves
      /\ Range(kept) = Range(dtim) \ moves
      /\ Range(general \o moved) = Range(general) \cup (Range(dtim) \cap moves)
      /\ IsInjective(kept) /\ IsInjective(general \o moved)
      /\ general # <<>> => general \o moved # <<>> /\ Head(general \o moved) = Head(general)
      /\ dtim # <<>> /\ Head(dtim) \notin moves
           => kept # <<>> /\ Head(kept) = Head(dtim)
  <2>1. moved = Selected(dtim, moves) /\ kept = Selected(dtim, Bufs \ moves)
    OBVIOUS
  <2>2. Range(dtim) \cap Range(general) = {}
    BY <1>1
  <2> HIDE DEF moved, kept
  <2> QED
    BY <1>1, <1>3, <2>1, <2>2, MovedFacts
<1> HIDE DEF moved, kept
<1>6. Range(dtim) \subseteq Bufs /\ (dtim # <<>> => Head(dtim) \in Bufs)
  BY <1>1, RangeSubset, TailFacts
<1>7. Range(dtim') = {b \in Range(dtim) : frame[b].prepared}
  BY <1>2, <1>4, <1>5, <1>6
<1>8. Range(general') = Range(general) \cup {b \in Range(dtim) : ~ frame[b].prepared}
  BY <1>2, <1>4, <1>5, <1>6
<1>9. \A b \in Bufs : b \in Range(moved) <=> b \in Range(dtim) /\ ~ frame[b].prepared
  BY <1>4, <1>5
<1>10. \A b \in Bufs :
          /\ frame'[b].state = frame[b].state /\ frame'[b].mcast = frame[b].mcast
          /\ frame'[b].prepared = frame[b].prepared
          /\ frame'[b].group = IF b \in Range(moved) THEN "GENERAL" ELSE frame[b].group
  BY <1>1, <1>2 DEF Frames
<1>11. dtim # <<>> /\ frame[Head(dtim)].prepared
         => dtim' # <<>> /\ Head(dtim') = Head(dtim)
  BY <1>2, <1>4, <1>5, <1>6
<1> QED
  BY <1>2, <1>5, <1>7, <1>8, <1>9, <1>10, <1>11

LEMMA UpdatedPlaces ==
    ASSUME TypeOK, Places, NEW buffering \in BOOLEAN, UpdateLists(buffering),
           toLow # <<>>, toLow' = Tail(toLow), UNCHANGED <<toHigh, hdone, hpc>>
    PROVE  Places'
<1>1. /\ \A c \in Bufs : <<"READY", c>> \in Range(toLow') => frame[c].state = "READY"
      /\ \A i, j \in 1 .. Len(toLow') :
            toLow'[i] = toLow'[j] /\ toLow'[i][1] = "READY" => i = j
  BY ReadPlaces
<1>2. Range(general) \cup Range(dtim) \subseteq Bufs
  BY RangeSubset DEF TypeOK
<1>3. /\ IsInjective(general') /\ IsInjective(dtim')
      /\ Range(general') \cap Range(dtim') = {}
      /\ Range(general') \cup Range(dtim') = Range(general) \cup Range(dtim)
      /\ \A b \in Bufs :
            /\ frame'[b].state = frame[b].state /\ frame'[b].mcast = frame[b].mcast
            /\ frame'[b].prepared = frame[b].prepared
            /\ frame'[b].group = "DTIM_MCAST" => frame[b].group = "DTIM_MCAST" \/ frame[b].mcast
  <2>1. Range(general) \cap Range(dtim) = {}
    BY DEF Places
  <2>2. CASE buffering
    <3>1. UpdateLists(TRUE)
      BY <2>2
    <3> QED
      BY <2>1, <3>1, StartedFacts
  <2>3. CASE ~ buffering
    <3>1. UpdateLists(FALSE)
      BY <2>3
    <3> QED
      BY <2>1, <3>1, StoppedFacts
  <2> QED
    BY <2>2, <2>3
<1>4. \A c \in Range(general') \cup Range(dtim') : frame'[c].state = "LOW_CTRL"
  BY <1>2, <1>3 DEF Places
<1>5. \A c \in Bufs : frame'[c].state = "DONE" <=> c \in Range(toHigh) \/ c = hdone
  BY <1>3 DEF Places
<1>6. \A c \in Bufs : /\ frame'[c].prepared => frame'[c].state = "LOW_CTRL"
                      /\ frame'[c].group = "DTIM_MCAST" => frame'[c].mcast
  BY <1>3 DEF Places
<1>7. \A c \in Bufs : <<"READY", c>> \in Range(toLow') => frame'[c].state = "READY"
  BY <1>1, <1>3
<1> QED
  BY <1>1, <1>3, <1>4, <1>5, <1>6, <1>7 DEF Places

\* A frame of a list is prepared.
LEMMA PreparedFacts ==
    ASSUME TypeOK, NEW b \in Bufs, Prepare(b)
    PROVE  \A c \in Bufs : /\ frame'[c].state = frame[c].state
                           /\ frame'[c].mcast = frame[c].mcast
                           /\ frame'[c].group = frame[c].group
                           /\ frame'[c].prepared <=> frame[c].prepared \/ c = b
  BY DEF TypeOK, Frames, Prepare

LEMMA PreparedPlaces ==
    ASSUME TypeOK, Places, NEW b \in Range(general) \cup Range(dtim), Prepare(b),
           UNCHANGED <<toLow, toHigh, hdone, hpc, general, dtim>>
    PROVE  Places'
<1>1. Range(general) \cup Range(dtim) \subseteq Bufs
  BY RangeSubset DEF TypeOK
<1>2. b \in Bufs
  BY <1>1
<1>3. \A c \in Bufs : /\ frame'[c].state = frame[c].state
                      /\ frame'[c].mcast = frame[c].mcast
                      /\ frame'[c].group = frame[c].group
                      /\ frame'[c].prepared <=> frame[c].prepared \/ c = b
  BY <1>2, PreparedFacts
<1>4. \A c \in Range(general) \cup Range(dtim) : frame'[c].state = "LOW_CTRL"
  BY <1>1, <1>3 DEF Places
<1>5. \A c \in Bufs : /\ frame'[c].prepared => frame'[c].state = "LOW_CTRL"
                      /\ frame'[c].group = "DTIM_MCAST" => frame'[c].mcast
  BY <1>3 DEF Places
<1> QED
  BY <1>3, <1>4, <1>5 DEF Places

\* The frame at the head of a list is finished.
LEMMA FinishedFacts ==
    ASSUME TypeOK, NEW b \in Bufs, Finish(b)
    PROVE  /\ \A c \in Bufs : c # b => frame'[c] = frame[c]
           /\ frame'[b].state = "DONE" /\ ~ frame'[b].prepared
           /\ frame'[b].group = "GENERAL"
           /\ Range(toHigh') = Range(toHigh) \cup {b}
           /\ IsInjective(toHigh) /\ b \notin Range(toHigh) => IsInjective(toHigh')
<1>1. toHigh \in Seq(Bufs) /\ toHigh' = Append(toHigh, b)
  BY DEF TypeOK, Finish
<1>2. /\ \A c \in Bufs : c # b => frame'[c] = frame[c]
      /\ frame'[b] = [NoFrame EXCEPT !.state = "DONE"]
  BY DEF TypeOK, Finish
<1> QED
  BY <1>1, <1>2, RangeAppend, InjectiveAppend DEF NoFrame

LEMMA FinishedPlaces ==
    ASSUME TypeOK, Places, NEW b \in Range(general) \cup Range(dtim), Finish(b),
           IsInjective(general'), IsInjective(dtim'),
           Range(general') \subseteq Range(general), Range(dtim') \subseteq Range(dtim),
           b \notin Range(general') \cup Range(dtim'),
           UNCHANGED <<toLow, hdone, hpc>>
    PROVE  Places'
<1>1. Range(general) \cup Range(dtim) \subseteq Bufs
  BY RangeSubset DEF TypeOK
<1>2. b \in Bufs /\ frame[b].state = "LOW_CTRL"
  BY <1>1 DEF Places
<1>3. b \notin Range(toHigh) /\ b # hdone
  BY <1>2 DEF Places
<1>4. /\ \A c \in Bufs : c # b => frame'[c] = frame[c]
      /\ frame'[b].state = "DONE" /\ ~ frame'[b].prepared
      /\ frame'[b].group = "GENERAL"
      /\ Range(toHigh') = Range(toHigh) \cup {b} /\ IsInjective(toHigh')
  BY <1>2, <1>3, FinishedFacts DEF Places
<1>5. \A c \in Bufs : <<"READY", c>> \in Range(toLow) => frame'[c].state = "READY"
  BY <1>2, <1>4 DEF Places
<1>6. \A c \in Range(general') \cup Range(dtim') : frame'[c].state = "LOW_CTRL"
  BY <1>1, <1>4 DEF Places
<1>7. \A c \in Bufs : frame'[c].state = "DONE" <=> c \in Range(toHigh') \/ c = hdone
  BY <1>2, <1>3, <1>4 DEF Places
<1>8. \A c \in Bufs : /\ frame'[c].prepared => frame'[c].state = "LOW_CTRL"
                      /\ frame'[c].group = "DTIM_MCAST" => frame'[c].mcast
  BY <1>4 DEF Places
<1>9. hdone \notin Range(toHigh') /\ Range(general') \cap Range(dtim') = {}
  BY <1>3, <1>4 DEF Places
<1> QED
  BY <1>4, <1>5, <1>6, <1>7, <1>8, <1>9 DEF Places

\* The head of a list that loses its head.
LEMMA HeadLeaves ==
    ASSUME NEW s \in Seq(Bufs), s # <<>>, IsInjective(s), NEW t, t = Tail(s)
    PROVE  /\ Head(s) \in Bufs /\ Head(s) \in Range(s) /\ Head(s) \notin Range(t)
           /\ IsInjective(t) /\ Range(s) = Range(t) \cup {Head(s)} /\ t \in Seq(Bufs)
<1>1. Range(s) = Range(t) \cup {Head(s)} /\ Head(s) \in Bufs /\ t \in Seq(Bufs)
  BY RangeTail, TailFacts
<1>2. IsInjective(t) /\ Head(s) \notin Range(t)
  BY InjectiveTail
<1> QED
  BY <1>1, <1>2

LEMMA HighPlaces ==
    ASSUME TypeOK, Places, HighNext
    PROVE  Places'
<1>1. CASE HighEnqueueMcast \/ HighPollRequest \/ HighSetMcast
  BY <1>1, QuietPlaces DEF HighEnqueueMcast, HighPollRequest, HighSetMcast, StartPoll, lowVars
<1>2. ASSUME NEW g \in Groups, NEW mcast \in BOOLEAN, Submit(g, mcast),
             g = "DTIM_MCAST" => mcast,
             UNCHANGED <<toHigh, hdone, hpc, general, dtim>>
      PROVE  Places'
  <2>1. PICK b \in Empty :
           /\ frame' = [frame EXCEPT ![b] = [state |-> "READY", group |-> g,
                                             mcast |-> mcast, prepared |-> FALSE]]
           /\ toLow' = Append(toLow, <<"READY", b>>)
    BY <1>2 DEF Submit
  <2>2. b \in Bufs /\ frame[b].state = "HIGH_CTRL"
    BY DEF Empty
  <2> QED
    BY <1>2, <2>1, <2>2, FilledPlaces
<1>3. ASSUME Discard, UNCHANGED <<toHigh, hdone, hpc, general, dtim>>
      PROVE  Places'
  BY <1>3, QuietPlaces DEF Discard
<1>4. CASE HighFillGeneral
  BY <1>2, <1>3, <1>4 DEF HighFillGeneral, Groups, lowVars
<1>5. CASE HighFillUnbuffered
  BY <1>2, <1>3, <1>5 DEF HighFillUnbuffered, Groups, lowVars
<1>6. CASE HighFillDtim
  BY <1>2, <1>3, <1>6 DEF HighFillDtim, Groups, lowVars
<1>7. CASE HighGeneralEnd
  <2>1. CASE hmcast = 1 /\ hbeacon = 1
    BY <1>7, <2>1, QuietPlaces DEF HighGeneralEnd, lowVars
  <2>2. CASE ~ (hmcast = 1 /\ hbeacon = 1)
    BY <1>7, <2>2, RecycledPlaces DEF HighGeneralEnd, lowVars
  <2> QED
    BY <2>1, <2>2
<1>8. CASE HighDtimEnd
  BY <1>8, RecycledPlaces DEF HighDtimEnd, lowVars
<1>9. CASE HighDone
  BY <1>9, DonePlaces
<1>10. CASE HighSendMcast
  <2>1. <<"MCAST", hmcast>> \in Messages /\ <<"MCAST", hmcast>>[1] # "READY"
    BY MessageFacts DEF TypeOK
  <2> QED
    BY <1>10, <2>1, ToldPlaces DEF HighSendMcast, lowVars
<1>11. CASE HighConfigBeacon
  <2>1. PICK mode \in {0, 1} : toLow' = Append(toLow, <<"BEACON", mode>>)
    BY <1>11 DEF HighConfigBeacon
  <2>2. <<"BEACON", mode>> \in Messages /\ <<"BEACON", mode>>[1] # "READY"
    BY MessageFacts
  <2> QED
    BY <1>11, <2>1, <2>2, ToldPlaces DEF HighConfigBeacon, lowVars
<1> QED
  BY <1>1, <1>4, <1>5, <1>6, <1>7, <1>8, <1>9, <1>10, <1>11 DEF HighNext, HighPoll

LEMMA LowPlaces ==
    ASSUME TypeOK, Places, HeadKept, LowNext
    PROVE  Places'
<1>1. CASE LowReady
  BY <1>1, ReadyPlaces
<1>2. CASE LowMcastEnable
  BY <1>2, UpdatedPlaces DEF LowMcastEnable, Receive, highVars
<1>3. CASE LowBeaconConfig
  BY <1>3, UpdatedPlaces DEF LowBeaconConfig, Receive, highVars
<1>4. general \in Seq(Bufs) /\ dtim \in Seq(Bufs) /\ IsInjective(general) /\ IsInjective(dtim)
      /\ Range(general) \cap Range(dtim) = {}
  BY DEF TypeOK, Places
<1>5. CASE LowTxStart
  <2>1. Head(general) \in Range(general)
    BY <1>4, <1>5, HeadLeaves DEF LowTxStart
  <2> QED
    BY <1>5, <2>1, PreparedPlaces DEF LowTxStart, highVars
<1>6. CASE LowDtimStart
  <2>1. Head(dtim) \in Range(dtim)
    BY <1>4, <1>6, HeadLeaves DEF LowDtimStart
  <2>2. CASE paused
    BY <1>6, <2>2, QuietPlaces DEF LowDtimStart, highVars
  <2>3. CASE ~ paused
    BY <1>6, <2>1, <2>3, PreparedPlaces DEF LowDtimStart, highVars
  <2> QED
    BY <2>2, <2>3
<1>7. CASE LowTxEnd
  <2>1. general # <<>> /\ general' = Tail(general) /\ dtim' = dtim
    BY <1>7 DEF LowTxEnd, HeadKept
  <2>2. /\ Head(general) \in Range(general) /\ Head(general) \notin Range(general')
        /\ IsInjective(general') /\ Range(general) = Range(general') \cup {Head(general)}
    BY <1>4, <2>1, HeadLeaves, Zenon
  <2>3. Finish(Head(general)) /\ UNCHANGED <<toLow, hdone, hpc>>
    BY <1>7 DEF LowTxEnd, highVars
  <2>4. Head(general) \notin Range(dtim)
    BY <1>4, <2>2
  <2> QED
    BY <1>4, <2>1, <2>2, <2>3, <2>4, FinishedPlaces
<1>8. CASE LowDtimFinish
  <2>1. dtim # <<>> /\ dtim' = Tail(dtim) /\ general' = general
    BY <1>8 DEF LowDtimFinish, HeadKept
  <2>2. /\ Head(dtim) \in Range(dtim) /\ Head(dtim) \notin Range(dtim')
        /\ IsInjective(dtim') /\ Range(dtim) = Range(dtim') \cup {Head(dtim)}
    BY <1>4, <2>1, HeadLeaves, Zenon
  <2>3. Finish(Head(dtim)) /\ UNCHANGED <<toLow, hdone, hpc>>
    BY <1>8 DEF LowDtimFinish, highVars
  <2>4. Head(dtim) \notin Range(general)
    BY <1>4, <2>2
  <2> QED
    BY <1>4, <2>1, <2>2, <2>3, <2>4, FinishedPlaces
<1>9. CASE \/ Tbtt \/ LowTbtt \/ LowBeaconSkip \/ LowBeaconStart \/ LowDtimBeacon
           \/ LowBeacon \/ LowDtimPause \/ LowTbttEnd \/ LowWindowNext \/ LowWindowEmpty
  BY <1>9, QuietPlaces
  DEF Tbtt, LowTbtt, LowBeaconSkip, LowBeaconStart, LowDtimBeacon, LowBeacon,
      BeaconSent, LowDtimPause, LowTbttEnd, LowWindowNext, LowWindowEmpty, highVars
<1> QED
  BY <1>1, <1>2, <1>3, <1>5, <1>6, <1>7, <1>8, <1>9 DEF LowNext, LowReceive, LowWindow

-----------------------------------------------------------------------------
(* The lists follow the mode, and a prepared frame stays the head of its list. *)

\* What the lists promise together.
Queued == Lists /\ HeadKept /\ MoreWaits

\* The members of the lists, and their heads.
LEMMA ListMembers ==
    ASSUME TypeOK
    PROVE  /\ Range(general) \subseteq Bufs /\ Range(dtim) \subseteq Bufs
           /\ general # <<>> => Head(general) \in Range(general)
           /\ dtim # <<>> => Head(dtim) \in Range(dtim)
<1>1. general \in Seq(Bufs) /\ dtim \in Seq(Bufs)
  BY DEF TypeOK
<1>2. general # <<>> => Head(general) \in Range(general)
  BY <1>1, HeadInRange
<1>3. dtim # <<>> => Head(dtim) \in Range(dtim)
  BY <1>1, HeadInRange
<1> QED
  BY <1>1, <1>2, <1>3, RangeSubset

\* CPU_HIGH fills and recycles buffers that are in no list.
LEMMA QuietLists ==
    ASSUME TypeOK, Queued,
           \A b \in Range(general) \cup Range(dtim) : frame'[b] = frame[b],
           UNCHANGED <<general, dtim, lmcast, lbeacon, txGeneral, paused, bpc, mcret>>
    PROVE  Queued'
<1>1. /\ Range(general) \subseteq Bufs /\ Range(dtim) \subseteq Bufs
      /\ general # <<>> => Head(general) \in Range(general)
      /\ dtim # <<>> => Head(dtim) \in Range(dtim)
  BY ListMembers
<1>2. Lists'
  BY DEF Queued, Lists, Buffering
<1>3. HeadKept'
  BY <1>1 DEF Queued, HeadKept
<1>4. MoreWaits'
  BY <1>1 DEF Queued, MoreWaits, Buffering
<1> QED
  BY <1>2, <1>3, <1>4 DEF Queued

\* CPU_LOW goes on without touching a list.
LEMMA ControlLists ==
    ASSUME Queued, UNCHANGED <<frame, general, dtim, lmcast, lbeacon, txGeneral>>,
           paused' => paused \/ bpc = "dtim", bpc' \notin {"dtim", "sent", "check"}
    PROVE  Queued'
<1>1. Lists'
  BY DEF Queued, Lists, Buffering
<1>2. HeadKept'
  BY DEF Queued, HeadKept
<1>3. MoreWaits'
  BY DEF MoreWaits
<1> QED
  BY <1>1, <1>2, <1>3 DEF Queued

LEMMA ReadyLists ==
    ASSUME TypeOK, Places, Queued, LowReady
    PROVE  Queued'
<1> DEFINE b == Head(toLow)[2]
<1>1. /\ toLow # <<>> /\ Head(toLow)[1] = "READY"
      /\ bpc' = IF bpc = "sent" THEN "check" ELSE bpc
      /\ UNCHANGED <<txGeneral, mcret, paused, lmcast, lbeacon>>
  BY DEF LowReady, Receive
<1>2. Head(toLow) \in Messages /\ Head(toLow) \in Range(toLow)
  BY <1>1, HeadInRange DEF TypeOK
<1>3. b \in Bufs /\ Head(toLow) = <<"READY", b>>
  BY <1>1, <1>2, MessageFacts
<1>4. /\ frame[b].state = "READY" /\ ~ frame[b].prepared
      /\ frame[b].group = "DTIM_MCAST" => frame[b].mcast
  BY <1>2, <1>3 DEF Places
<1>5. frame' = [frame EXCEPT ![b].state = "LOW_CTRL"] /\ Enlist(b)
  BY DEF LowReady
<1> HIDE DEF b
<1>6. /\ \A c \in Bufs : c # b => frame'[c] = frame[c]
      /\ frame'[b].group = frame[b].group /\ frame[b].group \in Groups
      /\ frame'[b].mcast = frame[b].mcast /\ frame'[b].prepared = frame[b].prepared
  BY <1>3, <1>5 DEF TypeOK, Frames
<1>7. /\ Range(general) \subseteq Bufs /\ Range(dtim) \subseteq Bufs
      /\ general # <<>> => Head(general) \in Range(general)
      /\ dtim # <<>> => Head(dtim) \in Range(dtim)
  BY ListMembers
<1>8. b \notin Range(general) /\ b \notin Range(dtim)
  BY <1>4 DEF Places
<1>9. \A c \in Range(general) \cup Range(dtim) : frame'[c] = frame[c]
  BY <1>6, <1>7, <1>8
<1>10. \/ general' = general \/ (general' = Append(general, b) /\ (Buffering => frame[b].group = "GENERAL"))
  BY <1>5, <1>6 DEF Enlist, Buffering, Groups
<1>11. \/ dtim' = dtim \/ (dtim' = Append(dtim, b) /\ Buffering /\ frame[b].mcast)
  BY <1>4, <1>5 DEF Enlist, Buffering
<1>12. /\ Range(general') \subseteq Range(general) \cup {b}
       /\ Range(general) \subseteq Range(general')
       /\ general # <<>> => general' # <<>> /\ Head(general') = Head(general)
       /\ b \in Range(general') => (Buffering => frame[b].group = "GENERAL")
  <2>1. CASE general' = general
    BY <1>8, <2>1
  <2>2. CASE general' = Append(general, b) /\ (Buffering => frame[b].group = "GENERAL")
    <3>1. Range(general') = Range(general) \cup {b}
      BY <1>3, <2>2, RangeAppend DEF TypeOK
    <3>2. general # <<>> => general' # <<>> /\ Head(general') = Head(general)
      BY <1>3, <2>2, HeadAppend DEF TypeOK
    <3> QED
      BY <2>2, <3>1, <3>2
  <2> QED
    BY <1>10, <2>1, <2>2
<1>13. /\ Range(dtim') \subseteq Range(dtim) \cup {b}
       /\ Range(dtim) \subseteq Range(dtim')
       /\ dtim # <<>> => dtim' # <<>> /\ Head(dtim') = Head(dtim)
       /\ b \in Range(dtim') => Buffering /\ frame[b].mcast
  <2>1. CASE dtim' = dtim
    BY <1>8, <2>1
  <2>2. CASE dtim' = Append(dtim, b) /\ Buffering /\ frame[b].mcast
    <3>1. Range(dtim') = Range(dtim) \cup {b}
      BY <1>3, <2>2, RangeAppend DEF TypeOK
    <3>2. dtim # <<>> => dtim' # <<>> /\ Head(dtim') = Head(dtim)
      BY <1>3, <2>2, HeadAppend DEF TypeOK
    <3> QED
      BY <2>2, <3>1, <3>2
  <2> QED
    BY <1>11, <2>1, <2>2
<1>14. Buffering' = Buffering
  BY <1>1 DEF Buffering
<1>15. Lists'
  <2>1. \A c \in Range(general') : Buffering /\ ~ frame'[c].prepared => frame'[c].group = "GENERAL"
    BY <1>6, <1>9, <1>12 DEF Queued, Lists
  <2>2. \A c \in Range(dtim') : /\ ~ Buffering => frame'[c].prepared
                                /\ frame'[c].mcast
    BY <1>6, <1>9, <1>13 DEF Queued, Lists
  <2> QED
    BY <1>14, <2>1, <2>2 DEF Lists
<1>16. HeadKept'
  <2>1. txGeneral' => general' # <<>> /\ frame'[Head(general')].prepared
    BY <1>1, <1>7, <1>9, <1>12 DEF Queued, HeadKept
  <2>2. paused' \/ bpc' = "dtim" => dtim' # <<>> /\ frame'[Head(dtim')].prepared
    BY <1>1, <1>7, <1>9, <1>13 DEF Queued, HeadKept
  <2>3. \A c \in Bufs : c \in Range(dtim') /\ frame'[c].prepared => c = Head(dtim')
    <3> SUFFICES ASSUME NEW c \in Bufs, c \in Range(dtim'), frame'[c].prepared
                 PROVE  c = Head(dtim')
      OBVIOUS
    <3>1. c # b
      BY <1>4, <1>6
    <3>2. c \in Range(dtim) /\ frame[c].prepared
      BY <1>6, <1>13, <3>1
    <3>3. dtim # <<>>
      BY <3>2 DEF Range
    <3> QED
      BY <1>13, <3>2, <3>3 DEF Queued, HeadKept
  <2> QED
    BY <2>1, <2>2, <2>3 DEF HeadKept
<1>17. MoreWaits'
  BY <1>1, <1>9, <1>12, <1>13, <1>14 DEF Queued, MoreWaits
<1> QED
  BY <1>15, <1>16, <1>17 DEF Queued

\* The lists are updated for a new mode.
LEMMA UpdatedLists ==
    ASSUME TypeOK, Places, Queued, NEW buffering \in BOOLEAN, UpdateLists(buffering),
           Buffering' <=> buffering,
           bpc' = IF bpc = "sent" THEN "check" ELSE bpc,
           UNCHANGED <<txGeneral, mcret, paused>>
    PROVE  Queued'
<1>1. /\ Range(general) \subseteq Bufs /\ Range(dtim) \subseteq Bufs
      /\ general # <<>> => Head(general) \in Range(general)
      /\ dtim # <<>> => Head(dtim) \in Range(dtim)
  BY ListMembers
<1>2. \A b \in Range(dtim) : frame[b].mcast
  BY DEF Queued, Lists
<1>3. /\ txGeneral => general # <<>> /\ frame[Head(general)].prepared
      /\ paused \/ bpc = "dtim" => dtim # <<>> /\ frame[Head(dtim)].prepared
      /\ \A b \in Range(dtim) : frame[b].prepared => b = Head(dtim) /\ dtim # <<>>
  BY <1>1 DEF Queued, HeadKept, Range
<1>4. CASE buffering
  <2>1. UpdateLists(TRUE) /\ Buffering'
    BY <1>4
  <2>2. /\ Range(general') = {b \in Range(general) : frame[b].prepared \/ ~ frame[b].mcast}
        /\ Range(dtim') = Range(dtim)
               \cup {b \in Range(general) : ~ frame[b].prepared /\ frame[b].mcast}
        /\ \A b \in Bufs :
              /\ frame'[b].state = frame[b].state /\ frame'[b].mcast = frame[b].mcast
              /\ frame'[b].prepared = frame[b].prepared
              /\ frame'[b].group = IF b \in Range(general) /\ ~ frame[b].prepared
                                      /\ frame[b].mcast
                                   THEN "DTIM_MCAST" ELSE frame[b].group
        /\ dtim # <<>> => dtim' # <<>> /\ Head(dtim') = Head(dtim)
        /\ general # <<>> /\ frame[Head(general)].prepared
             => general' # <<>> /\ Head(general') = Head(general)
    BY <2>1, StartedFacts
  <2>3. Lists'
    <3>1. \A b \in Range(general') : ~ frame'[b].prepared => frame'[b].group = "GENERAL"
      <4> SUFFICES ASSUME NEW b \in Range(general'), ~ frame'[b].prepared
                   PROVE  frame'[b].group = "GENERAL"
        OBVIOUS
      <4>1. b \in Bufs /\ b \in Range(general) /\ ~ frame[b].mcast
        BY <1>1, <2>2
      <4>2. frame'[b].group = frame[b].group /\ frame[b].group # "DTIM_MCAST"
        BY <2>2, <4>1 DEF Places
      <4>3. frame[b].group \in Groups
        BY <4>1 DEF TypeOK, Frames
      <4> QED
        BY <4>2, <4>3 DEF Groups
    <3>2. \A b \in Range(dtim') : frame'[b].mcast
      BY <1>1, <1>2, <2>2
    <3> QED
      BY <2>1, <3>1, <3>2 DEF Lists
  <2>4. HeadKept'
    <3>1. /\ txGeneral' => general' # <<>> /\ frame'[Head(general')].prepared
          /\ paused' \/ bpc' = "dtim" => dtim' # <<>> /\ frame'[Head(dtim')].prepared
      BY <1>1, <1>3, <2>2
    <3>2. \A b \in Bufs : b \in Range(dtim') /\ frame'[b].prepared => b = Head(dtim')
      BY <1>1, <1>3, <2>2
    <3> QED
      BY <3>1, <3>2 DEF HeadKept
  <2>5. MoreWaits'
    <3> SUFFICES ASSUME bpc \in {"dtim", "sent", "check"}, "MORE_DATA" \in mcret
                 PROVE  \E b \in Range(dtim') : ~ frame'[b].prepared
      BY <2>1 DEF MoreWaits
    <3>1. PICK b \in Range(general) \cup Range(dtim) :
             ~ frame[b].prepared /\ (b \in Range(dtim) \/ frame[b].mcast)
      BY DEF Queued, MoreWaits
    <3> QED
      BY <1>1, <2>2, <3>1
  <2> QED
    BY <2>3, <2>4, <2>5 DEF Queued
<1>5. CASE ~ buffering
  <2>1. UpdateLists(FALSE) /\ ~ Buffering'
    BY <1>5
  <2>2. /\ Range(dtim') = {b \in Range(dtim) : frame[b].prepared}
        /\ Range(general') = Range(general) \cup {b \in Range(dtim) : ~ frame[b].prepared}
        /\ \A b \in Bufs :
              /\ frame'[b].state = frame[b].state /\ frame'[b].mcast = frame[b].mcast
              /\ frame'[b].prepared = frame[b].prepared
        /\ general # <<>> => general' # <<>> /\ Head(general') = Head(general)
        /\ dtim # <<>> /\ frame[Head(dtim)].prepared
             => dtim' # <<>> /\ Head(dtim') = Head(dtim)
    BY <2>1, StoppedFacts
  <2>3. Lists'
    <3>1. \A b \in Range(dtim') : frame'[b].mcast /\ frame'[b].prepared
      BY <1>1, <1>2, <2>2
    <3> QED
      BY <2>1, <3>1 DEF Lists
  <2>4. HeadKept'
    <3>1. /\ txGeneral' => general' # <<>> /\ frame'[Head(general')].prepared
          /\ paused' \/ bpc' = "dtim" => dtim' # <<>> /\ frame'[Head(dtim')].prepared
      BY <1>1, <1>3, <2>2
    <3>2. \A b \in Bufs : b \in Range(dtim') /\ frame'[b].prepared => b = Head(dtim')
      BY <1>1, <1>3, <2>2
    <3> QED
      BY <3>1, <3>2 DEF HeadKept
  <2>5. MoreWaits'
    <3> SUFFICES ASSUME bpc \in {"dtim", "sent", "check"}, "MORE_DATA" \in mcret
                 PROVE  \E b \in Range(general') \cup Range(dtim') :
                           ~ frame'[b].prepared /\ frame'[b].mcast
      BY <2>1 DEF MoreWaits
    <3>1. PICK b \in Range(general) \cup Range(dtim) :
             ~ frame[b].prepared /\ frame[b].mcast
      BY <1>2 DEF Queued, MoreWaits
    <3> QED
      BY <1>1, <2>2, <3>1
  <2> QED
    BY <2>3, <2>4, <2>5 DEF Queued
<1> QED
  BY <1>4, <1>5

LEMMA TxStartLists ==
    ASSUME TypeOK, Places, Queued, LowTxStart
    PROVE  Queued'
<1>1. /\ bpc = "out" /\ general # <<>> /\ Prepare(Head(general)) /\ txGeneral'
      /\ UNCHANGED <<lmcast, lbeacon, general, dtim, bpc, mcret, paused>>
  BY DEF LowTxStart
<1>2. /\ Range(general) \subseteq Bufs /\ Range(dtim) \subseteq Bufs
      /\ Head(general) \in Range(general) /\ Head(general) \in Bufs
      /\ dtim # <<>> => Head(dtim) \in Range(dtim)
  BY <1>1, ListMembers
<1>3. Head(general) \notin Range(dtim)
  BY <1>2 DEF Places
<1>4. \A c \in Bufs : /\ frame'[c].mcast = frame[c].mcast
                      /\ frame'[c].group = frame[c].group
                      /\ frame'[c].prepared <=> frame[c].prepared \/ c = Head(general)
  BY <1>1, <1>2, PreparedFacts
<1>5. Lists'
  BY <1>1, <1>2, <1>4 DEF Queued, Lists, Buffering
<1>6. HeadKept'
  <2>1. general' # <<>> /\ frame'[Head(general')].prepared
    BY <1>1, <1>2, <1>4
  <2>2. paused' \/ bpc' = "dtim" => dtim' # <<>> /\ frame'[Head(dtim')].prepared
    BY <1>1, <1>2, <1>4 DEF Queued, HeadKept
  <2>3. \A c \in Bufs : c \in Range(dtim') /\ frame'[c].prepared => c = Head(dtim')
    BY <1>1, <1>3, <1>4 DEF Queued, HeadKept
  <2> QED
    BY <2>1, <2>2, <2>3 DEF HeadKept
<1>7. MoreWaits'
  BY <1>1 DEF MoreWaits
<1> QED
  BY <1>5, <1>6, <1>7 DEF Queued

LEMMA TxEndLists ==
    ASSUME TypeOK, Places, Queued, LowTxEnd
    PROVE  Queued'
<1>1. /\ bpc = "out" /\ Finish(Head(general)) /\ general' = Tail(general) /\ ~ txGeneral'
      /\ general # <<>>
      /\ UNCHANGED <<lmcast, lbeacon, dtim, bpc, mcret, paused>>
  BY DEF LowTxEnd, Queued, HeadKept
<1>2. /\ Range(general) \subseteq Bufs /\ Range(dtim) \subseteq Bufs
      /\ dtim # <<>> => Head(dtim) \in Range(dtim)
  BY ListMembers
<1>3. /\ Head(general) \in Bufs /\ Head(general) \in Range(general)
      /\ Head(general) \notin Range(general') /\ Range(general) = Range(general') \cup {Head(general)}
  <2>1. general \in Seq(Bufs) /\ IsInjective(general)
    BY DEF TypeOK, Places
  <2> QED
    BY <1>1, <2>1, HeadLeaves, Zenon
<1>4. Head(general) \notin Range(dtim)
  BY <1>3 DEF Places
<1>5. \A c \in Range(general') \cup Range(dtim) : frame'[c] = frame[c]
  BY <1>1, <1>2, <1>3, <1>4, FinishedFacts
<1>6. Lists'
  BY <1>1, <1>3, <1>5 DEF Queued, Lists, Buffering
<1>7. HeadKept'
  BY <1>1, <1>2, <1>5 DEF Queued, HeadKept
<1>8. MoreWaits'
  BY <1>1 DEF MoreWaits
<1> QED
  BY <1>6, <1>7, <1>8 DEF Queued

\* The frame behind the head of the DTIM list has not been prepared.
LEMMA DtimStartLists ==
    ASSUME TypeOK, Places, Queued, LowDtimStart
    PROVE  Queued'
<1>1. /\ bpc = "window" /\ dtim # <<>> /\ bpc' = "dtim"
      /\ mcret' = IF Len(dtim) = 1 THEN {} ELSE {"MORE_DATA"}
      /\ ~ paused => Prepare(Head(dtim))
      /\ UNCHANGED <<lmcast, lbeacon, general, dtim, txGeneral, paused>>
  BY DEF LowDtimStart
<1>2. paused => frame' = frame
  BY DEF LowDtimStart
<1>3. /\ Range(general) \subseteq Bufs /\ Range(dtim) \subseteq Bufs
      /\ general # <<>> => Head(general) \in Range(general)
      /\ Head(dtim) \in Range(dtim) /\ Head(dtim) \in Bufs
  BY <1>1, ListMembers
<1>4. Head(dtim) \notin Range(general)
  BY <1>3 DEF Places
<1>5. \A c \in Bufs : /\ frame'[c].mcast = frame[c].mcast
                      /\ frame'[c].group = frame[c].group
                      /\ frame'[c].prepared <=> frame[c].prepared \/ c = Head(dtim)
  <2>1. CASE paused
    <3>1. frame[Head(dtim)].prepared
      BY <2>1 DEF Queued, HeadKept
    <3> QED
      BY <1>2, <2>1, <3>1
  <2>2. CASE ~ paused
    BY <1>1, <1>3, <2>2, PreparedFacts
  <2> QED
    BY <2>1, <2>2
<1>6. Lists'
  BY <1>1, <1>3, <1>5 DEF Queued, Lists, Buffering
<1>7. HeadKept'
  <2>1. txGeneral' => general' # <<>> /\ frame'[Head(general')].prepared
    BY <1>1, <1>3, <1>5 DEF Queued, HeadKept
  <2>2. dtim' # <<>> /\ frame'[Head(dtim')].prepared
    BY <1>1, <1>3, <1>5
  <2>3. \A c \in Bufs : c \in Range(dtim') /\ frame'[c].prepared => c = Head(dtim')
    BY <1>1, <1>5 DEF Queued, HeadKept
  <2> QED
    BY <2>1, <2>2, <2>3 DEF HeadKept
<1>8. ASSUME "MORE_DATA" \in mcret'
      PROVE  \E b \in Range(dtim) : ~ frame'[b].prepared /\ frame'[b].mcast
  <2>1. dtim \in Seq(Bufs) /\ Len(dtim) # 1
    BY <1>1, <1>8 DEF TypeOK
  <2>2. Len(dtim) \in Nat /\ Len(dtim) > 1 /\ DOMAIN dtim = 1 .. Len(dtim) /\ Head(dtim) = dtim[1]
    <3>1. Len(dtim) > 0 /\ Head(dtim) = dtim[1]
      BY <1>1, <2>1, TailFacts
    <3>2. Len(dtim) \in Nat /\ DOMAIN dtim = 1 .. Len(dtim)
      BY <2>1
    <3>3. Len(dtim) > 1
      BY <2>1, <3>1, <3>2
    <3> QED
      BY <3>1, <3>2, <3>3
  <2>3. dtim[2] \in Range(dtim)
    BY <2>2 DEF Range
  <2>4. dtim[2] # dtim[1]
    <3>1. IsInjective(dtim) /\ 1 \in DOMAIN dtim /\ 2 \in DOMAIN dtim
      BY <2>2 DEF Places
    <3> QED
      BY <3>1 DEF IsInjective
  <2>5. ~ frame'[dtim[2]].prepared
    BY <1>3, <1>5, <2>2, <2>3, <2>4 DEF Queued, HeadKept
  <2>6. frame'[dtim[2]].mcast
    BY <1>3, <1>5, <2>3 DEF Queued, Lists
  <2> QED
    BY <2>3, <2>5, <2>6
<1>9. MoreWaits'
  BY <1>1, <1>8 DEF MoreWaits
<1> QED
  BY <1>6, <1>7, <1>9 DEF Queued

LEMMA DtimFinishLists ==
    ASSUME TypeOK, Places, Queued, LowDtimFinish
    PROVE  Queued'
<1>1. /\ bpc = "dtim" /\ bpc' = "sent" /\ Finish(Head(dtim)) /\ dtim' = Tail(dtim)
      /\ ~ paused' /\ mcret' = mcret \cup {"TRANSMITTED"}
      /\ dtim # <<>> /\ frame[Head(dtim)].prepared
      /\ UNCHANGED <<lmcast, lbeacon, general, txGeneral>>
  BY DEF LowDtimFinish, Queued, HeadKept
<1>2. /\ Range(general) \subseteq Bufs /\ Range(dtim) \subseteq Bufs
      /\ general # <<>> => Head(general) \in Range(general)
  BY ListMembers
<1>3. /\ Head(dtim) \in Bufs /\ Head(dtim) \in Range(dtim)
      /\ Head(dtim) \notin Range(dtim') /\ Range(dtim) = Range(dtim') \cup {Head(dtim)}
  <2>1. dtim \in Seq(Bufs) /\ IsInjective(dtim)
    BY DEF TypeOK, Places
  <2> QED
    BY <1>1, <2>1, HeadLeaves, Zenon
<1>4. Head(dtim) \notin Range(general)
  BY <1>3 DEF Places
<1>5. \A c \in Range(dtim') \cup Range(general) : frame'[c] = frame[c]
  BY <1>1, <1>2, <1>3, <1>4, FinishedFacts
<1>6. Lists'
  BY <1>1, <1>3, <1>5 DEF Queued, Lists, Buffering
<1>7. HeadKept'
  <2>1. txGeneral' => general' # <<>> /\ frame'[Head(general')].prepared
    BY <1>1, <1>2, <1>5 DEF Queued, HeadKept
  <2>2. \A c \in Bufs : c \in Range(dtim') => ~ frame'[c].prepared
    BY <1>3, <1>5 DEF Queued, HeadKept
  <2> QED
    BY <1>1, <2>1, <2>2 DEF HeadKept
<1>8. MoreWaits'
  <2> SUFFICES ASSUME "MORE_DATA" \in mcret
               PROVE  IF Buffering THEN \E b \in Range(dtim') : ~ frame'[b].prepared
                      ELSE \E b \in Range(general) \cup Range(dtim') :
                              ~ frame'[b].prepared /\ frame'[b].mcast
    BY <1>1 DEF MoreWaits, Buffering
  <2>1. IF Buffering THEN \E b \in Range(dtim) : ~ frame[b].prepared
        ELSE \E b \in Range(general) \cup Range(dtim) : ~ frame[b].prepared /\ frame[b].mcast
    BY <1>1 DEF Queued, MoreWaits
  <2> QED
    BY <1>1, <1>3, <1>5, <2>1
<1> QED
  BY <1>6, <1>7, <1>8 DEF Queued

-----------------------------------------------------------------------------
(* The invariant of every execution.                                       *)

LEMMA HighQueued ==
    ASSUME TypeOK, Places, Queued, HighNext
    PROVE  Queued'
<1>1. UNCHANGED lowVars
  BY DEF HighNext, HighPoll, HighEnqueueMcast, HighPollRequest, HighFillGeneral,
         HighFillUnbuffered, HighGeneralEnd, HighFillDtim, HighDtimEnd, HighDone,
         HighSetMcast, HighSendMcast, HighConfigBeacon
<1>2. \A c \in Bufs : frame[c].state = "LOW_CTRL" => frame'[c] = frame[c]
  <2>1. frame \in [Bufs -> Frames]
    BY DEF TypeOK
  <2>2. ASSUME NEW g \in Groups, NEW mcast \in BOOLEAN, Submit(g, mcast) \/ Discard
        PROVE  \A c \in Bufs : frame[c].state = "LOW_CTRL" => frame'[c] = frame[c]
    BY <2>1, <2>2 DEF Submit, Discard, Empty
  <2>3. CASE HighFillGeneral \/ HighFillUnbuffered \/ HighFillDtim
    BY <2>2, <2>3 DEF HighFillGeneral, HighFillUnbuffered, HighFillDtim, Groups
  <2>4. CASE HighGeneralEnd \/ HighDtimEnd
    <3>1. hdone \in Bufs => frame[hdone].state = "DONE"
      BY DEF Places
    <3>2. \/ frame' = frame
          \/ hdone # NoBuf /\ frame' = [frame EXCEPT ![hdone].state = "HIGH_CTRL"]
      BY <2>4 DEF HighGeneralEnd, HighDtimEnd
    <3>3. hdone \in Bufs \cup {NoBuf}
      BY DEF TypeOK
    <3> QED
      BY <2>1, <3>1, <3>2, <3>3
  <2>5. CASE \/ HighEnqueueMcast \/ HighPollRequest \/ HighDone \/ HighSetMcast
             \/ HighSendMcast \/ HighConfigBeacon
    BY <2>5 DEF HighEnqueueMcast, HighPollRequest, HighDone, HighSetMcast, HighSendMcast,
                HighConfigBeacon
  <2> QED
    BY <2>3, <2>4, <2>5 DEF HighNext, HighPoll
<1>3. \A b \in Range(general) \cup Range(dtim) : frame'[b] = frame[b]
  BY <1>2, ListMembers DEF Places
<1> QED
  BY <1>1, <1>3, QuietLists DEF lowVars

LEMMA LowQueued ==
    ASSUME TypeOK, Places, Queued, LowNext
    PROVE  Queued'
<1>1. CASE LowMcastEnable
  <2>1. Buffering' <=> (lmcast' = 1 /\ lbeacon = 1)
    BY <1>1 DEF LowMcastEnable, Buffering
  <2> QED
    BY <1>1, <2>1, UpdatedLists DEF LowMcastEnable, Receive
<1>2. CASE LowBeaconConfig
  <2>1. Buffering' <=> (lmcast = 1 /\ lbeacon' = 1)
    BY <1>2 DEF LowBeaconConfig, Buffering
  <2> QED
    BY <1>2, <2>1, UpdatedLists DEF LowBeaconConfig, Receive
<1>3. CASE \/ LowTbtt \/ LowBeaconSkip \/ LowBeaconStart \/ LowDtimBeacon
           \/ LowBeacon \/ LowDtimPause \/ LowTbttEnd \/ LowWindowNext \/ LowWindowEmpty
  BY <1>3, ControlLists
  DEF LowTbtt, LowBeaconSkip, LowBeaconStart, LowDtimBeacon, LowBeacon,
      BeaconSent, LowDtimPause, LowTbttEnd, LowWindowNext, LowWindowEmpty
<1>4. CASE Tbtt
  BY <1>4, QuietLists DEF Tbtt
<1> QED
  BY <1>1, <1>2, <1>3, <1>4, ReadyLists, TxStartLists, TxEndLists, DtimStartLists,
     DtimFinishLists
  DEF LowNext, LowReceive, LowWindow

LEMMA GroupsInit == Init => GroupsInv
<1> SUFFICES ASSUME Init PROVE GroupsInv
  OBVIOUS
<1>1. TypeOK
  <2>1. NoFrame \in Frames
    BY DEF NoFrame, Frames, Groups
  <2>2. <<"BEACON", 1>> \in Messages /\ <<"MCAST", 1>> \in Messages
    BY MessageFacts
  <2>3. toLow \in Seq(Messages)
    BY <2>2 DEF Init
  <2>4. frame \in [Bufs -> Frames]
    BY <2>1 DEF Init
  <2>5. toHigh \in Seq(Bufs) /\ general \in Seq(Bufs) /\ dtim \in Seq(Bufs)
    BY DEF Init
  <2>6. /\ havail \in 0 .. GeneralLimit + DtimLimit
        /\ mcastQueue \in 0 .. MaxQueued /\ switches \in 0 .. MaxSwitches
    BY NumberFacts DEF Init
  <2>7. /\ {hmcast, hbeacon, lmcast, lbeacon} \subseteq {0, 1}
        /\ {hunsent, txGeneral, latch, paused} \subseteq BOOLEAN
        /\ hpc = "idle" /\ bpc = "out" /\ mcret = {}
        /\ {hdone, ctrlD} \subseteq {NoBuf}
    BY DEF Init
  <2> QED
    BY <2>3, <2>4, <2>5, <2>6, <2>7 DEF TypeOK
<1>2. Places
  <2>1. Range(general) = {} /\ Range(dtim) = {} /\ Range(toHigh) = {}
        /\ IsInjective(general) /\ IsInjective(dtim) /\ IsInjective(toHigh)
    BY DEF Init, Range, IsInjective
  <2>2. /\ Len(toLow) = 2 /\ toLow[1] = <<"BEACON", 1>> /\ toLow[2] = <<"MCAST", 1>>
        /\ DOMAIN toLow = {1, 2}
    BY DEF Init
  <2>3. \A b \in Bufs : <<"READY", b>> \notin Range(toLow)
    BY <2>2 DEF Range
  <2>4. \A i \in 1 .. Len(toLow) : toLow[i][1] # "READY"
    BY <2>2
  <2> QED
    BY <2>1, <2>3, <2>4, NumberFacts DEF Init, Places, NoFrame
<1>3. Lists /\ HeadKept /\ MoreWaits
  <2>1. Range(general) = {} /\ Range(dtim) = {}
    BY DEF Init, Range
  <2> QED
    BY <2>1 DEF Init, Lists, HeadKept, MoreWaits, Buffering
<1> QED
  BY <1>1, <1>2, <1>3 DEF GroupsInv

LEMMA GroupsStep == GroupsInv /\ [Next]_vars => GroupsInv'
<1> SUFFICES ASSUME GroupsInv, [Next]_vars PROVE GroupsInv'
  OBVIOUS
<1>1. TypeOK /\ Places /\ Queued /\ HeadKept
  BY DEF GroupsInv, Queued
<1>2. CASE HighNext
  BY <1>1, <1>2, HighTypes, HighPlaces, HighQueued DEF GroupsInv, Queued
<1>3. CASE LowNext
  BY <1>1, <1>3, LowTypes, LowPlaces, LowQueued DEF GroupsInv, Queued
<1>4. CASE UNCHANGED vars
  <2>1. Places'
    BY <1>1, <1>4, QuietPlaces DEF vars, highVars, lowVars
  <2>2. Queued'
    BY <1>1, <1>4, QuietLists DEF vars, highVars, lowVars
  <2>3. TypeOK'
    BY <1>1, <1>4 DEF vars, highVars, lowVars, TypeOK
  <2> QED
    BY <2>1, <2>2, <2>3 DEF GroupsInv, Queued
<1> QED
  BY <1>2, <1>3, <1>4 DEF Next

\* In every execution each buffer is in one place, and the lists follow the mode.
THEOREM GroupsInvariance == Spec => []GroupsInv
<1> QED
  BY GroupsInit, GroupsStep, PTL DEF Spec

\* For any number of buffers, and however the configuration changes while packets
\* are pending, the two lists hold distinct buffers under CPU_LOW's control and
\* follow its mode (update_tx_pkt_buf_lists, handle_tx_pkt_buf_ready).
THEOREM ListsSound == Spec => []ListsConsistent
<1>1. GroupsInv => ListsConsistent
  <2> SUFFICES ASSUME GroupsInv PROVE ListsConsistent
    OBVIOUS
  <2>1. general \in Seq(Bufs) /\ dtim \in Seq(Bufs) /\ TypeOK /\ Places /\ Lists
    BY DEF GroupsInv, TypeOK
  <2>2. Range(general \o dtim) = Range(general) \cup Range(dtim)
    BY <2>1, ConcatFacts
  <2>3. IsInjective(general \o dtim)
    BY <2>1, ConcatFacts DEF Places
  <2> QED
    BY <2>1, <2>2, <2>3 DEF ListsConsistent, Places, Lists, Buffering
<1> QED
  BY <1>1, GroupsInvariance, PTL

\* A frame in transmission, and a paused one, stays the head of its list whatever
\* messages CPU_LOW processes meanwhile (frame_transmit_dtim_mcast).
THEOREM HeadStays == Spec => []HeadKept
<1>1. GroupsInv => HeadKept
  BY DEF GroupsInv
<1> QED
  BY <1>1, GroupsInvariance, PTL

\* A multicast frame sent with the MORE_DATA bit is followed by another one, unless
\* buffering was stopped since it was submitted (poll_tx_pkt_buf_list).
THEOREM MoreDataKept == Spec => []MoreDataHonest
<1>1. GroupsInv => MoreDataHonest
  <2> SUFFICES ASSUME GroupsInv, bpc \in {"sent", "check"}, "MORE_DATA" \in mcret,
                      lmcast # 0, lbeacon # 0
               PROVE  dtim # <<>>
    BY DEF MoreDataHonest
  <2>1. Buffering
    BY DEF GroupsInv, TypeOK, Buffering
  <2>2. PICK b \in Range(dtim) : TRUE
    BY <2>1 DEF GroupsInv, MoreWaits
  <2> QED
    BY <2>2 DEF Range
<1> QED
  BY <1>1, GroupsInvariance, PTL

-----------------------------------------------------------------------------
(* The limits of the groups.                                               *)

\* A list without repetitions has as many entries as it holds buffers.
LEMMA ListLength ==
    ASSUME NEW s \in Seq(Bufs), IsInjective(s)
    PROVE  /\ IsFiniteSet(Range(s)) /\ Cardinality(Range(s)) = Len(s) /\ Len(s) \in Nat
           /\ Range(s) = {} => s = <<>>
<1>1. Len(s) \in Nat /\ DOMAIN s = 1 .. Len(s) /\ s \in [1 .. Len(s) -> Range(s)]
  BY DEF Range
<1>2. s \in Bijection(1 .. Len(s), Range(s))
  BY <1>1 DEF Bijection, Injection, Surjection, Range
<1>3. IsFiniteSet(1 .. Len(s)) /\ Cardinality(1 .. Len(s)) = Len(s)
  <2>1. /\ IsFiniteSet(1 .. Len(s))
        /\ Cardinality(1 .. Len(s)) = IF 1 > Len(s) THEN 0 ELSE Len(s) - 1 + 1
    BY <1>1, FS_Interval
  <2> QED
    BY <1>1, <2>1
<1>4. ExistsBijection(1 .. Len(s), Range(s))
  BY <1>2 DEF ExistsBijection
<1>5. IsFiniteSet(Range(s)) /\ Cardinality(Range(s)) = Len(s)
  BY <1>3, <1>4, FS_Bijection
<1>6. Range(s) = {} => s = <<>>
  BY HeadInRange
<1> QED
  BY <1>1, <1>5, <1>6

\* The buffers of a group that CPU_LOW owns, before and after a step.
LEMMA OwnedSame ==
    ASSUME NEW g,
           \A c \in Bufs : /\ frame'[c].group = frame[c].group
                           /\ frame'[c].state \in {"READY", "LOW_CTRL"}
                                <=> frame[c].state \in {"READY", "LOW_CTRL"}
    PROVE  LowOwned(g)' = LowOwned(g)
  BY DEF LowOwned

LEMMA OwnedShrinks ==
    ASSUME NEW g \in Groups, NEW owned, owned \subseteq LowOwned(g)
    PROVE  /\ Cardinality(owned) \in Nat /\ Cardinality(LowOwned(g)) \in Nat
           /\ Cardinality(owned) <= Cardinality(LowOwned(g))
<1>1. IsFiniteSet(LowOwned(g))
  BY OwnedFacts
<1>2. IsFiniteSet(owned) /\ Cardinality(owned) <= Cardinality(LowOwned(g))
  BY <1>1, FS_Subset
<1> QED
  BY <1>1, <1>2, FS_CardinalityType

\* CPU_HIGH fills an empty buffer: its group has one more.
LEMMA OwnedFilled ==
    ASSUME TypeOK, NEW g \in Groups, NEW mcast \in BOOLEAN, Submit(g, mcast), NEW h \in Groups
    PROVE  /\ Cardinality(LowOwned(h)') =
                 IF h = g THEN Cardinality(LowOwned(h)) + 1 ELSE Cardinality(LowOwned(h))
           /\ havail > 0 /\ havail' = havail - 1
<1>1. PICK b \in Empty :
         frame' = [frame EXCEPT ![b] = [state |-> "READY", group |-> g,
                                        mcast |-> mcast, prepared |-> FALSE]]
  BY DEF Submit
<1>2. b \in Bufs /\ frame[b].state = "HIGH_CTRL" /\ frame \in [Bufs -> Frames]
  BY DEF Empty, TypeOK
<1>3. b \notin LowOwned(h)
  BY <1>2 DEF LowOwned
<1>4. LowOwned(h)' = IF h = g THEN LowOwned(h) \cup {b} ELSE LowOwned(h)
  BY <1>1, <1>2 DEF LowOwned
<1>5. IsFiniteSet(LowOwned(h))
  BY OwnedFacts
<1>6. Cardinality(LowOwned(h) \cup {b}) = Cardinality(LowOwned(h)) + 1
  BY <1>3, <1>5, FS_AddElement
<1> QED
  BY <1>4, <1>6 DEF Submit

\* A DONE buffer is recycled.
LEMMA RecycledOwned ==
    ASSUME TypeOK, Places,
           frame' = IF hdone = NoBuf THEN frame
                    ELSE [frame EXCEPT ![hdone].state = "HIGH_CTRL"]
    PROVE  \A g : LowOwned(g)' = LowOwned(g)
<1>1. frame \in [Bufs -> Frames] /\ hdone \in Bufs \cup {NoBuf}
  BY DEF TypeOK
<1>2. hdone \in Bufs => frame[hdone].state = "DONE"
  BY DEF Places
<1>3. \A c \in Bufs : /\ frame'[c].group = frame[c].group
                      /\ frame'[c].state \in {"READY", "LOW_CTRL"}
                           <=> frame[c].state \in {"READY", "LOW_CTRL"}
  BY <1>1, <1>2 DEF Frames
<1> QED
  BY <1>3, OwnedSame

LEMMA OwnedAvailable ==
    ASSUME NEW g \in Groups, Cardinality(LowOwned(g)) <= Limit(g)
    PROVE  /\ Available(g) + Cardinality(LowOwned(g)) <= Limit(g)
           /\ Empty # {} => Available(g) + Cardinality(LowOwned(g)) = Limit(g)
           /\ Empty = {} => Available(g) = 0
<1> DEFINE n == Cardinality(LowOwned(g))
<1>1. n \in Nat /\ Limit(g) \in Nat /\ n <= Limit(g)
  BY OwnedFacts, NumberFacts
<1>2. Available(g) = IF Empty = {} \/ n > Limit(g) THEN 0 ELSE Limit(g) - n
  BY DEF Available
<1> HIDE DEF n
<1>3. /\ Available(g) + n <= Limit(g)
      /\ Empty # {} => Available(g) + n = Limit(g)
      /\ Empty = {} => Available(g) = 0
  BY <1>1, <1>2
<1> QED
  BY <1>3 DEF n

\* What a step of CPU_HIGH does to the rest while it changes no configuration.
LEMMA HighFacts ==
    ASSUME TypeOK, Places, Booted, HighNext, switches' = 0
    PROVE  /\ switches = 0
           /\ UNCHANGED <<hmcast, hbeacon, hunsent, general, dtim>>
           /\ \A c \in Bufs : frame'[c].state = "LOW_CTRL" <=> frame[c].state = "LOW_CTRL"
           /\ toLow' = toLow \/ \E b \in Bufs : toLow' = Append(toLow, <<"READY", b>>)
<1>1. frame \in [Bufs -> Frames] /\ hdone \in Bufs \cup {NoBuf} /\ switches \in Nat
  BY DEF TypeOK
<1>2. ~ HighSetMcast /\ ~ HighConfigBeacon
  BY <1>1 DEF HighSetMcast, HighConfigBeacon
<1>3. switches = 0
  BY <1>2 DEF HighNext, HighPoll, HighEnqueueMcast, HighPollRequest, HighFillGeneral,
              HighFillUnbuffered, HighGeneralEnd, HighFillDtim, HighDtimEnd, HighDone,
              HighSendMcast
<1>4. ~ HighSendMcast
  BY <1>3 DEF HighSendMcast, Booted
<1>5. ASSUME NEW g \in Groups, NEW mcast \in BOOLEAN, Submit(g, mcast) \/ Discard
      PROVE  /\ \A c \in Bufs : frame'[c].state = "LOW_CTRL" <=> frame[c].state = "LOW_CTRL"
             /\ toLow' = toLow \/ \E b \in Bufs : toLow' = Append(toLow, <<"READY", b>>)
  <2>1. CASE Discard
    BY <2>1 DEF Discard
  <2>2. CASE Submit(g, mcast)
    <3>1. PICK b \in Empty :
             /\ frame' = [frame EXCEPT ![b] = [state |-> "READY", group |-> g,
                                               mcast |-> mcast, prepared |-> FALSE]]
             /\ toLow' = Append(toLow, <<"READY", b>>)
      BY <2>2 DEF Submit
    <3> QED
      BY <1>1, <3>1 DEF Empty
  <2> QED
    BY <1>5, <2>1, <2>2
<1>6. CASE HighFillGeneral \/ HighFillUnbuffered \/ HighFillDtim
  <2>1. /\ \A c \in Bufs : frame'[c].state = "LOW_CTRL" <=> frame[c].state = "LOW_CTRL"
        /\ toLow' = toLow \/ \E b \in Bufs : toLow' = Append(toLow, <<"READY", b>>)
    BY <1>5, <1>6 DEF HighFillGeneral, HighFillUnbuffered, HighFillDtim, Groups
  <2> QED
    BY <1>3, <1>6, <2>1 DEF HighFillGeneral, HighFillUnbuffered, HighFillDtim, lowVars
<1>7. CASE HighGeneralEnd \/ HighDtimEnd
  <2>1. hdone \in Bufs => frame[hdone].state = "DONE"
    BY DEF Places
  <2>2. \/ frame' = frame
        \/ hdone # NoBuf /\ frame' = [frame EXCEPT ![hdone].state = "HIGH_CTRL"]
    BY <1>7 DEF HighGeneralEnd, HighDtimEnd
  <2>3. \A c \in Bufs : frame'[c].state = "LOW_CTRL" <=> frame[c].state = "LOW_CTRL"
    BY <1>1, <2>1, <2>2 DEF Frames
  <2> QED
    BY <1>3, <1>7, <2>3 DEF HighGeneralEnd, HighDtimEnd, lowVars
<1>8. CASE HighEnqueueMcast \/ HighPollRequest \/ HighDone
  BY <1>3, <1>8 DEF HighEnqueueMcast, HighPollRequest, HighDone, lowVars
<1> QED
  BY <1>2, <1>4, <1>6, <1>7, <1>8 DEF HighNext, HighPoll

LEMMA HighBooted ==
    ASSUME TypeOK, Places, Booted, Listed, HighNext
    PROVE  Booted' /\ Listed'
<1> SUFFICES ASSUME switches' = 0 PROVE Booted' /\ Listed'
  BY DEF Booted, Listed
<1>1. /\ switches = 0
      /\ UNCHANGED <<hmcast, hbeacon, hunsent, general, dtim>>
      /\ \A c \in Bufs : frame'[c].state = "LOW_CTRL" <=> frame[c].state = "LOW_CTRL"
      /\ toLow' = toLow \/ \E b \in Bufs : toLow' = Append(toLow, <<"READY", b>>)
  BY HighFacts
<1>2. \A i \in 1 .. Len(toLow') : toLow'[i][1] # "READY" =>
         /\ i \in 1 .. Len(toLow) /\ toLow'[i] = toLow[i]
         /\ \A j \in 1 .. i : j \in 1 .. Len(toLow) /\ toLow'[j] = toLow[j]
  <2>1. CASE toLow' = toLow
    BY <2>1 DEF TypeOK
  <2>2. CASE \E b \in Bufs : toLow' = Append(toLow, <<"READY", b>>)
    <3>1. PICK b \in Bufs : toLow' = Append(toLow, <<"READY", b>>)
      BY <2>2
    <3>2. <<"READY", b>> \in Messages /\ <<"READY", b>>[1] = "READY"
      BY MessageFacts
    <3>3. /\ Len(toLow') = Len(toLow) + 1 /\ toLow'[Len(toLow) + 1] = <<"READY", b>>
          /\ \A i \in 1 .. Len(toLow) : toLow'[i] = toLow[i]
          /\ Len(toLow) \in Nat
      BY <3>1, <3>2, ToLowAppend
    <3> QED
      BY <3>2, <3>3
  <2> QED
    BY <1>1, <2>1, <2>2
<1>3. Booted'
  BY <1>1, <1>2 DEF Booted
<1>4. Listed'
  BY <1>1 DEF Listed
<1> QED
  BY <1>3, <1>4

LEMMA HighCounted ==
    ASSUME TypeOK, Places, Booted, Counted, HighNext
    PROVE  Counted'
<1> SUFFICES ASSUME switches' = 0 PROVE Counted'
  BY DEF Counted
<1>1. switches = 0 /\ hmcast = 1 /\ hbeacon = 1
  BY HighFacts DEF Booted
<1>2. /\ \A g \in Groups : Cardinality(LowOwned(g)) <= Limit(g)
      /\ hpc = "general" => havail + Cardinality(LowOwned("GENERAL")) <= GeneralLimit
      /\ hpc = "dtim" => havail + Cardinality(LowOwned("DTIM_MCAST")) <= DtimLimit
  BY <1>1 DEF Counted
<1>3. \A g \in Groups : Cardinality(LowOwned(g)) \in Nat
  BY OwnedFacts
<1>4. "GENERAL" \in Groups /\ "DTIM_MCAST" \in Groups /\ havail \in Nat
      /\ Limit("GENERAL") = GeneralLimit /\ Limit("DTIM_MCAST") = DtimLimit
      /\ GeneralLimit \in Nat /\ DtimLimit \in Nat
  BY NumberFacts DEF Groups, TypeOK
<1>5. ASSUME UNCHANGED frame PROVE \A g : LowOwned(g)' = LowOwned(g)
  BY <1>5 DEF LowOwned
<1>6. CASE HighEnqueueMcast \/ HighPollRequest \/ HighDone
  <2>1. StartPoll /\ UNCHANGED frame
    BY <1>6 DEF HighEnqueueMcast, HighPollRequest, HighDone
  <2>2. hpc' = "general" /\ havail' + Cardinality(LowOwned("GENERAL")) <= GeneralLimit
    BY <1>2, <1>4, <2>1, OwnedAvailable DEF StartPoll
  <2> QED
    BY <1>2, <1>5, <2>1, <2>2 DEF Counted
<1>7. CASE HighFillGeneral
  <2>1. PICK mcast \in BOOLEAN : Submit("GENERAL", mcast) \/ Discard
    BY <1>7 DEF HighFillGeneral
  <2>2. hpc = "general" /\ hpc' = "general"
    BY <1>7 DEF HighFillGeneral
  <2>3. CASE Submit("GENERAL", mcast)
    <3>1. /\ Cardinality(LowOwned("GENERAL")') = Cardinality(LowOwned("GENERAL")) + 1
          /\ Cardinality(LowOwned("DTIM_MCAST")') = Cardinality(LowOwned("DTIM_MCAST"))
          /\ havail > 0 /\ havail' = havail - 1
      BY <1>4, <2>3, OwnedFilled
    <3>2. \A g \in Groups : Cardinality(LowOwned(g)') <= Limit(g)
      BY <1>2, <1>3, <1>4, <2>2, <3>1 DEF Groups
    <3>3. havail' + Cardinality(LowOwned("GENERAL")') <= GeneralLimit
      BY <1>2, <1>3, <1>4, <2>2, <3>1
    <3> QED
      BY <2>2, <3>2, <3>3 DEF Counted
  <2>4. CASE Discard
    BY <1>2, <1>3, <1>4, <1>5, <2>2, <2>4 DEF Discard, Counted
  <2> QED
    BY <2>1, <2>3, <2>4
<1>8. CASE HighFillUnbuffered
  BY <1>1, <1>8 DEF HighFillUnbuffered
<1>9. CASE HighFillDtim
  <2>1. hpc = "dtim" /\ hpc' = "dtim"
    BY <1>9 DEF HighFillDtim
  <2>2. CASE Submit("DTIM_MCAST", TRUE)
    <3>1. /\ Cardinality(LowOwned("DTIM_MCAST")') = Cardinality(LowOwned("DTIM_MCAST")) + 1
          /\ Cardinality(LowOwned("GENERAL")') = Cardinality(LowOwned("GENERAL"))
          /\ havail > 0 /\ havail' = havail - 1
      BY <1>4, <2>2, OwnedFilled
    <3>2. \A g \in Groups : Cardinality(LowOwned(g)') <= Limit(g)
      BY <1>2, <1>3, <1>4, <2>1, <3>1 DEF Groups
    <3>3. havail' + Cardinality(LowOwned("DTIM_MCAST")') <= DtimLimit
      BY <1>2, <1>3, <1>4, <2>1, <3>1
    <3> QED
      BY <2>1, <3>2, <3>3 DEF Counted
  <2>3. CASE Discard
    BY <1>2, <1>3, <1>4, <1>5, <2>1, <2>3 DEF Discard, Counted
  <2> QED
    BY <1>9, <2>2, <2>3 DEF HighFillDtim
<1>10. CASE HighGeneralEnd
  <2>1. hpc' = "dtim" /\ havail' = Available("DTIM_MCAST") /\ UNCHANGED frame
    BY <1>1, <1>10 DEF HighGeneralEnd
  <2>2. havail' + Cardinality(LowOwned("DTIM_MCAST")) <= DtimLimit
    BY <1>2, <1>4, <2>1, OwnedAvailable
  <2> QED
    BY <1>2, <1>5, <2>1, <2>2 DEF Counted
<1>11. CASE HighDtimEnd
  <2>1. hpc' = "idle"
    BY <1>11 DEF HighDtimEnd
  <2>2. \A g : LowOwned(g)' = LowOwned(g)
    BY <1>11, RecycledOwned DEF HighDtimEnd
  <2> QED
    BY <1>2, <2>1, <2>2 DEF Counted
<1>12. CASE HighSetMcast \/ HighSendMcast \/ HighConfigBeacon
  <2>1. switches \in Nat
    BY DEF TypeOK
  <2>2. ~ hunsent
    BY <1>1 DEF Booted
  <2> QED
    BY <1>1, <1>12, <2>1, <2>2 DEF HighSetMcast, HighSendMcast, HighConfigBeacon
<1> QED
  BY <1>6, <1>7, <1>8, <1>9, <1>10, <1>11, <1>12 DEF HighNext, HighPoll

\* A message is read: the configuration first, then the buffers.
LEMMA BootRead ==
    ASSUME TypeOK, Booted, switches = 0, toLow # <<>>, toLow' = Tail(toLow)
    PROVE  /\ Head(toLow)[1] = "READY" =>
                 \A i \in 1 .. Len(toLow') : toLow'[i][1] = "READY"
           /\ Head(toLow)[1] # "READY" =>
                 /\ general = <<>> /\ dtim = <<>> /\ \A b \in Bufs : frame[b].state # "LOW_CTRL"
                 /\ \A i \in 1 .. Len(toLow') : toLow'[i][1] # "READY" =>
                       \A j \in 1 .. i : toLow'[j][1] # "READY"
<1>1. /\ Len(toLow) \in Nat /\ Len(toLow) > 0 /\ Len(toLow') = Len(toLow) - 1
      /\ Head(toLow) = toLow[1]
      /\ \A i \in 1 .. Len(toLow') : toLow'[i] = toLow[i + 1] /\ i + 1 \in 1 .. Len(toLow)
  BY ToLowTail
<1>2. \A i \in 1 .. Len(toLow) : toLow[i][1] # "READY" =>
         /\ general = <<>> /\ dtim = <<>> /\ \A b \in Bufs : frame[b].state # "LOW_CTRL"
         /\ \A j \in 1 .. i : toLow[j][1] # "READY"
  BY DEF Booted
<1>3. ASSUME NEW i \in 1 .. Len(toLow'), toLow'[i][1] # "READY"
      PROVE  Head(toLow)[1] # "READY" /\ \A j \in 1 .. i : toLow'[j][1] # "READY"
  <2>1. \A j \in 1 .. i + 1 : toLow[j][1] # "READY"
    BY <1>1, <1>2, <1>3
  <2>2. \A j \in 1 .. i : j \in 1 .. Len(toLow') /\ j + 1 \in 1 .. i + 1
    BY <1>1
  <2> QED
    BY <1>1, <2>1, <2>2
<1>4. 1 \in 1 .. Len(toLow)
  BY <1>1
<1> QED
  BY <1>1, <1>2, <1>3, <1>4

\* The first configurations find empty lists.
LEMMA EmptyUpdate ==
    ASSUME TypeOK, Places, NEW buffering \in BOOLEAN, UpdateLists(buffering),
           general = <<>>, dtim = <<>>
    PROVE  /\ general' = <<>> /\ dtim' = <<>>
           /\ \A c \in Bufs : frame'[c].state = frame[c].state /\ frame'[c].group = frame[c].group
<1>1. Range(general) = {} /\ Range(dtim) = {}
  BY DEF Range
<1>2. /\ Range(general') = {} /\ Range(dtim') = {} /\ IsInjective(general') /\ IsInjective(dtim')
      /\ \A c \in Bufs : frame'[c].state = frame[c].state /\ frame'[c].group = frame[c].group
  <2>1. CASE buffering
    <3>1. UpdateLists(TRUE)
      BY <2>1
    <3> QED
      BY <1>1, <3>1, StartedFacts
  <2>2. CASE ~ buffering
    <3>1. UpdateLists(FALSE)
      BY <2>2
    <3> QED
      BY <1>1, <3>1, StoppedFacts
  <2> QED
    BY <2>1, <2>2
<1>3. general' \in Seq(Bufs) /\ dtim' \in Seq(Bufs)
  BY UpdatedTypes
<1> QED
  BY <1>2, <1>3, ListLength

\* A step of CPU_LOW takes no buffer into a group; it gives one back only with a
\* DONE message.
LEMMA LowOwnedFacts ==
    ASSUME TypeOK, Places, HeadKept, Booted, switches = 0, LowNext
    PROVE  /\ UNCHANGED highVars
           /\ \A g \in Groups : LowOwned(g)' \subseteq LowOwned(g)
           /\ \/ toHigh' # <<>>
              \/ toHigh' = toHigh /\ \A g \in Groups : LowOwned(g)' = LowOwned(g)
<1>1. general \in Seq(Bufs) /\ dtim \in Seq(Bufs) /\ toHigh \in Seq(Bufs)
      /\ frame \in [Bufs -> Frames]
  BY DEF TypeOK
<1>2. CASE LowReady
  <2>1. /\ toLow # <<>> /\ Head(toLow)[1] = "READY" /\ UNCHANGED <<highVars, toHigh>>
        /\ frame' = [frame EXCEPT ![Head(toLow)[2]].state = "LOW_CTRL"]
    BY <1>2 DEF LowReady, Receive
  <2>2. Head(toLow) \in Messages /\ Head(toLow) \in Range(toLow)
    BY <2>1, HeadInRange DEF TypeOK
  <2>3. Head(toLow)[2] \in Bufs /\ frame[Head(toLow)[2]].state = "READY"
    BY <2>1, <2>2, MessageFacts DEF Places
  <2>4. \A c \in Bufs : /\ frame'[c].group = frame[c].group
                        /\ frame'[c].state \in {"READY", "LOW_CTRL"}
                             <=> frame[c].state \in {"READY", "LOW_CTRL"}
    BY <1>1, <2>1, <2>3 DEF Frames
  <2> QED
    BY <2>1, <2>4, OwnedSame
<1>3. CASE LowMcastEnable \/ LowBeaconConfig
  <2>1. PICK buffering \in BOOLEAN : UpdateLists(buffering)
    BY <1>3 DEF LowMcastEnable, LowBeaconConfig
  <2>2. /\ toLow # <<>> /\ Head(toLow)[1] # "READY" /\ toLow' = Tail(toLow)
        /\ UNCHANGED <<highVars, toHigh>>
    BY <1>3 DEF LowMcastEnable, LowBeaconConfig, Receive
  <2>3. general = <<>> /\ dtim = <<>>
    BY <2>2, BootRead
  <2>4. \A c \in Bufs : frame'[c].state = frame[c].state /\ frame'[c].group = frame[c].group
    BY <2>1, <2>3, EmptyUpdate
  <2> QED
    BY <2>2, <2>4, OwnedSame
<1>4. ASSUME NEW b \in Bufs, Prepare(b), UNCHANGED <<highVars, toHigh>>
      PROVE  /\ UNCHANGED highVars /\ toHigh' = toHigh
             /\ \A g \in Groups : LowOwned(g)' = LowOwned(g)
  <2>1. \A c \in Bufs : /\ frame'[c].state = frame[c].state
                        /\ frame'[c].group = frame[c].group
    BY <1>4, PreparedFacts
  <2> QED
    BY <1>4, <2>1, OwnedSame
<1>5. ASSUME NEW b \in Bufs, Finish(b), UNCHANGED highVars
      PROVE  /\ UNCHANGED highVars /\ toHigh' # <<>>
             /\ \A g \in Groups : LowOwned(g)' \subseteq LowOwned(g)
  <2>1. /\ \A c \in Bufs : c # b => frame'[c] = frame[c]
        /\ frame'[b].state = "DONE"
    BY <1>5, FinishedFacts
  <2>2. toHigh' # <<>>
    BY <1>1, <1>5, AppendFacts DEF Finish
  <2> QED
    BY <1>5, <2>1, <2>2 DEF LowOwned
<1>6. /\ general # <<>> => Head(general) \in Bufs
      /\ dtim # <<>> => Head(dtim) \in Bufs
  BY <1>1, HeadInRange
<1>7. CASE LowTxStart
  BY <1>4, <1>6, <1>7 DEF LowTxStart
<1>8. CASE LowTxEnd
  BY <1>5, <1>6, <1>8 DEF LowTxEnd, HeadKept
<1>9. CASE LowDtimFinish
  BY <1>5, <1>6, <1>9 DEF LowDtimFinish, HeadKept
<1>10. ASSUME UNCHANGED <<frame, toHigh, highVars>>
       PROVE  /\ UNCHANGED highVars /\ toHigh' = toHigh
              /\ \A g \in Groups : LowOwned(g)' = LowOwned(g)
  BY <1>10, OwnedSame
<1>11. CASE LowDtimStart
  BY <1>4, <1>6, <1>10, <1>11 DEF LowDtimStart
<1>12. CASE \/ Tbtt \/ LowTbtt \/ LowBeaconSkip \/ LowBeaconStart \/ LowDtimBeacon
            \/ LowBeacon \/ LowDtimPause \/ LowTbttEnd \/ LowWindowNext \/ LowWindowEmpty
  BY <1>10, <1>12
  DEF Tbtt, LowTbtt, LowBeaconSkip, LowBeaconStart, LowDtimBeacon, LowBeacon,
      BeaconSent, LowDtimPause, LowTbttEnd, LowWindowNext, LowWindowEmpty
<1> QED
  BY <1>2, <1>3, <1>7, <1>8, <1>9, <1>11, <1>12 DEF LowNext, LowReceive, LowWindow

LEMMA LowCounted ==
    ASSUME TypeOK, Places, HeadKept, Booted, Counted, LowNext
    PROVE  Counted'
<1> SUFFICES ASSUME switches' = 0 PROVE Counted'
  BY DEF Counted
<1>1. switches = 0
  BY DEF LowNext, LowReceive, LowReady, LowMcastEnable, LowBeaconConfig, Receive,
         LowTxStart, LowTxEnd, LowDtimStart, LowDtimFinish, LowWindow, Tbtt, LowTbtt,
         LowBeaconSkip, LowBeaconStart, LowDtimBeacon, LowBeacon, BeaconSent,
         LowDtimPause, LowTbttEnd, LowWindowNext, LowWindowEmpty, highVars
<1>2. UNCHANGED highVars /\ \A g \in Groups : LowOwned(g)' \subseteq LowOwned(g)
  BY <1>1, LowOwnedFacts
<1>3. \A g \in Groups : /\ Cardinality(LowOwned(g)') \in Nat
                        /\ Cardinality(LowOwned(g)) \in Nat
                        /\ Cardinality(LowOwned(g)') <= Cardinality(LowOwned(g))
  BY <1>2, OwnedShrinks
<1>4. "GENERAL" \in Groups /\ "DTIM_MCAST" \in Groups /\ havail \in Nat
      /\ GeneralLimit \in Nat /\ DtimLimit \in Nat /\ \A g \in Groups : Limit(g) \in Nat
  BY NumberFacts DEF Groups, TypeOK
<1>5. \A g \in Groups : Cardinality(LowOwned(g)') <= Limit(g)
  BY <1>1, <1>3, <1>4 DEF Counted
<1>6. hpc' = hpc /\ havail' = havail
  BY <1>2 DEF highVars
<1>7. hpc = "general" => havail + Cardinality(LowOwned("GENERAL")') <= GeneralLimit
  BY <1>1, <1>3, <1>4 DEF Counted
<1>8. hpc = "dtim" => havail + Cardinality(LowOwned("DTIM_MCAST")') <= DtimLimit
  BY <1>1, <1>3, <1>4 DEF Counted
<1> QED
  BY <1>5, <1>6, <1>7, <1>8 DEF Counted

\* The lists never have more entries than CPU_LOW owns buffers: one is left for the
\* buffer it reads of.
LEMMA EntryLeft ==
    ASSUME GeneralLimit + DtimLimit <= MaxPending,
           TypeOK, Places, \A g \in Groups : Cardinality(LowOwned(g)) <= Limit(g),
           NEW b \in Bufs, frame[b].state = "READY"
    PROVE  Len(general) + Len(dtim) < MaxPending
<1>1. general \in Seq(Bufs) /\ dtim \in Seq(Bufs) /\ frame \in [Bufs -> Frames]
      /\ IsInjective(general) /\ IsInjective(dtim) /\ Range(general) \cap Range(dtim) = {}
  BY DEF TypeOK, Places
<1> DEFINE listed == Range(general) \cup Range(dtim)
           owned == LowOwned("GENERAL") \cup LowOwned("DTIM_MCAST")
<1>2. /\ IsFiniteSet(Range(general)) /\ Cardinality(Range(general)) = Len(general)
      /\ IsFiniteSet(Range(dtim)) /\ Cardinality(Range(dtim)) = Len(dtim)
      /\ Len(general) \in Nat /\ Len(dtim) \in Nat
  BY <1>1, ListLength
<1>3. IsFiniteSet(listed) /\ Cardinality(listed) = Len(general) + Len(dtim)
  <2>1. /\ IsFiniteSet(listed)
        /\ Cardinality(listed) = Cardinality(Range(general)) + Cardinality(Range(dtim))
                                 - Cardinality(Range(general) \cap Range(dtim))
    BY <1>2, FS_Union
  <2>2. Cardinality(Range(general) \cap Range(dtim)) = 0
    BY <1>1, FS_EmptySet
  <2> QED
    BY <1>2, <2>1, <2>2
<1>4. b \notin listed
  BY DEF Places
<1>5. listed \cup {b} \subseteq owned
  <2>1. \A c \in listed \cup {b} : c \in Bufs /\ frame[c].state \in {"READY", "LOW_CTRL"}
    BY ListMembers DEF Places
  <2>2. \A c \in Bufs : frame[c].group \in Groups
    BY <1>1 DEF Frames
  <2> QED
    BY <2>1, <2>2 DEF LowOwned, Groups
<1>6. /\ IsFiniteSet(LowOwned("GENERAL")) /\ IsFiniteSet(LowOwned("DTIM_MCAST"))
      /\ Cardinality(LowOwned("GENERAL")) <= GeneralLimit
      /\ Cardinality(LowOwned("DTIM_MCAST")) <= DtimLimit
      /\ Cardinality(LowOwned("GENERAL")) \in Nat /\ Cardinality(LowOwned("DTIM_MCAST")) \in Nat
      /\ GeneralLimit \in Nat /\ DtimLimit \in Nat /\ MaxPending \in Nat
  BY OwnedFacts, NumberFacts DEF Groups
<1>7. IsFiniteSet(owned) /\ Cardinality(owned) \in Nat
      /\ Cardinality(owned) <= GeneralLimit + DtimLimit
  <2> DEFINE both == LowOwned("GENERAL") \cap LowOwned("DTIM_MCAST")
  <2>1. /\ IsFiniteSet(owned)
        /\ Cardinality(owned) = Cardinality(LowOwned("GENERAL"))
               + Cardinality(LowOwned("DTIM_MCAST")) - Cardinality(both)
    BY <1>6, FS_Union
  <2>2. Cardinality(both) = 0
    <3>1. both = {}
      BY DEF LowOwned
    <3> QED
      BY <3>1, FS_EmptySet
  <2> HIDE DEF owned, both
  <2> QED
    BY <1>6, <2>1, <2>2
<1>8. Cardinality(listed \cup {b}) = Len(general) + Len(dtim) + 1
  BY <1>3, <1>4, FS_AddElement
<1>9. Cardinality(listed \cup {b}) <= Cardinality(owned)
  BY <1>5, <1>7, FS_Subset
<1> HIDE DEF listed, owned
<1> QED
  BY <1>2, <1>6, <1>7, <1>8, <1>9

LEMMA LowBooted ==
    ASSUME GeneralLimit + DtimLimit <= MaxPending,
           TypeOK, Places, HeadKept, Booted, Counted, Listed, LowNext
    PROVE  Booted' /\ Listed'
<1> SUFFICES ASSUME switches' = 0 PROVE Booted' /\ Listed'
  BY DEF Booted, Listed
<1>1. switches = 0
  BY DEF LowNext, LowReceive, LowReady, LowMcastEnable, LowBeaconConfig, Receive,
         LowTxStart, LowTxEnd, LowDtimStart, LowDtimFinish, LowWindow, Tbtt, LowTbtt,
         LowBeaconSkip, LowBeaconStart, LowDtimBeacon, LowBeacon, BeaconSent,
         LowDtimPause, LowTbttEnd, LowWindowNext, LowWindowEmpty, highVars
<1>2. UNCHANGED <<hmcast, hbeacon, hunsent>>
  BY <1>1, LowOwnedFacts DEF highVars
<1>3. /\ hmcast = 1 /\ hbeacon = 1 /\ ~ hunsent
      /\ \A i \in 1 .. Len(toLow) : toLow[i][1] # "READY" =>
            /\ general = <<>> /\ dtim = <<>> /\ \A b \in Bufs : frame[b].state # "LOW_CTRL"
            /\ \A j \in 1 .. i : toLow[j][1] # "READY"
      /\ \A b \in Bufs : frame[b].state = "LOW_CTRL" => b \in Range(general) \cup Range(dtim)
  BY <1>1 DEF Booted, Listed
<1>4. general \in Seq(Bufs) /\ dtim \in Seq(Bufs) /\ frame \in [Bufs -> Frames]
      /\ IsInjective(general) /\ IsInjective(dtim)
  BY DEF TypeOK, Places
<1>5. CASE LowReady
  <2> DEFINE b == Head(toLow)[2]
  <2>1. /\ toLow # <<>> /\ toLow' = Tail(toLow) /\ Head(toLow)[1] = "READY"
        /\ frame' = [frame EXCEPT ![b].state = "LOW_CTRL"] /\ Enlist(b)
    BY <1>5 DEF LowReady, Receive
  <2>2. Head(toLow) \in Messages /\ Head(toLow) \in Range(toLow)
    BY <2>1, HeadInRange DEF TypeOK
  <2>3. b \in Bufs /\ frame[b].state = "READY"
    BY <2>1, <2>2, MessageFacts DEF Places
  <2>4. \A i \in 1 .. Len(toLow') : toLow'[i][1] = "READY"
    BY <1>1, <2>1, BootRead
  <2> HIDE DEF b
  <2>5. Len(general) + Len(dtim) < MaxPending
    BY <1>1, <2>3, EntryLeft DEF Counted
  <2>6. ~ (Len(general) + Len(dtim) >= MaxPending)
    BY <1>4, <2>5, NumberFacts
  <2>7. \/ general' = general /\ dtim' = Append(dtim, b)
        \/ general' = Append(general, b) /\ dtim' = dtim
    BY <2>1, <2>6 DEF Enlist
  <2>8. /\ Range(Append(general, b)) = Range(general) \cup {b}
        /\ Range(Append(dtim, b)) = Range(dtim) \cup {b}
    BY <1>4, <2>3, RangeAppend
  <2>9. Range(general') \cup Range(dtim') = Range(general) \cup Range(dtim) \cup {b}
    BY <2>7, <2>8
  <2>10. \A c \in Bufs : c # b => frame'[c] = frame[c]
    BY <1>4, <2>1, <2>3
  <2>11. Listed'
    BY <1>3, <2>9, <2>10 DEF Listed
  <2>12. Booted'
    BY <1>2, <1>3, <2>4 DEF Booted
  <2> QED
    BY <2>11, <2>12
<1>6. CASE LowMcastEnable \/ LowBeaconConfig
  <2>1. PICK buffering \in BOOLEAN : UpdateLists(buffering)
    BY <1>6 DEF LowMcastEnable, LowBeaconConfig
  <2>2. /\ toLow # <<>> /\ Head(toLow)[1] # "READY" /\ toLow' = Tail(toLow)
    BY <1>6 DEF LowMcastEnable, LowBeaconConfig, Receive
  <2>3. /\ general = <<>> /\ dtim = <<>> /\ \A b \in Bufs : frame[b].state # "LOW_CTRL"
        /\ \A i \in 1 .. Len(toLow') : toLow'[i][1] # "READY" =>
              \A j \in 1 .. i : toLow'[j][1] # "READY"
    BY <1>1, <2>2, BootRead
  <2>4. /\ general' = <<>> /\ dtim' = <<>>
        /\ \A c \in Bufs : frame'[c].state = frame[c].state
    BY <2>1, <2>3, EmptyUpdate
  <2>5. Booted'
    BY <1>2, <1>3, <2>3, <2>4 DEF Booted
  <2>6. Listed'
    BY <2>3, <2>4 DEF Listed
  <2> QED
    BY <2>5, <2>6
<1>7. ASSUME NEW b \in Bufs, Prepare(b), UNCHANGED <<toLow, general, dtim>>
      PROVE  Booted' /\ Listed'
  <2>1. \A c \in Bufs : frame'[c].state = frame[c].state
    BY <1>7, PreparedFacts
  <2>2. Booted'
    BY <1>2, <1>3, <1>7, <2>1 DEF Booted
  <2>3. Listed'
    BY <1>3, <1>7, <2>1 DEF Listed
  <2> QED
    BY <2>2, <2>3
<1>8. ASSUME UNCHANGED <<frame, toLow, general, dtim>> PROVE Booted' /\ Listed'
  <2>1. Booted'
    BY <1>2, <1>3, <1>8 DEF Booted
  <2>2. Listed'
    BY <1>3, <1>8 DEF Listed
  <2> QED
    BY <2>1, <2>2
<1>9. ASSUME NEW b \in Bufs, Finish(b), UNCHANGED toLow,
             general # <<>> \/ dtim # <<>>,
             Range(general) \cup Range(dtim) \subseteq Range(general') \cup Range(dtim') \cup {b}
      PROVE  Booted' /\ Listed'
  <2>1. /\ \A c \in Bufs : c # b => frame'[c] = frame[c]
        /\ frame'[b].state = "DONE"
    BY <1>9, FinishedFacts
  <2>2. \A i \in 1 .. Len(toLow') : toLow'[i][1] = "READY"
    BY <1>3, <1>9
  <2>3. Booted'
    BY <1>2, <1>3, <2>2 DEF Booted
  <2>4. Listed'
    BY <1>3, <1>9, <2>1 DEF Listed
  <2> QED
    BY <2>3, <2>4
<1>10. /\ general # <<>> => Head(general) \in Bufs
       /\ dtim # <<>> => Head(dtim) \in Bufs
  BY <1>4, HeadInRange
<1>11. CASE LowTxStart
  BY <1>7, <1>10, <1>11 DEF LowTxStart
<1>12. CASE LowDtimStart
  BY <1>7, <1>8, <1>10, <1>12 DEF LowDtimStart
<1>13. CASE LowTxEnd
  <2>1. general # <<>> /\ general' = Tail(general) /\ dtim' = dtim
        /\ Finish(Head(general)) /\ UNCHANGED toLow
    BY <1>13 DEF LowTxEnd, HeadKept
  <2>2. Range(general) = Range(general') \cup {Head(general)}
    BY <1>4, <2>1, HeadLeaves, Zenon
  <2> QED
    BY <1>9, <1>10, <2>1, <2>2
<1>14. CASE LowDtimFinish
  <2>1. dtim # <<>> /\ dtim' = Tail(dtim) /\ general' = general
        /\ Finish(Head(dtim)) /\ UNCHANGED toLow
    BY <1>14 DEF LowDtimFinish, HeadKept
  <2>2. Range(dtim) = Range(dtim') \cup {Head(dtim)}
    BY <1>4, <2>1, HeadLeaves, Zenon
  <2> QED
    BY <1>9, <1>10, <2>1, <2>2
<1>15. CASE \/ Tbtt \/ LowTbtt \/ LowBeaconSkip \/ LowBeaconStart \/ LowDtimBeacon
            \/ LowBeacon \/ LowDtimPause \/ LowTbttEnd \/ LowWindowNext \/ LowWindowEmpty
  BY <1>8, <1>15
  DEF Tbtt, LowTbtt, LowBeaconSkip, LowBeaconStart, LowDtimBeacon, LowBeacon,
      BeaconSent, LowDtimPause, LowTbttEnd, LowWindowNext, LowWindowEmpty
<1> QED
  BY <1>5, <1>6, <1>11, <1>12, <1>13, <1>14, <1>15 DEF LowNext, LowReceive, LowWindow

\* With a list entry for every buffer CPU_LOW may own, the invariant holds together
\* with the limits.
LEMMA LimitsInit == Init => LimitsInv /\ Awake
<1> SUFFICES ASSUME Init PROVE LimitsInv /\ Awake
  OBVIOUS
<1>1. GroupsInv
  BY GroupsInit
<1>2. \A g : LowOwned(g) = {}
  BY DEF Init, LowOwned, NoFrame
<1>3. Counted
  <2>1. \A g : Cardinality(LowOwned(g)) = 0
    BY <1>2, FS_EmptySet
  <2>2. \A g \in Groups : 0 <= Limit(g)
    BY NumberFacts
  <2> QED
    BY <2>1, <2>2 DEF Init, Counted
<1>4. Booted
  <2>1. \A b \in Bufs : frame[b].state # "LOW_CTRL"
    BY DEF Init, NoFrame
  <2>2. \A i \in 1 .. Len(toLow) : toLow[i][1] # "READY"
    BY DEF Init
  <2> QED
    BY <2>1, <2>2 DEF Init, Booted
<1>5. Listed
  BY DEF Init, Listed, NoFrame
<1>6. Awake
  BY DEF Init, Awake
<1> QED
  BY <1>1, <1>3, <1>4, <1>5, <1>6 DEF LimitsInv

LEMMA LimitsStep ==
    ASSUME GeneralLimit + DtimLimit <= MaxPending
    PROVE  LimitsInv /\ [Next]_vars => LimitsInv'
<1> SUFFICES ASSUME LimitsInv, [Next]_vars PROVE LimitsInv'
  OBVIOUS
<1>1. TypeOK /\ Places /\ HeadKept /\ Booted /\ Counted /\ Listed /\ GroupsInv
  BY DEF LimitsInv, GroupsInv
<1>2. GroupsInv'
  BY <1>1, GroupsStep
<1>3. CASE HighNext
  BY <1>1, <1>2, <1>3, HighBooted, HighCounted DEF LimitsInv
<1>4. CASE LowNext
  BY <1>1, <1>2, <1>4, LowBooted, LowCounted DEF LimitsInv
<1>5. CASE UNCHANGED vars
  <2>1. \A g : LowOwned(g)' = LowOwned(g)
    BY <1>5 DEF vars, LowOwned
  <2>2. Counted'
    BY <1>1, <1>5, <2>1 DEF vars, highVars, Counted
  <2>3. Booted' /\ Listed'
    BY <1>1, <1>5 DEF vars, highVars, lowVars, Booted, Listed
  <2> QED
    BY <1>2, <2>2, <2>3 DEF LimitsInv
<1> QED
  BY <1>3, <1>4, <1>5 DEF Next

\* While nobody changes the configuration CPU_LOW never owns more buffers of a group
\* than its limit, so that wlan_mac_num_tx_pkt_buf_available needs neither WARNING,
\* and every buffer it owns has a list entry (handle_tx_pkt_buf_ready).
THEOREM LimitsKept ==
    ASSUME GeneralLimit + DtimLimit <= MaxPending
    PROVE  Spec => []GroupLimits
<1>1. Init => LimitsInv
  BY LimitsInit
<1>2. LimitsInv /\ [Next]_vars => LimitsInv'
  BY LimitsStep
<1>3. LimitsInv => GroupLimits
  BY DEF LimitsInv, Counted, Listed, GroupLimits
<1> QED
  BY <1>1, <1>2, <1>3, PTL DEF Spec

-----------------------------------------------------------------------------
(* No wake-up is lost.                                                     *)

\* When no buffer is empty and no DONE message is waiting, both groups are full.
LEMMA AllOwned ==
    ASSUME NumMpdu > GeneralLimit + DtimLimit, TypeOK, Places,
           \A g \in Groups : Cardinality(LowOwned(g)) <= Limit(g),
           toHigh = <<>>, Empty = {}
    PROVE  Cardinality(LowOwned("DTIM_MCAST")) = DtimLimit
<1>1. frame \in [Bufs -> Frames]
  BY DEF TypeOK
<1>2. /\ IsFiniteSet(LowOwned("GENERAL")) /\ IsFiniteSet(LowOwned("DTIM_MCAST"))
      /\ Cardinality(LowOwned("GENERAL")) <= GeneralLimit
      /\ Cardinality(LowOwned("DTIM_MCAST")) <= DtimLimit
      /\ Cardinality(LowOwned("GENERAL")) \in Nat /\ Cardinality(LowOwned("DTIM_MCAST")) \in Nat
      /\ GeneralLimit \in Nat /\ DtimLimit \in Nat /\ NumMpdu \in Nat
  BY OwnedFacts, NumberFacts DEF Groups
<1> DEFINE owned == LowOwned("GENERAL") \cup LowOwned("DTIM_MCAST")
<1>3. /\ IsFiniteSet(owned) /\ Cardinality(owned) \in Nat
      /\ Cardinality(owned) <= Cardinality(LowOwned("GENERAL")) + Cardinality(LowOwned("DTIM_MCAST"))
  <2> DEFINE both == LowOwned("GENERAL") \cap LowOwned("DTIM_MCAST")
  <2>1. /\ IsFiniteSet(owned)
        /\ Cardinality(owned) = Cardinality(LowOwned("GENERAL"))
               + Cardinality(LowOwned("DTIM_MCAST")) - Cardinality(both)
    BY <1>2, FS_Union
  <2>2. IsFiniteSet(both) /\ Cardinality(both) \in Nat
    <3>1. both \subseteq LowOwned("GENERAL")
      OBVIOUS
    <3>2. IsFiniteSet(both)
      BY <1>2, <3>1, FS_Subset
    <3> QED
      BY <3>2, FS_CardinalityType
  <2>3. Cardinality(owned) \in Nat
    BY <2>1, FS_CardinalityType
  <2> HIDE DEF owned, both
  <2> QED
    BY <1>2, <2>1, <2>2, <2>3
<1>4. Bufs \subseteq owned \cup {hdone}
  <2>1. Range(toHigh) = {}
    BY DEF Range
  <2> SUFFICES ASSUME NEW b \in Bufs, b # hdone PROVE b \in owned
    OBVIOUS
  <2>2. frame[b].state # "DONE" /\ frame[b].state # "HIGH_CTRL"
    BY <2>1 DEF Places, Empty
  <2>3. frame[b].state \in {"READY", "LOW_CTRL"} /\ frame[b].group \in Groups
    BY <1>1, <2>2 DEF Frames
  <2> QED
    BY <2>3 DEF LowOwned, Groups
<1>5. /\ IsFiniteSet(owned \cup {hdone})
      /\ Cardinality(owned \cup {hdone}) <= Cardinality(owned) + 1
      /\ Cardinality(owned \cup {hdone}) \in Nat
  <2>1. /\ IsFiniteSet(owned \cup {hdone})
        /\ Cardinality(owned \cup {hdone}) =
              IF hdone \in owned THEN Cardinality(owned) ELSE Cardinality(owned) + 1
    BY <1>3, FS_AddElement
  <2> HIDE DEF owned
  <2> QED
    BY <1>3, <2>1
<1>6. NumMpdu <= Cardinality(owned \cup {hdone})
  BY <1>4, <1>5, BufsFinite, FS_Subset
<1> HIDE DEF owned
<1> QED
  BY <1>2, <1>3, <1>5, <1>6

\* A poll begins, or goes on to the multicast queue, with every buffer it may fill.
LEMMA AvailableAll ==
    ASSUME NumMpdu > GeneralLimit + DtimLimit, TypeOK, Places,
           \A g \in Groups : Cardinality(LowOwned(g)) <= Limit(g), toHigh = <<>>
    PROVE  Available("DTIM_MCAST") + Cardinality(LowOwned("DTIM_MCAST")) = DtimLimit
<1>1. "DTIM_MCAST" \in Groups /\ Limit("DTIM_MCAST") = DtimLimit /\ DtimLimit \in Nat
  BY NumberFacts DEF Groups
<1>2. CASE Empty # {}
  BY <1>1, <1>2, OwnedAvailable
<1>3. CASE Empty = {}
  BY <1>1, <1>3, OwnedAvailable, AllOwned
<1> QED
  BY <1>2, <1>3

LEMMA HighAwake ==
    ASSUME NumMpdu > GeneralLimit + DtimLimit,
           TypeOK, Places, Booted, Counted, Awake, HighNext
    PROVE  Awake'
<1> SUFFICES ASSUME switches' = 0, toHigh' = <<>>
             PROVE  /\ hpc' = "dtim" =>
                          havail' + Cardinality(LowOwned("DTIM_MCAST")') = DtimLimit
                    /\ hpc' = "idle" /\ mcastQueue' > 0 =>
                          Cardinality(LowOwned("DTIM_MCAST")') = DtimLimit
  BY DEF Awake
<1>1. switches = 0 /\ hmcast = 1 /\ hbeacon = 1 /\ ~ hunsent
  BY HighFacts DEF Booted
<1>2. \A g \in Groups : Cardinality(LowOwned(g)) <= Limit(g)
  BY <1>1 DEF Counted
<1>3. "DTIM_MCAST" \in Groups /\ DtimLimit \in Nat /\ havail \in Nat
      /\ Cardinality(LowOwned("DTIM_MCAST")) \in Nat
  BY NumberFacts, OwnedFacts DEF Groups, TypeOK
<1>4. CASE HighEnqueueMcast \/ HighPollRequest \/ HighDone
  BY <1>4 DEF HighEnqueueMcast, HighPollRequest, HighDone, StartPoll
<1>5. CASE HighFillGeneral
  BY <1>5 DEF HighFillGeneral
<1>6. CASE HighGeneralEnd
  <2>1. /\ hpc' = "dtim" /\ havail' = Available("DTIM_MCAST") /\ UNCHANGED <<frame, toHigh>>
    BY <1>1, <1>6 DEF HighGeneralEnd
  <2>2. LowOwned("DTIM_MCAST")' = LowOwned("DTIM_MCAST")
    BY <2>1 DEF LowOwned
  <2> QED
    BY <1>2, <2>1, <2>2, AvailableAll
<1>7. CASE HighFillDtim
  <2>1. hpc = "dtim" /\ hpc' = "dtim" /\ toHigh = <<>>
    BY <1>7 DEF HighFillDtim
  <2>2. havail + Cardinality(LowOwned("DTIM_MCAST")) = DtimLimit
    BY <1>1, <2>1 DEF Awake
  <2>3. CASE Submit("DTIM_MCAST", TRUE)
    <3>1. /\ Cardinality(LowOwned("DTIM_MCAST")') = Cardinality(LowOwned("DTIM_MCAST")) + 1
          /\ havail > 0 /\ havail' = havail - 1
      BY <1>3, <2>3, OwnedFilled
    <3> QED
      BY <1>3, <2>1, <2>2, <3>1
  <2>4. CASE Discard
    <3>1. havail > 0 /\ Cardinality(LowOwned("DTIM_MCAST")) = DtimLimit
      BY <1>2, <2>1, <2>4, AllOwned DEF Discard
    <3> QED
      BY <1>3, <2>2, <3>1
  <2> QED
    BY <1>7, <2>3, <2>4 DEF HighFillDtim
<1>8. CASE HighDtimEnd
  <2>1. /\ hpc = "dtim" /\ hpc' = "idle" /\ toHigh = <<>> /\ mcastQueue' = mcastQueue
        /\ havail = 0 \/ mcastQueue = 0
    BY <1>8 DEF HighDtimEnd
  <2>2. havail + Cardinality(LowOwned("DTIM_MCAST")) = DtimLimit
    BY <1>1, <2>1 DEF Awake
  <2>3. LowOwned("DTIM_MCAST")' = LowOwned("DTIM_MCAST")
    BY <1>8, RecycledOwned DEF HighDtimEnd
  <2> QED
    BY <1>3, <2>1, <2>2, <2>3
<1>9. CASE HighFillUnbuffered \/ HighSetMcast \/ HighSendMcast \/ HighConfigBeacon
  <2>1. switches \in Nat
    BY DEF TypeOK
  <2> QED
    BY <1>1, <1>9, <2>1 DEF HighFillUnbuffered, HighSetMcast, HighSendMcast, HighConfigBeacon
<1> QED
  BY <1>4, <1>5, <1>6, <1>7, <1>8, <1>9 DEF HighNext, HighPoll

LEMMA LowAwake ==
    ASSUME TypeOK, Places, HeadKept, Booted, Awake, LowNext
    PROVE  Awake'
<1> SUFFICES ASSUME switches' = 0, toHigh' = <<>> PROVE Awake'
  BY DEF Awake
<1>1. switches = 0
  BY DEF LowNext, LowReceive, LowReady, LowMcastEnable, LowBeaconConfig, Receive,
         LowTxStart, LowTxEnd, LowDtimStart, LowDtimFinish, LowWindow, Tbtt, LowTbtt,
         LowBeaconSkip, LowBeaconStart, LowDtimBeacon, LowBeacon, BeaconSent,
         LowDtimPause, LowTbttEnd, LowWindowNext, LowWindowEmpty, highVars
<1>2. /\ UNCHANGED highVars /\ toHigh' = toHigh
      /\ \A g \in Groups : LowOwned(g)' = LowOwned(g)
  BY <1>1, LowOwnedFacts
<1>3. LowOwned("DTIM_MCAST")' = LowOwned("DTIM_MCAST")
  BY <1>2 DEF Groups
<1> QED
  BY <1>2, <1>3 DEF Awake, highVars

LEMMA AwakeStep ==
    ASSUME GeneralLimit + DtimLimit <= MaxPending, NumMpdu > GeneralLimit + DtimLimit
    PROVE  LimitsInv /\ Awake /\ [Next]_vars => Awake'
<1> SUFFICES ASSUME LimitsInv, Awake, [Next]_vars PROVE Awake'
  OBVIOUS
<1>1. TypeOK /\ Places /\ HeadKept /\ Booted /\ Counted
  BY DEF LimitsInv, GroupsInv
<1>2. CASE HighNext
  BY <1>1, <1>2, HighAwake
<1>3. CASE LowNext
  BY <1>1, <1>3, LowAwake
<1>4. CASE UNCHANGED vars
  <2>1. LowOwned("DTIM_MCAST")' = LowOwned("DTIM_MCAST")
    BY <1>4 DEF vars, LowOwned
  <2> QED
    BY <1>4, <2>1 DEF vars, highVars, Awake
<1> QED
  BY <1>2, <1>3, <1>4 DEF Next

\* The DONE handler polls the queues before it recycles its buffer, and still no
\* wake-up is lost, because there is one buffer more than CPU_LOW may own: packets
\* that a poll leaves wait for a DONE message that is on its way or will be sent.
THEOREM WakeupsKept ==
    ASSUME GeneralLimit + DtimLimit <= MaxPending, NumMpdu > GeneralLimit + DtimLimit
    PROVE  Spec => []NoLostWakeup
<1>1. Init => LimitsInv /\ Awake
  BY LimitsInit
<1>2. LimitsInv /\ [Next]_vars => LimitsInv'
  BY LimitsStep
<1>3. LimitsInv /\ Awake /\ [Next]_vars => Awake'
  BY AwakeStep
<1>4. Awake => NoLostWakeup
  BY DEF Awake, NoLostWakeup
<1> QED
  BY <1>1, <1>2, <1>3, <1>4, PTL DEF Spec
=============================================================================

--------------------------- MODULE TxPktBufProofs ---------------------------
(***************************************************************************)
(* Machine-checked proofs for the transmit packet buffer hand-over, for    *)
(* any number of buffers, any limits and any number of reboots.            *)
(***************************************************************************)
EXTENDS TxPktBufReboot, QueueLemmas, FiniteSetTheorems

\* While neither CPU reboots the error branches are unreachable.
LEMMA NoErrorStep ==
    ASSUME TokenInv
    PROVE  /\ ~ HighUnlockFail /\ ~ HighDoneLockFail /\ ~ HighDoneStale
           /\ ~ HighDoneLowOwned /\ ~ HighRecvException
           /\ ~ LowLockFail /\ ~ LowUnexpectedReset /\ ~ LowUnexpected
           /\ ~ LowFinishNotOwner /\ ~ LowFinishReset
           /\ ~ LowFinishUnexpected /\ ~ LowUnlockFail
<1>1. ~ HighUnlockFail
  BY DEF TokenInv, TokenOfHigh, HighUnlockFail
<1>2. ~ HighDoneLockFail /\ ~ HighDoneStale /\ ~ HighDoneLowOwned
  BY DEF TokenInv, TokenOfHigh, HighDoneLockFail, HighDoneStale, HighDoneLowOwned,
         CanLock
<1>3. ~ HighRecvException
  BY TailFacts DEF TokenInv, TypeOK, TokenInMailbox, HighRecvException, Exception,
                   Bufs
<1>4. ~ LowLockFail /\ ~ LowUnexpectedReset /\ ~ LowUnexpected
  BY DEF TokenInv, TokenOfLow, LowLockFail, LowUnexpectedReset, LowUnexpected, CanLock
<1>5. /\ ~ LowFinishNotOwner /\ ~ LowFinishReset /\ ~ LowFinishUnexpected
      /\ ~ LowUnlockFail
  BY TailFacts DEF TokenInv, TypeOK, TokenOfLow, LowFinishNotOwner, LowFinishReset,
                   LowFinishUnexpected, LowUnlockFail
<1> QED
  BY <1>1, <1>2, <1>3, <1>4, <1>5

LEMMA NumAvailableType == NumAvailable \in 0 .. GeneralLimit
<1>1. IsFiniteSet(Bufs)
  BY ConstantsAssumption, FS_Interval DEF Bufs
<1>2. IsFiniteSet(LowOwned)
  BY <1>1, FS_Subset DEF LowOwned
<1>3. Cardinality(LowOwned) \in Nat
  BY <1>2, FS_CardinalityType
<1> QED
  BY <1>3, ConstantsAssumption DEF NumAvailable

LEMMA HighPollRequestInv ==
    ASSUME TokenInv, HighPollRequest
    PROVE  TokenInv'
<1> USE DEF HighPollRequest, lowVars, NoBuf, NoOwner
<1>1. TypeOK'
  BY DEF TokenInv, TypeOK, TokenOfHigh, TokenInMailbox, TokenOfLow, Bufs, HighPCs, LowPCs, States, CPUs
<1>2. TokenOfHigh'
  BY DEF TokenInv, TypeOK, TokenOfHigh, TokenInMailbox, TokenOfLow, HighPCs, LowPCs
<1>3. TokenInMailbox'
  BY DEF TokenInv, TypeOK, TokenOfHigh, TokenInMailbox, TokenOfLow, HighPCs, LowPCs
<1>4. TokenOfLow'
  BY DEF TokenInv, TypeOK, TokenOfHigh, TokenInMailbox, TokenOfLow, HighPCs, LowPCs
<1> QED
  BY <1>1, <1>2, <1>3, <1>4 DEF TokenInv

LEMMA HighPollStartInv ==
    ASSUME TokenInv, HighPollStart
    PROVE  TokenInv'
<1> USE DEF HighPollStart, lowVars, NoBuf, NoOwner
<1>1. TypeOK'
  BY NumAvailableType DEF TokenInv, TypeOK, TokenOfHigh, TokenInMailbox, TokenOfLow, Bufs, HighPCs, LowPCs, States, CPUs
<1>2. TokenOfHigh'
  BY DEF TokenInv, TypeOK, TokenOfHigh, TokenInMailbox, TokenOfLow, HighPCs, LowPCs
<1>3. TokenInMailbox'
  BY DEF TokenInv, TypeOK, TokenOfHigh, TokenInMailbox, TokenOfLow, HighPCs, LowPCs
<1>4. TokenOfLow'
  BY DEF TokenInv, TypeOK, TokenOfHigh, TokenInMailbox, TokenOfLow, HighPCs, LowPCs
<1> QED
  BY <1>1, <1>2, <1>3, <1>4 DEF TokenInv

LEMMA HighFillStartInv ==
    ASSUME TokenInv, HighFillStart
    PROVE  TokenInv'
<1> USE DEF HighFillStart, lowVars, Empty, NoBuf, NoOwner
<1>1. TypeOK'
  BY DEF TokenInv, TypeOK, TokenOfHigh, TokenInMailbox, TokenOfLow, Bufs, HighPCs, LowPCs, States, CPUs
<1>2. TokenOfHigh'
  BY DEF TokenInv, TypeOK, TokenOfHigh, TokenInMailbox, TokenOfLow, HighPCs, LowPCs
<1>3. TokenInMailbox'
  BY DEF TokenInv, TypeOK, TokenOfHigh, TokenInMailbox, TokenOfLow, HighPCs, LowPCs
<1>4. TokenOfLow'
  BY DEF TokenInv, TypeOK, TokenOfHigh, TokenInMailbox, TokenOfLow, HighPCs, LowPCs
<1> QED
  BY <1>1, <1>2, <1>3, <1>4 DEF TokenInv

LEMMA HighNoBufferInv ==
    ASSUME TokenInv, HighNoBuffer
    PROVE  TokenInv'
<1> USE DEF HighNoBuffer, lowVars, NoBuf, NoOwner
<1>1. TypeOK'
  BY ConstantsAssumption DEF TokenInv, TypeOK, TokenOfHigh, TokenInMailbox, TokenOfLow, Bufs, HighPCs, LowPCs, States, CPUs
<1>2. TokenOfHigh'
  BY DEF TokenInv, TypeOK, TokenOfHigh, TokenInMailbox, TokenOfLow, HighPCs, LowPCs
<1>3. TokenInMailbox'
  BY DEF TokenInv, TypeOK, TokenOfHigh, TokenInMailbox, TokenOfLow, HighPCs, LowPCs
<1>4. TokenOfLow'
  BY DEF TokenInv, TypeOK, TokenOfHigh, TokenInMailbox, TokenOfLow, HighPCs, LowPCs
<1> QED
  BY <1>1, <1>2, <1>3, <1>4 DEF TokenInv

LEMMA HighSetReadyInv ==
    ASSUME TokenInv, HighSetReady
    PROVE  TokenInv'
<1> USE DEF HighSetReady, lowVars, SetState, NoBuf, NoOwner
<1>1. TypeOK'
  BY DEF TokenInv, TypeOK, TokenOfHigh, TokenInMailbox, TokenOfLow, Bufs, HighPCs, LowPCs, States, CPUs
<1>2. TokenOfHigh'
  BY DEF TokenInv, TypeOK, TokenOfHigh, TokenInMailbox, TokenOfLow, HighPCs, LowPCs
<1>3. TokenInMailbox'
  BY DEF TokenInv, TypeOK, TokenOfHigh, TokenInMailbox, TokenOfLow, HighPCs, LowPCs
<1>4. TokenOfLow'
  BY DEF TokenInv, TypeOK, TokenOfHigh, TokenInMailbox, TokenOfLow, HighPCs, LowPCs
<1> QED
  BY <1>1, <1>2, <1>3, <1>4 DEF TokenInv

LEMMA HighUnlockInv ==
    ASSUME TokenInv, HighUnlock
    PROVE  TokenInv'
<1> USE DEF HighUnlock, lowVars, Unlocked, NoBuf, NoOwner
<1>1. TypeOK'
  BY DEF TokenInv, TypeOK, TokenOfHigh, TokenInMailbox, TokenOfLow, Bufs, HighPCs, LowPCs, States, CPUs
<1>2. TokenOfHigh'
  BY DEF TokenInv, TypeOK, TokenOfHigh, TokenInMailbox, TokenOfLow, HighPCs, LowPCs
<1>3. TokenInMailbox'
  BY DEF TokenInv, TypeOK, TokenOfHigh, TokenInMailbox, TokenOfLow, HighPCs, LowPCs
<1>4. TokenOfLow'
  BY DEF TokenInv, TypeOK, TokenOfHigh, TokenInMailbox, TokenOfLow, HighPCs, LowPCs
<1> QED
  BY <1>1, <1>2, <1>3, <1>4 DEF TokenInv

LEMMA HighSendReadyInv ==
    ASSUME TokenInv, HighSendReady
    PROVE  TokenInv'
<1> USE DEF HighSendReady, lowVars, NoBuf, NoOwner
<1>1. TypeOK'
  BY ConstantsAssumption, AppendFacts DEF TokenInv, TypeOK, TokenOfHigh, TokenInMailbox, TokenOfLow, Bufs, HighPCs, LowPCs, States, CPUs
<1>2. TokenOfHigh'
  BY DEF TokenInv, TypeOK, TokenOfHigh, TokenInMailbox, TokenOfLow, HighPCs, LowPCs
<1>3. TokenInMailbox'
  BY DEF TokenInv, TypeOK, TokenOfHigh, TokenInMailbox, TokenOfLow, HighPCs, LowPCs
<1>4. TokenOfLow'
  BY DEF TokenInv, TypeOK, TokenOfHigh, TokenInMailbox, TokenOfLow, HighPCs, LowPCs
<1> QED
  BY <1>1, <1>2, <1>3, <1>4 DEF TokenInv

LEMMA HighPollEndInv ==
    ASSUME TokenInv, HighPollEnd
    PROVE  TokenInv'
<1> USE DEF HighPollEnd, lowVars, NoBuf, NoOwner
<1>1. TypeOK'
  BY ConstantsAssumption DEF TokenInv, TypeOK, TokenOfHigh, TokenInMailbox, TokenOfLow, Bufs, HighPCs, LowPCs, States, CPUs
<1>2. TokenOfHigh'
  BY DEF TokenInv, TypeOK, TokenOfHigh, TokenInMailbox, TokenOfLow, HighPCs, LowPCs
<1>3. TokenInMailbox'
  BY DEF TokenInv, TypeOK, TokenOfHigh, TokenInMailbox, TokenOfLow, HighPCs, LowPCs
<1>4. TokenOfLow'
  BY DEF TokenInv, TypeOK, TokenOfHigh, TokenInMailbox, TokenOfLow, HighPCs, LowPCs
<1> QED
  BY <1>1, <1>2, <1>3, <1>4 DEF TokenInv

LEMMA HighRecvDoneInv ==
    ASSUME TokenInv, HighRecvDone
    PROVE  TokenInv'
<1> USE DEF HighRecvDone, lowVars, NoBuf, NoOwner
<1>1. TypeOK'
  BY DEF TokenInv, TypeOK, TokenOfHigh, TokenInMailbox, TokenOfLow, Bufs, HighPCs, LowPCs, States, CPUs
<1>2. TokenOfHigh'
  BY DEF TokenInv, TypeOK, TokenOfHigh, TokenInMailbox, TokenOfLow, HighPCs, LowPCs
<1>3. TokenInMailbox'
  BY DEF TokenInv, TypeOK, TokenOfHigh, TokenInMailbox, TokenOfLow, HighPCs, LowPCs
<1>4. TokenOfLow'
  BY DEF TokenInv, TypeOK, TokenOfHigh, TokenInMailbox, TokenOfLow, HighPCs, LowPCs
<1> QED
  BY <1>1, <1>2, <1>3, <1>4 DEF TokenInv

LEMMA HighDoneLockInv ==
    ASSUME TokenInv, HighDoneLock
    PROVE  TokenInv'
<1> USE DEF HighDoneLock, lowVars, CanLock, NoBuf, NoOwner
<1>1. TypeOK'
  BY DEF TokenInv, TypeOK, TokenOfHigh, TokenInMailbox, TokenOfLow, Bufs, HighPCs, LowPCs, States, CPUs
<1>2. TokenOfHigh'
  BY DEF TokenInv, TypeOK, TokenOfHigh, TokenInMailbox, TokenOfLow, HighPCs, LowPCs
<1>3. TokenInMailbox'
  BY DEF TokenInv, TypeOK, TokenOfHigh, TokenInMailbox, TokenOfLow, HighPCs, LowPCs
<1>4. TokenOfLow'
  BY DEF TokenInv, TypeOK, TokenOfHigh, TokenInMailbox, TokenOfLow, HighPCs, LowPCs
<1> QED
  BY <1>1, <1>2, <1>3, <1>4 DEF TokenInv

LEMMA HighRecycleInv ==
    ASSUME TokenInv, HighRecycle
    PROVE  TokenInv'
<1> USE DEF HighRecycle, lowVars, SetState, NoBuf, NoOwner
<1>1. TypeOK'
  BY DEF TokenInv, TypeOK, TokenOfHigh, TokenInMailbox, TokenOfLow, Bufs, HighPCs, LowPCs, States, CPUs
<1>2. TokenOfHigh'
  BY DEF TokenInv, TypeOK, TokenOfHigh, TokenInMailbox, TokenOfLow, HighPCs, LowPCs, Bufs
<1>3. TokenInMailbox'
  BY DEF TokenInv, TypeOK, TokenOfHigh, TokenInMailbox, TokenOfLow, HighPCs, LowPCs, Bufs
<1>4. TokenOfLow'
  BY DEF TokenInv, TypeOK, TokenOfHigh, TokenInMailbox, TokenOfLow, HighPCs, LowPCs, Bufs
<1> QED
  BY <1>1, <1>2, <1>3, <1>4 DEF TokenInv

LEMMA LowRecvReadyInv ==
    ASSUME TokenInv, LowRecvReady
    PROVE  TokenInv'
<1> USE DEF LowRecvReady, highVars, NoBuf, NoOwner
<1>1. TypeOK'
  BY TailFacts DEF TokenInv, TypeOK, TokenOfHigh, TokenInMailbox, TokenOfLow, Bufs, HighPCs, LowPCs, States, CPUs
<1>2. TokenOfHigh'
  BY DEF TokenInv, TypeOK, TokenOfHigh, TokenInMailbox, TokenOfLow, HighPCs, LowPCs
<1>3. TokenInMailbox'
  BY DEF TokenInv, TypeOK, TokenOfHigh, TokenInMailbox, TokenOfLow, HighPCs, LowPCs
<1>4. TokenOfLow'
  BY DEF TokenInv, TypeOK, TokenOfHigh, TokenInMailbox, TokenOfLow, HighPCs, LowPCs
<1> QED
  BY <1>1, <1>2, <1>3, <1>4 DEF TokenInv

LEMMA LowLockInv ==
    ASSUME TokenInv, LowLock
    PROVE  TokenInv'
<1> USE DEF LowLock, highVars, CanLock, NoBuf, NoOwner
<1>1. TypeOK'
  BY DEF TokenInv, TypeOK, TokenOfHigh, TokenInMailbox, TokenOfLow, Bufs, HighPCs, LowPCs, States, CPUs
<1>2. TokenOfHigh'
  BY DEF TokenInv, TypeOK, TokenOfHigh, TokenInMailbox, TokenOfLow, HighPCs, LowPCs
<1>3. TokenInMailbox'
  BY DEF TokenInv, TypeOK, TokenOfHigh, TokenInMailbox, TokenOfLow, HighPCs, LowPCs
<1>4. TokenOfLow'
  BY DEF TokenInv, TypeOK, TokenOfHigh, TokenInMailbox, TokenOfLow, HighPCs, LowPCs
<1> QED
  BY <1>1, <1>2, <1>3, <1>4 DEF TokenInv

LEMMA LowAcceptInv ==
    ASSUME TokenInv, LowAccept
    PROVE  TokenInv'
<1> USE DEF LowAccept, highVars, SetState, Enlist, NoBuf, NoOwner
<1>1. TypeOK'
  BY AppendFacts DEF TokenInv, TypeOK, TokenOfHigh, TokenInMailbox, TokenOfLow, Bufs, HighPCs, LowPCs, States, CPUs
<1>2. TokenOfHigh'
  BY DEF TokenInv, TypeOK, TokenOfHigh, TokenInMailbox, TokenOfLow, HighPCs, LowPCs
<1>3. TokenInMailbox'
  BY DEF TokenInv, TypeOK, TokenOfHigh, TokenInMailbox, TokenOfLow, HighPCs, LowPCs
<1>4. TokenOfLow'
  <2>1. /\ lmsg \in Bufs /\ bufState[lmsg] = "READY" /\ owner[lmsg] = "LOW"
        /\ lpc \in {"idle", "tx"} /\ lmsgpc' = "idle" /\ lpc' = lpc
    BY DEF TokenInv, TokenOfLow
  <2>2. \A i \in 1 .. Len(ready) :
           /\ ready[i] \in Bufs /\ ready[i] # lmsg
           /\ bufState'[ready[i]] = "LOW_CTRL" /\ owner'[ready[i]] = "LOW"
           /\ \A j \in 1 .. Len(ready) : ready[i] = ready[j] => i = j
    BY <2>1 DEF TokenInv, TypeOK, TokenOfLow
  <2>3. bufState'[lmsg] = "LOW_CTRL" /\ owner'[lmsg] = "LOW"
    BY <2>1 DEF TokenInv, TypeOK
  <2>4. \A i \in 1 .. Len(ready') :
           /\ bufState'[ready'[i]] = "LOW_CTRL" /\ owner'[ready'[i]] = "LOW"
           /\ \A j \in 1 .. Len(ready') : ready'[i] = ready'[j] => i = j
    <3>1. CASE Len(ready) < MaxPending
      <4>1. ready' = Append(ready, lmsg) /\ ready \in Seq(Bufs) /\ Len(ready) \in Nat
        BY <3>1 DEF TokenInv, TypeOK
      <4>2. Len(ready') = Len(ready) + 1 /\ ready'[Len(ready) + 1] = lmsg
            /\ \A i \in 1 .. Len(ready) : ready'[i] = ready[i]
        BY <4>1, <2>1, AppendFacts
      <4> QED
        BY <2>2, <2>3, <4>1, <4>2
    <3>2. CASE ~ (Len(ready) < MaxPending)
      BY <3>2, <2>2
    <3> QED
      BY <3>1, <3>2
  <2>5. lpc # "idle" => ready' # <<>>
    BY <2>1, AppendFacts DEF TokenInv, TypeOK, TokenOfLow
  <2> QED
    BY <2>1, <2>4, <2>5 DEF TokenOfLow
<1> QED
  BY <1>1, <1>2, <1>3, <1>4 DEF TokenInv

LEMMA LowTxStartInv ==
    ASSUME TokenInv, LowTxStart
    PROVE  TokenInv'
<1> USE DEF LowTxStart, highVars, NoBuf, NoOwner
<1>1. TypeOK'
  BY DEF TokenInv, TypeOK, TokenOfHigh, TokenInMailbox, TokenOfLow, Bufs, HighPCs, LowPCs, States, CPUs
<1>2. TokenOfHigh'
  BY DEF TokenInv, TypeOK, TokenOfHigh, TokenInMailbox, TokenOfLow, HighPCs, LowPCs
<1>3. TokenInMailbox'
  BY DEF TokenInv, TypeOK, TokenOfHigh, TokenInMailbox, TokenOfLow, HighPCs, LowPCs
<1>4. TokenOfLow'
  BY DEF TokenInv, TypeOK, TokenOfHigh, TokenInMailbox, TokenOfLow, HighPCs, LowPCs
<1> QED
  BY <1>1, <1>2, <1>3, <1>4 DEF TokenInv

LEMMA LowTxEndInv ==
    ASSUME TokenInv, LowTxEnd
    PROVE  TokenInv'
<1> USE DEF LowTxEnd, highVars, NoBuf, NoOwner
<1>1. TypeOK'
  BY DEF TokenInv, TypeOK, TokenOfHigh, TokenInMailbox, TokenOfLow, Bufs, HighPCs, LowPCs, States, CPUs
<1>2. TokenOfHigh'
  BY DEF TokenInv, TypeOK, TokenOfHigh, TokenInMailbox, TokenOfLow, HighPCs, LowPCs
<1>3. TokenInMailbox'
  BY DEF TokenInv, TypeOK, TokenOfHigh, TokenInMailbox, TokenOfLow, HighPCs, LowPCs
<1>4. TokenOfLow'
  BY DEF TokenInv, TypeOK, TokenOfHigh, TokenInMailbox, TokenOfLow, HighPCs, LowPCs
<1> QED
  BY <1>1, <1>2, <1>3, <1>4 DEF TokenInv

LEMMA LowFinishInv ==
    ASSUME TokenInv, LowFinish
    PROVE  TokenInv'
<1> USE DEF LowFinish, highVars, SetState, NoBuf, NoOwner
<1>1. TypeOK'
  BY DEF TokenInv, TypeOK, TokenOfHigh, TokenInMailbox, TokenOfLow, Bufs, HighPCs, LowPCs, States, CPUs
<1>2. TokenOfHigh'
  BY DEF TokenInv, TypeOK, TokenOfHigh, TokenInMailbox, TokenOfLow, HighPCs, LowPCs
<1>3. TokenInMailbox'
  BY DEF TokenInv, TypeOK, TokenOfHigh, TokenInMailbox, TokenOfLow, HighPCs, LowPCs
<1>4. TokenOfLow'
  BY DEF TokenInv, TypeOK, TokenOfHigh, TokenInMailbox, TokenOfLow, HighPCs, LowPCs
<1> QED
  BY <1>1, <1>2, <1>3, <1>4 DEF TokenInv

LEMMA LowUnlockInv ==
    ASSUME TokenInv, LowUnlock
    PROVE  TokenInv'
<1> USE DEF LowUnlock, highVars, Unlocked, NoBuf, NoOwner
<1>1. TypeOK'
  BY DEF TokenInv, TypeOK, TokenOfHigh, TokenInMailbox, TokenOfLow, Bufs, HighPCs, LowPCs, States, CPUs
<1>2. TokenOfHigh'
  BY DEF TokenInv, TypeOK, TokenOfHigh, TokenInMailbox, TokenOfLow, HighPCs, LowPCs
<1>3. TokenInMailbox'
  BY DEF TokenInv, TypeOK, TokenOfHigh, TokenInMailbox, TokenOfLow, HighPCs, LowPCs
<1>4. TokenOfLow'
  BY DEF TokenInv, TypeOK, TokenOfHigh, TokenInMailbox, TokenOfLow, HighPCs, LowPCs
<1> QED
  BY <1>1, <1>2, <1>3, <1>4 DEF TokenInv

LEMMA LowSendDoneInv ==
    ASSUME TokenInv, LowSendDone
    PROVE  TokenInv'
<1> USE DEF LowSendDone, highVars, NoBuf, NoOwner
<1>1. TypeOK'
  BY TailFacts, AppendFacts DEF TokenInv, TypeOK, TokenOfHigh, TokenInMailbox, TokenOfLow, Bufs, HighPCs, LowPCs, States, CPUs
<1>2. TokenOfHigh'
  BY DEF TokenInv, TypeOK, TokenOfHigh, TokenInMailbox, TokenOfLow, HighPCs, LowPCs
<1>3. TokenInMailbox'
  BY DEF TokenInv, TypeOK, TokenOfHigh, TokenInMailbox, TokenOfLow, HighPCs, LowPCs
<1>4. TokenOfLow'
  BY DEF TokenInv, TypeOK, TokenOfHigh, TokenInMailbox, TokenOfLow, HighPCs, LowPCs
<1> QED
  BY <1>1, <1>2, <1>3, <1>4 DEF TokenInv

-----------------------------------------------------------------------------
LEMMA InitTokenInv == Init => TokenInv
  BY ConstantsAssumption
  DEF Init, TokenInv, TypeOK, TokenOfHigh, TokenInMailbox, TokenOfLow, HighPCs,
      LowPCs, States, CPUs, NoBuf, NoOwner, Bufs

LEMMA NextTokenInv ==
    ASSUME TokenInv, [Next]_vars
    PROVE  TokenInv'
<1>1. CASE HighPollRequest BY <1>1, HighPollRequestInv
<1>2. CASE HighPollStart BY <1>2, HighPollStartInv
<1>3. CASE HighTransmit
  BY <1>3, HighFillStartInv, HighNoBufferInv, HighSetReadyInv, HighUnlockInv,
     HighSendReadyInv, NoErrorStep DEF HighTransmit
<1>4. CASE HighPollEnd BY <1>4, HighPollEndInv
<1>5. CASE HighRecvDone BY <1>5, HighRecvDoneInv
<1>6. CASE HighRecvException BY <1>6, NoErrorStep
<1>7. CASE HighDone
  BY <1>7, HighDoneLockInv, HighRecycleInv, NoErrorStep DEF HighDone
<1>8. CASE LowMessage
  BY <1>8, LowRecvReadyInv, LowLockInv, LowAcceptInv, NoErrorStep DEF LowMessage
<1>9. CASE LowTransmit
  BY <1>9, LowTxStartInv, LowTxEndInv, LowFinishInv, LowUnlockInv,
     LowSendDoneInv, NoErrorStep DEF LowTransmit
<1>10. CASE UNCHANGED vars
  BY <1>10 DEF vars, highVars, lowVars, TokenInv, TypeOK, TokenOfHigh,
               TokenInMailbox, TokenOfLow
<1> QED
  BY <1>1, <1>2, <1>3, <1>4, <1>5, <1>6, <1>7, <1>8, <1>9, <1>10
  DEF Next, HighNext, LowNext

\* Each buffer has at most one token, and its state word and mutex are those of the
\* place the token is in.
THEOREM TokenInvariance == Spec => []TokenInv
<1>1. Init => TokenInv
  BY InitTokenInv
<1>2. TokenInv /\ [Next]_vars => TokenInv'
  BY NextTokenInv
<1> QED
  BY <1>1, <1>2, PTL DEF Spec

\* Every variable keeps its type, whatever the number of buffers and limits.
THEOREM TypeCorrect == Spec => []TypeOK
<1>1. TokenInv => TypeOK
  BY DEF TokenInv
<1> QED
  BY <1>1, TokenInvariance, PTL

\* Each CPU finds state and mutex as the other one left them: the error
\* branches of the hand-over are never taken while neither CPU reboots.
THEOREM HandoverCorrect == Spec => []HandoverAsExpected
<1>1. TokenInv => HandoverAsExpected
  BY TailFacts DEF TokenInv, TypeOK, TokenOfHigh, TokenInMailbox, TokenOfLow,
     HandoverAsExpected, CanLock, NoBuf, NoOwner, Bufs
<1> QED
  BY <1>1, TokenInvariance, PTL

-----------------------------------------------------------------------------
LEMMA LowOwnedFinite == IsFiniteSet(LowOwned) /\ Cardinality(LowOwned) \in Nat
<1>1. IsFiniteSet(Bufs)
  BY ConstantsAssumption, FS_Interval DEF Bufs
<1>2. IsFiniteSet(LowOwned)
  BY <1>1, FS_Subset DEF LowOwned
<1> QED
  BY <1>2, FS_CardinalityType

\* The ready list has room for the buffer of every READY message.
LEMMA ReadyListHasRoom ==
    ASSUME TokenInv, Reserved, lmsgpc # "idle"
    PROVE  Len(ready) < MaxPending
<1> DEFINE Others == LowOwned \ {lmsg}
<1>1. lmsg \in LowOwned /\ lpc \in {"idle", "tx"} /\ ready \in Seq(Bufs)
      /\ bufState[lmsg] = "READY"
  BY DEF TokenInv, TypeOK, TokenOfLow, LowOwned
<1>2. ready \in Injection(1 .. Len(ready), Others)
  BY <1>1 DEF TokenInv, TokenOfLow, LowOwned, Injection, IsInjective
<1>3. IsFiniteSet(Others) /\ Cardinality(Others) = Cardinality(LowOwned) - 1
  BY <1>1, LowOwnedFinite, FS_RemoveElement
<1>4. Cardinality(1 .. Len(ready)) <= Cardinality(Others)
  BY <1>2, <1>3, FS_Injection
<1>5. Len(ready) \in Nat
  BY <1>1
<1>6. Cardinality(1 .. Len(ready)) = Len(ready)
  <2>1. Cardinality(1 .. Len(ready))
          = IF 1 > Len(ready) THEN 0 ELSE Len(ready) - 1 + 1
    BY <1>5, FS_Interval
  <2> QED
    BY <1>5, <2>1
<1> QED
  BY <1>3, <1>4, <1>5, <1>6, LowOwnedFinite, ConstantsAssumption DEF Reserved

LEMMA NextReserved ==
    ASSUME TokenInv, Reserved, [Next]_vars
    PROVE  Reserved'
<1>1. CASE HighPollRequest \/ HighPollEnd \/ HighRecvDone \/ HighDoneLock
  BY <1>1 DEF HighPollRequest, HighPollEnd, HighRecvDone, HighDoneLock, Reserved,
              LowOwned, lowVars, TokenInv, TypeOK, TokenOfHigh
<1>2. CASE HighPollStart
  <2>1. NumAvailable \in Nat
        /\ (Cardinality(LowOwned) + NumAvailable <= GeneralLimit)
    BY LowOwnedFinite, ConstantsAssumption DEF NumAvailable, Reserved
  <2> QED
    BY <1>2, <2>1 DEF HighPollStart, Reserved, LowOwned
<1>3. CASE HighFillStart \/ HighNoBuffer \/ HighUnlock \/ HighSendReady
  <2>1. LowOwned' = LowOwned
    BY <1>3 DEF HighFillStart, HighNoBuffer, HighUnlock, HighSendReady, LowOwned
  <2>2. havail \in Nat
    BY ConstantsAssumption DEF TokenInv, TypeOK
  <2> QED
    BY <1>3, <2>1, <2>2, LowOwnedFinite, ConstantsAssumption
    DEF HighFillStart, HighNoBuffer, HighUnlock, HighSendReady, Reserved,
        TokenInv, TokenOfHigh
<1>4. CASE HighSetReady
  <2>1. hbuf \in Bufs /\ bufState[hbuf] = "HIGH_CTRL" /\ bufState \in [Bufs -> States]
    BY <1>4 DEF HighSetReady, TokenInv, TypeOK, TokenOfHigh
  <2>2. LowOwned' = LowOwned \cup {hbuf}
    BY <1>4, <2>1 DEF HighSetReady, SetState, LowOwned
  <2>3. Cardinality(LowOwned') = Cardinality(LowOwned) + 1
    BY <2>1, <2>2, LowOwnedFinite, FS_AddElement DEF LowOwned
  <2>4. havail \in Nat /\ havail > 0
    BY <1>4, ConstantsAssumption DEF HighSetReady, TokenInv, TypeOK, TokenOfHigh
  <2> QED
    BY <1>4, <2>3, <2>4, LowOwnedFinite, ConstantsAssumption DEF HighSetReady, Reserved
<1>5. CASE HighRecycle
  <2>1. bufState[hdone] = "DONE" /\ hdone \in Bufs /\ bufState \in [Bufs -> States]
    BY <1>5 DEF HighRecycle, TokenInv, TypeOK, TokenOfHigh, NoBuf, Bufs
  <2>2. LowOwned' = LowOwned
    BY <1>5, <2>1 DEF HighRecycle, SetState, LowOwned
  <2> QED
    BY <1>5, <2>2 DEF HighRecycle, Reserved
<1>6. CASE LowRecvReady \/ LowLock \/ LowTxStart \/ LowTxEnd \/ LowUnlock
           \/ LowSendDone
  <2>1. LowOwned' = LowOwned
    BY <1>6 DEF LowRecvReady, LowLock, LowTxStart, LowTxEnd, LowUnlock, LowSendDone,
                LowOwned
  <2> QED
    BY <1>6, <2>1 DEF LowRecvReady, LowLock, LowTxStart, LowTxEnd, LowUnlock,
                      LowSendDone, Reserved, highVars
<1>7. CASE LowAccept
  <2>1. lmsg \in Bufs /\ bufState[lmsg] = "READY" /\ bufState \in [Bufs -> States]
    BY <1>7 DEF LowAccept, TokenInv, TypeOK, TokenOfLow
  <2>2. LowOwned' = LowOwned
    BY <1>7, <2>1 DEF LowAccept, SetState, LowOwned
  <2> QED
    BY <1>7, <2>2 DEF LowAccept, Reserved, highVars
<1>8. CASE LowFinish
  <2>1. Head(ready) \in Bufs /\ bufState \in [Bufs -> States]
    BY <1>8, TailFacts DEF LowFinish, TokenInv, TypeOK, TokenOfLow
  <2>2. LowOwned' = LowOwned \ {Head(ready)}
    BY <1>8, <2>1 DEF LowFinish, SetState, LowOwned
  <2>3. Cardinality(LowOwned') \in Nat /\ Cardinality(LowOwned') <= Cardinality(LowOwned)
    BY <2>2, LowOwnedFinite, FS_RemoveElement, FS_CardinalityType, FS_Subset
  <2>4. havail \in Nat /\ havail' = havail /\ hpc' = hpc
    BY <1>8, ConstantsAssumption DEF LowFinish, highVars, TokenInv, TypeOK
  <2> QED
    BY <2>3, <2>4, LowOwnedFinite, ConstantsAssumption DEF Reserved
<1>9. CASE UNCHANGED vars
  BY <1>9 DEF vars, highVars, Reserved, LowOwned
<1> QED
  BY <1>1, <1>2, <1>3, <1>4, <1>5, <1>6, <1>7, <1>8, <1>9, NoErrorStep
  DEF Next, HighNext, LowNext, HighTransmit, HighDone, LowMessage, LowTransmit

\* A step moves a token along; it never drops the only one.
LEMMA NextTokenExists ==
    ASSUME TokenInv, TokenExists, Reserved, [Next]_vars
    PROVE  TokenExists'
<1> USE DEF TokenExists, lowVars, highVars
<1>1. bufState \in [Bufs -> States] /\ toLow \in Seq(Bufs)
      /\ toHigh \in Seq(Bufs \cup {Exception}) /\ ready \in Seq(Bufs)
      /\ hdone \in Bufs \cup {NoBuf} /\ hbuf \in Bufs \cup {NoBuf}
      /\ NoBuf \notin Bufs
  BY DEF TokenInv, TypeOK, NoBuf, Bufs
<1>2. CASE HighPollRequest
  BY <1>2 DEF HighPollRequest
<1>3. CASE HighPollStart
  BY <1>3 DEF HighPollStart
<1>4. CASE HighPollEnd
  BY <1>4 DEF HighPollEnd
<1>5. CASE HighFillStart
  BY <1>5 DEF HighFillStart
<1>6. CASE HighNoBuffer
  BY <1>6 DEF HighNoBuffer
<1>7. CASE HighSetReady
  <2>1. hbuf \in Bufs
    BY <1>7 DEF HighSetReady, TokenInv, TokenOfHigh
  <2> QED
    BY <1>1, <1>7, <2>1 DEF HighSetReady, SetState
<1>8. CASE HighUnlock
  BY <1>8 DEF HighUnlock
<1>9. CASE HighSendReady
  <2>1. hbuf \in Bufs /\ toLow' = Append(toLow, hbuf)
    BY <1>9 DEF HighSendReady, TokenInv, TokenOfHigh
  <2>2. Range(toLow') = Range(toLow) \cup {hbuf}
    <3>1. /\ toLow \in Seq(Bufs) /\ toLow' \in Seq(Bufs)
          /\ Len(toLow') = Len(toLow) + 1
          /\ toLow'[Len(toLow) + 1] = hbuf
          /\ \A i \in 1 .. Len(toLow) : toLow'[i] = toLow[i]
      BY <1>1, <2>1, AppendFacts
    <3> QED
      BY <3>1, RangeExtended
  <2> QED
    BY <1>9, <2>2 DEF HighSendReady
<1>10. CASE HighRecvDone
  <2>1. toHigh # <<>> /\ toHigh' = Tail(toHigh) /\ hdone' = Head(toHigh)
        /\ hdone = NoBuf
    BY <1>10 DEF HighRecvDone, TokenInv, TokenOfHigh
  <2>2. Range(toHigh) = Range(toHigh') \cup {Head(toHigh)}
    BY <1>1, <2>1, RangeTail, Zenon
  <2> QED
    BY <1>1, <1>10, <2>1, <2>2 DEF HighRecvDone
<1>11. CASE HighDoneLock
  BY <1>11 DEF HighDoneLock
<1>12. CASE HighRecycle
  <2>1. hdone \in Bufs
    BY <1>12 DEF HighRecycle, TokenInv, TokenOfHigh
  <2> QED
    BY <1>1, <1>12, <2>1 DEF HighRecycle, SetState
<1>13. CASE LowRecvReady
  <2>1. toLow # <<>> /\ toLow' = Tail(toLow) /\ lmsg' = Head(toLow)
        /\ lmsgpc = "idle" /\ lmsgpc' = "lock"
    BY <1>13 DEF LowRecvReady
  <2>2. Range(toLow) = Range(toLow') \cup {Head(toLow)}
    BY <1>1, <2>1, RangeTail, Zenon
  <2> QED
    BY <1>13, <2>1, <2>2 DEF LowRecvReady
<1>14. CASE LowLock
  BY <1>14 DEF LowLock
<1>15. CASE LowAccept
  <2>1. lmsg \in Bufs /\ Len(ready) < MaxPending
    BY <1>15, ReadyListHasRoom DEF LowAccept, TokenInv, TokenOfLow
  <2>2. ready' = Append(ready, lmsg) /\ bufState' = [bufState EXCEPT ![lmsg] = "LOW_CTRL"]
    BY <1>15, <2>1 DEF LowAccept, Enlist, SetState
  <2>3. Range(ready') = Range(ready) \cup {lmsg}
    <3>1. /\ ready \in Seq(Bufs) /\ ready' \in Seq(Bufs)
          /\ Len(ready') = Len(ready) + 1
          /\ ready'[Len(ready) + 1] = lmsg
          /\ \A i \in 1 .. Len(ready) : ready'[i] = ready[i]
      BY <1>1, <2>1, <2>2, AppendFacts
    <3> QED
      BY <3>1, RangeExtended
  <2>4. \A b \in Bufs : b # lmsg => bufState'[b] = bufState[b]
    BY <1>1, <2>1, <2>2
  <2>5. bufState'[lmsg] = "LOW_CTRL"
    BY <1>1, <2>1, <2>2
  <2>6. UNCHANGED <<hpc, hbuf, hdone, lpc, toLow, toHigh>>
    BY <1>15 DEF LowAccept
  <2>7. lpc \in {"idle", "tx"}
    BY <1>15 DEF LowAccept, TokenInv, TokenOfLow
  <2> QED
    BY <2>3, <2>4, <2>5, <2>6, <2>7
<1>16. CASE LowTxStart
  BY <1>16 DEF LowTxStart
<1>17. CASE LowTxEnd
  BY <1>17 DEF LowTxEnd
<1>18. CASE LowFinish
  <2>1. ready # <<>>
    BY <1>18 DEF LowFinish, TokenInv, TokenOfLow
  <2>2. Head(ready) \in Bufs
    BY <1>1, <2>1, RangeTail, Zenon
  <2> QED
    BY <1>1, <1>18, <2>2 DEF LowFinish, SetState
<1>19. CASE LowUnlock
  BY <1>19 DEF LowUnlock
<1>20. CASE LowSendDone
  <2>1. ready # <<>> /\ ready' = Tail(ready) /\ toHigh' = Append(toHigh, Head(ready))
    BY <1>20 DEF LowSendDone, TokenInv, TokenOfLow
  <2>2. Range(ready) = Range(ready') \cup {Head(ready)} /\ Head(ready) \in Bufs
    BY <1>1, <2>1, RangeTail, Zenon
  <2>3. Range(toHigh') = Range(toHigh) \cup {Head(ready)}
    <3>1. /\ toHigh \in Seq(Bufs \cup {Exception})
          /\ toHigh' \in Seq(Bufs \cup {Exception})
          /\ Len(toHigh') = Len(toHigh) + 1
          /\ toHigh'[Len(toHigh) + 1] = Head(ready)
          /\ \A i \in 1 .. Len(toHigh) : toHigh'[i] = toHigh[i]
      BY <1>1, <2>1, <2>2, AppendFacts
    <3> QED
      BY <3>1, RangeExtended
  <2>4. Head(ready) = ready[1] /\ 1 \in 1 .. Len(ready)
    BY <1>1, <2>1, TailFacts
  <2>5. bufState[Head(ready)] = "DONE"
    BY <1>20, <2>4 DEF LowSendDone, TokenInv, TokenOfLow
  <2> QED
    BY <1>20, <2>2, <2>3, <2>5 DEF LowSendDone
<1>21. CASE UNCHANGED vars
  BY <1>21 DEF vars
<1> QED
  BY <1>2, <1>3, <1>4, <1>5, <1>6, <1>7, <1>8, <1>9, <1>10, <1>11, <1>12, <1>13,
     <1>14, <1>15, <1>16, <1>17, <1>18, <1>19, <1>20, <1>21, NoErrorStep
  DEF Next, HighNext, LowNext, HighTransmit, HighDone, LowMessage, LowTransmit
-----------------------------------------------------------------------------
LEMMA InitIInv == Init => IInv
<1>1. ASSUME Init PROVE LowOwned = {}
  BY <1>1 DEF Init, LowOwned
<1>2. Init => TokenExists
  BY DEF Init, TokenExists
<1>3. Init => Reserved
  BY <1>1, FS_EmptySet, ConstantsAssumption DEF Init, Reserved
<1> QED
  BY <1>2, <1>3, InitTokenInv DEF IInv

\* Tokens, a token for every buffer that CPU_HIGH does not control, and the buffers a
\* poll may still fill within the GENERAL limit.
THEOREM IInvariance == Spec => []IInv
<1>1. Init => IInv
  BY InitIInv
<1>2. IInv /\ [Next]_vars => IInv'
  BY NextTokenInv, NextTokenExists, NextReserved DEF IInv
<1> QED
  BY <1>1, <1>2, PTL DEF Spec

\* CPU_LOW never owns more buffers than poll_tx_queues may submit, and its
\* list of pending buffers always has a free entry for an arriving message.
THEOREM LimitsRespected == Spec => []WithinLimits
<1>1. IInv => WithinLimits
  BY ReadyListHasRoom DEF IInv, Reserved, WithinLimits
<1> QED
  BY <1>1, IInvariance, PTL

\* Where the buffers of CPU_LOW's queue are, and in which state.
LEMMA SubmittedFacts ==
    ASSUME TokenInv
    PROVE  /\ Submitted \in Seq(Bufs) /\ IsInjective(Submitted)
           /\ Range(Submitted) = Range(ready) \cup Range(LowHandling) \cup Range(toLow)
           /\ \A b \in Range(Submitted) :
                 \/ bufState[b] = "READY" /\ owner[b] \in {NoOwner, "LOW"}
                 \/ bufState[b] = "LOW_CTRL"
                 \/ bufState[b] = "DONE" /\ lpc \in {"unlock", "send"} /\ b = ready[1]
                    /\ owner[b] \in {NoOwner, "LOW"}
<1>1. /\ ready \in Seq(Bufs) /\ toLow \in Seq(Bufs)
      /\ DOMAIN ready = 1 .. Len(ready) /\ DOMAIN toLow = 1 .. Len(toLow)
  BY DEF TokenInv, TypeOK
<1>2. /\ LowHandling \in Seq(Bufs) /\ IsInjective(LowHandling)
      /\ Range(LowHandling) = IF lmsgpc = "idle" THEN {} ELSE {lmsg}
  BY DEF TokenInv, TypeOK, TokenOfLow, LowHandling, IsInjective, Range
<1>3. IsInjective(ready) /\ IsInjective(toLow)
  BY <1>1 DEF TokenInv, TokenOfLow, TokenInMailbox, IsInjective
<1>4. \A b \in Range(toLow) :
         bufState[b] = "READY" /\ owner[b] = NoOwner /\ (lmsgpc = "lock" => b # lmsg)
  BY <1>1 DEF TokenInv, TokenInMailbox, Range
<1>5. \A b \in Range(LowHandling) :
         bufState[b] = "READY" /\ owner[b] \in {NoOwner, "LOW"}
  BY <1>2 DEF TokenInv, TypeOK, TokenOfLow
<1>6. \A b \in Range(ready) :
         \/ bufState[b] = "LOW_CTRL"
         \/ bufState[b] = "DONE" /\ lpc \in {"unlock", "send"} /\ b = ready[1]
            /\ owner[b] \in {NoOwner, "LOW"}
  BY <1>1 DEF TokenInv, TokenOfLow, Range
<1>7. Range(ready) \cap Range(LowHandling) = {}
  BY <1>5, <1>6
<1>8. /\ ready \o LowHandling \in Seq(Bufs) /\ IsInjective(ready \o LowHandling)
      /\ Range(ready \o LowHandling) = Range(ready) \cup Range(LowHandling)
  BY <1>1, <1>2, <1>3, <1>7, ConcatFacts
<1>9. Range(LowHandling) \cap Range(toLow) = {}
  BY <1>2, <1>4 DEF TokenInv, TypeOK, TokenOfLow, NoOwner
<1>10. Range(ready \o LowHandling) \cap Range(toLow) = {}
  BY <1>4, <1>6, <1>8, <1>9
<1>11. /\ Submitted \in Seq(Bufs) /\ IsInjective(Submitted)
       /\ Range(Submitted) = Range(ready \o LowHandling) \cup Range(toLow)
  <2> DEFINE first == ready \o LowHandling
  <2>1. first \in Seq(Bufs) /\ IsInjective(first) /\ Range(first) \cap Range(toLow) = {}
    BY <1>8, <1>10
  <2>2. Submitted = first \o toLow
    BY DEF Submitted
  <2> HIDE DEF first
  <2>3. /\ first \o toLow \in Seq(Bufs) /\ IsInjective(first \o toLow)
        /\ Range(first \o toLow) = Range(first) \cup Range(toLow)
    BY <1>1, <1>3, <2>1, ConcatFacts
  <2> QED
    BY <2>2, <2>3 DEF first
<1> QED
  BY <1>4, <1>5, <1>6, <1>8, <1>11

\* A buffer CPU_HIGH fills or post-processes is locked by CPU_HIGH and is
\* neither announced to CPU_LOW nor enlisted or transmitted by it.
THEOREM NoRace == Spec => []NoDataRace
<1>1. TokenInv => NoDataRace
  <2> SUFFICES ASSUME TokenInv PROVE NoDataRace
    OBVIOUS
  <2>1. hpc = "fill" => owner[hbuf] = "HIGH" /\ bufState[hbuf] = "HIGH_CTRL"
    BY DEF TokenInv, TokenOfHigh
  <2>2. hpc = "posttx" => owner[hdone] = "HIGH" /\ bufState[hdone] = "DONE"
    BY DEF TokenInv, TokenOfHigh, NoBuf, Bufs
  <2> QED
    BY <2>1, <2>2, SubmittedFacts DEF NoDataRace, NoOwner
<1> QED
  BY <1>1, TokenInvariance, PTL

LEMMA CompletedFacts ==
    ASSUME TokenInv
    PROVE  /\ Completed \in Seq(Bufs) /\ IsInjective(Completed)
           /\ Range(Completed) = Range(HighCompleting) \cup Range(toHigh)
           /\ \A b \in Range(Completed) :
                 /\ bufState[b] = "DONE"
                 /\ lpc = "unlock" => b # ready[1]
                 /\ lpc = "send" => b # ready[1]
<1>1. toHigh \in Seq(Bufs) /\ DOMAIN toHigh = 1 .. Len(toHigh)
  <2>1. toHigh \in Seq(Bufs \cup {Exception})
        /\ \A i \in 1 .. Len(toHigh) : toHigh[i] \in Bufs
    BY DEF TokenInv, TypeOK, TokenInMailbox
  <2> QED
    BY <2>1
<1>2. /\ HighCompleting \in Seq(Bufs) /\ IsInjective(HighCompleting)
      /\ Range(HighCompleting) = IF hdone = NoBuf THEN {} ELSE {hdone}
  BY DEF TokenInv, TypeOK, HighCompleting, IsInjective, Range
<1>3. IsInjective(toHigh)
  BY <1>1 DEF TokenInv, TokenInMailbox, IsInjective
<1>4. hdone # NoBuf =>
         bufState[hdone] = "DONE" /\ owner[hdone] = IF hpc = "done" THEN NoOwner ELSE "HIGH"
  BY DEF TokenInv, TokenOfHigh
<1>5. lpc \in {"unlock", "send"} =>
         owner[ready[1]] = IF lpc = "unlock" THEN "LOW" ELSE NoOwner
  BY TailFacts DEF TokenInv, TypeOK, TokenOfLow
<1>6. \A b \in Range(toHigh) :
         /\ bufState[b] = "DONE" /\ owner[b] = NoOwner
         /\ hpc = "done" => b # hdone
         /\ lpc = "send" => b # ready[1]
  BY <1>1 DEF TokenInv, TokenInMailbox, Range
<1>7. Range(HighCompleting) \cap Range(toHigh) = {}
  BY <1>2, <1>4, <1>6 DEF NoOwner
<1>8. /\ Completed \in Seq(Bufs) /\ IsInjective(Completed)
      /\ Range(Completed) = Range(HighCompleting) \cup Range(toHigh)
  BY <1>1, <1>2, <1>3, <1>7, ConcatFacts DEF Completed
<1>9. \A b \in Range(HighCompleting) :
         /\ bufState[b] = "DONE"
         /\ lpc = "unlock" => b # ready[1]
         /\ lpc = "send" => b # ready[1]
  BY <1>2, <1>4, <1>5 DEF TokenInv, TokenOfLow, NoOwner
<1>10. \A b \in Range(toHigh) :
         /\ bufState[b] = "DONE"
         /\ lpc = "unlock" => b # ready[1]
         /\ lpc = "send" => b # ready[1]
  BY <1>5, <1>6 DEF NoOwner
<1> QED
  BY <1>8, <1>9, <1>10

\* No announcement is lost or duplicated on its way through both CPUs.
THEOREM OneToken == Spec => []OneTokenPerBuffer
<1>1. IInv => OneTokenPerBuffer
  <2> SUFFICES ASSUME IInv PROVE OneTokenPerBuffer
    OBVIOUS
  <2>1. TokenInv /\ TokenExists
    BY DEF IInv
  <2>2. Range(Submitted) \cap Range(Completed) = {}
    BY <2>1, SubmittedFacts, CompletedFacts
  <2>3. /\ IsInjective(Submitted \o Completed)
        /\ Range(Submitted \o Completed) = Range(Submitted) \cup Range(Completed)
    BY <2>1, <2>2, SubmittedFacts, CompletedFacts, ConcatFacts
  <2>4. ASSUME NEW b \in Bufs, b \notin Range(Submitted \o Completed)
        PROVE  bufState[b] = "HIGH_CTRL" \/ (hpc \in {"unlock", "send"} /\ b = hbuf)
    <3>1. /\ b \notin Range(ready) /\ b \notin Range(toLow)
          /\ b \notin Range(LowHandling)
          /\ b \notin Range(HighCompleting) /\ b \notin Range(toHigh)
      BY <2>1, <2>3, <2>4, SubmittedFacts, CompletedFacts
    <3>2. lmsgpc # "idle" => lmsg # b
      BY <3>1 DEF LowHandling, Range
    <3>3. hdone # b
      BY <3>1 DEF HighCompleting, Range, NoBuf, Bufs
    <3>4. lpc \in {"unlock", "send"} => Head(ready) # b
      BY <2>1, <3>1, TailFacts DEF TokenInv, TypeOK, TokenOfLow, Range
    <3>5. bufState[b] \in {"HIGH_CTRL", "READY", "LOW_CTRL", "DONE"}
      BY <2>1 DEF TokenInv, TypeOK, TokenOfHigh, States
    <3> QED
      BY <2>1, <3>1, <3>2, <3>3, <3>4, <3>5 DEF TokenExists
  <2> QED
    BY <2>3, <2>4 DEF OneTokenPerBuffer
<1> QED
  BY <1>1, IInvariance, PTL

-----------------------------------------------------------------------------
(* The hand-over implements the abstract service of module TxService: every *)
(* step of either CPU submits, completes or recycles one buffer, or is not  *)
(* visible to the users of the service.                                     *)

\* A step that leaves the tokens where they are is not visible.
LEMMA Invisible ==
    ASSUME Submitted' = Submitted, Completed' = Completed
    PROVE  [Service!ServiceNext]_(Service!serviceVars)
  BY DEF Service!serviceVars, Bufs

\* Posting READY submits a buffer that was free.
LEMMA SendReadyStep ==
    ASSUME TokenInv, HighSendReady
    PROVE  Service!ServiceNext
<1>1. /\ hbuf \in Bufs /\ toLow \in Seq(Bufs)
      /\ bufState[hbuf] = "READY" /\ owner[hbuf] = NoOwner
  BY DEF TokenInv, TypeOK, TokenOfHigh, HighSendReady
<1>2. hbuf \notin Range(Submitted)
  <2>1. hbuf \notin Range(toLow)
    BY <1>1 DEF TokenInv, TokenOfHigh, HighSendReady, Range
  <2>2. hbuf \notin Range(LowHandling)
    BY <1>1 DEF TokenInv, TokenOfHigh, TokenOfLow, TypeOK, HighSendReady, LowHandling,
                Range, NoOwner
  <2>3. hbuf \notin Range(ready)
    BY <1>1 DEF TokenInv, TokenOfLow, TypeOK, Range
  <2> QED
    BY <2>1, <2>2, <2>3, SubmittedFacts
<1>3. hbuf \notin Range(Completed)
  BY <1>1, CompletedFacts
<1>4. /\ Submitted \in Seq(Bufs) /\ Completed \in Seq(Bufs)
      /\ ready \o LowHandling \in Seq(Bufs)
  <2>1. ready \in Seq(Bufs) /\ LowHandling \in Seq(Bufs)
    BY DEF TokenInv, TypeOK, TokenOfLow, LowHandling
  <2> QED
    BY <2>1, SubmittedFacts, CompletedFacts, ConcatProperties
<1>5. Submitted' = Append(Submitted, hbuf) /\ Completed' = Completed
  <2>1. /\ Submitted' = (ready \o LowHandling) \o Append(toLow, hbuf)
        /\ Completed' = Completed
    BY DEF HighSendReady, Submitted, Completed, LowHandling, HighCompleting, lowVars
  <2> QED
    BY <1>1, <1>4, <2>1, ConcatAppend DEF Submitted
<1>6. Range(Submitted' \o Completed') = Range(Submitted \o Completed) \cup {hbuf}
  <2> DEFINE after == Append(Submitted, hbuf)
  <2>1. after \in Seq(Bufs) /\ Range(after) = Range(Submitted) \cup {hbuf}
    BY <1>1, <1>4, RangeAppend
  <2> HIDE DEF after
  <2>2. /\ Range(after \o Completed) = Range(after) \cup Range(Completed)
        /\ Range(Submitted \o Completed) = Range(Submitted) \cup Range(Completed)
    BY <1>4, <2>1, RangeConcatenation
  <2>3. Submitted' = after /\ Completed' = Completed
    BY <1>5 DEF after
  <2> QED
    BY <2>1, <2>2, <2>3
<1>7. hbuf \in Bufs \ Range(Submitted \o Completed)
  BY <1>1, <1>2, <1>3, <1>4, RangeConcatenation
<1> QED
  BY <1>5, <1>6, <1>7 DEF Service!ServiceNext, Service!Submit, Bufs

\* Posting DONE completes the buffer that was submitted first.
LEMMA SendDoneStep ==
    ASSUME TokenInv, LowSendDone
    PROVE  Service!ServiceNext
<1>1. /\ ready \in Seq(Bufs) /\ ready # <<>> /\ toHigh \in Seq(Bufs)
      /\ LowHandling \in Seq(Bufs) /\ toLow \in Seq(Bufs)
      /\ HighCompleting \in Seq(Bufs)
  <2>1. toHigh \in Seq(Bufs \cup {Exception})
        /\ \A i \in 1 .. Len(toHigh) : toHigh[i] \in Bufs
    BY DEF TokenInv, TypeOK, TokenInMailbox
  <2>2. toHigh \in Seq(Bufs)
    BY <2>1
  <2>3. HighCompleting \in Seq(Bufs)
    BY DEF TokenInv, TypeOK, HighCompleting
  <2> QED
    BY <2>2, <2>3 DEF TokenInv, TypeOK, TokenOfLow, LowHandling, LowSendDone
<1>2. /\ Submitted = ready \o (LowHandling \o toLow)
      /\ Submitted' = Tail(ready) \o (LowHandling \o toLow)
      /\ LowHandling \o toLow \in Seq(Bufs)
  <2>1. /\ LowHandling' = LowHandling /\ toLow' = toLow /\ ready' = Tail(ready)
        /\ Tail(ready) \in Seq(Bufs)
    BY <1>1, TailFacts DEF LowSendDone, LowHandling
  <2>2. /\ Submitted = (ready \o LowHandling) \o toLow
        /\ Submitted' = (Tail(ready) \o LowHandling) \o toLow
    BY <2>1 DEF Submitted
  <2>3. (ready \o LowHandling) \o toLow = ready \o (LowHandling \o toLow)
    BY <1>1, ConcatAssociative
  <2> DEFINE rest == Tail(ready)
  <2>4. rest \in Seq(Bufs)
    BY <2>1
  <2> HIDE DEF rest
  <2>5. (rest \o LowHandling) \o toLow = rest \o (LowHandling \o toLow)
    <3> DEFINE middle == LowHandling
    <3>1. middle \in Seq(Bufs) /\ toLow \in Seq(Bufs)
      BY <1>1
    <3> HIDE DEF middle
    <3>2. (rest \o middle) \o toLow = rest \o (middle \o toLow)
      BY <2>4, <3>1, ConcatAssociative
    <3> QED
      BY <3>2 DEF middle
  <2>6. LowHandling \o toLow \in Seq(Bufs)
    BY <1>1, ConcatProperties
  <2> QED
    BY <2>2, <2>3, <2>5, <2>6 DEF rest
<1>3. /\ Submitted # <<>> /\ Head(Submitted) = Head(ready)
      /\ Submitted' = Tail(Submitted)
  BY <1>1, <1>2, ConcatTail
<1>4. Completed' = Append(Completed, Head(Submitted)) /\ Head(ready) \in Bufs
  <2>1. /\ Completed' = HighCompleting \o Append(toHigh, Head(ready))
        /\ Head(ready) \in Bufs
    BY <1>1, TailFacts DEF LowSendDone, Completed, HighCompleting, highVars
  <2> QED
    BY <1>1, <1>3, <2>1, ConcatAppend DEF Completed
<1>5. Submitted \in Seq(Bufs) /\ Completed \in Seq(Bufs)
  BY SubmittedFacts, CompletedFacts
<1>6. Range(Submitted' \o Completed') = Range(Submitted \o Completed)
  <2> DEFINE rest == Tail(Submitted)
             more == Append(Completed, Head(Submitted))
  <2>1. rest \in Seq(Bufs) /\ Range(Submitted) = Range(rest) \cup {Head(Submitted)}
    BY <1>3, <1>5, RangeTail, TailFacts
  <2>2. more \in Seq(Bufs) /\ Range(more) = Range(Completed) \cup {Head(Submitted)}
    BY <1>3, <1>4, <1>5, RangeAppend
  <2>3. Submitted' = rest /\ Completed' = more
    BY <1>3, <1>4
  <2> HIDE DEF rest, more
  <2>4. /\ Range(rest \o more) = Range(rest) \cup Range(more)
        /\ Range(Submitted \o Completed) = Range(Submitted) \cup Range(Completed)
    BY <1>5, <2>1, <2>2, RangeConcatenation
  <2> QED
    BY <2>1, <2>2, <2>3, <2>4
<1> QED
  BY <1>3, <1>4, <1>6 DEF Service!ServiceNext, Service!Complete, Bufs

\* The end of the post-processing recycles the buffer that was completed first.
LEMMA RecycleStep ==
    ASSUME TokenInv, HighRecycle
    PROVE  Service!ServiceNext
<1>1. /\ hdone \in Bufs /\ hdone # NoBuf /\ toHigh \in Seq(Bufs)
      /\ bufState[hdone] = "DONE" /\ owner[hdone] = "HIGH"
  <2>1. toHigh \in Seq(Bufs \cup {Exception})
        /\ \A i \in 1 .. Len(toHigh) : toHigh[i] \in Bufs
    BY DEF TokenInv, TypeOK, TokenInMailbox
  <2>2. hdone \in Bufs
    BY DEF TokenInv, TokenOfHigh, HighRecycle
  <2>3. hdone # NoBuf
    BY <2>2, ConstantsAssumption DEF NoBuf, Bufs
  <2>4. bufState[hdone] = "DONE" /\ owner[hdone] = "HIGH"
    BY <2>3 DEF TokenInv, TokenOfHigh, HighRecycle
  <2> QED
    BY <2>1, <2>2, <2>3, <2>4
<1>2. /\ <<hdone>> \in Seq(Bufs) /\ <<hdone>> # <<>> /\ Head(<<hdone>>) = hdone
      /\ Tail(<<hdone>>) = <<>>
  BY <1>1
<1>3. /\ Completed = <<hdone>> \o toHigh /\ Completed' = toHigh
      /\ Submitted' = Submitted
  <2>1. <<>> \o toHigh = toHigh
    BY <1>1, ConcatEmptySeq
  <2> QED
    BY <1>1, <2>1 DEF HighRecycle, Completed, HighCompleting, Submitted, LowHandling,
                      lowVars
<1>4. Completed # <<>> /\ Head(Completed) = hdone /\ Completed' = Tail(Completed)
  <2>1. <<>> \o toHigh = toHigh
    BY <1>1, ConcatEmptySeq
  <2> QED
    BY <1>1, <1>2, <1>3, <2>1, ConcatTail
<1>5. Submitted \in Seq(Bufs) /\ Completed \in Seq(Bufs)
  BY SubmittedFacts, CompletedFacts
<1>6. Range(Submitted \o Completed) = Range(Submitted' \o Completed') \cup {hdone}
  <2>1. Range(Completed) = Range(toHigh) \cup {hdone}
    BY <1>3, <1>4, <1>5, RangeTail
  <2>2. /\ Range(Submitted \o Completed) = Range(Submitted) \cup Range(Completed)
        /\ Range(Submitted \o toHigh) = Range(Submitted) \cup Range(toHigh)
    BY <1>1, <1>5, RangeConcatenation
  <2> QED
    BY <1>3, <2>1, <2>2
<1>7. hdone \notin Range(Submitted' \o Completed')
  <2>1. hdone \notin Range(Submitted)
    BY <1>1, SubmittedFacts DEF NoOwner
  <2>2. hdone \notin Range(toHigh)
    BY <1>1 DEF TokenInv, TokenInMailbox, Range, NoOwner
  <2>3. Range(Submitted \o toHigh) = Range(Submitted) \cup Range(toHigh)
    BY <1>1, <1>5, RangeConcatenation
  <2> QED
    BY <1>3, <2>1, <2>2, <2>3
<1> QED
  BY <1>1, <1>4, <1>3, <1>6, <1>7 DEF Service!ServiceNext, Service!Recycle, Bufs

\* A message read from a mailbox, or a buffer put on CPU_LOW's list, is the same
\* token one place further on.
LEMMA RecvReadyStep ==
    ASSUME TokenInv, LowRecvReady
    PROVE  Submitted' = Submitted /\ Completed' = Completed
<1>1. ready \in Seq(Bufs) /\ toLow \in Seq(Bufs) /\ toLow # <<>>
  BY DEF TokenInv, TypeOK, LowRecvReady
<1>2. /\ Submitted = (ready \o <<>>) \o toLow
      /\ Submitted' = (ready \o <<Head(toLow)>>) \o Tail(toLow)
      /\ Completed' = Completed
  BY DEF LowRecvReady, Submitted, LowHandling, Completed, HighCompleting, highVars
<1>3. ready \o <<>> = ready
  BY <1>1, ConcatEmptySeq
<1> QED
  BY <1>1, <1>2, <1>3, ConcatMove

LEMMA AcceptStep ==
    ASSUME TokenInv, Reserved, LowAccept
    PROVE  Submitted' = Submitted /\ Completed' = Completed
<1>1. ready \in Seq(Bufs) /\ toLow \in Seq(Bufs) /\ lmsg \in Bufs
  BY DEF TokenInv, TypeOK, TokenOfLow, LowAccept
<1>2. ready' = Append(ready, lmsg)
  BY ReadyListHasRoom DEF LowAccept, Enlist
<1>3. /\ Submitted = (ready \o <<lmsg>>) \o toLow
      /\ Submitted' = (Append(ready, lmsg) \o <<>>) \o toLow
      /\ Completed' = Completed
  BY <1>2 DEF LowAccept, Submitted, LowHandling, Completed, HighCompleting, highVars
<1>4. /\ Append(ready, lmsg) \o <<>> = Append(ready, lmsg)
      /\ Append(ready, lmsg) = ready \o <<lmsg>>
  <2> DEFINE more == Append(ready, lmsg)
  <2>1. more \in Seq(Bufs) /\ more = ready \o <<lmsg>>
    BY <1>1, AppendFacts, AppendIsConcat
  <2> HIDE DEF more
  <2>2. more \o <<>> = more
    BY <2>1, ConcatEmptySeq
  <2> QED
    BY <2>1, <2>2 DEF more
<1> QED
  BY <1>3, <1>4

LEMMA RecvDoneStep ==
    ASSUME TokenInv, HighRecvDone
    PROVE  Submitted' = Submitted /\ Completed' = Completed
<1>1. toHigh \in Seq(Bufs) /\ toHigh # <<>> /\ hdone = NoBuf /\ Head(toHigh) \in Bufs
  <2>1. toHigh \in Seq(Bufs \cup {Exception})
        /\ \A i \in 1 .. Len(toHigh) : toHigh[i] \in Bufs
    BY DEF TokenInv, TypeOK, TokenInMailbox
  <2>2. toHigh \in Seq(Bufs)
    BY <2>1
  <2> QED
    BY <2>2, TailFacts DEF TokenInv, TokenOfHigh, HighRecvDone
<1>2. Head(toHigh) # NoBuf
  BY <1>1, ConstantsAssumption DEF NoBuf, Bufs
<1>3. /\ Completed = <<>> \o toHigh /\ Completed' = <<Head(toHigh)>> \o Tail(toHigh)
      /\ Submitted' = Submitted
  BY <1>1, <1>2 DEF HighRecvDone, Submitted, LowHandling, Completed, HighCompleting,
                    lowVars
<1>4. (<<>> \o <<Head(toHigh)>>) \o Tail(toHigh) = <<>> \o toHigh
  <2>1. <<>> \in Seq(Bufs)
    OBVIOUS
  <2> QED
    BY <1>1, <2>1, ConcatMove
<1>5. <<>> \o <<Head(toHigh)>> = <<Head(toHigh)>>
  BY <1>1, ConcatEmptySeq
<1> QED
  BY <1>3, <1>4, <1>5

\* The other steps take and release mutexes, write state words and move the
\* program counters; no buffer changes hands.
LEMMA NextService ==
    ASSUME IInv, [Next]_vars
    PROVE  [Service!ServiceNext]_(Service!serviceVars)
<1>1. TokenInv /\ Reserved
  BY DEF IInv
<1>2. CASE HighPollRequest \/ HighPollStart \/ HighFillStart \/ HighNoBuffer
           \/ HighSetReady \/ HighUnlock \/ HighPollEnd \/ HighDoneLock
  <2>1. Submitted' = Submitted /\ Completed' = Completed
    BY <1>2 DEF HighPollRequest, HighPollStart, HighFillStart, HighNoBuffer,
                HighSetReady, HighUnlock, HighPollEnd, HighDoneLock, lowVars,
                Submitted, LowHandling, Completed, HighCompleting
  <2> QED
    BY <2>1, Invisible
<1>3. CASE LowLock \/ LowTxStart \/ LowTxEnd \/ LowFinish \/ LowUnlock
  <2>1. Submitted' = Submitted /\ Completed' = Completed
    BY <1>3 DEF LowLock, LowTxStart, LowTxEnd, LowFinish, LowUnlock, highVars,
                Submitted, LowHandling, Completed, HighCompleting
  <2> QED
    BY <2>1, Invisible
<1>4. CASE HighRecvDone
  BY <1>1, <1>4, RecvDoneStep, Invisible
<1>5. CASE LowRecvReady
  BY <1>1, <1>5, RecvReadyStep, Invisible
<1>6. CASE LowAccept
  BY <1>1, <1>6, AcceptStep, Invisible
<1>7. CASE HighSendReady
  BY <1>1, <1>7, SendReadyStep
<1>8. CASE LowSendDone
  BY <1>1, <1>8, SendDoneStep
<1>9. CASE HighRecycle
  BY <1>1, <1>9, RecycleStep
<1>10. CASE UNCHANGED vars
  <2>1. Submitted' = Submitted /\ Completed' = Completed
    BY <1>10 DEF vars, highVars, lowVars, Submitted, LowHandling, Completed,
                 HighCompleting
  <2> QED
    BY <2>1, Invisible
<1> QED
  BY <1>1, <1>2, <1>3, <1>4, <1>5, <1>6, <1>7, <1>8, <1>9, <1>10, NoErrorStep
  DEF Next, HighNext, LowNext, HighTransmit, HighDone, LowMessage, LowTransmit

LEMMA InitService == Init => Service!ServiceInit
<1> SUFFICES ASSUME Init PROVE Service!ServiceInit
  OBVIOUS
<1>1. <<>> \o <<>> = <<>> /\ Range(<<>>) = {}
  BY ConcatEmptySeq DEF Range
<1>2. Submitted = <<>> /\ Completed = <<>>
  BY <1>1 DEF Init, Submitted, LowHandling, Completed, HighCompleting
<1> QED
  BY <1>1, <1>2 DEF Service!ServiceInit

\* The hand-over implements the service: what is submitted is completed exactly
\* once, in the order of submission, and recycled before it is submitted again.
THEOREM ServiceImplemented == Spec => ImplementsService
<1>1. Init => Service!ServiceInit
  BY InitService
<1>2. IInv /\ [Next]_vars => [Service!ServiceNext]_(Service!serviceVars)
  BY NextService
<1> QED
  BY <1>1, <1>2, IInvariance, PTL DEF Spec, ImplementsService, Service!ServiceSpec
-----------------------------------------------------------------------------
(* Reboots of CPU_HIGH.                                                    *)

\* What the proofs below use of the types.
LEMMA RebootFacts ==
    ASSUME RebootTypes
    PROVE  /\ bufState \in [Bufs -> States]
           /\ owner \in [Bufs -> CPUs \cup {NoOwner}]
           /\ toLow \in Seq(Bufs) /\ ready \in Seq(Bufs)
           /\ toHigh \in Seq(Bufs \cup {Exception})
           /\ hbuf \in Bufs \cup {NoBuf} /\ hdone \in Bufs \cup {NoBuf}
           /\ havail \in Nat /\ NoBuf \notin Bufs /\ Exception \notin Bufs
           /\ Range(toLow) \subseteq Bufs /\ Range(ready) \subseteq Bufs
           /\ ready # <<>> => Head(ready) \in Range(ready) /\ Head(ready) \in Bufs
           /\ toLow # <<>> => Head(toLow) \in Range(toLow) /\ Head(toLow) \in Bufs
<1>1. /\ bufState \in [Bufs -> States]
      /\ owner \in [Bufs -> CPUs \cup {NoOwner}]
      /\ toLow \in Seq(Bufs) /\ ready \in Seq(Bufs)
      /\ toHigh \in Seq(Bufs \cup {Exception})
      /\ hbuf \in Bufs \cup {NoBuf} /\ hdone \in Bufs \cup {NoBuf}
  BY DEF RebootTypes, RebootTypeOK, TypeOK
<1>2. havail \in Nat /\ NoBuf \notin Bufs /\ Exception \notin Bufs
  BY ConstantsAssumption DEF RebootTypes, RebootTypeOK, TypeOK, NoBuf, Exception, Bufs
<1>3. Range(toLow) \subseteq Bufs /\ Range(ready) \subseteq Bufs
  BY <1>1, RangeSubset
<1>4. ready # <<>> => Head(ready) \in Range(ready) /\ Head(ready) \in Bufs
  BY <1>1, HeadInRange
<1>5. toLow # <<>> => Head(toLow) \in Range(toLow) /\ Head(toLow) \in Bufs
  BY <1>1, HeadInRange
<1> QED
  BY <1>1, <1>2, <1>3, <1>4, <1>5

\* The record of the reboots.
LEMMA RecordFacts ==
    ASSUME NEW r \in RebootRecords
    PROVE  /\ r.hnext \in 0 .. NumMpdu /\ r.lnext \in 0 .. NumMpdu
           /\ r.high \in 0 .. MaxReboots /\ r.low \in 0 .. MaxReboots
           /\ r.abandoned \subseteq Bufs
           /\ \A n \in 0 .. NumMpdu :
                 /\ [r EXCEPT !.hnext = n] \in RebootRecords
                 /\ [r EXCEPT !.lnext = n] \in RebootRecords
  BY DEF RebootRecords

\* The record after a reboot of CPU_HIGH.
LEMMA HighRebootRecord ==
    ASSUME NEW r \in RebootRecords, NEW n \in 0 .. MaxReboots, NEW B \in SUBSET Bufs,
           NEW s, s = [r EXCEPT !.high = n, !.hnext = 0, !.abandoned = B]
    PROVE  s \in RebootRecords
<1> DEFINE counted == [r EXCEPT !.high = n]
           first == [counted EXCEPT !.hnext = 0]
<1>1. counted \in RebootRecords
  BY DEF RebootRecords
<1> HIDE DEF counted
<1>2. first \in RebootRecords
  BY <1>1, ConstantsAssumption DEF RebootRecords
<1>3. s = [first EXCEPT !.abandoned = B]
  BY DEF counted
<1> HIDE DEF first
<1> QED
  BY <1>2, <1>3 DEF RebootRecords

LEMMA LowRebootRecord ==
    ASSUME NEW r \in RebootRecords, NEW n \in 0 .. MaxReboots,
           NEW s, s = [r EXCEPT !.low = n, !.lnext = 0]
    PROVE  s \in RebootRecords /\ s.low = n
<1> DEFINE counted == [r EXCEPT !.low = n]
<1>1. counted \in RebootRecords /\ counted.low = n
  BY DEF RebootRecords
<1>2. s = [counted EXCEPT !.lnext = 0]
  OBVIOUS
<1> HIDE DEF counted
<1> QED
  BY <1>1, <1>2, ConstantsAssumption DEF RebootRecords

\* The types hold through every step and every reboot.
LEMMA NextRebootTypes ==
    ASSUME RebootTypes, [RebootNext]_vars
    PROVE  RebootTypes'
<1> USE ConstantsAssumption, RebootAssumption
    DEF RebootTypes, RebootTypeOK, TypeOK, highVars, lowVars, highRegs, lowRegs
<1>1. CASE HighPollRequest
  BY <1>1 DEF HighPollRequest, HighPCs
<1>2. CASE HighPollStart
  BY <1>2, NumAvailableType DEF HighPollStart, HighPCs
<1>3. CASE HighFillStart
  BY <1>3 DEF HighFillStart, HighPCs, Empty
<1>4. CASE HighNoBuffer
  BY <1>4 DEF HighNoBuffer, HighPCs
<1>5. CASE HighSetReady
  BY <1>5 DEF HighSetReady, HighPCs, SetState, States
<1>6. CASE HighUnlock
  BY <1>6 DEF HighUnlock, HighPCs, Unlocked, NoOwner
<1>7. CASE HighUnlockFail
  BY <1>7 DEF HighUnlockFail, HighPCs, SetState, States
<1>8. CASE HighSendReady
  <2>1. hbuf \in Bufs /\ toLow \in Seq(Bufs)
    BY <1>8 DEF HighSendReady
  <2>2. Append(toLow, hbuf) \in Seq(Bufs)
    BY <2>1, AppendFacts
  <2> QED
    BY <1>8, <2>1, <2>2 DEF HighSendReady, HighPCs
<1>9. CASE HighPollEnd
  BY <1>9 DEF HighPollEnd, HighPCs
<1>10. CASE HighRecvDone
  BY <1>10, TailFacts DEF HighRecvDone, HighPCs
<1>11. CASE HighRecvException
  BY <1>11, TailFacts DEF HighRecvException, HighPCs
<1>12. CASE HighDoneLock
  BY <1>12 DEF HighDoneLock, HighPCs, CPUs
<1>13. CASE HighDoneLockFail \/ HighDoneStale \/ HighDoneLowOwned \/ HighRecycle
  BY <1>13 DEF HighDoneLockFail, HighDoneStale, HighDoneLowOwned, HighRecycle, HighPCs, SetState, States, Unlocked, NoOwner
<1>14. CASE LowRecvReady
  BY <1>14, TailFacts DEF LowRecvReady
<1>15. CASE LowLock
  BY <1>15 DEF LowLock, CPUs
<1>16. CASE LowAccept \/ LowLockFail \/ LowUnexpected
  <2>1. lmsg \in Bufs /\ ready \in Seq(Bufs)
    BY <1>16 DEF LowAccept, LowLockFail, LowUnexpected
  <2>2. Append(ready, lmsg) \in Seq(Bufs) /\ Append(ready, lmsg) # <<>>
    BY <2>1, AppendFacts
  <2>3. ready' \in Seq(Bufs) /\ (ready # <<>> => ready' # <<>>)
    BY <1>16, <2>1, <2>2 DEF LowAccept, LowLockFail, LowUnexpected, Enlist
  <2> QED
    BY <1>16, <2>1, <2>3 DEF LowAccept, LowLockFail, LowUnexpected, SetState, States,
                             Unlocked, NoOwner
<1>17. CASE LowUnexpectedReset
  BY <1>17 DEF LowUnexpectedReset, SetState, States
<1>18. CASE LowTxStart \/ LowTxEnd
  BY <1>18 DEF LowTxStart, LowTxEnd, LowPCs
<1>19. CASE LowFinish \/ LowFinishReset
  BY <1>19, TailFacts DEF LowFinish, LowFinishReset, LowPCs, SetState, States
<1>20. CASE LowFinishNotOwner \/ LowFinishUnexpected
  <2>1. ready \in Seq(Bufs) /\ ready # <<>>
    BY <1>20 DEF LowFinishNotOwner, LowFinishUnexpected
  <2>2. Tail(ready) \in Seq(Bufs) /\ Head(ready) \in Bufs
    BY <2>1, TailFacts
  <2> QED
    BY <1>20, <2>1, <2>2 DEF LowFinishNotOwner, LowFinishUnexpected, LowPCs, SetState,
                             States, Unlocked, NoOwner
<1>21. CASE LowUnlock
  BY <1>21, TailFacts DEF LowUnlock, LowPCs, Unlocked, NoOwner
<1>22. CASE LowUnlockFail
  BY <1>22, AppendFacts DEF LowUnlockFail, LowPCs
<1>23. CASE LowSendDone
  BY <1>23, AppendFacts, TailFacts DEF LowSendDone, LowPCs
<1>24. CASE HighReboot
  <2>1. reboot' \in RebootRecords
    <3> DEFINE B == IF hpc \in {"unlock", "send"} THEN reboot.abandoned \cup {hbuf}
                     ELSE reboot.abandoned
    <3>1. /\ reboot \in RebootRecords /\ reboot.high + 1 \in 0 .. MaxReboots
          /\ B \in SUBSET Bufs
      BY <1>24, RecordFacts DEF HighReboot
    <3>2. reboot' = [reboot EXCEPT !.high = reboot.high + 1, !.hnext = 0, !.abandoned = B]
      BY <1>24 DEF HighReboot
    <3> HIDE DEF B
    <3> QED
      BY <3>1, <3>2, HighRebootRecord
  <2>2. bufState' \in [Bufs -> States] /\ owner' \in [Bufs -> CPUs \cup {NoOwner}]
    BY <1>24 DEF HighReboot, HighPCs, ReleaseAll, CPUs
  <2> QED
    BY <1>24, <2>1, <2>2 DEF HighReboot, HighPCs
<1>25. CASE HighBootBuf
  <2>1. reboot' \in RebootRecords
    <3>1. /\ reboot' = [reboot EXCEPT !.hnext = reboot.hnext + 1]
          /\ reboot \in RebootRecords /\ reboot.hnext + 1 \in 0 .. NumMpdu
      BY <1>25, RecordFacts DEF HighBootBuf
    <3> QED
      BY <3>1, RecordFacts
  <2>2. bufState' \in [Bufs -> States] /\ owner' \in [Bufs -> CPUs \cup {NoOwner}]
    BY <1>25 DEF HighBootBuf, SetState, States, CPUs
  <2> QED
    BY <1>25, <2>1, <2>2 DEF HighBootBuf, HighPCs
<1>26. CASE HighBootDone
  <2>1. reboot' \in RebootRecords
    <3>1. /\ reboot' = [reboot EXCEPT !.hnext = 0]
          /\ reboot \in RebootRecords /\ 0 \in 0 .. NumMpdu
      BY <1>26 DEF HighBootDone
    <3> QED
      BY <3>1, RecordFacts
  <2>2. bufState' \in [Bufs -> States] /\ owner' \in [Bufs -> CPUs \cup {NoOwner}]
    BY <1>26 DEF HighBootDone, HighPCs
  <2> QED
    BY <1>26, <2>1, <2>2 DEF HighBootDone, HighPCs
<1>27. CASE LowReboot
  <2>1. reboot' \in RebootRecords
    <3>1. reboot \in RebootRecords /\ reboot.low + 1 \in 0 .. MaxReboots
      BY <1>27, RecordFacts DEF LowReboot
    <3>2. reboot' = [reboot EXCEPT !.low = reboot.low + 1, !.lnext = 0]
      BY <1>27 DEF LowReboot
    <3> QED
      BY <3>1, <3>2, LowRebootRecord
  <2>2. bufState' \in [Bufs -> States] /\ owner' \in [Bufs -> CPUs \cup {NoOwner}]
    BY <1>27 DEF LowReboot, LowPCs, ReleaseAll, CPUs
  <2> QED
    BY <1>27, <2>1, <2>2 DEF LowReboot, LowPCs
<1>28. CASE LowBootBuf
  <2>1. reboot' \in RebootRecords
    <3>1. /\ reboot' = [reboot EXCEPT !.lnext = reboot.lnext + 1]
          /\ reboot \in RebootRecords /\ reboot.lnext + 1 \in 0 .. NumMpdu
      BY <1>28, RecordFacts DEF LowBootBuf
    <3> QED
      BY <3>1, RecordFacts
  <2>2. bufState' \in [Bufs -> States] /\ owner' \in [Bufs -> CPUs \cup {NoOwner}]
    BY <1>28 DEF LowBootBuf, SetState, States, Unlocked, NoOwner
  <2> QED
    BY <1>28, <2>1, <2>2 DEF LowBootBuf, LowPCs
<1>29. CASE LowBootDone
  <2>1. reboot' \in RebootRecords
    <3>1. /\ reboot' = [reboot EXCEPT !.lnext = 0]
          /\ reboot \in RebootRecords /\ 0 \in 0 .. NumMpdu
      BY <1>29 DEF LowBootDone
    <3> QED
      BY <3>1, RecordFacts
  <2>2. bufState' \in [Bufs -> States] /\ owner' \in [Bufs -> CPUs \cup {NoOwner}]
    BY <1>29 DEF LowBootDone, LowPCs
  <2> QED
    BY <1>29, <2>1, <2>2 DEF LowBootDone, LowPCs
<1>30. CASE UNCHANGED vars
  BY <1>30 DEF vars
<1> QED
  BY <1>1, <1>2, <1>3, <1>4, <1>5, <1>6, <1>7, <1>8, <1>9, <1>10, <1>11, <1>12, <1>13, <1>14, <1>15, <1>16, <1>17, <1>18, <1>19, <1>20, <1>21, <1>22, <1>23, <1>24, <1>25, <1>26, <1>27, <1>28, <1>29, <1>30
  DEF RebootNext, Next, HighNext, LowNext, HighTransmit, HighDone, LowMessage,
      LowTransmit, HighBoot, LowBoot

\* The error branches of CPU_LOW are not reached before it reboots itself.
LEMMA NoErrorOfLow ==
    ASSUME RebootTypes, LowHolds
    PROVE  /\ ~ LowLockFail /\ ~ LowUnexpectedReset /\ ~ LowUnexpected
           /\ ~ LowFinishNotOwner /\ ~ LowFinishReset /\ ~ LowFinishUnexpected
           /\ ~ LowBootBuf /\ ~ LowBootDone
<1>1. /\ ~ LowLockFail /\ ~ LowUnexpectedReset /\ ~ LowUnexpected
      /\ ~ LowBootBuf /\ ~ LowBootDone
  BY DEF LowHolds, LowLockFail, LowUnexpectedReset, LowUnexpected, CanLock, LowBootBuf,
         LowBootDone
<1>2. lpc = "finish" => bufState[Head(ready)] = "LOW_CTRL" /\ owner[Head(ready)] = "LOW"
  <2>1. lpc = "finish" => Head(ready) \in Range(ready)
    BY RebootFacts DEF RebootTypes
  <2> QED
    BY <2>1 DEF LowHolds
<1>3. ~ LowFinishNotOwner /\ ~ LowFinishReset /\ ~ LowFinishUnexpected
  BY <1>2 DEF LowHolds, LowFinishNotOwner, LowFinishReset, LowFinishUnexpected
<1> QED
  BY <1>1, <1>3

\* What CPU_HIGH does to its own buffers.
LEMMA HighKeepsHighHolds ==
    ASSUME RebootTypes, HighHolds, LowHolds, HighNext
    PROVE  HighHolds'
<1>0. /\ bufState \in [Bufs -> States] /\ owner \in [Bufs -> CPUs \cup {NoOwner}]
      /\ hbuf \in Bufs \cup {NoBuf} /\ hdone \in Bufs \cup {NoBuf} /\ NoBuf \notin Bufs
      /\ toLow \in Seq(Bufs)
  BY RebootFacts
<1> USE DEF HighHolds, Unlocking, lowVars, States, CPUs, NoOwner
<1>1. CASE HighPollRequest \/ HighPollStart \/ HighNoBuffer \/ HighPollEnd
           \/ HighRecvDone \/ HighRecvException
  BY <1>0, <1>1 DEF HighPollRequest, HighPollStart, HighNoBuffer, HighPollEnd,
                    HighRecvDone, HighRecvException, RebootTypes
<1>2. CASE HighFillStart
  BY <1>0, <1>2 DEF HighFillStart, Empty
<1>3. CASE HighSetReady
  BY <1>0, <1>3 DEF HighSetReady, SetState, LowHolds, RebootTypes
<1>4. CASE HighUnlock
  BY <1>0, <1>4 DEF HighUnlock, Unlocked, RebootTypes
<1>5. CASE HighUnlockFail
  BY <1>0, <1>5 DEF HighUnlockFail, SetState, RebootTypes
<1>6. CASE HighSendReady
  BY <1>0, <1>6 DEF HighSendReady
<1>7. CASE HighDoneLock
  BY <1>0, <1>7 DEF HighDoneLock, CanLock, RebootTypes
<1>8. CASE HighDoneLockFail
  BY <1>0, <1>8 DEF HighDoneLockFail, SetState, CanLock, RebootTypes
<1>9. CASE HighDoneStale
  BY <1>0, <1>9 DEF HighDoneStale, SetState, RebootTypes
<1>10. CASE HighDoneLowOwned
  BY <1>0, <1>10 DEF HighDoneLowOwned, Unlocked, RebootTypes
<1>11. CASE HighRecycle
  BY <1>0, <1>11 DEF HighRecycle, SetState, RebootTypes
<1> QED
  BY <1>1, <1>2, <1>3, <1>4, <1>5, <1>6, <1>7, <1>8, <1>9, <1>10, <1>11
  DEF HighNext, HighTransmit, HighDone

\* What CPU_HIGH does leaves the buffers of CPU_LOW alone.
LEMMA HighKeepsLowHolds ==
    ASSUME RebootTypes, HighHolds, LowHolds, HighNext
    PROVE  LowHolds'
<1>0. /\ bufState \in [Bufs -> States] /\ owner \in [Bufs -> CPUs \cup {NoOwner}]
      /\ hbuf \in Bufs \cup {NoBuf} /\ hdone \in Bufs \cup {NoBuf} /\ NoBuf \notin Bufs
      /\ toLow \in Seq(Bufs) /\ Range(toLow) \subseteq Bufs /\ Range(ready) \subseteq Bufs
      /\ lpc \in {"unlock", "send"} => Head(ready) \in Bufs
      /\ lmsgpc # "idle" => lmsg \in Bufs
  BY RebootFacts DEF RebootTypes
<1> USE DEF LowHolds, lowVars, States, CPUs, NoOwner
<1>1. CASE HighPollRequest \/ HighPollStart \/ HighNoBuffer \/ HighPollEnd
           \/ HighRecvDone \/ HighRecvException \/ HighFillStart
  BY <1>0, <1>1 DEF HighPollRequest, HighPollStart, HighNoBuffer, HighPollEnd,
                    HighRecvDone, HighRecvException, HighFillStart
<1>3. CASE HighSetReady
  BY <1>0, <1>3 DEF HighSetReady, SetState, HighHolds
<1>4. CASE HighUnlock
  BY <1>0, <1>4 DEF HighUnlock, Unlocked, HighHolds, Unlocking
<1>5. CASE HighUnlockFail
  BY <1>0, <1>5 DEF HighUnlockFail, SetState, HighHolds, Unlocking
<1>6. CASE HighSendReady
  <2>1. hbuf \in Bufs /\ bufState[hbuf] = "READY" /\ owner[hbuf] = NoOwner
        /\ hbuf \notin Range(toLow) /\ (lmsgpc # "idle" => lmsg # hbuf)
    BY <1>6 DEF HighSendReady, HighHolds, RebootTypes
  <2>2. Range(toLow') = Range(toLow) \cup {hbuf} /\ IsInjective(toLow')
    BY <1>0, <1>6, <2>1, RangeAppend, InjectiveAppend DEF HighSendReady
  <2> QED
    BY <1>0, <1>6, <2>1, <2>2 DEF HighSendReady
<1>7. CASE HighDoneLock
  BY <1>0, <1>7 DEF HighDoneLock, CanLock
<1>8. CASE HighDoneLockFail
  BY <1>0, <1>8 DEF HighDoneLockFail, SetState, CanLock
<1>9. CASE HighDoneStale
  BY <1>0, <1>9 DEF HighDoneStale, SetState
<1>10. CASE HighDoneLowOwned
  BY <1>0, <1>10 DEF HighDoneLowOwned, Unlocked
<1>11. CASE HighRecycle
  BY <1>0, <1>11 DEF HighRecycle, SetState, HighHolds
<1> QED
  BY <1>1, <1>3, <1>4, <1>5, <1>6, <1>7, <1>8, <1>9, <1>10, <1>11
  DEF HighNext, HighTransmit, HighDone

\* What CPU_LOW does leaves the buffers of CPU_HIGH alone.
LEMMA LowKeepsHighHolds ==
    ASSUME RebootTypes, HighHolds, LowHolds, LowNext
    PROVE  HighHolds'
<1>0. /\ bufState \in [Bufs -> States] /\ owner \in [Bufs -> CPUs \cup {NoOwner}]
      /\ hbuf \in Bufs \cup {NoBuf} /\ hdone \in Bufs \cup {NoBuf} /\ NoBuf \notin Bufs
      /\ toLow \in Seq(Bufs) /\ Range(toLow) \subseteq Bufs
      /\ lpc \in {"unlock", "send", "finish"} =>
            Head(ready) \in Bufs /\ Head(ready) \in Range(ready)
      /\ lmsgpc # "idle" => lmsg \in Bufs
  BY RebootFacts DEF RebootTypes
<1> USE DEF HighHolds, Unlocking, highVars, States, CPUs, NoOwner
<1>1. CASE LowRecvReady
  <2>1. Range(toLow) = Range(toLow') \cup {Head(toLow)}
    BY <1>0, <1>1, RangeTail DEF LowRecvReady
  <2> QED
    BY <1>0, <1>1, <2>1 DEF LowRecvReady, LowHolds
<1>2. CASE LowLock
  BY <1>0, <1>2 DEF LowLock, LowHolds, RebootTypes
<1>3. CASE LowAccept
  BY <1>0, <1>3 DEF LowAccept, SetState, LowHolds, RebootTypes
<1>4. CASE LowTxStart \/ LowTxEnd \/ LowUnlockFail \/ LowSendDone
  BY <1>0, <1>4 DEF LowTxStart, LowTxEnd, LowUnlockFail, LowSendDone
<1>5. CASE LowFinish
  BY <1>0, <1>5 DEF LowFinish, SetState, RebootTypes
<1>6. CASE LowUnlock
  BY <1>0, <1>6 DEF LowUnlock, Unlocked, RebootTypes
<1> QED
  BY <1>1, <1>2, <1>3, <1>4, <1>5, <1>6, NoErrorOfLow
  DEF LowNext, LowMessage, LowTransmit

\* What CPU_LOW does to its own buffers.
LEMMA LowKeepsLowHolds ==
    ASSUME RebootTypes, HighHolds, LowHolds, LowNext
    PROVE  LowHolds'
<1>0. /\ bufState \in [Bufs -> States] /\ owner \in [Bufs -> CPUs \cup {NoOwner}]
      /\ toLow \in Seq(Bufs) /\ Range(toLow) \subseteq Bufs
      /\ ready \in Seq(Bufs) /\ Range(ready) \subseteq Bufs
      /\ lpc \in {"unlock", "send", "finish"} =>
            ready # <<>> /\ Head(ready) \in Bufs /\ Head(ready) \in Range(ready)
      /\ lmsgpc # "idle" => lmsg \in Bufs
  BY RebootFacts DEF RebootTypes
<1> USE DEF LowHolds, highVars, States, CPUs, NoOwner
<1>1. CASE LowRecvReady
  <2>1. /\ Range(toLow) = Range(toLow') \cup {Head(toLow)} /\ IsInjective(toLow')
        /\ Head(toLow) \notin Range(toLow')
    BY <1>0, <1>1, RangeTail, InjectiveTail DEF LowRecvReady
  <2> QED
    BY <1>0, <1>1, <2>1 DEF LowRecvReady
<1>2. CASE LowLock
  BY <1>0, <1>2 DEF LowLock
<1>3. CASE LowAccept
  <2>1. lmsg \notin Range(ready) /\ lpc \in {"idle", "tx"}
        /\ bufState[lmsg] = "READY" /\ owner[lmsg] = "LOW" /\ lmsg \in Bufs
    BY <1>0, <1>3 DEF LowAccept
  <2>2. IsInjective(ready') /\ Range(ready') \subseteq Range(ready) \cup {lmsg}
    BY <1>0, <1>3, <2>1, RangeAppend, InjectiveAppend DEF LowAccept, Enlist
  <2> QED
    BY <1>0, <1>3, <2>1, <2>2 DEF LowAccept, SetState
<1>4. CASE LowTxStart \/ LowTxEnd \/ LowUnlockFail
  BY <1>0, <1>4 DEF LowTxStart, LowTxEnd, LowUnlockFail
<1>5. CASE LowFinish
  BY <1>0, <1>5 DEF LowFinish, SetState
<1>6. CASE LowUnlock
  BY <1>0, <1>6 DEF LowUnlock, Unlocked
<1>7. CASE LowSendDone
  <2>1. /\ Range(ready) = Range(ready') \cup {Head(ready)} /\ IsInjective(ready')
        /\ Head(ready) \notin Range(ready')
    BY <1>0, <1>7, RangeTail, InjectiveTail DEF LowSendDone
  <2> QED
    BY <1>0, <1>7, <2>1 DEF LowSendDone
<1> QED
  BY <1>1, <1>2, <1>3, <1>4, <1>5, <1>6, <1>7, NoErrorOfLow
  DEF LowNext, LowMessage, LowTransmit

\* What a reboot of CPU_HIGH and its boot code leave.
LEMMA BootKeepsHolds ==
    ASSUME RebootTypes, HighHolds, LowHolds, HighReboot \/ HighBoot
    PROVE  HighHolds' /\ LowHolds'
<1>0. /\ bufState \in [Bufs -> States] /\ owner \in [Bufs -> CPUs \cup {NoOwner}]
      /\ hbuf \in Bufs \cup {NoBuf} /\ hdone \in Bufs \cup {NoBuf} /\ NoBuf \notin Bufs
      /\ toLow \in Seq(Bufs) /\ Range(toLow) \subseteq Bufs /\ Range(ready) \subseteq Bufs
      /\ lpc \in {"unlock", "send"} => Head(ready) \in Bufs
      /\ lmsgpc # "idle" => lmsg \in Bufs
      /\ reboot \in RebootRecords
  BY RebootFacts DEF RebootTypes, RebootTypeOK
<1> USE DEF HighHolds, LowHolds, Unlocking, lowRegs, highRegs, States, CPUs, NoOwner
<1>1. CASE HighReboot
  <2>1. HighHolds'
    BY <1>0, <1>1 DEF HighReboot, ReleaseAll
  <2>2. LowHolds'
    BY <1>0, <1>1 DEF HighReboot, ReleaseAll
  <2> QED
    BY <2>1, <2>2
<1>2. CASE HighBootBuf
  <2> DEFINE b == reboot.hnext
  <2>1. b \in Bufs /\ hpc = "boot" /\ hdone = NoBuf /\ b < NumMpdu
    BY <1>0, <1>2, ConstantsAssumption DEF HighBootBuf, RebootRecords, Bufs, RebootTypes
  <2>2. /\ UNCHANGED <<toLow, toHigh, hpc, hbuf, hdone, havail, lpc, lmsgpc, lmsg, ready>>
        /\ \/ UNCHANGED <<bufState, owner>>
           \/ /\ bufState[b] \notin {"READY", "LOW_CTRL"}
              /\ owner' = [owner EXCEPT ![b] = "HIGH"]
              /\ bufState' = [bufState EXCEPT ![b] = "HIGH_CTRL"]
    BY <1>0, <1>2 DEF HighBootBuf, RebootRecords, SetState
  <2> HIDE DEF b
  <2>3. HighHolds'
    BY <1>0, <2>1, <2>2
  <2>4. LowHolds'
    BY <1>0, <2>1, <2>2
  <2> QED
    BY <2>3, <2>4
<1>3. CASE HighBootDone
  BY <1>0, <1>3 DEF HighBootDone, RebootTypes
<1> QED
  BY <1>1, <1>2, <1>3 DEF HighBoot

\* CPU_LOW's list has room for the buffer of every READY message.
LEMMA RoomAfterReboot ==
    ASSUME RebootTypes, LowHolds, Cardinality(LowOwned) <= GeneralLimit,
           lmsgpc # "idle"
    PROVE  Len(ready) < MaxPending
<1> DEFINE Others == LowOwned \ {lmsg}
<1>1. lmsg \in LowOwned /\ lpc \in {"idle", "tx"} /\ ready \in Seq(Bufs)
      /\ bufState[lmsg] = "READY"
  BY RebootFacts DEF RebootTypes, LowHolds, LowOwned
<1>2. \A i \in 1 .. Len(ready) : ready[i] \in Range(ready) /\ ready[i] \in Bufs
  BY <1>1 DEF Range
<1>3. \A i \in 1 .. Len(ready) : ready[i] \in Others
  BY <1>1, <1>2 DEF LowHolds, LowOwned
<1>4. ready \in Injection(1 .. Len(ready), Others)
  BY <1>1, <1>3 DEF LowHolds, Injection, IsInjective
<1>5. IsFiniteSet(Others) /\ Cardinality(Others) = Cardinality(LowOwned) - 1
  BY <1>1, LowOwnedFinite, FS_RemoveElement
<1>6. Cardinality(1 .. Len(ready)) <= Cardinality(Others)
  BY <1>4, <1>5, FS_Injection
<1>7. Len(ready) \in Nat /\ Cardinality(1 .. Len(ready)) = Len(ready)
  <2>1. Len(ready) \in Nat
    BY <1>1
  <2>2. Cardinality(1 .. Len(ready))
          = IF 1 > Len(ready) THEN 0 ELSE Len(ready) - 1 + 1
    BY <2>1, FS_Interval
  <2> QED
    BY <2>1, <2>2
<1> QED
  BY <1>5, <1>6, <1>7, LowOwnedFinite, ConstantsAssumption

\* No step of CPU_HIGH loses a buffer.
LEMMA HighLosesNone ==
    ASSUME RebootTypes, HighHolds, LowHolds, NoneLost, HighNext
    PROVE  NoneLost'
<1>0. /\ bufState \in [Bufs -> States] /\ toLow \in Seq(Bufs)
      /\ toHigh \in Seq(Bufs \cup {Exception}) /\ Exception \notin Bufs
      /\ hbuf \in Bufs \cup {NoBuf} /\ hdone \in Bufs \cup {NoBuf} /\ NoBuf \notin Bufs
  BY RebootFacts
<1> USE DEF NoneLost, lowVars, States
<1>1. CASE HighPollRequest \/ HighPollStart \/ HighNoBuffer \/ HighPollEnd
           \/ HighFillStart \/ HighUnlock \/ HighDoneLock
  BY <1>0, <1>1 DEF HighPollRequest, HighPollStart, HighNoBuffer, HighPollEnd,
                    HighFillStart, HighUnlock, HighDoneLock
<1>2. CASE HighSetReady
  BY <1>0, <1>2 DEF HighSetReady, SetState, RebootTypes
<1>3. CASE HighUnlockFail
  BY <1>0, <1>3 DEF HighUnlockFail, SetState, RebootTypes
<1>4. CASE HighSendReady
  <2>1. Range(toLow') = Range(toLow) \cup {hbuf}
    BY <1>0, <1>4, RangeAppend DEF HighSendReady, RebootTypes
  <2> QED
    BY <1>0, <1>4, <2>1 DEF HighSendReady
<1>5. CASE HighRecvDone \/ HighRecvException
  <2>1. /\ Range(toHigh) = Range(toHigh') \cup {Head(toHigh)} /\ hdone = NoBuf
        /\ hdone' = Head(toHigh) \/ Head(toHigh) = Exception
    BY <1>0, <1>5, RangeTail DEF HighRecvDone, HighRecvException, RebootTypes
  <2> QED
    BY <1>0, <1>5, <2>1 DEF HighRecvDone, HighRecvException
<1>6. CASE HighDoneLockFail \/ HighDoneStale \/ HighDoneLowOwned \/ HighRecycle
  BY <1>0, <1>6 DEF HighDoneLockFail, HighDoneStale, HighDoneLowOwned, HighRecycle,
                    SetState, RebootTypes
<1> QED
  BY <1>1, <1>2, <1>3, <1>4, <1>5, <1>6 DEF HighNext, HighTransmit, HighDone

\* No step of CPU_LOW loses a buffer: an exception is only reported for one that
\* CPU_HIGH has already taken.
LEMMA LowLosesNone ==
    ASSUME RebootTypes, HighHolds, LowHolds, NoneLost,
           Cardinality(LowOwned) <= GeneralLimit, LowNext
    PROVE  NoneLost'
<1>0. /\ bufState \in [Bufs -> States] /\ owner \in [Bufs -> CPUs \cup {NoOwner}]
      /\ toLow \in Seq(Bufs) /\ ready \in Seq(Bufs)
      /\ toHigh \in Seq(Bufs \cup {Exception})
      /\ hdone \in Bufs \cup {NoBuf} /\ NoBuf \notin Bufs
      /\ lpc \in {"unlock", "send", "finish"} =>
            ready # <<>> /\ Head(ready) \in Bufs /\ Head(ready) \in Range(ready)
      /\ lmsgpc # "idle" => lmsg \in Bufs
  BY RebootFacts DEF RebootTypes
<1> USE DEF NoneLost, highVars, States
<1>1. CASE LowRecvReady
  <2>1. Range(toLow) = Range(toLow') \cup {Head(toLow)}
    BY <1>0, <1>1, RangeTail DEF LowRecvReady
  <2> QED
    BY <1>0, <1>1, <2>1 DEF LowRecvReady
<1>2. CASE LowLock \/ LowTxStart \/ LowTxEnd \/ LowUnlock
  BY <1>0, <1>2 DEF LowLock, LowTxStart, LowTxEnd, LowUnlock
<1>3. CASE LowAccept
  <2>1. lpc \in {"idle", "tx"} /\ lmsg \in Bufs /\ ready' = Append(ready, lmsg)
    BY <1>0, <1>3, RoomAfterReboot DEF LowAccept, Enlist, LowHolds
  <2>2. Range(ready') = Range(ready) \cup {lmsg}
    BY <1>0, <2>1, RangeAppend
  <2> QED
    BY <1>0, <1>3, <2>1, <2>2 DEF LowAccept, SetState
<1>4. CASE LowFinish
  BY <1>0, <1>4 DEF LowFinish, SetState
<1>5. CASE LowUnlockFail
  <2>1. Range(toHigh') = Range(toHigh) \cup {Exception}
    <3>1. Exception \in Bufs \cup {Exception}
      OBVIOUS
    <3> QED
      BY <1>0, <1>5, <3>1, RangeAppend DEF LowUnlockFail
  <2> QED
    BY <1>0, <1>5, <2>1 DEF LowUnlockFail, LowHolds
<1>6. CASE LowSendDone
  <2>1. Range(toHigh') = Range(toHigh) \cup {Head(ready)}
    BY <1>0, <1>6, RangeAppend DEF LowSendDone
  <2>2. Range(ready) = Range(ready') \cup {Head(ready)}
    BY <1>0, <1>6, RangeTail DEF LowSendDone
  <2> QED
    BY <1>0, <1>6, <2>1, <2>2 DEF LowSendDone, LowHolds
<1> QED
  BY <1>1, <1>2, <1>3, <1>4, <1>5, <1>6, NoErrorOfLow
  DEF LowNext, LowMessage, LowTransmit

\* A reboot of CPU_HIGH abandons the buffer it was handing over; its boot code takes
\* what neither it nor CPU_LOW has.
LEMMA BootLosesNone ==
    ASSUME RebootTypes, NoneLost, HighReboot \/ HighBoot
    PROVE  NoneLost'
<1>0. /\ bufState \in [Bufs -> States] /\ hbuf \in Bufs \cup {NoBuf}
      /\ hdone \in Bufs \cup {NoBuf} /\ NoBuf \notin Bufs /\ reboot \in RebootRecords
  BY RebootFacts DEF RebootTypes, RebootTypeOK
<1> USE DEF NoneLost, lowRegs, highRegs, States
<1>1. CASE HighReboot
  <2> DEFINE B == IF hpc \in {"unlock", "send"} THEN reboot.abandoned \cup {hbuf}
                  ELSE reboot.abandoned
  <2>1. reboot.high + 1 \in 0 .. MaxReboots /\ B \in SUBSET Bufs
    BY <1>0, <1>1, RecordFacts, RebootAssumption DEF HighReboot, RebootTypes
  <2>2. reboot' = [reboot EXCEPT !.high = reboot.high + 1, !.hnext = 0, !.abandoned = B]
    BY <1>1 DEF HighReboot
  <2>3. reboot'.abandoned = B /\ reboot'.hnext = 0
    <3> DEFINE counted == [reboot EXCEPT !.high = reboot.high + 1]
               first == [counted EXCEPT !.hnext = 0]
    <3>1. counted \in RebootRecords
      BY <1>0, <2>1 DEF RebootRecords
    <3>2. reboot' = [first EXCEPT !.abandoned = B]
      BY <2>2
    <3> HIDE DEF B, counted
    <3>3. first \in RebootRecords /\ first.hnext = 0
      BY <3>1, ConstantsAssumption DEF RebootRecords
    <3> HIDE DEF first
    <3> QED
      BY <3>2, <3>3 DEF RebootRecords
  <2>4. \A b \in Bufs : reboot'.hnext <= b
    BY <2>3 DEF Bufs
  <2>5. hpc' = "boot" /\ UNCHANGED <<bufState, toLow, toHigh, lpc, lmsgpc, lmsg, ready>>
    BY <1>1 DEF HighReboot
  <2> QED
    BY <1>0, <2>3, <2>4, <2>5
<1>2. CASE HighBootBuf
  <2> DEFINE n == reboot.hnext
  <2>1. n \in Bufs /\ hpc = "boot" /\ hdone = NoBuf
    BY <1>0, <1>2, ConstantsAssumption DEF HighBootBuf, RebootRecords, Bufs, RebootTypes
  <2>2. /\ reboot'.hnext = n + 1 /\ reboot'.abandoned = reboot.abandoned
        /\ UNCHANGED <<toLow, toHigh, hpc, hbuf, hdone, havail, lpc, lmsgpc, lmsg, ready>>
        /\ \/ bufState' = bufState /\ bufState[n] \in {"READY", "LOW_CTRL"}
           \/ bufState' = [bufState EXCEPT ![n] = "HIGH_CTRL"]
    BY <1>0, <1>2 DEF HighBootBuf, RebootRecords, SetState
  <2> HIDE DEF n
  <2>3. \A b \in Bufs : n <= b /\ b # n => reboot'.hnext <= b
    BY <2>1, <2>2 DEF Bufs
  <2>4. n = reboot.hnext
    BY DEF n
  <2> QED
    BY <1>0, <2>1, <2>2, <2>3, <2>4
<1>3. CASE HighBootDone
  <2>1. \A b \in Bufs : ~ (reboot.hnext <= b)
    BY <1>3, ConstantsAssumption DEF HighBootDone, Bufs
  <2>2. reboot'.abandoned = reboot.abandoned
    BY <1>0, <1>3 DEF HighBootDone, RebootRecords
  <2> QED
    BY <1>0, <1>3, <2>1, <2>2 DEF HighBootDone
<1> QED
  BY <1>1, <1>2, <1>3 DEF HighBoot

\* The limit on what CPU_HIGH hands over holds on the error branches as well, and
\* through its reboots.
LEMMA ReservedAfterReboot ==
    ASSUME RebootTypes, HighHolds, LowHolds, Reserved,
           Next \/ HighReboot \/ HighBoot \/ UNCHANGED vars
    PROVE  Reserved'
<1>0. /\ bufState \in [Bufs -> States] /\ havail \in Nat
      /\ hbuf \in Bufs \cup {NoBuf} /\ hdone \in Bufs \cup {NoBuf} /\ NoBuf \notin Bufs
      /\ lpc = "finish" => Head(ready) \in Bufs
      /\ lmsgpc # "idle" => lmsg \in Bufs
      /\ hpc \in {"fill", "unlock", "send"} => hbuf \in Bufs /\ havail > 0
      /\ hpc \in {"done", "posttx"} => hdone \in Bufs
  BY RebootFacts DEF RebootTypes
<1>1. /\ IsFiniteSet(LowOwned) /\ Cardinality(LowOwned) \in Nat
      /\ GeneralLimit \in Nat
  BY LowOwnedFinite, ConstantsAssumption
<1>2. \A b \in Bufs :
         /\ IsFiniteSet(LowOwned \ {b}) /\ Cardinality(LowOwned \ {b}) \in Nat
         /\ Cardinality(LowOwned \ {b})
               = IF b \in LowOwned THEN Cardinality(LowOwned) - 1
                 ELSE Cardinality(LowOwned)
  BY <1>1, FS_RemoveElement, FS_CardinalityType
<1>3. CASE \/ HighPollRequest \/ HighPollEnd \/ HighRecvDone \/ HighRecvException
           \/ HighDoneLock \/ HighDoneLowOwned
  BY <1>3 DEF HighPollRequest, HighPollEnd, HighRecvDone, HighRecvException,
              HighDoneLock, HighDoneLowOwned, Reserved, LowOwned, lowVars
<1>4. CASE HighPollStart
  <2>1. NumAvailable \in Nat
        /\ (Cardinality(LowOwned) + NumAvailable <= GeneralLimit)
    BY <1>1 DEF NumAvailable, Reserved
  <2> QED
    BY <1>4, <2>1 DEF HighPollStart, Reserved, LowOwned
<1>5. CASE HighFillStart \/ HighNoBuffer \/ HighUnlock \/ HighSendReady
  <2>1. LowOwned' = LowOwned
    BY <1>5 DEF HighFillStart, HighNoBuffer, HighUnlock, HighSendReady, LowOwned
  <2> QED
    BY <1>0, <1>1, <1>5, <2>1
    DEF HighFillStart, HighNoBuffer, HighUnlock, HighSendReady, Reserved
<1>6. CASE HighSetReady
  <2>1. hbuf \in Bufs /\ bufState[hbuf] = "HIGH_CTRL"
    BY <1>0, <1>6 DEF HighSetReady, HighHolds
  <2>2. LowOwned' = LowOwned \cup {hbuf} /\ hbuf \notin LowOwned
    BY <1>0, <1>6, <2>1 DEF HighSetReady, SetState, LowOwned
  <2>3. Cardinality(LowOwned') = Cardinality(LowOwned) + 1
    BY <1>1, <2>2, FS_AddElement
  <2> QED
    BY <1>0, <1>1, <1>6, <2>3 DEF HighSetReady, Reserved
<1>7. CASE HighUnlockFail
  <2>1. LowOwned' = LowOwned \ {hbuf} /\ hbuf \in LowOwned
    BY <1>0, <1>7 DEF HighUnlockFail, SetState, LowOwned, HighHolds
  <2>2. Cardinality(LowOwned') = Cardinality(LowOwned) - 1
    BY <1>2, <2>1 DEF LowOwned
  <2> QED
    BY <1>0, <1>1, <1>7, <2>2 DEF HighUnlockFail, Reserved
<1>8. CASE HighDoneLockFail \/ HighDoneStale \/ HighRecycle
  <2>1. hdone \in Bufs /\ bufState[hdone] \notin {"READY", "LOW_CTRL"}
    BY <1>0, <1>8 DEF HighDoneLockFail, HighDoneStale, HighRecycle, HighHolds
  <2>2. LowOwned' = LowOwned
    BY <1>0, <1>8, <2>1 DEF HighDoneLockFail, HighDoneStale, HighRecycle, SetState,
                            LowOwned
  <2> QED
    BY <1>8, <2>2 DEF HighDoneLockFail, HighDoneStale, HighRecycle, Reserved
<1>9. CASE LowRecvReady \/ LowLock \/ LowTxStart \/ LowTxEnd \/ LowUnlock
           \/ LowUnlockFail \/ LowSendDone
  BY <1>9 DEF LowRecvReady, LowLock, LowTxStart, LowTxEnd, LowUnlock, LowUnlockFail,
              LowSendDone, LowOwned, Reserved, highVars
<1>10. CASE LowAccept
  <2>1. LowOwned' = LowOwned
    BY <1>0, <1>10 DEF LowAccept, SetState, LowOwned, LowHolds
  <2> QED
    BY <1>10, <2>1 DEF LowAccept, Reserved, highVars
<1>11. CASE LowFinish
  <2>1. LowOwned' = LowOwned \ {Head(ready)} /\ Head(ready) \in Bufs
    BY <1>0, <1>11 DEF LowFinish, SetState, LowOwned
  <2>2. Cardinality(LowOwned') \in Nat /\ Cardinality(LowOwned') <= Cardinality(LowOwned)
    BY <1>1, <1>2, <2>1
  <2>3. havail' = havail /\ hpc' = hpc
    BY <1>11 DEF LowFinish, highVars
  <2> QED
    BY <1>0, <1>1, <2>2, <2>3 DEF Reserved
<1>12. CASE HighReboot \/ HighBootDone
  BY <1>12 DEF HighReboot, HighBootDone, Reserved, LowOwned
<1>13. CASE HighBootBuf
  <2>1. LowOwned' = LowOwned
    BY <1>0, <1>13 DEF HighBootBuf, SetState, LowOwned
  <2> QED
    BY <1>13, <2>1 DEF HighBootBuf, highRegs, Reserved
<1>14. CASE UNCHANGED vars
  BY <1>14 DEF vars, highVars, Reserved, LowOwned
<1> QED
  BY <1>3, <1>4, <1>5, <1>6, <1>7, <1>8, <1>9, <1>10, <1>11, <1>12, <1>13, <1>14,
     NoErrorOfLow
  DEF Next, HighNext, LowNext, HighTransmit, HighDone, LowMessage, LowTransmit, HighBoot

LEMMA InitRebootInv == Init => RebootInv
<1> SUFFICES ASSUME Init PROVE RebootInv
  OBVIOUS
<1>1. reboot \in RebootRecords /\ reboot.low = 0
  BY ConstantsAssumption, RebootAssumption DEF Init, NoReboot, RebootRecords
<1>2. RebootTypes
  BY <1>1, ConstantsAssumption
  DEF Init, RebootTypes, RebootTypeOK, TypeOK, States, CPUs, HighPCs, LowPCs
<1>3. Range(<<>>) = {} /\ IsInjective(<<>>)
  BY DEF Range, IsInjective
<1>4. HighHolds /\ LowHolds /\ NoneLost
  BY <1>3 DEF Init, HighHolds, LowHolds, NoneLost, Unlocking
<1>5. Reserved
  BY InitIInv DEF IInv
<1> QED
  BY <1>2, <1>4, <1>5 DEF RebootInv

LEMMA NextKeepsReboot == Next => reboot' = reboot
<1>1. HighNext => reboot' = reboot
  BY DEF HighNext, HighTransmit, HighDone, HighPollRequest, HighPollStart, HighPollEnd,
         HighRecvDone, HighRecvException, HighFillStart, HighNoBuffer, HighSetReady,
         HighUnlock, HighUnlockFail, HighSendReady, HighDoneLock, HighDoneLockFail,
         HighDoneStale, HighDoneLowOwned, HighRecycle, lowVars
<1>2. LowNext => reboot' = reboot
  BY DEF LowNext, LowMessage, LowTransmit, LowRecvReady, LowLock, LowAccept, LowLockFail,
         LowUnexpectedReset, LowUnexpected, LowTxStart, LowTxEnd, LowFinish,
         LowFinishNotOwner, LowFinishReset, LowFinishUnexpected, LowUnlock,
         LowUnlockFail, LowSendDone, highVars
<1> QED
  BY <1>1, <1>2 DEF Next

LEMMA NextRebootInv == RebootInv /\ [RebootNext]_vars => RebootInv'
<1> SUFFICES ASSUME RebootInv, [RebootNext]_vars PROVE RebootInv'
  OBVIOUS
<1>1. RebootTypes /\ RebootTypes' /\ reboot \in RebootRecords
  BY NextRebootTypes DEF RebootInv, RebootTypes, RebootTypeOK
<1> USE DEF RebootInv
<1>2. CASE Next
  <2>1. reboot' = reboot
    BY <1>2, NextKeepsReboot
  <2>2. ASSUME reboot.low = 0
        PROVE  HighHolds' /\ LowHolds' /\ NoneLost' /\ Reserved'
    <3>1. Reserved'
      BY <1>1, <1>2, <2>2, ReservedAfterReboot
    <3>2. CASE HighNext
      BY <1>1, <2>2, <3>1, <3>2, HighKeepsHighHolds, HighKeepsLowHolds, HighLosesNone
    <3>3. CASE LowNext
      <4>1. Cardinality(LowOwned) <= GeneralLimit
        BY <2>2 DEF Reserved
      <4> QED
        BY <1>1, <2>2, <3>1, <3>3, <4>1, LowKeepsHighHolds, LowKeepsLowHolds,
           LowLosesNone
    <3> QED
      BY <1>2, <3>2, <3>3 DEF Next
  <2> QED
    BY <1>1, <2>1, <2>2
<1>3. CASE HighReboot \/ HighBoot
  <2>1. reboot'.low = reboot.low
    BY <1>1, <1>3 DEF HighReboot, HighBoot, HighBootBuf, HighBootDone, RebootRecords
  <2> QED
    BY <1>1, <1>3, <2>1, BootKeepsHolds, BootLosesNone, ReservedAfterReboot
<1>4. CASE LowReboot
  <2>1. reboot.low + 1 \in 0 .. MaxReboots /\ reboot.low \in Nat
    BY <1>1, <1>4, RecordFacts, RebootAssumption DEF LowReboot
  <2>2. reboot' = [reboot EXCEPT !.low = reboot.low + 1, !.lnext = 0]
    BY <1>4 DEF LowReboot
  <2>3. reboot'.low = reboot.low + 1
    BY <1>1, <2>1, <2>2, LowRebootRecord
  <2> QED
    BY <1>1, <2>1, <2>3
<1>5. CASE LowBoot
  <2>1. reboot.low # 0
    BY <1>1, <1>5, NoErrorOfLow DEF LowBoot
  <2>2. reboot'.low = reboot.low
    BY <1>1, <1>5 DEF LowBoot, LowBootBuf, LowBootDone, RebootRecords
  <2> QED
    BY <1>1, <2>1, <2>2
<1>6. CASE UNCHANGED vars
  <2>1. reboot' = reboot
    BY <1>6 DEF vars, highVars
  <2>2. HighHolds /\ LowHolds /\ NoneLost => HighHolds' /\ LowHolds' /\ NoneLost'
    BY <1>6 DEF vars, highVars, lowVars, HighHolds, LowHolds, NoneLost, Unlocking
  <2> QED
    BY <1>1, <1>6, <2>1, <2>2, ReservedAfterReboot
<1> QED
  BY <1>2, <1>3, <1>4, <1>5, <1>6 DEF RebootNext

\* Until CPU_LOW reboots itself, every buffer that CPU_LOW was told of is READY and
\* free, or under its control and locked, each once, and a buffer that is neither
\* under HIGH_CTRL nor on its way was abandoned, however often CPU_HIGH reboots.
THEOREM RebootInvariance == RebootSpec => []RebootInv
  BY InitRebootInv, NextRebootInv, PTL DEF RebootSpec

\* A frame is transmitted and finished from a buffer that CPU_LOW controls and holds
\* the mutex of, and CPU_HIGH fills and recycles buffers of its own, although
\* CPU_HIGH may reboot at any moment.
THEOREM RebootSafe == RebootSpec => []RebootHandover
<1>1. RebootInv => RebootHandover
  <2> SUFFICES ASSUME RebootInv PROVE RebootHandover
    OBVIOUS
  <2>1. RebootTypes /\ RebootTypeOK
    BY DEF RebootInv, RebootTypes
  <2>2. ASSUME reboot.low = 0
        PROVE  /\ HighHolds /\ LowHolds /\ Cardinality(LowOwned) <= GeneralLimit
               /\ lmsgpc # "idle" => Len(ready) < MaxPending
    <3>1. HighHolds /\ LowHolds /\ Cardinality(LowOwned) <= GeneralLimit
      BY <2>2 DEF RebootInv, Reserved
    <3> QED
      BY <2>1, <3>1, RoomAfterReboot
  <2>3. RebootLimits
    BY <2>1, <2>2 DEF RebootLimits, LowHolds
  <2>4. lpc \in {"tx", "finish"} => Head(ready) \in Range(ready)
    BY <2>1, RebootFacts DEF RebootTypes
  <2>5. hpc = "posttx" => hdone # NoBuf
    BY <2>1, RebootFacts DEF RebootTypes
  <2> QED
    BY <2>2, <2>3, <2>4, <2>5 DEF RebootHandover, HighHolds, LowHolds
<1> QED
  BY <1>1, RebootInvariance, PTL

\* When all is quiet again, a reboot of CPU_HIGH has lost no buffer but those it was
\* handing over between READY and the message.
THEOREM LeakBounded == RebootSpec => []LeakOnlyInWindow
<1>1. RebootInv => LeakOnlyInWindow
  <2> SUFFICES ASSUME RebootInv, reboot.low = 0, Quiet, NEW b \in Bufs
               PROVE  bufState[b] = "HIGH_CTRL" \/ b \in reboot.abandoned
    BY DEF LeakOnlyInWindow
  <2>1. RebootTypes /\ HighHolds /\ NoneLost
    BY DEF RebootInv
  <2>2. hdone # b
    BY <2>1, RebootFacts DEF RebootTypes, Quiet
  <2>3. Range(toLow) = {} /\ Range(ready) = {} /\ Range(toHigh) = {}
    BY DEF Quiet, Range
  <2>4. bufState[b] \in {"HIGH_CTRL", "READY", "LOW_CTRL", "DONE"}
    BY <2>1, RebootFacts DEF HighHolds, States
  <2> QED
    BY <2>1, <2>2, <2>3, <2>4 DEF NoneLost, Quiet
<1> QED
  BY <1>1, RebootInvariance, PTL
=============================================================================

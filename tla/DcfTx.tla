------------------------------- MODULE DcfTx -------------------------------
(***************************************************************************)
(* The transmission of one MPDU by CPU_LOW: frame_transmit_general of      *)
(* wlan_mac_dcf.c with its retry loop, the RTS/CTS exchange it shares with *)
(* frame_receive, the station retry counts and the contention window.      *)
(*                                                                         *)
(* Software and MAC hardware run side by side.  The hardware core (Tx      *)
(* controller A) defers, transmits and waits for a response by itself;     *)
(* the software only polls its status, so that it may miss a phase: it     *)
(* reads the status once per round, and a round also serves receptions,    *)
(* beacons and one message of CPU_HIGH, which may change the retry limits. *)
(*                                                                         *)
(* The medium and the peer are external: a peer answers an RTS or an MPDU  *)
(* that it received, and any other frame may be received at any time.      *)
(***************************************************************************)
EXTENDS Integers

CONSTANTS ShortLimit, LongLimit, \* initial retry limits (7 and 4)
          Limits,      \* the limits a configuration message may set
          RetryWrap,   \* 2^16: the local retry counts are 16 bits wide
          StationMax,  \* where the station counts saturate (2^32 - 1)
          CwMin, CwMax,\* contention window exponents (4 and 10)
          MaxConfig    \* bound: configuration messages

ASSUME DcfAssumption ==
    /\ {ShortLimit, LongLimit} \subseteq Nat \ {0} /\ Limits \subseteq Nat \ {0}
    /\ RetryWrap \in Nat \ {0}
    /\ {StationMax, CwMin, CwMax, MaxConfig} \subseteq Nat /\ CwMin <= CwMax

VARIABLES
    pc,          \* where frame_transmit_general is
    frame,       \* the MPDU: tx_mode, TX_FRAME_INFO_FLAGS_REQ_TO, tx_result
    wait,        \* tx_wait_state
    src, lrc,    \* short_retry_count, long_retry_count
    station,     \* station retry counts and gl_cw_exp
    limit,       \* gl_dot11ShortRetryLimit, gl_dot11LongRetryLimit
    waiting,     \* gl_waiting_for_response
    longMpdu,    \* gl_long_mpdu_pkt_buf is not PKT_BUF_INVALID
    started,     \* tx_has_started
    details,     \* low_tx_details.tx_details_type
    hw,          \* Tx controller A: its phase, what it sends, what it received
    delivered,   \* the peer received the MPDU (not in the code)
    owed,        \* waveforms sent and not reported to CPU_HIGH (not in the code)
    lowered,     \* a limit was lowered during this frame (not in the code)
    configs      \* counts configuration messages

soft == <<pc, frame, wait, src, lrc, waiting, longMpdu, started, details>>
dcfVars == <<soft, station, limit, hw, delivered, owed, lowered, configs>>

\* What may follow a transmission within the time-out: an ACK or a CTS for this
\* node with a good checksum, an ACK for another node, anything else (also a bad
\* checksum or an invalid PHY header).
Receptions == {"ack", "cts", "ackOther", "other"}
HwPhases == {"idle", "defer", "tx", "wait", "doneNone", "doneTimeout", "doneRx"}

Stations == [ssrc : 0 .. StationMax, slrc : 0 .. StationMax, cw : CwMin .. CwMax]
Controller == [phase : HwPhases, sends : {"rts", "mpdu"}, rx : Receptions \cup {"none"}]
Frames == [mode : {"SHORT", "LONG"}, req : BOOLEAN, result : {"none", "SUCCESS", "FAILURE"}]

FlagsOK ==
    /\ waiting \in BOOLEAN /\ longMpdu \in BOOLEAN /\ started \in BOOLEAN
    /\ delivered \in BOOLEAN /\ lowered \in BOOLEAN
CountsOK ==
    /\ src \in 0 .. RetryWrap - 1 /\ lrc \in 0 .. RetryWrap - 1
    /\ station \in Stations /\ limit \in [short : Nat, long : Nat]
    /\ owed \in 0 .. 2 /\ configs \in 0 .. MaxConfig
PlacesOK ==
    /\ pc \in {"idle", "submit", "poll", "ipc", "retry", "report"}
    /\ frame \in Frames /\ wait \in {"NONE", "ACK", "CTS"}
    /\ details \in {"unset", "MPDU", "RTS_ONLY", "RTS_MPDU"}
    /\ hw \in Controller
DcfTypeOK == FlagsOK /\ CountsOK /\ PlacesOK

-----------------------------------------------------------------------------
(* Retry counts and contention window                                      *)

Capped(n, max) == IF n < max THEN n ELSE max
ResetSsrc(st) == [st EXCEPT !.ssrc = 0]
ResetSlrc(st) == [st EXCEPT !.slrc = 0]
ResetCw(st) == [st EXCEPT !.cw = CwMin]
ResetFor(mode, st) == ResetCw(IF mode = "SHORT" THEN ResetSsrc(st) ELSE ResetSlrc(st))
Widen(st, atLimit) ==
    [st EXCEPT !.cw = IF atLimit THEN CwMin ELSE Capped(st.cw + 1, CwMax)]

\* A response did not come: which of the counts grow.
IncrementSrc ==
    LET st == [station EXCEPT !.ssrc = Capped(@ + 1, StationMax)] IN
    /\ src' = (src + 1) % RetryWrap
    /\ station' = Widen(st, st.ssrc = limit.short)
    /\ UNCHANGED lrc
IncrementLrc ==
    LET st == [station EXCEPT !.slrc = Capped(@ + 1, StationMax)] IN
    /\ lrc' = (lrc + 1) % RetryWrap
    /\ station' = Widen(st, st.slrc = limit.long)
    /\ UNCHANGED src
CountFailure ==
    IF wait = "ACK" /\ frame.mode = "LONG" THEN IncrementLrc ELSE IncrementSrc

-----------------------------------------------------------------------------
(* The medium, the peer and Tx controller A                                *)

Pending == hw.phase \in {"defer", "tx", "wait"}

\* The backoff of a submitted frame ends.
HwTxStart ==
    /\ hw.phase = "defer"
    /\ hw' = [hw EXCEPT !.phase = "tx"]
    /\ owed' = owed + 1
    /\ UNCHANGED <<soft, station, limit, delivered, lowered, configs>>

\* The waveform ends; the peer may receive it.
HwTxEnd ==
    /\ hw.phase = "tx"
    /\ hw' = [hw EXCEPT !.phase = IF frame.req THEN "wait" ELSE "doneNone"]
    /\ \/ UNCHANGED delivered
       \/ hw.sends = "mpdu" /\ delivered' = TRUE
    /\ UNCHANGED <<soft, station, limit, owed, lowered, configs>>

HwTimeout ==
    /\ hw.phase = "wait"
    /\ hw' = [hw EXCEPT !.phase = "doneTimeout"]
    /\ UNCHANGED <<soft, station, limit, delivered, owed, lowered, configs>>

\* A reception starts before the time-out.
HwRxStart ==
    /\ hw.phase = "wait"
    /\ \E k \in Receptions :
          /\ k = "ack" => hw.sends = "mpdu" /\ delivered
          /\ k = "cts" => hw.sends = "rts"
          /\ hw' = [hw EXCEPT !.phase = "doneRx", !.rx = k]
    /\ UNCHANGED <<soft, station, limit, delivered, owed, lowered, configs>>

-----------------------------------------------------------------------------
(* frame_transmit_general                                                  *)

\* Called for a GENERAL frame; low_tx_details is not initialised.
TxStart ==
    /\ pc = "idle"
    /\ \E mode \in {"SHORT", "LONG"}, req \in BOOLEAN :
          frame' = [mode |-> mode, req |-> req, result |-> "none"]
    /\ pc' = "submit" /\ wait' = "NONE" /\ src' = 0 /\ lrc' = 0
    /\ details' = "unset" /\ delivered' = FALSE /\ owed' = 0 /\ lowered' = FALSE
    /\ UNCHANGED <<station, limit, waiting, longMpdu, started, hw, configs>>

Rts == frame.mode = "LONG" /\ frame.req

\* One round of the retry loop: choose what is sent and hand it to controller A.
Submit ==
    /\ pc = "submit"
    /\ pc' = "poll" /\ started' = FALSE
    /\ wait' = IF Rts THEN "CTS" ELSE IF frame.req THEN "ACK" ELSE "NONE"
    /\ longMpdu' = (longMpdu \/ Rts)
    /\ hw' = [phase |-> "defer", sends |-> IF Rts THEN "rts" ELSE "mpdu", rx |-> "none"]
    /\ UNCHANGED <<frame, src, lrc, waiting, details, station, limit, delivered,
                   owed, lowered, configs>>

HwIdle == hw' = [hw EXCEPT !.phase = "idle"]
Done == hw.phase \in {"doneNone", "doneTimeout", "doneRx"}

\* The status shows that the PHY transmits.
PollTxActive ==
    /\ pc = "poll" /\ hw.phase = "tx" /\ ~started
    /\ started' = TRUE
    /\ waiting' = (waiting \/ frame.req)
    /\ details' = IF wait = "CTS" THEN "RTS_ONLY"
                  ELSE IF frame.mode = "LONG" /\ wait = "ACK" THEN "RTS_MPDU"
                  ELSE "MPDU"
    /\ pc' = "ipc"
    /\ UNCHANGED <<frame, wait, src, lrc, longMpdu, station, limit, hw, delivered,
                   owed, lowered, configs>>

\* The status shows a reception while the frame is deferred.  frame_receive
\* answers a CTS by starting controller A with the long MPDU, whether an RTS
\* has been sent or not; it resets the controller when it is late.
PollRx ==
    /\ pc = "poll" /\ hw.phase = "defer" /\ ~started
    /\ waiting' = FALSE
    /\ \/ UNCHANGED <<hw, owed>>
       \/ longMpdu /\ hw' = [hw EXCEPT !.phase = "tx", !.sends = "mpdu"] /\ owed' = owed + 1
       \/ longMpdu /\ HwIdle /\ UNCHANGED owed
    /\ UNCHANGED <<pc, frame, wait, src, lrc, longMpdu, started, details, station,
                   limit, delivered, lowered, configs>>

\* Neither: a beacon that is due (only before the waveform has started), then
\* one message.
PollIdle ==
    /\ pc = "poll" /\ ~Done /\ (hw.phase = "tx" => started)
    /\ \/ UNCHANGED station
       \/ \E mode \in {"SHORT", "LONG"} : ~started /\ station' = ResetFor(mode, station)
    /\ pc' = "ipc"
    /\ UNCHANGED <<frame, wait, src, lrc, waiting, longMpdu, started, details,
                   limit, hw, delivered, owed, lowered, configs>>

\* process_low_param, or no message.
Configure ==
    \/ UNCHANGED <<limit, lowered, configs>>
    \/ /\ configs < MaxConfig /\ configs' = configs + 1
       /\ \E l \in Limits, which \in {"short", "long"} :
             /\ limit' = [limit EXCEPT ![which] = l]
             /\ lowered' = (lowered \/ l < limit[which])

\* Mutant: the inner loop waits for a result of a controller that was reset.
PollIpcWaits ==
    /\ pc = "ipc"
    /\ Configure
    /\ pc' = "poll"
    /\ UNCHANGED <<frame, wait, src, lrc, waiting, longMpdu, started, details,
                   station, hw, delivered, owed>>

\* wlan_mac_low_poll_ipc_rx, then the test of the inner loop: a controller that
\* is no longer pending was reset, and the next attempt begins.
PollIpc ==
    /\ pc = "ipc"
    /\ Configure
    /\ pc' = IF Pending \/ Done THEN "poll" ELSE "submit"
    /\ UNCHANGED <<frame, wait, src, lrc, waiting, longMpdu, started, details,
                   station, hw, delivered, owed>>

Return(result) == pc' = "idle" /\ frame' = [frame EXCEPT !.result = result]

\* TX_A_RESULT_NONE: no response was required.
DoneNone ==
    /\ pc = "poll" /\ hw.phase = "doneNone"
    /\ station' = ResetFor(frame.mode, station)
    /\ waiting' = FALSE /\ owed' = owed - 1
    /\ Return("SUCCESS") /\ HwIdle
    /\ UNCHANGED <<wait, src, lrc, longMpdu, started, details, limit, delivered,
                   lowered, configs>>

ReceivedCts == wait = "CTS" /\ hw.rx = "cts"
\* Mutant: the address of the ACK is not compared.
ReceivedAnyAck == wait = "ACK" /\ hw.rx \in {"ack", "ackOther"}

ReceivedAck == wait = "ACK" /\ hw.rx = "ack"

\* TX_A_RESULT_RX_STARTED with the CTS: frame_receive has started controller A
\* with the MPDU.
DoneCts ==
    /\ pc = "poll" /\ hw.phase = "doneRx" /\ ReceivedCts
    /\ wait' = "ACK" /\ waiting' = FALSE /\ longMpdu' = FALSE
    /\ station' = ResetSsrc(station)
    /\ UNCHANGED <<pc, frame, src, lrc, started, details, limit, delivered,
                   lowered, configs>>
CtsInTime ==
    /\ DoneCts
    /\ hw' = [phase |-> "tx", sends |-> "mpdu", rx |-> "none"]
    /\ UNCHANGED owed
CtsLate ==
    /\ DoneCts
    /\ hw' = [phase |-> "idle", sends |-> "mpdu", rx |-> "none"]
    /\ owed' = owed - 1

DoneAck ==
    /\ pc = "poll" /\ hw.phase = "doneRx" /\ ReceivedAck
    /\ waiting' = FALSE /\ longMpdu' = FALSE
    /\ station' = ResetFor(frame.mode, station)
    /\ owed' = owed - 1
    /\ Return("SUCCESS") /\ HwIdle
    /\ UNCHANGED <<wait, src, lrc, started, details, limit, delivered, lowered,
                   configs>>

\* Any other reception: the limits are compared with >=, the details sent
\* after the next message was handled, and not at all on the final failure.
DoneOther ==
    /\ pc = "poll" /\ hw.phase = "doneRx" /\ ~ReceivedCts /\ ~ReceivedAck
    /\ CountFailure
    /\ waiting' = FALSE /\ longMpdu' = FALSE
    /\ IF src' >= limit.short \/ lrc' >= limit.long
       THEN Return("FAILURE")
       ELSE pc' = "report" /\ UNCHANGED frame
    /\ HwIdle
    /\ UNCHANGED <<wait, started, details, limit, delivered, owed, lowered, configs>>

\* Mutant: the packet buffer of the long MPDU is kept after a time-out.
DoneTimeoutKept ==
    /\ pc = "poll" /\ hw.phase = "doneTimeout"
    /\ CountFailure
    /\ waiting' = FALSE
    /\ owed' = owed - 1
    /\ IF src' = limit.short \/ lrc' = limit.long
       THEN Return("FAILURE")
       ELSE pc' = "retry" /\ UNCHANGED frame
    /\ HwIdle
    /\ UNCHANGED <<wait, longMpdu, started, details, limit, delivered, lowered, configs>>

\* Mutant: only the short count is compared with its limit.
DoneTimeoutShortOnly ==
    /\ pc = "poll" /\ hw.phase = "doneTimeout"
    /\ CountFailure
    /\ waiting' = FALSE /\ longMpdu' = FALSE
    /\ owed' = owed - 1
    /\ IF src' = limit.short
       THEN Return("FAILURE")
       ELSE pc' = "retry" /\ UNCHANGED frame
    /\ HwIdle
    /\ UNCHANGED <<wait, started, details, limit, delivered, lowered, configs>>

\* TX_A_RESULT_TIMEOUT: the limits are compared with ==.
DoneTimeout ==
    /\ pc = "poll" /\ hw.phase = "doneTimeout"
    /\ CountFailure
    /\ waiting' = FALSE /\ longMpdu' = FALSE
    /\ owed' = owed - 1
    /\ IF src' = limit.short \/ lrc' = limit.long
       THEN Return("FAILURE")
       ELSE pc' = "retry" /\ UNCHANGED frame
    /\ HwIdle
    /\ UNCHANGED <<wait, started, details, limit, delivered, lowered, configs>>

\* Mutant: the details of an attempt that was not answered are not reported.
RetryUnreported ==
    /\ pc \in {"retry", "report"}
    /\ \/ UNCHANGED station
       \/ \E mode \in {"SHORT", "LONG"} : station' = ResetFor(mode, station)
    /\ Configure
    /\ pc' = "submit"
    /\ UNCHANGED <<frame, wait, src, lrc, waiting, longMpdu, started, details, hw,
                   delivered, owed>>

\* Before the next attempt: a beacon and one message.
Retry ==
    /\ pc \in {"retry", "report"}
    /\ \/ UNCHANGED station
       \/ \E mode \in {"SHORT", "LONG"} : station' = ResetFor(mode, station)
    /\ Configure
    /\ owed' = IF pc = "report" THEN owed - 1 ELSE owed
    /\ pc' = "submit"
    /\ UNCHANGED <<frame, wait, src, lrc, waiting, longMpdu, started, details, hw,
                   delivered>>

\* The main loop between frames.
MainLoop ==
    /\ pc = "idle"
    /\ waiting' = FALSE
    /\ Configure
    /\ UNCHANGED <<pc, frame, wait, src, lrc, longMpdu, started, details, station,
                   hw, delivered, owed>>

-----------------------------------------------------------------------------
Software ==
    \/ Submit \/ PollTxActive \/ PollIdle \/ PollIpc \/ DoneNone \/ CtsInTime
    \/ CtsLate \/ DoneAck \/ DoneOther \/ DoneTimeout \/ Retry
Hardware == HwTxStart \/ HwTxEnd \/ HwTimeout \/ HwRxStart

DcfNext == TxStart \/ Software \/ PollRx \/ MainLoop \/ Hardware

DcfInit ==
    /\ pc = "idle" /\ frame = [mode |-> "SHORT", req |-> FALSE, result |-> "none"]
    /\ wait = "NONE" /\ src = 0 /\ lrc = 0
    /\ station = [ssrc |-> 0, slrc |-> 0, cw |-> CwMin]
    /\ limit = [short |-> ShortLimit, long |-> LongLimit]
    /\ waiting = FALSE /\ longMpdu = FALSE /\ started = FALSE /\ details = "unset"
    /\ hw = [phase |-> "idle", sends |-> "mpdu", rx |-> "none"]
    /\ delivered = FALSE /\ owed = 0 /\ lowered = FALSE /\ configs = 0

\* Neither the software nor the hardware stops; the medium is not busy for
\* ever, and not every CTS is answered too late.
DcfSpec ==
    /\ DcfInit /\ [][DcfNext]_dcfVars
    /\ WF_dcfVars(Software) /\ WF_dcfVars(HwTxEnd) /\ WF_dcfVars(HwTimeout \/ HwRxStart)
    /\ SF_dcfVars(HwTxStart) /\ SF_dcfVars(CtsInTime)

-----------------------------------------------------------------------------
(* Properties                                                              *)

\* A frame that required a response is reported as SUCCESS only if the peer
\* received the MPDU: neither a CTS, nor the ACK of another node, nor a response
\* to an earlier RTS counts (the conditions at TX_A_RESULT_RX_STARTED).
SuccessIsAcked ==
    pc = "idle" /\ frame.result = "SUCCESS" /\ frame.req => delivered

\* A CTS can start a transmission only while an RTS is outstanding: before the
\* buffer of the long MPDU goes back to CPU_HIGH, and before the MPDU itself is
\* waited for, frame_receive has lost sight of it (gl_long_mpdu_pkt_buf).
LongMpduOnlyForRts == longMpdu => wait = "CTS" /\ pc \notin {"idle", "retry", "report"}

\* Unless a limit was lowered in the middle of the frame no attempt is made once
\* either count has reached its limit, although one branch compares with == and
\* the counts are checked only after a failure, with the limits of that moment.
\* The counts of the station saturate, those of the frame wrap (DcfTypeOK).
WithinRetryLimits ==
    /\ DcfTypeOK
    /\ pc = "submit" /\ ~lowered => src < limit.short /\ lrc < limit.long

\* Every waveform of an attempt is reported to CPU_HIGH before the next attempt
\* and before a success; only the last one of a failed frame may be missing.
AttemptsReported ==
    /\ pc = "submit" => owed = 0
    /\ pc = "idle" /\ frame.result = "SUCCESS" => owed = 0
    /\ owed <= 1

\* What makes the properties above inductive.  The controller is idle outside the
\* inner loop, a result fits the request, and a waveform is owed from its start to
\* the report; the counts are below the limits as long as no limit goes down.
Exchange ==
    /\ pc \notin {"poll", "ipc"} => hw.phase = "idle"
    /\ hw.phase = "doneNone" => ~frame.req
    /\ hw.phase = "doneRx" /\ hw.rx = "ack" => delivered
    /\ pc # "idle" /\ wait = "CTS" => Rts
Budget ==
    /\ limit.short > 0 /\ limit.long > 0
    /\ pc # "idle" /\ ~lowered => src < limit.short /\ lrc < limit.long
Reported ==
    /\ pc \in {"submit", "retry"} => owed = 0
    /\ pc = "report" => owed = 1
    /\ pc \in {"poll", "ipc"} => owed = IF hw.phase \in {"idle", "defer"} THEN 0 ELSE 1
    /\ pc = "idle" => owed <= 1 /\ (frame.result = "SUCCESS" => owed = 0)
DcfInv ==
    /\ DcfTypeOK /\ Exchange /\ Budget /\ Reported
    /\ SuccessIsAcked /\ LongMpduOnlyForRts

\* A frame in transmission ends, whatever is received and however the limits
\* are changed: a count that passed a lowered limit wraps around.
FrameCompletes == pc # "idle" ~> pc = "idle"
=============================================================================

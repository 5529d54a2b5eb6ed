# Verification of the Mango 802.11 Reference Design MAC

TLA+ models, TLC runs and TLAPS proofs for the C code of the WARP v3 802.11
Reference Design in `src/svn_src` (the rest of the workspace is the vendored
board support package, Eclipse metadata and hardware files). Paths below are
relative to `src/svn_src`.

## 1. The system

Two MicroBlaze CPUs share packet buffers in block RAM, one hardware mutex per
buffer, and two mailboxes (one per direction).

* **CPU_HIGH** (`wlan_mac_high_framework` and one of the applications
  `wlan_mac_high_ap`, `_sta`, `_ibss`) runs the upper MAC. It is interrupt
  driven: mailbox, timer, Ethernet and UART interrupts, and a main loop for the
  experiment framework. `wlan_mac_high_interrupt_stop/restore_state` bracket its
  critical sections.
* **CPU_LOW** (`wlan_mac_low_framework` with `wlan_mac_low_dcf` or
  `wlan_mac_low_nomac`) runs the lower MAC: one polling loop, no interrupts. It
  polls PHY, mailbox and TBTT timer, also from inside a transmission.

### Inventory

| Component | State | Operations | Hard behaviour | Correct when | Modules |
|---|---|---|---|---|---|
| Tx packet buffers (`wlan_mac_pkt_buf_util.c`, `wlan_mac_high.c`, `wlan_mac_low.c`) | state word and mutex per buffer | fill, announce, lock, transmit, finish, recycle; boot clean-up | two CPUs between any two shared accesses; reboot of one CPU | announced once, transmitted once, recycled once; no data race; nothing lost | `TxPktBuf`, `TxPktBufReboot` |
| Buffer groups and DTIM window (`wlan_mac_dcf.c`, `wlan_mac_ap.c`, `wlan_mac_high.c`) | group of a buffer, CPU_LOW's lists, pause flag, beacon configuration on both CPUs | poll queues, enlist, move lists, beacon, window, pause, resume | configuration reaches the CPUs at different times; TBTT in the middle of a frame | limits, consistent lists, MORE_DATA true, multicast queue drained | `TxGroups` |
| Rx packet buffers (`wlan_mac_low.c`, `wlan_mac_high.c`) | state word and mutex, CPU_LOW's ring position | receive, announce, process, give back; boot clean-up | reboot; no free buffer; READY before its message | the PHY alone writes; announced once; CPU_LOW receives again | `RxPktBuf` |
| Mailbox and memory reads (`wlan_mac_mailbox_util.c`, `wlan_mac_high_mailbox_util.c`) | two FIFOs, an interrupt, a pending read | blocking write, read, flush, acknowledge, time-out | full FIFO, lost interrupt, partial message, late answer | no hang, no lost message, answers belong to their reads | `RxPktBuf`, `TxPktBuf` |
| DCF transmission (`wlan_mac_dcf.c`) | retry counts of frame and station, limits, contention window, details, controller A | RTS/CTS, ACK time-out, backoff, reception in the middle | time-out against reception; a limit changed in between; unsolicited CTS and ACK | success means acknowledged; retry limits; every frame ends | `DcfTx` |
| Beacon buffer and TIM (`wlan_mac_ap.c`, `wlan_mac_low.c`) | state and mutex of the beacon buffer, TIM in it, pending update | update, rewrite, postpone, configure, send | update while sending; reconfiguration at a TBTT | no torn beacon, no lost update, bits follow the queues | `ApTim` |
| AP stations and Tx queues (`wlan_mac_ap.c`, `wlan_mac_station_info.c`, `wlan_mac_queue.c`) | station structs and flags, two lists of entries, queues, round robin pointer | authenticate, associate, doze, leave, time out, enqueue, poll, purge | packets outlive an association; structs are reused | packets keep their station; IDs unique; no lost wake-up | `ApStations` |
| STA join and scan (`wlan_mac_sta_join.c`, `wlan_mac_sta.c`, `wlan_mac_scan.c`, `wlan_mac_network_info.c`) | join, authentication and scan state, schedules, network structs, radio channel | search, attempt, poll, answer, hop, stop, configure, reset | commands in any order with answers lost, doubled, late; structs reused | no orphan schedule; data on its channel only; joins what was asked for | `StaJoin` |
| Schedules (`wlan_mac_schedule.c`, `wlan_mac_dl_list.c`) | linked lists of enabled and disabled schedules, timer, the handler's next entry | create, disable, enable, remove, walk | callbacks that change the list the handler walks through, and free the entry it holds | links sound, no orphan, timer runs if there is a schedule | `Schedule` |
| Traffic generator (`wlan_mac_ltg.c`), Ethernet reception (`w3_eth.c`) | generators, one schedule for all; descriptors, interrupt enable, queue entries | create, start, stop, remove, check; interrupt, process some frames, come back later, refill | ring full, pool empty, schedule that disables itself | a started generator is served; frames and descriptors have somebody to wake them | `EthRx` |
| Event log (`wlan_mac_event_log.c`) | circular buffer of entries of different lengths, oldest, next and end address, flags | allocate, write, wrap, fill, reset, configure | interrupts between the steps of an entry; both addresses wrap at once | a chain of entries from the oldest on, node_info first; the oldest is lost first | `EventLog` |
| Ethernet transmission, wlan_exp | DMA ring, sockets | translate, send, commands | retry | - | commands that change modelled state |
| PHY, board, UART, packet formats | registers | register access, formatting | - | - | - |

`PROJECT.json` lists every component with its files and status, and every
hazard found in the code with its line.

## 2. Modules

| Module | Models |
|---|---|
| `TxPktBuf` | hand-over of the MPDU buffers; every access to state word, mutex and mailbox that the other CPU can observe is a step |
| `TxPktBufProps` | its properties, refinement mapping and inductive invariant |
| `TxService` | the abstract service: submit, complete in order, recycle |
| `TxPktBufProofs` | TLAPS proofs for `TxPktBuf` |
| `TxPktBufReboot` | the same hand-over when either CPU reboots alone |
| `TxGroups` | GENERAL and DTIM_MCAST groups of the AP, with beacons and DTIM windows |
| `Selection` | the walk over a list that takes some of its entries, as a function |
| `TxGroupsProofs` | TLAPS proofs for `TxGroups` |
| `RxPktBuf` | receive buffers, the mailbox to CPU_HIGH word by word, memory reads, reboots |
| `QueueLemmas` | lemmas about FIFOs, lists and selections that the proofs share |
| `DcfTx` | one MPDU after another through `frame_transmit_general` |
| `CpuLowProofs` | TLAPS proofs for `RxPktBuf` and `DcfTx` |
| `ApTim` | the beacon buffer and its TIM between `update_tim_tag_*`, `configure_bss` and CPU_LOW's beacons |
| `ApStations` | stations, their structs, the Tx queues and `poll_tx_queues` of the AP |
| `ApStationsProofs` | TLAPS proofs for `ApStations` |
| `StaJoin` | join, scan and network list of the station |
| `StaJoinProofs` | TLAPS proofs for `StaJoin` |
| `EventLog` | the event log of CPU_HIGH, written by the main loop and by interrupts |
| `EventLogProofs` | TLAPS proofs for `EventLog` |
| `Schedule` | operators: the FINE scheduler and its linked lists |
| `EthRx` | `Schedule` with its clients: Ethernet reception, traffic generator, TIM update, join polls |
| `CpuHighProofs` | TLAPS proofs for `ApTim`, `Schedule` and `EthRx` |
| `MC*` | TLC instances (`EventLog` is its own) |

### TxPktBuf

`bufState` is `tx_frame_info.tx_pkt_buf_state`, `owner` the mutex core,
`toLow`/`toHigh` the mailboxes. `hpc` is CPU_HIGH's place in
`poll_tx_queues` → `transmit_checkin` → `wlan_mac_high_mpdu_transmit`
(`poll_start`, `poll`, `fill`, `unlock`, `send`) and in the DONE handler (`done`,
then the nested poll, then `posttx`). `lpc` is CPU_LOW's place in
`poll_tx_pkt_buf_list` and `wlan_mac_low_finish_frame_transmit`; `lmsgpc` its
place in `wlan_mac_low_process_ipc_msg`, which also runs while `lpc = "tx"`.
Every error branch is an action: failed lock or unlock, unexpected state, the
exception message, the ignored result of `handle_tx_pkt_buf_ready`. Frame
contents, rates and logging are left out; how many packets are queued is
nondeterministic.

`XMutex_Trylock` also succeeds for the present owner and `XMutex_Unlock` changes
nothing for another CPU: `CanLock` and `Unlocked`.

### TxPktBufReboot

Either CPU may be soft-reset at any moment; the variable `reboot`, which
`TxPktBuf` declares and never changes, keeps count. Buffers, mutexes and mailboxes
survive; `init_pkt_buf` releases the mutexes of the booting CPU, then its boot
loop visits one buffer per step while the other CPU runs. CPU_LOW's loop has
cases for three of the six MPDU buffers (`NumLowInit`).

### TxGroups

A hand-over is one step here (its detail is `TxPktBuf`'s subject); the state is
the group accounting of CPU_HIGH, the two lists of CPU_LOW, the copies of
`gl_dtim_mcast_buffer_enable` and of the beacon mode on each CPU, and CPU_LOW's
place in `poll_tbtt_and_send_beacon` (`bpc`): `tbtt` at the head of the loop,
`beacon` sending, `window` in the multicast loop, `dtim` transmitting a frame,
`sent` polling the mailbox, `check` before the next frame. `latch` is the TU
latch, `mcret` the return flags of `poll_tx_pkt_buf_list`, `ctrlD` the frame in
transmit controller D. `HighSetMcast` and `HighSendMcast` are two steps because
`wlan_exp_node_ap.c:302-311` runs with interrupts enabled.

### RxPktBuf

`state` and `owner` as above, for the receive ring; `low.buf` is
`rx_pkt_buf`. `fifo` is the mailbox to CPU_HIGH, a word of a message at a time
(a header, then its payload), so that a reboot can leave half a message;
`rta` and `thr` are the interrupt's status and threshold. `low.pc` follows
`frame_receive`, the write of READY, the unlock, the message and
`wlan_mac_low_lock_empty_rx_pkt_buf`, which spins; `high.pc` the interrupt
handler, the messages it reads, the reception it processes and the flush after
a read that timed out. `Watchdog` is the schedule that looks at the mailbox again.
`mem` is `wlan_mac_high_read_low_mem` with its time-out; an answer that comes
afterwards raises `late`. Reboots run the boot loops of either CPU one buffer
per step.

### DcfTx

`pc` is the place in `frame_transmit_general`; `src`, `lrc` the counts of the
frame, `station` those of the station with its contention window, `limit` the
two limits, which a message may change in the middle of a frame. `hw` is transmit
controller A with what it sends and what is received in the time-out. `PollRx`
is `frame_receive` as far as it touches the exchange: it may find an ACK, a CTS
(which sends the long MPDU), another node's ACK or anything else, also while
controller A still defers. `delivered`, `owed` and `lowered` are history: the peer
received the MPDU, waveforms not reported yet, a limit went down during the
frame. Counts of the frame wrap at `RetryWrap`, `2^16` in the code.

### ApTim

`tim` is the element in the beacon with the code's bookkeeping: where it is,
which bits are up, the frame length, the pending update and whether the scheduler
still has it. CPU_HIGH runs its handlers with interrupts stopped: one step each,
except `configure_bss` and `update_tim_tag_all`, which are divided where CPU_LOW can
see the difference (`ConfigureBegins`, the TIM, the template lock). CPU_LOW takes
the buffer (`WAIT_FOR_LOCK`), sends it, gives it back. Which queues hold packets is
`occupied`; their packets are the subject of `ApStations`.

### ApStations

Every handler of the AP runs with interrupts stopped and is one step: the
functions of the code are operators on a record of the state, composed in the
order of the code (`RxAssoc` = `station_info_postrx_process`, then `RemoveAuth`,
`AddMember`, the response, the poll it causes). `list` is `station_info_list`,
`info` the structs, `members` and `auth` the lists of entries, `next` the static
pointer of the round robin: its entry may have been freed, and given out again by
`malloc` (`Reused`). `last` is history: what the last dequeued packet said of more
data, and what was true. `AddAssociation` is the command of wlan_exp that associates a
station whether or not it is still listed as authenticated. A station may so be in both
lists, whose entries share a struct. Its time-out, its disassociation and an association
of its own treat both; `deauthenticate_station` treats the member's entry only and drops the
KEEP flag the other one relies on. `severed` records that this has happened; it steers nothing
and is never lowered. `MembersKept` and its neighbours speak of everything up to that
step, the command included; section 4 shows what the step does.

### StaJoin

The commands of wlan_exp run in the main loop with interrupts enabled. Those that start
a scan or a join leave their remaining calls in `main` (`ScanSteps`, `AttemptSteps`), one
step each, and every interrupt may come between two of them; the other commands are one step.
Timer, receive and UART handlers are interrupts, one step each. `rec` and `listed` are the
schedule IDs the code remembers and the schedules the scheduler has. A scan with
`probe_tx_interval_usec = 0` is passive and has no probe schedule (`ScheduleProbe`);
`HostScanParam` sets the interval.

A network is its BSSID, with one channel and one SSID (`SsidOf`), which other networks may share.
`Match` is `wlan_mac_high_find_network_info_SSID`: of the networks with the SSID that was asked
for it takes the one heard last, also when a BSSID was given; the radio goes straight to
a BSSID only if the channel was given too (`by = "both"`). `info`, `list`, `free` are the
structs of networks; what the code removes from a list it walks through is a selection (`Droppable`,
`DropAll`). Entries are dropped, reset and reused at any time, the one of an attempt included.
An AP answers late, twice or unasked (`Answered`).

Four variables are a history, which steers nothing, and name what the properties leave out:

| Variable | Raised when | Code |
|---|---|---|
| `divided` | an interrupt moves the join, or the UART menu acts, while a command is between two steps | `wlan_mac_sta_join.c:348` |
| `scanned` | a scan begins during an attempt | `wlan_exp_node.c:2440` |
| `tuned` | the BSS the node is in is configured during a scan | `wlan_mac_sta.c:1205` |
| `sought` | (the network of the attempt) becomes `None` when its entry is dropped or reused | `wlan_mac_network_info.c:545` |

Each property is stated with its exception, and its core without it is violated by a
configuration of section 4. The interrupts a command admits without `divided` are all others:
beacons, answers that do not complete the association, scan steps, time-outs, data.

### EventLog

`log` are the static variables of `wlan_mac_event_log.c`, `mem` the headers that
memory holds, stale ones included. `MainCheck`, `MainLock`, `MainAllocate` and
`MainWrite` are an entry of the main loop (wlan_exp's EXP_INFO and TIME_INFO): the
test of `log_full` and `allocation_mutex`, the taking of the mutex, the allocation,
the header. `InterruptLogs` is a whole entry of an interrupt, `HostReset` runs with
interrupts stopped. `MoveOldest` follows the lengths in memory, and resets the log
when it meets no header; `Allocate` goes on with the address it had, as the code does.
Two behaviours spoil a log: an interrupt fills it between `MainCheck` and `MainLock`, and
`HostReset` with logging disabled writes no node_info entry. Both are steps of the model;
`spoilt` records them, and a reset with logging enabled lowers it. The properties are about a
log that is not spoilt, including one that was and has been reset (section 4). `EventLogAssumption` asks that the log is longer than what interrupts can
log (`Burst` entries) while the main loop logs one, and three more entries. Nothing in
the code ensures it: the log has all of the DRAM behind the queues (`EVENT_LOG_SIZE`), and
the main loop runs a few lines between the allocation and the header. In a log as small as
the 4 kB that `event_log_init` accepts, interrupts could come round to the main loop's
entry and its header would be written into one of theirs.

### Schedule and EthRx

`Schedule` has no variables: its operators take a record of the scheduler's memory
(`blk`, a `dl_entry` with its `wlan_sched`; the two lists with first, last and length;
the handler's `next`; the timer) and return the new one, function by function of
`wlan_mac_schedule.c` and `wlan_mac_dl_list.c`, pointers included. `wlan_mac_schedule_find`
follows the links as far as `length` says (`Found`). Freed blocks are used again.
A schedule is due or not: targets and clocks are replaced by what their comparison
yields, decided by `TimerInterrupt` for all entries of a walk.

`EthRx` puts the clients on it. `isr` is the visit of `schedule_handler`: `walk`
between two entries, `after` between a callback and the reads of `enabled` and
`num_calls` behind it; `freed` says that the callback has freed what is read.
Callbacks: `TimerEth` (`_wlan_process_all_eth_pkts`, which disables its schedule,
takes some frames and enables it again or lets the interrupt come back), `TimerLtg`,
`TimerTim` (which runs once and may schedule itself anew), `TimerJoin` (which removes
itself and others and may create the next poll in the same memory). `ring` counts the
descriptors that are with the hardware, filled, taken by the software and free; `pool`
and `queued` the queue entries. One program has not all these clients at once: the AP
has no joins and the station no TIM, so that the behaviours of `EthRx` include those of
both. An insertion by the main loop is two steps (`BeginSchedule`, `MainInsert`), because
it runs with interrupts enabled, and every interrupt may come between them. `torn` records
that one has and that it changed the lists of the scheduler, after which the
pointers the main loop has read are stale; it steers nothing and is never lowered (section 4).

`ltg_sched_stop_l` tests `tg_list.length == 0` while the generator it stops is still
in that list (`LtgStop`, `LtgRemove`): the schedule, once started, is never removed.
That costs time and does no harm, and no property forbids it.

## 3. What the runs check

| Run | Constants | Checks | Shows |
|---|---|---|---|
| `tx_pkt_buf` | 4 buffers, limit 2, list 2, mailbox 2 | `OneTokenPerBuffer`, `HandoverAsExpected`, `NoDataRace`, `IInv`, `ImplementsService`, `EveryBufferReturns` | without reboots no announcement is lost or doubled, no error branch is reached, the hand-over implements `TxService` |
| `tx_pkt_buf_reboot` | 2 buffers, limit 2, one reboot | `RebootHandover`, `LeakOnlyInWindow`, `BuffersReturnAfterReboot`, `HighNeverStuck` | a reboot of CPU_HIGH loses at most the buffers of the window its comment admits; a reboot of CPU_LOW never hangs CPU_HIGH except through full mailboxes |
| `reboot_clean` | 2 buffers, 1 in the boot switch | `LowBootCleansUp` violated | finding 1 |
| `groups` | 3 buffers, limits 1 and 1, two switches | `GroupLimits`, `ListsConsistent`, `HeadKept`, `MoreDataHonest`, `NoLostWakeup` | lists and transmissions stay consistent across switches of buffering and beaconing |
| `dcf` | limits 2 and 2, lowered or raised once to 1 or 3, counts of 2 bits, window 1..2 | `SuccessIsAcked`, `LongMpduOnlyForRts`, `WithinRetryLimits`, `AttemptsReported`, `FrameCompletes` | no foreign, early or late response makes a frame a success or starts a transmission from a buffer given back; limits hold although they are tested in two ways |
| `rx` | 2 buffers, mailbox of 2 words, 2 reads, one reboot | `PhyWritesAlone`, `ReadyAnnounced`, `ReadsAnswered`, `LowReceives` | the PHY never writes under CPU_HIGH, no reception is lost without a reboot, and CPU_LOW always receives again unless words were flushed |
| `ap_tim` | 2 stations, 2 reconfigurations, mailbox 1 | `FrameLengthCounted`, `TimOrPending`, `SentUnchanged`, `BeaconComesBack` | the frame is not changed while it is sent, its length stays right, an update is remembered, a beacon comes back |
| `ap_configure` | as `ap_tim` | `ConfigureReturns` violated | finding 2 |
| `event_log` | 30 units, node_info 4, entries of 4 and 6, 1 entry of an interrupt during one of the main loop | `LogReadable`, `OldestFirst` | following the lengths from the oldest entry leads to the end of the log, through wraps, a full log and switches of wrapping; entries are lost from the oldest on |
| `ap_stations` | 2 stations, 2 structs, 2 queue entries, 1 buffer, at most 1 authenticated and 2 associated | `PacketsPinned`, `MembersKept`, `NoLostWakeup` | a packet keeps its struct, IDs stay unique and every entry has its struct although wlan_exp associates stations that are listed already; the poll loses no wake-up although its pointer may be stale |
| `sta` | 2 networks, 2 structs, schedules 1 per kind | `SchedulesOwned`, `DataOnChannel`, `ActiveKept`, `JoinsRequested`, `JoinEnds` | commands, answers, time-outs, active and passive scans and resets in any order leave no orphan schedule and no data on a foreign channel, and a join ends where it was aimed, with the exceptions of section 4 |
| `eth_rx` | 5 schedules, 2 descriptors, 1 more queue entry, 1 frame enqueued and 2 processed at a time, 2 joins, 1 generator | `ListsSound`, `ClientsServed` | whatever callbacks do to the list under the handler, links, flags and timer stay right; frames, descriptors and generators have somebody to wake them |

`MCTxGroupsLive.cfg` is kept beside the runs: without configuration changes the
multicast queue is drained (`McastServed` holds).

Each module's type invariant `TypeOK` (with a prefix where two modules meet) is the first conjunct of one of its
invariants (`IInv`, `RebootHandover`, `ListsConsistent`, `WithinRetryLimits`,
`PhyWritesAlone`, `FrameLengthCounted`, `PacketsPinned`, `ActiveKept`,
`LogReadable`, `ListsSound`).

**Bounds.** In `tx_pkt_buf` four buffers and a limit of two keep the relation of
the source (more buffers than the limit, a list as long as the limit); the
mailbox of two messages fills, which the real one of 512 words rarely does. In
`tx_pkt_buf_reboot` two buffers suffice for a stale message about one buffer
while the other is handed over; one reboot is the bound because stale messages
of a second one multiply. In `groups` one buffer is left when both groups are
full, as in the source (6 = 2 + 3 + 1), and the list has a place for each buffer
within the limits (5 = 2 + 3); two switches allow buffering off and on again, and
a change of the beacon mode in between. The queue holds one multicast packet at
a time: more only repeats its arrival. In `dcf` limits of 1, 2 and 3 give a last
attempt, an attempt between and a limit passed from above; two bits make a count
that passed its limit wrap within a run. In `rx` two words let a message be cut in
half and the mailbox fill between them; two reads are needed for an answer to the
wrong one. In `ap_tim` two octets of two bits exist, so that a station may lie outside
the octets sent; two reconfigurations let one meet what another left. In
`ap_stations` two structs for two stations and the multicast address make reuse
inevitable, and one buffer makes packets wait (277,218 distinct states, two minutes); `Stations` and `Infos` are symmetric
(the properties are per state or step, and no operator chooses between structs
that a stale pointer does not tell apart). In `sta` two networks and two structs let
a struct change its network (59,788 distinct states); `MCStaJoinShared.cfg` repeats its safety
properties with three networks, of which two share their SSID, for two structs (254,292). In `event_log` two lengths let entries end at, before and
behind the end of the log, of which it holds four to six, more than the assumption
`NodeInfoEntry + 4 * s < Size` asks for: with less room both addresses can pass each
other in one wrap. The code asks for 4 kB only, but gives the log the rest of the DRAM.
In `eth_rx` five blocks hold one schedule of each kind and a second join, so that a
callback removes two neighbours, its own schedule among them; a sixth would be needed
only while the TIM update reschedules itself with all five present, and that step
waits until a block is free. Two descriptors and one frame enqueued at a time leave a
frame for the schedule; one spare queue entry lets the pool run empty. Blocks are
symmetric: no operator prefers one.

**Constraints.** Three histories are never lowered, and once one is raised the properties
conditioned on it hold whatever follows. The runs leave out those states: `Undivided`
(`~divided`) in `sta`, `NotSevered` (`~severed`) in `ap_stations`. TLC checks invariants in
the states a constraint cuts off, and action properties on the steps into them, so that no
violation is lost. `JoinEnds` is satisfied by any behaviour with `divided`. In
`eth_rx` one part of `ClientsServed` does not depend on `torn`; `HandlerUntorn` therefore leaves out
only the timer handler's walk through torn lists, in which the code follows
pointers into freed memory and the model does not say where to. `spoilt`, `scanned`,
`tuned` and `sought` need none. The theorems know no constraint.

`CHECK_DEADLOCK FALSE` stands where the system really stops: a halted CPU (the
reboot configurations) and the spinning lock of finding 2 (`MCApTim*`).

**Fairness.** Neither CPU stops inside a handler, and CPU_LOW's loop polls its
mailbox and list in turn: weak fairness of the groups of actions of each. The
mailbox interrupt is taken whenever CPU_HIGH restores interrupts, however often
its queues are polled: strong fairness of `HighRecvDone`/`HighDone`. In
`TxGroups` a TBTT comes, a beacon is not skipped for ever, one of `dtim_period`
beacons is a DTIM and a multicast frame is not interrupted at every TBTT. Nothing
is assumed of when packets are queued, nor of GENERAL transmissions there.
`DcfTx`: software and hardware run (weak); the medium is not busy for ever and not
every CTS is answered too late (strong fairness of the end of the backoff and of
`CtsInTime`). `RxPktBuf`: both CPUs run (weak), the watchdog is a schedule that
repeats for ever (strong, for its condition comes and goes). `ApTim`: both CPUs
and the scheduler run (weak); the spinning lock of `configure_bss` meets the buffer
free, because a beacon takes a fraction of the interval (strong fairness of
`ConfigureTemplate`; without it a lock that always loses would hide finding 2).
`ApStations`, `EventLog` and `EthRx` need none. `StaJoin`: the main loop and the poll of an
attempt run (weak), and an AP that owes an answer again and again, because it has heard a request in
the state it answers, is heard once (strong, per network and kind of answer): a medium that loses
every frame ends no attempt. The formulas are written out because TLC takes minutes to evaluate
`ENABLED` of these actions.

## 4. Findings

1. `wlan_mac_low.c:171` names three of six MPDU buffers (`reboot_clean`).
2. `wlan_mac_ap.c:2138` and `2209` set the beacon buffer to HIGH_CTRL without its
   mutex. A TBTT before the template is written makes CPU_LOW take the mutex, see
   a state that is not READY, and return with the mutex held
   (`wlan_mac_low.c:853-865`); the loop at `wlan_mac_ap.c:2244` then never ends
   (`ap_configure`).
Further disagreements, each found by TLC with a configuration that is kept beside
the others (`tlc -config X.cfg M`, with `M` = `EventLog` for `MCEventLog*.cfg` and the
MC module the name begins with for the others). `MCApTimPending.cfg` and `MCStaJoinShared.cfg`
also hold other properties: `-continue` shows which ones fail and which do not.

| Configuration | Violated | What happens |
|---|---|---|
| `MCTxPktBufRebootDone` | `DoneHandlerSucceeds` | `wlan_mac_low.c:189`: the DONE handler "will succeed normally" when CPU_LOW resets the buffer meanwhile; the poll at `wlan_mac_high.c:1384` may refill it and line 1395 then overwrites READY |
| `MCTxGroupsAvailable` | `AvailableCanBeFilled` | `wlan_mac_high.c:1948` tests for one empty buffer and returns up to the whole limit; the surplus packet is freed unsent |
| `MCTxGroupsResume` | `ResumeSubmitted` | `wlan_mac_dcf.c:550-553` resets controller D but not `dtim_mcast_paused`; the paused frame is later finished unsent |
| `MCApTimBits` | `TimReflectsQueues` | the TIM does not follow the queues: `update_tim_tag_aid` writes bit 0 of the octet whatever the AID (`wlan_mac_ap.c:418`), `queue_state_change` converts in the wrong direction (line 392), and the full rewrite (lines 594-617) never lowers bits of octet 0 |
| `MCApTimPending` | `PendingIsScheduled` | an update that fires while there is no BSS returns before it clears its ID (`wlan_mac_ap.c:520`); later calls wait for an event that is gone |
| `MCApTimPending` | `LowKnowsTim` | CPU_LOW writes the DTIM count where an earlier beacon had its TIM |
| `MCApStationsSevered` | `EntriesKept` | `wlan_exp_node_ap.c:448` associates a station that is still listed as authenticated; when it is deauthenticated, its struct loses the KEEP flag while the list of authenticated stations still points to it |
| `MCApStationsMore` | `MoreDataTruthful` | MORE_DATA is decided while `num_tx_queued` still counts the packet itself (it is decremented after the hand-over, `wlan_mac_queue.c:529`): every packet announces another one |
| `MCStaJoinDivided` | `SchedulesExact` | `wlan_mac_sta_join.c:348`: an interrupt ends the attempt before the main loop schedules its poll, which then stays |
| `MCStaJoinTuned` | `DataHeard` | `wlan_mac_sta.c:1205`: `configure_bss` of the present BSS unpauses the data queue during a scan |
| `MCStaJoinScanned` | `AttemptEnds` | a scan started during an attempt takes the radio off the AP's channel |
| `MCStaJoinReused` | `SsidJoined` | `wlan_mac_network_info.c:545`: the struct of the attempt is cleared and given to another network, which is joined |
| `MCStaJoinShared` | `BssidJoined` | `wlan_mac_sta_join.c:261-283` and `443-458`: a join with a BSSID but no channel looks for the SSID only and may end in another network that has it |
| `MCEventLogSpoilt` | `NodeInfoFirst` | "A node_info_entry is guaranteed to be present as the first entry in the log" (`wlan_mac_event_log.c:224`), but a reset while logging is disabled writes none, and the next wrap then skips bytes that are no entry. The same follows when an interrupt fills the log after the main loop has tested `log_full` (line 641): the main loop then allocates at the start of a full log |
| `MCEthRxTorn` | `ListsIntact` | "all list operations should be atomic (ie interrupts should be disabled before manipulating the list" (`wlan_mac_dl_list.c:32-34`), but a traffic generator started from the main loop (`wlan_exp_node.c:1314`, `wlan_mac_ltg.c:272`) inserts its schedule with interrupts enabled; an interrupt that schedules the TIM update or the processing of frames meanwhile has its schedule drop out of the list |

## 5. What is proved

`TxPktBufProofs` proves for every `NumMpdu`, `GeneralLimit`, `MaxPending` and
`MailboxDepth` that satisfy `ConstantsAssumption` (naturals, not zero where the
code needs one, and `GeneralLimit <= MaxPending`): `TypeCorrect`, `OneToken`,
`HandoverCorrect`, `NoRace`, `LimitsRespected`.

The properties are not inductive: that a lock succeeds depends on the whole way
of a buffer. The invariant `IInv` follows a *token* per buffer. `TokenOfHigh`,
`TokenInMailbox` and `TokenOfLow` say that state and mutex are determined by the
place the token is in (a program counter with its register, a mailbox, the list)
and that it is in one place only; `TokenExists` says that a buffer CPU_HIGH does
not control has a token; `Reserved` adds the buffers a poll may still fill to
those CPU_LOW owns. `TokenInv` is inductive by itself (`NextTokenInv`, one lemma
per action; `NoErrorStep` disposes of the error branches), `IInv` on top of it.
TLC checks `IInv` in `tx_pkt_buf`.

`CpuLowProofs` proves the safety of `DcfTx` for all constants that satisfy
`DcfAssumption`: `DcfInvariance`, `SuccessAcked`, `LongMpduSafe`,
`RetryLimitsKept`, `AllAttemptsReported`. `DcfInv` adds to the properties what
they depend on: `Exchange` (controller A is idle outside the inner loop, a
transmission without a response ends without one, an ACK follows a delivery, a CTS is
awaited only for an RTS), `Budget` (both counts are below limits nobody lowered
everywhere inside a frame, not only at the next attempt) and `Reported` (what is
owed to CPU_HIGH is fixed by the place in the code and the phase of the controller). There is
one lemma per action, and one step per conjunct under it. Before the proof TLC
checked `DcfInv` on the instance of `dcf`.

The refinement `ServiceImplemented` (`Spec => ImplementsService`) is proved in
`TxPktBufProofs` too, on top of `TokenInv`: `TxService`'s queue of pending buffers is the
ready list, the message being handled, the mailbox and the buffer CPU_HIGH has yet to
announce, one after the other. A step of the detailed module either moves a buffer from
one of these to the next, which leaves their concatenation as it is (`ConcatMove`), or is
a submission, a completion or a recycling.

The reboots are proved there as well: `RebootSafe` and `LeakBounded`, from
`ConstantsAssumption` and `RebootAssumption` alone, for any number of reboots of either
CPU at any step. `IInv` is lost with the first reboot, since a rebooted CPU_HIGH forgets
its registers and lists while its announcements and CPU_LOW's answers are still under
way, and every error branch of CPU_HIGH becomes reachable. What remains is `RebootInv`.
`RebootTypes` holds through everything. Until CPU_LOW reboots (`reboot.low = 0`, the
condition both properties state) the state words and the mutexes still say who may go on:
`HighHolds` and `LowHolds` (what the program counter of each CPU implies for the buffer in its
register), `Unlocking` (CPU_HIGH's boot loop may take a buffer CPU_LOW has just marked DONE and not
released) and `NoneLost` (a buffer whose state needs a message has one, unless a reboot hit the
window `LeakOnlyInWindow` names). It was checked by TLC with two reboots of either CPU.

`CpuLowProofs` also proves the three safety properties of `RxPktBuf` for any number of
buffers, words in the mailbox, reads and reboots. `PhyAlone` needs only `HoldInv`: state
word and mutex of the buffer each CPU works on, and what the program counters say of the
registers. It is inductive with reboots at any moment, because the boot code and the
handlers decide by the state word alone. `Announcing` adds `NoReboot`, whose two parts
depend on each other: the words in the mailbox are whole messages (`Framed`), and a
buffer is READY exactly while one message is at CPU_LOW, in the mailbox or at CPU_HIGH
(`OneMessage`). The counted form, `ReadyAnnounced`, follows from it. `ReadAnswers` adds `ReadInv`: a
request or its answer is under way once, and only while its read waits.

`TxGroupsProofs` proves all five invariants of `TxGroups` for any number of buffers, any
limits and any number of switches. `GroupsInv` says where a buffer is (`Places`: in
a mailbox, in one of the lists, or being recycled, once), that the lists follow
CPU_LOW's mode (`Lists`), that the head being transmitted or paused is still the head
(`HeadKept`), and which frame a MORE_DATA bit stands for, in whichever list a switch has put it
(`MoreWaits`); `ListsSound`, `HeadStays` and `MoreDataKept` follow. `LimitsKept` and
`WakeupsKept` concern a node whose configuration nobody changes (`switches = 0`, as the
properties say) and add `Booted` (CPU_LOW reads its configuration before the first
buffer), `Counted` (what a poll has counted as available it may still fill), `Listed`,
and `Awake`. Each assumes of the constants what the code's
numbers satisfy and the proof cannot do without: that both limits fit into CPU_LOW's list
(`GeneralLimit + DtimLimit <= MaxPending`; 2 + 3 <= 5, `wlan_mac_high.c:1952-1973` and
`MAX_NUM_PENDING_TX_PKT_BUFS`), and, for `WakeupsKept` only, that one buffer is left
when both groups are full (6 > 2 + 3): the DONE handler polls *before* it recycles its
buffer.

`CpuHighProofs` proves the safety of `ApTim` for any number of association IDs, any width of an
octet and any SSID lengths. `Updated` is the contract of the functions that write
the TIM, proved once for each, from the rewrite of the element to `queue_state_change`: the
length counts the element, nothing that was present or pending is forgotten, and nothing
changes while CPU_LOW has the buffer. `TimInv` adds the states between the
template and its TIM (`InFrame`: the element CPU_HIGH remembers is not in the frame yet)
and that a beacon is sent under the mutex. `LengthKept`, `TimOrUpdate` and the action
property `NotWhileSent` follow.

`StaJoinProofs` proves the safety of `StaJoin` for any number of networks, structs and
schedule IDs and any assignment of SSIDs, from `StaJoinAssumption` alone. `StaInv` is
what `TypeOK` and the four properties need up to the first command that an interrupt divides
(`~divided`), and holds through the interrupts that come between the steps of a command and leave its
state alone. It is a contract for the functions of the code: `Base(t, P)`
and `Joining(t, P)` describe a state `t` in which the schedules of the kinds `P` are owed, that
is, their state has begun and the schedule is still to be created. `Base` has what
holds whatever the state of the join: each schedule listed once under its recorded ID
(`Scheduled`), each struct in one list and only that of the BSS kept (`Kept`), data and
channel of the BSS (`Connected`), the borrowed SSID. `Joining` ties polls, SSID and attempt
to `join_state`, and `Wanted` the attempt to the target. Each function has one lemma that
says what it needs and what it leaves (`ScanBeginSound` begins to owe both schedules of
the scan, `ScheduleSound` pays one, `ReturnToIdleSound` restores everything from `Base` alone);
interrupts go from `P = {}` to `P = {}`, and `StaInv` says for each place of a command
in the main loop what it owes (`Owed`). An interrupt between two steps owes the same before and
after (`OwedSame`), unless it divides the command. A passive scan owes no probe (`Scanning`).
`Connected` has for `DataOnChannelAlways` that only `tuned` lets the queue run during a
scan, and `Wanted` for `JoinsRequestedAlways` that `sought` has the SSID of the target, and is the target if
its channel was given, until the entry is dropped or reused (`Settled`). Scans in the middle of a join, resets of
the network list and reuse of any struct are steps like the others.

`EventLogProofs` proves both properties of `EventLog` for any size of the log, any lengths
of its entries and any `Burst`, from `EventLogAssumption` alone. While the log is spoilt `Shaped` keeps what is
left of the types; a reset with logging enabled establishes the rest anew from any such state
(`BeginChained`, `ResetStep`), and nothing else ends that (`SpoiltStep`). `Walk` says what the function `Boundary`, which follows the lengths in
memory, yields on a chain of entries: the first boundary past the end, never `Garbage`.
`AllocateFacts` reduces an allocation to four outcomes (it goes on at the end, goes on
before the oldest entries, wraps, or stops the log) and says how far memory has to be known
for that (`Known`). `EventLogInv` has the chains (`Chained`: from the start
to the next entry, the discarded ones included, because a wrap walks over them again; and from the
oldest entry to where the log wrapped, which is less than one entry from its end) and, for
the entry the main loop has allocated and not written, `Guarded`: interrupts that have
logged `b` entries since have neither come round to it nor moved the oldest address over
it. Then an interrupt never follows a length that is not there yet, and the header
can be written later as if it had been written at once (`WrittenCommute`).
`LogReadableAlways` follows. `OldestFirstAlways` looks at the four outcomes again
(`OldestGone`): what is discarded lies between the old and the new oldest address, and at least
the entry before the next one, or the first after the node_info entry, remains.

`ApStationsProofs` proves the type invariant, `PacketsPinned`, `MembersKept` and the action
property `NoLostWakeup` of `ApStations` for any number of stations, structs, queue entries,
packet buffers and any limits, up to the step `severed` records. The
functions of the code take a record of the state, and so does the invariant: `Sound(t)`
says that the station list has each struct and each address once (`Listed`), that
`num_tx_queued` of each struct is the number of its packets in all queues and keeps it in the
list (`Counted`), that members have rising IDs and structs that are kept, with
the address and the ID of the entry (`Entered`), that an authenticated station has one entry,
whose struct is kept and has its address (`Held`; its ID may be another by now), and that the
pointer of the round robin is to a member's entry or known not to be (`Pointed`).
A station may be in both lists; then both entries have the same struct, because no two
listed structs have one address, and every function that drops a KEEP flag has to have
taken the station out of both. Only `deauthenticate_station` may not have
(`InBoth`), and then the step is the one `severed` records. `Sound` is a contract of every function, one
lemma each, from `Create` to `DeauthenticateEach`; `PlaceFacts` with `NoHoles` and `IdLeft`
shows that `station_info_add` finds an ID that fits between its neighbours and is within the
queues there are, whatever holes removals have left.

For `NoLostWakeup` the lemmas also say what a function leaves of the backlog (`Backlog`: a
packet that a poll would send, and every buffer idle): `Calm` functions add no
member and no backlog, and a poll leaves none (`PollFacts`). The latter is the round-robin argument. `Went`
follows the turns of the loop as positions modulo one more than the number of members
(the multicast queue is position 0): a walk that starts at an entry or at its end and sends nothing
visits every position once (`PollDataFacts`). From a freed entry it may miss some, but then it
ends at a position, and the second poll of the group in the same call visits them all.

`CpuHighProofs` also proves both properties of `EthRx`, pointers included, for any finite
number of schedules, any ring and pool and any limits of a poll, with interrupts between
the two steps of an insertion. What does not depend on the lists (the ring and the pool)
is proved through everything, `torn` or not; the rest up to the first interrupt that
changes the lists under an insertion. The argument has three layers.

* `Linked(blk, L, q)`: the links of a list spell an injective sequence `q` of blocks.
  `LinkedFirst`, `LinkedLast` and `LinkedRemoved` say what the writes of
  `dl_entry_insertBeginning`, `dl_entry_insertEnd` and `dl_entry_remove` make of `q`, from
  the values of the fields alone, and `LinkedFrame` that a list does not notice writes to
  other blocks. `ChainFacts` ties `q` to what following `next` yields, hence `Found` (the
  loop of `wlan_mac_schedule_find`) and `Sound` to it; because `q` is injective, it is
  no longer than there are blocks, and `length` never cuts the loop short.
* `Orderly(s, Z, N)`: the two lists of `s` are linked and disjoint, each holds the schedules whose
  flag says so, `next` is in the enabled list or NULL, and the timer runs if anything is
  enabled; schedules of `Z` may be at the end of their last call, those of `N` are prepared
  and not yet inserted. It is the contract of every function of `wlan_mac_schedule.c`.
  With it goes `SameClients`: the portal's schedule stays where it is, that of the
  generators stays.
* `EthInv`: between steps `Z` is the schedule whose callback has just returned, unless the callback
  freed it (`Waiting`), and `N` the one the main loop is inserting. `Owned` says whose the
  schedule of the portal is: disabled and remembered in `rx_schedule_dl_entry` while the interrupt
  is enabled, enabled while it is not. `RingInv` keeps the counts of descriptors and
  entries, and `LtgInv` gives a running generator its schedule.

Two facts make it inductive that the properties do not mention: only the portal disables a
schedule, and only the update of the TIM has calls that are counted. So `wlan_mac_schedule_disable_id`
never meets the schedule of a last call, and the read behind a callback that freed
its schedule (`freed`) can at worst move the target of another one.
`ListsSoundAlways` and `ClientsServedAlways` follow. `IsFiniteSet(Blocks)` is assumed
because lengths are compared with the number of blocks; memory is finite.

`QueueLemmas` proves what `Selected` yields (range, length, order, no entry twice).
Recursive functions over `0 .. n` are within reach: the set of the `n` for which the
claim holds is shown to be `Nat` (`SmallestOf`, `NatInduct`), which needs no theorem with an
operator as parameter.

Each inductive invariant was checked by TLC on the instance of its run before it was
proved.

Only model-checked:

* every liveness property: liveness under fairness is
  out of the prover's reach;
* `MoreDataTruthful` of `ApStations`, which is false (section 4).

## 6. Not modelled

The RTS and ACK buffers of the Tx buffer RAM, which CPU_LOW uses alone; parameter
messages other than those that change modelled state; a call of the STA's
`poll_tx_queues` outside interrupt context, which does not stop interrupts; the
links of `dl_list` outside the scheduler (elsewhere lists are sequences) and
`dl_entry_move`; target times and clocks of the scheduler; failing allocations of
schedules; errors of the Ethernet DMA (`wlan_w3_high/w3_eth.c:496` has a TODO);
memory ordering of the bus (both CPUs access the RAM uncached); PHY timing inside a
frame; rates, powers, antennas, statistics and logs; encodings of frames and
commands; and the components marked `not_modelled`: NoMAC (a DCF without retries),
packet construction, and what accesses registers only. `wlan_mac_schedule_enable`
tests the length of the FINE list also for the COARSE scheduler (line 333); its only
caller uses the FINE one.

## 7. Plan

1. `TxPktBuf`, `TxPktBufReboot`, `TxGroups`: done.
2. `RxPktBuf`, `DcfTx`, `ApTim`, `ApStations`, `StaJoin`, `EventLog`, `Schedule` with `EthRx`: done.
3. Proofs: `DcfTx`, `RxPktBuf`, `TxGroups`, `ApTim`, `StaJoin`, `EventLog`, `ApStations`,
   `Schedule` with `EthRx`, the reboots and `Spec => ImplementsService`: done.
4. The nested poll of the STA in `TxPktBuf`; Ethernet transmission.

Modules meant for proofs use no RECURSIVE operator.

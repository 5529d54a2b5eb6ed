------------------------------ MODULE EventLog ------------------------------
(* The event log of CPU_HIGH (wlan_mac_event_log.c): a circular buffer of   *)
(* entries of different lengths, the first of which is always a node_info   *)
(* entry.  Entries are allocated by the main loop (wlan_exp commands) and   *)
(* by interrupts, which come between any two steps of the main loop; the    *)
(* header of an entry is written after allocation_mutex is released.        *)
(*                                                                          *)
(* Abstractions: addresses are offsets from log_start_address in units the  *)
(* constants choose, with the last one, log_max_address, inside the log; of *)
(* the memory only the headers with the magic number are kept, and an entry *)
(* overwrites those below it when its own header is written; log_num_wraps  *)
(* and log_count, which no step reads, and the time stamp of the node_info  *)
(* entry are left out.  wrap_buffer is 0 and never changes.                 *)
(*                                                                          *)
(* Two behaviours of the code spoil the log until the next reset that       *)
(* writes a node_info entry: an interrupt fills it between the test of      *)
(* log_full and its use, and a reset with logging disabled writes none.     *)
(* spoilt records them.                                                     *)
EXTENDS Integers, FiniteSets

CONSTANTS
    Size,            \* log_size
    NodeInfoEntry,   \* sizeof(node_info_entry) + sizeof(entry_header)
    Sizes,           \* total sizes of the other entries
    Burst            \* entries logged by interrupts during one of the main loop

\* The log is much larger than its entries (the code asks for 4 kB only), and
\* than the entries interrupts log while the main loop logs one.
ASSUME EventLogAssumption ==
    /\ Size \in Nat /\ NodeInfoEntry \in Nat \ {0} /\ Sizes \subseteq Nat \ {0}
    /\ Burst \in Nat
    /\ \E longest \in 0 .. Size :
          /\ \A s \in Sizes : s <= longest
          /\ NodeInfoEntry + 4 * longest < Size
          /\ NodeInfoEntry + (Burst + 3) * longest < Size

VARIABLES
    log,    \* the pointers and flags, see LogType
    mem,    \* the headers in memory: records [at, size, info]
    main,   \* the entry the main loop is logging, see MainType
    burst,  \* entries interrupts have logged meanwhile
    spoilt  \* history: the log has been spoilt since its last reset

vars == <<log, mem, main, burst, spoilt>>

MaxAddress == Size - 1
None == -1
Garbage == -2
Addresses == 0 .. Size
LogType ==
    [oldest : Addresses, next : Addresses, softEnd : Addresses, empty : BOOLEAN,
     full : BOOLEAN, wrap : BOOLEAN, enabled : BOOLEAN, mutex : BOOLEAN]
HeaderType ==
    [at : Addresses, size : Sizes, info : {FALSE}]
    \cup [at : {0}, size : {NodeInfoEntry}, info : {TRUE}]
MainType ==
    [pc : {"idle"}]
    \cup [pc : {"checked"}, size : Sizes]
    \cup [pc : {"locked"}, size : Sizes, end : Nat]
    \cup [pc : {"allocated"}, size : Sizes, at : Addresses]

\* The state as a record t, on which the functions of the code are operators;
\* at is the address that event_log_get_next_empty_address returns.
Now == [log |-> log, mem |-> mem, at |-> None]
Set(t) == log' = t.log /\ mem' = t.mem

\* The header and payload of an entry are written to the headers m.
Written(m, a, size, info) ==
    {h \in m : h.at \notin a .. (a + size - 1)}
    \cup {[at |-> a, size |-> size, info |-> info]}

\* event_log_reset; on the log as it is then add_node_info_entry writes at the
\* start, when logging is enabled.
Reset(t) ==
    LET u == [t EXCEPT !.log = [@ EXCEPT !.softEnd = MaxAddress, !.oldest = 0,
                !.next = IF t.log.enabled THEN NodeInfoEntry ELSE 0,
                !.empty = ~t.log.enabled, !.full = FALSE, !.mutex = FALSE]]
    IN  IF t.log.enabled
        THEN [u EXCEPT !.mem = Written(@, 0, NodeInfoEntry, TRUE)]
        ELSE u

\* From an address on, the first entry boundary past end.
Boundary(m, end) ==
    LET At(a) == {h \in m : h.at = a}
        past[a \in 0 .. 2 * Size] ==
            IF a > end THEN a
            ELSE IF At(a) = {} THEN Garbage
            ELSE past[a + (CHOOSE h \in At(a) : TRUE).size]
    IN  past
\* event_log_move_oldest_address
MoveOldest(t, end) ==
    LET past == Boundary(t.mem, end)[t.log.oldest]
    IN  IF past = Garbage THEN Reset(t) ELSE [t EXCEPT !.log.oldest = past]

\* Mutant: room is made at the start without regard to the size.
IncrementOldestFirst(t, end, size) ==
    IF end >= t.log.softEnd
    THEN MoveOldest([t EXCEPT !.log = [@ EXCEPT !.softEnd = MaxAddress,
                                                !.oldest = NodeInfoEntry]],
                    NodeInfoEntry)
    ELSE MoveOldest(t, end)
\* event_log_increment_oldest_address
IncrementOldest(t, end, size) ==
    IF end >= t.log.softEnd
    THEN MoveOldest([t EXCEPT !.log = [@ EXCEPT !.softEnd = MaxAddress,
                                                !.oldest = NodeInfoEntry]],
                    NodeInfoEntry + size)
    ELSE MoveOldest(t, end)

\* Oldest entries make room for an allocation up to end.
Room(t, end, size) ==
    IF end > t.log.oldest THEN IncrementOldest(t, end, size) ELSE t

NotWrapped(l) == l.next > l.oldest \/ (l.next = 0 /\ l.oldest = 0)
FromStart(t, end) ==
    [t EXCEPT !.log = [@ EXCEPT !.softEnd = t.log.next, !.next = end],
              !.at = NodeInfoEntry]
Stopped(t) ==
    [t EXCEPT !.log = [@ EXCEPT !.full = TRUE, !.softEnd = t.log.next,
                                !.oldest = 0, !.next = 0]]
InPlace(t, end) == [t EXCEPT !.log.next = end, !.at = t.log.next]

\* event_log_get_next_empty_address with the mutex; end was computed before.
Allocate(t, size, end) ==
    LET first == NodeInfoEntry + size
        wrapped == Room(t, end, size)
        u == IF NotWrapped(t.log)
             THEN IF end <= t.log.softEnd THEN InPlace(t, end)
                  ELSE IF t.log.wrap THEN FromStart(Room(t, first, size), first)
                  ELSE Stopped(t)
             ELSE IF end <= wrapped.log.softEnd THEN InPlace(wrapped, end)
                  ELSE IF t.log.wrap THEN FromStart(wrapped, first)
                  ELSE Stopped(wrapped)
    IN  [u EXCEPT !.log.mutex = FALSE]

\* Mutant: an interrupt does not look at the mutex.
FreeUnlocked(l) == ~l.full
Free(l) == ~l.full /\ ~l.mutex
NotEmpty(t) == [t EXCEPT !.log.empty = FALSE]

Init ==
    /\ log = [oldest |-> 0, next |-> NodeInfoEntry, softEnd |-> MaxAddress,
              empty |-> FALSE, full |-> FALSE, wrap |-> TRUE, enabled |-> TRUE,
              mutex |-> FALSE]
    /\ mem = {[at |-> 0, size |-> NodeInfoEntry, info |-> TRUE]}
    /\ main = [pc |-> "idle"]
    /\ burst = 0
    /\ spoilt = FALSE

\* The main loop asks for an entry.
MainCheck(size) ==
    /\ main.pc = "idle" /\ log.enabled
    /\ Set(NotEmpty(Now))
    /\ main' = IF Free(log) THEN [pc |-> "checked", size |-> size] ELSE main
    /\ UNCHANGED <<burst, spoilt>>

\* It takes allocation_mutex and computes where the entry would end.
MainLock ==
    /\ main.pc = "checked"
    /\ log' = [log EXCEPT !.mutex = TRUE]
    /\ main' = [pc |-> "locked", size |-> main.size, end |-> log.next + main.size]
    /\ UNCHANGED <<mem, burst, spoilt>>

MainAllocate ==
    LET t == Allocate(Now, main.size, main.end)
    IN  /\ main.pc = "locked"
        /\ Set(t) /\ UNCHANGED spoilt
        /\ IF t.at = None
           THEN main' = [pc |-> "idle"] /\ burst' = 0
           ELSE /\ main' = [pc |-> "allocated", size |-> main.size, at |-> t.at]
                /\ UNCHANGED burst

MainWrite ==
    /\ main.pc = "allocated"
    /\ mem' = Written(mem, main.at, main.size, FALSE)
    /\ main' = [pc |-> "idle"] /\ burst' = 0
    /\ UNCHANGED <<log, spoilt>>

\* An interrupt logs an entry; none interrupts it.  When it fills the log that the
\* main loop has found free, the main loop allocates all the same.
InterruptLogs(size) ==
    LET t == Allocate(NotEmpty(Now), size, log.next + size)
    IN  /\ log.enabled
        /\ main.pc # "idle" => burst < Burst
        /\ Set(IF ~Free(log) THEN NotEmpty(Now)
               ELSE IF t.at = None THEN t
               ELSE [t EXCEPT !.mem = Written(@, t.at, size, FALSE)])
        /\ burst' = IF main.pc = "idle" THEN burst ELSE burst + 1
        /\ spoilt' = (spoilt \/ (main.pc = "checked" /\ log'.full))
        /\ UNCHANGED main

\* event_log_config_logging, by wlan_exp or by the UART menu.
ConfigLogging(enable) ==
    /\ log' = [log EXCEPT !.enabled = enable]
    /\ UNCHANGED <<mem, main, burst, spoilt>>

\* event_log_config_wrap, by wlan_exp.
ConfigWrap(enable) ==
    /\ main.pc = "idle"
    /\ log' = [log EXCEPT !.wrap = enable]
    /\ UNCHANGED <<mem, main, burst, spoilt>>

\* The reset command of wlan_exp, with interrupts stopped; it writes no node_info
\* entry when logging is disabled.
HostReset ==
    /\ main.pc = "idle"
    /\ Set(Reset(Now))
    /\ spoilt' = ~log.enabled
    /\ UNCHANGED <<main, burst>>

Next ==
    \/ \E size \in Sizes : MainCheck(size) \/ InterruptLogs(size)
    \/ MainLock \/ MainAllocate \/ MainWrite
    \/ \E enable \in BOOLEAN : ConfigLogging(enable) \/ ConfigWrap(enable)
    \/ HostReset

Spec == Init /\ [][Next]_vars

-----------------------------------------------------------------------------

\* Where the entries of the log are: from the start or the oldest one to where
\* the next one goes, or to where the log wraps or has stopped.
Segments(l) ==
    IF l.full THEN {<<0, l.softEnd>>}
    ELSE IF l.oldest = 0 THEN {<<0, l.next>>}
    ELSE IF l.next > l.oldest THEN {<<0, NodeInfoEntry>>, <<l.oldest, l.next>>}
    ELSE {<<0, l.next>>, <<l.oldest, l.softEnd>>}

\* The entry the main loop has yet to write counts as written.
Entries ==
    IF main.pc = "allocated" THEN Written(mem, main.at, main.size, FALSE) ELSE mem

\* From lo to hi one entry of E follows on another.
Followed(E, h, hi) ==
    /\ h.at + h.size = hi \/ \E g \in E : g.at = h.at + h.size
    /\ h.at + h.size <= hi
    /\ \A g \in E : g.at <= h.at \/ g.at >= h.at + h.size
Tiled(E, lo, hi) ==
    /\ lo = hi \/ \E h \in E : h.at = lo
    /\ \A h \in E : h.at \in lo .. (hi - 1) => Followed(E, h, hi)

TypeOK ==
    /\ log \in LogType /\ mem \subseteq HeaderType
    /\ main \in MainType /\ burst \in 0 .. Burst

\* NodeInfoFirst: a node_info entry is the first entry of a log that has one,
\* whatever was reset, wrapped or filled while interrupts logged entries.
NodeInfoFirst == ~log.empty => \E h \in mem : h.at = 0 /\ h.info

\* LogReadable: whoever follows the lengths of the entries from the oldest one
\* on (wlan_exp's log reader, event_log_move_oldest_address) comes from entry to
\* entry to the end of the log; the parts do not overlap and none is outside the
\* memory of the log; and the first entry is the node_info entry.  Several
\* allocations of main loop and interrupts, wraps, discarded entries and changes
\* of the wrap flag lie between the writing of a length and its use.  A log that
\* has been spoilt is readable again after a reset with logging enabled.
LogReadable ==
    ~spoilt =>
      /\ TypeOK
      /\ \A s \in Segments(log) :
            s[1] <= s[2] /\ s[2] <= MaxAddress /\ Tiled(Entries, s[1], s[2])
      /\ \A s, r \in Segments(log) : s[1] < r[1] => s[2] <= r[1]
      /\ NodeInfoFirst

\* The entries of a log l with the headers E, the first one aside.
Live(l, E) == {h \in E : h.at # 0 /\ \E s \in Segments(l) : h.at \in s[1] .. (s[2] - 1)}
\* Position in the log from the oldest entry on.
Order(l, h) == IF l.next <= l.oldest /\ h.at < l.next THEN h.at + Size ELSE h.at
\* From l and E to k and F all entries discarded are older than those kept, of
\* which there are some.  (An entry that ends where the next one goes is new.)
DiscardsOldest(l, E, k, F) ==
    LET gone == Live(l, E) \ Live(k, F)
        kept == {h \in Live(l, E) \cap Live(k, F) : h.at + h.size # k.next}
    IN  /\ \A g \in gone, h \in kept : Order(l, g) < Order(l, h)
        /\ gone = {} \/ kept # {}

\* OldestFirst: an entry is discarded only after all entries older than it, and
\* only a reset discards all: who reads the log finds its newest part without
\* holes, unless the log has been spoilt.
OldestFirst ==
    [][~spoilt /\ ~HostReset => DiscardsOldest(log, Entries, log', Entries')]_vars
=============================================================================

------------------------------ MODULE Schedule ------------------------------
(* The FINE scheduler of CPU_HIGH (wlan_mac_schedule.c) on the doubly linked *)
(* lists it is built from (wlan_mac_dl_list.c), as operators on a record s;  *)
(* the variables and the clients are in EthRx.  The COARSE scheduler is the  *)
(* same code on another list and timer.                                      *)
(*                                                                           *)
(* Abstractions: a block is a dl_entry with its wlan_sched, which are        *)
(* allocated and freed together; the ID of a schedule is its block, because  *)
(* the loop of wlan_mac_schedule_event_repeated never issues an ID in use;   *)
(* target_us is what the next comparison with curr_system_time yields.       *)
EXTENDS Naturals, FiniteSets

CONSTANTS
    Blocks,  \* memory for schedules
    Null,    \* the NULL pointer
    Kinds    \* the callbacks

ASSUME ScheduleAssumption == Null \notin Blocks /\ IsFiniteSet(Blocks)

Forever == 2
Pointers == Blocks \cup {Null}
BlockType ==
    [live : BOOLEAN, prev : Pointers, next : Pointers, enabled : BOOLEAN,
     kind : Kinds \cup {"none"}, calls : 0 .. Forever, due : {"no", "maybe", "yes"}]
ListType == [first : Pointers, last : Pointers, length : Nat]
\* on is enabled_list, off is disabled_list, next the entry the handler visits next.
SchedType ==
    [blk : [Blocks -> BlockType], on : ListType, off : ListType, next : Pointers,
     timer : BOOLEAN]

Unused ==
    [live |-> FALSE, prev |-> Null, next |-> Null, enabled |-> FALSE,
     kind |-> "none", calls |-> 0, due |-> "no"]
EmptyList == [first |-> Null, last |-> Null, length |-> 0]
NoSchedules ==
    [blk |-> [b \in Blocks |-> Unused], on |-> EmptyList, off |-> EmptyList,
     next |-> Null, timer |-> FALSE]

-----------------------------------------------------------------------------
(* Lists                                                                    *)

\* A write through a pointer that the code has tested against NULL.
Link(blk, b, field, v) == IF b = Null THEN blk ELSE [blk EXCEPT ![b][field] = v]

\* entry may be no longer what it was when the caller read it.
InsertBefore(s, list, entry, new) ==
    LET before == s.blk[entry].prev
        linked == [s.blk EXCEPT ![new].prev = before, ![new].next = entry,
                                ![entry].prev = new]
    IN  [s EXCEPT !.blk = Link(linked, before, "next", new),
                  ![list].first = IF before = Null THEN new ELSE @,
                  ![list].length = @ + 1]

\* first is the head of the list as the caller read it.
InsertBeginning(s, list, first, new) ==
    IF first # Null
    THEN InsertBefore(s, list, first, new)
    ELSE [s EXCEPT !.blk[new].prev = Null, !.blk[new].next = Null,
                   ![list] = [first |-> new, last |-> new, length |-> @.length + 1]]

InsertEnd(s, list, new) ==
    LET last == s[list].last IN
    IF last = Null
    THEN InsertBeginning(s, list, s[list].first, new)
    ELSE LET after == s.blk[last].next
             linked == [s.blk EXCEPT ![new].prev = last, ![new].next = after,
                                     ![last].next = new]
         IN  [s EXCEPT !.blk = Link(linked, after, "prev", new),
                       ![list].last = IF after = Null THEN new ELSE @,
                       ![list].length = @ + 1]

Unlink(s, list, entry) ==
    LET before == s.blk[entry].prev
        after  == s.blk[entry].next
        linked == Link(Link(s.blk, before, "next", after), after, "prev", before)
    IN  IF s[list].length = 0
        THEN s
        ELSE [s EXCEPT !.blk = [linked EXCEPT ![entry].prev = Null, ![entry].next = Null],
                       ![list].first = IF before = Null THEN after ELSE @,
                       ![list].last = IF after = Null THEN before ELSE @,
                       ![list].length = @ - 1]

\* The n-th entry that following next from the head of the list leads to.
Chain(s, list) ==
    LET nth[n \in 1 .. Cardinality(Blocks) + 1] ==
            IF n = 1 THEN s[list].first
            ELSE IF nth[n - 1] = Null THEN Null ELSE s.blk[nth[n - 1]].next
    IN  nth
\* wlan_mac_schedule_find succeeds for these.
Found(s, list) ==
    {b \in Blocks : \E n \in 1 .. s[list].length :
                       n \in DOMAIN Chain(s, list) /\ Chain(s, list)[n] = b}

-----------------------------------------------------------------------------
(* Operations                                                               *)

Free(s) == {b \in Blocks : ~s.blk[b].live}

\* malloc, the fields, and the timer if the list is empty; not yet in the list.
\* A delay of 0 may have passed when a handler that runs meanwhile comes to it.
Prepared(s, new, kind, calls, delayed) ==
    [s EXCEPT !.timer = @ \/ s.on.length = 0,
              !.blk[new] = [Unused EXCEPT !.live = TRUE, !.enabled = TRUE, !.kind = kind,
                                          !.calls = calls,
                                          !.due = IF delayed THEN "no" ELSE "maybe"]]
Create(s, new, kind, calls, delayed) ==
    InsertBeginning(Prepared(s, new, kind, calls, delayed), "on", s.on.first, new)

\* The timer stops with the last schedule.
Settled(s) == IF s.on.length = 0 THEN [s EXCEPT !.timer = FALSE] ELSE s

\* wlan_mac_schedule_disable_id: not during the last call of a schedule.
CanDisable(s, b) == b \in Found(s, "on") /\ s.blk[b].calls # 0
Disable(s, b) ==
    IF CanDisable(s, b)
    THEN Settled([InsertEnd(Unlink(s, "on", b), "off", b) EXCEPT !.blk[b].enabled = FALSE])
    ELSE s

Enable(s, b) ==
    LET t == InsertEnd(Unlink(s, "off", b), "on", b) IN
    [t EXCEPT !.blk[b].enabled = TRUE, !.blk[b].due = "maybe",
              !.timer = @ \/ t.on.length = 1]

\* wlan_mac_remove_schedule moves the handler on before the entry is freed.
AdvancedNever(s, b) == s
Advanced(s, b) == IF s.next = b THEN [s EXCEPT !.next = s.blk[b].next] ELSE s
RemoveSchedule(s, b) ==
    IF b \in Found(s, "on")
    THEN Settled([Unlink(Advanced(s, b), "on", b) EXCEPT !.blk[b] = Unused])
    ELSE s

-----------------------------------------------------------------------------
(* schedule_handler                                                         *)

\* curr_system_time is read; the schedules of D have reached their targets.
Started(s, D) ==
    [s EXCEPT !.next = s.on.first,
              !.blk = [b \in Blocks |->
                         IF b \in D THEN [s.blk[b] EXCEPT !.due = "yes"] ELSE s.blk[b]]]

\* The part of an iteration before the callback.
Stepped(s) == [s EXCEPT !.next = s.blk[s.next].next]
Counted(s, b) ==
    IF s.blk[b].calls \in {0, Forever} THEN s ELSE [s EXCEPT !.blk[b].calls = @ - 1]

\* The part after it: the next target, or the removal of a finished schedule.
Finished(s, b, delayed) ==
    IF ~s.blk[b].enabled THEN s
    ELSE IF s.blk[b].calls = 0 THEN RemoveSchedule(s, b)
    ELSE [s EXCEPT !.blk[b].due = IF delayed THEN "no" ELSE "yes"]

\* Between two ticks targets are not compared.
Forgotten(s) == [s EXCEPT !.blk = [b \in Blocks |-> [s.blk[b] EXCEPT !.due = "no"]]]

\* Both lists are what their links say, and hold the schedules that exist: an
\* entry is in the list its flag names, and the timer runs for the enabled ones.
Sound(s, list) ==
    LET nth == Chain(s, list)
        n   == s[list].length
    IN  /\ n <= Cardinality(Blocks) /\ nth[n + 1] = Null
        /\ \A i \in 1 .. n :
              /\ nth[i] # Null
              /\ s.blk[nth[i]].live
              /\ s.blk[nth[i]].enabled = (list = "on")
              /\ s.blk[nth[i]].prev = IF i = 1 THEN Null ELSE nth[i - 1]
        /\ s[list].last = IF n = 0 THEN Null ELSE nth[n]
=============================================================================

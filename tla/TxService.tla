------------------------------ MODULE TxService ------------------------------
(***************************************************************************)
(* What the packet buffer hand-over promises, with no state word, mutex or *)
(* mailbox: frames are submitted one at a time in free buffers, CPU_LOW    *)
(* completes them exactly once and in the order of submission, CPU_HIGH    *)
(* recycles the buffers in the order of completion.                        *)
(***************************************************************************)
EXTENDS Sequences

CONSTANT Buffers

VARIABLES submitted,  \* buffers handed to CPU_LOW, oldest first
          completed,  \* buffers handed back, oldest first
          free        \* buffers CPU_HIGH may fill

serviceVars == <<submitted, completed, free>>

ServiceInit == submitted = <<>> /\ completed = <<>> /\ free = Buffers

Submit == \E b \in free : /\ submitted' = Append(submitted, b)
                          /\ free' = free \ {b}
                          /\ UNCHANGED completed

Complete == /\ submitted # <<>>
            /\ submitted' = Tail(submitted)
            /\ completed' = Append(completed, Head(submitted))
            /\ UNCHANGED free

Recycle == /\ completed # <<>>
           /\ completed' = Tail(completed)
           /\ free' = free \cup {Head(completed)}
           /\ UNCHANGED submitted

ServiceNext == Submit \/ Complete \/ Recycle

ServiceSpec == ServiceInit /\ [][ServiceNext]_serviceVars
=============================================================================

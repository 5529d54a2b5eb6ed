------------------------------ MODULE MCEthRx -------------------------------
(* TLC instances of the scheduler and its clients; blocks are interchangeable. *)
EXTENDS EthRx, TLC

BlockSymmetry == Permutations(Blocks)

\* The handler is not followed through lists that an insertion has torn.
HandlerUntorn == ~torn \/ isr.pc = "none"
=============================================================================

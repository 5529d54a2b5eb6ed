---------------------------- MODULE MCApStations ----------------------------
(* TLC instances of the AP's stations and queues. *)
EXTENDS ApStations, TLC

Symmetry == Permutations(Stations) \cup Permutations(Infos)
\* No step depends on last and only MoreDataTruthful reads it.
View == <<list, info, members, auth, queue, group, next, flight, severed>>
\* What follows when the lists are severed is not explored: no property speaks of it.
NotSevered == ~severed
=============================================================================

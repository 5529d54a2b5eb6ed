----------------------------- MODULE MCStaJoin -----------------------------
EXTENDS StaJoin

CONSTANTS a, b, c

\* Two networks with an SSID each; three of which two share theirs.
OwnSsid == [n \in {a, b} |-> n]
SharedSsid == [n \in {a, b, c} |-> IF n = c THEN "other" ELSE "shared"]

\* What a divided command leads to is left out.
Undivided == ~divided

\* The following fail: BssidJoined in MCStaJoinShared.cfg, SsidJoined in
\* MCStaJoinReused.cfg, AttemptEnds in MCStaJoinScanned.cfg.

\* A join that began with a BSSID ends in that network: only the SSID counts while
\* the channel is unknown.
BssidJoined ==
    [][/\ ~divided' /\ active' # active /\ active' # None
       /\ attempt # None /\ info'[attempt].bssid = sought
       /\ target.by = "bssid" /\ \E n \in Nets : AssocResponse(n)
       => info'[active'].bssid = target.net]_vars

\* A join ends in a network with the SSID that was asked for, whatever becomes of
\* the entry of the attempt.
SsidJoined ==
    [][/\ ~divided' /\ active' # active /\ active' # None
       /\ \E n \in Nets : AssocResponse(n)
       => SsidOf[info'[active'].bssid] = SsidOf[target.net]]_vars

\* An attempt ends, scans or not.
AttemptEnds == join = "ATTEMPTING" ~> join # "ATTEMPTING" \/ sought = None \/ divided
=============================================================================

------------------------------ MODULE Metering ------------------------------
(* What the proxied requests leave in the meters: the usage refreshes they   *)
(* lead to and the traffic they are counted in.  The two share no state.     *)
EXTENDS UsageRefresh, AccountTraffic

MeteringSpec == UsageSpec /\ TrafficSpec

(* A refresh is never stuck in flight or started twice, and the totals the   *)
(* dashboard and the desktop see are the ones recorded.                      *)
MeteringSafety == UsageSafety /\ TrafficSafety
=============================================================================

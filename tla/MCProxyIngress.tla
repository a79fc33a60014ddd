--------------------------- MODULE MCProxyIngress ---------------------------
(***************************************************************************)
(* A small instance of what stands around the proxy's handlers.  The       *)
(* routes with the key table they read, the administration of the keys,    *)
(* the request filters, the usage refreshes that logged requests lead to   *)
(* and the traffic counters have behaviours of their own: focus says whose *)
(* steps are taken.                                                        *)
(***************************************************************************)
EXTENDS ProxyIngress, RequestFilters, Metering

VARIABLE focus

vars == <<ingressVars, filterVars, usageVars, trafficVars, focus>>

Init ==
    /\ focus \in {"routes", "keys", "filters", "usage", "traffic"}
    /\ IngressInit
    /\ FilterInit
    /\ UsageInit
    /\ TrafficInit

Next ==
    \/ /\ focus = "routes" /\ IngressNext
       /\ UNCHANGED <<filterVars, usageVars, trafficVars, focus>>
    \/ /\ focus = "keys" /\ KeysNext
       /\ UNCHANGED <<req, sock, rows, tasks, loop, filterVars, usageVars, trafficVars, focus>>
    \/ /\ focus = "filters" /\ FilterNext
       /\ UNCHANGED <<ingressVars, usageVars, trafficVars, focus>>
    \/ /\ focus = "usage" /\ UsageNext
       /\ UNCHANGED <<ingressVars, filterVars, trafficVars, focus>>
    \/ /\ focus = "traffic" /\ TrafficNext
       /\ UNCHANGED <<ingressVars, filterVars, usageVars, focus>>

Fairness ==
    /\ WF_ingressVars(focus = "routes" /\ WorkerTakesTask)
    /\ \A r \in Requests :
         /\ WF_ingressVars(focus = "routes" /\ LoopStep(r))
         /\ SF_ingressVars(focus = "routes" /\ TaskStep(r))

Spec == Init /\ [][Next]_vars /\ Fairness
=============================================================================

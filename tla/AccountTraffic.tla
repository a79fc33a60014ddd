--------------------------- MODULE AccountTraffic ---------------------------
(***************************************************************************)
(* The bytes each account sends and receives (account_traffic.cpp) and the *)
(* two places that show them: a dashboard connected to the traffic socket  *)
(* (admin_accounts_runtime.cpp) and the desktop application, which gets    *)
(* events that are throttled per account.                                  *)
(*                                                                         *)
(* A worker adds to the entry and copies it under the mutex; after the     *)
(* unlock it defers the copy to the event loop, which publishes it, and    *)
(* emits the event.  One record is one byte; the frames' layout is left    *)
(* out.  The server runs: its callback is set.                             *)
(***************************************************************************)
EXTENDS Naturals, Sequences

CONSTANTS
    TAccounts,     \* accounts with traffic
    TWorkers,      \* threads that move bytes
    Nothing,       \* nothing carried or shown
    Throttle,      \* kTrafficEmitThrottleMs
    MaxBytes,      \* bound on the bytes of an account
    MaxTick        \* bound on the clock

ASSUME TrafficAssumption ==
    /\ Throttle \in Nat \ {0}
    /\ {MaxBytes, MaxTick} \subseteq Nat /\ Throttle <= MaxTick
    /\ Nothing \notin [account : TAccounts, copy : [up : Nat, down : Nat, at : Nat],
                        emit : BOOLEAN, told : BOOLEAN]

VARIABLES
    tNow,       \* unix_ms_now, from Throttle
    entry,      \* traffic_by_account: bytes up and down, time of the last record
    lastEmit,   \* traffic_last_emit_at
    carry,      \* the copy a worker has after the unlock
    deferred,   \* the event loop's deferred publications
    dash,       \* the dashboard's connection and what it shows of each account
    desktop,    \* what the last event said of each account
    mixed       \* accounts two workers recorded at once

trafficVars == <<tNow, entry, lastEmit, carry, deferred, dash, desktop, mixed>>

Blank == [a \in TAccounts |-> Nothing]
NoBytes == [up |-> 0, down |-> 0, at |-> 0]

TrafficInit ==
    /\ tNow = Throttle
    /\ entry = [a \in TAccounts |-> NoBytes]
    /\ lastEmit = [a \in TAccounts |-> 0]
    /\ carry = [w \in TWorkers |-> Nothing]
    /\ deferred = <<>>
    /\ dash = [open |-> FALSE, shown |-> Blank]
    /\ desktop = [a \in TAccounts |-> NoBytes]
    /\ mixed = {}

(* The first record of a throttle interval is emitted.                     *)
Emits(a) == tNow - lastEmit[a] >= Throttle

LastEmitAfter(a) == IF Emits(a) THEN tNow ELSE lastEmit[a]

(* record_traffic up to the unlock.                                        *)
RecordTraffic(w, a, egress) ==
    LET e == entry[a]
        new == IF egress THEN [e EXCEPT !.up = @ + 1, !.at = tNow]
                         ELSE [e EXCEPT !.down = @ + 1, !.at = tNow]
    IN  /\ carry[w] = Nothing
        /\ e.up + e.down < MaxBytes
        /\ entry' = [entry EXCEPT ![a] = new]
        /\ lastEmit' = [lastEmit EXCEPT ![a] = LastEmitAfter(a)]
        /\ carry' = [carry EXCEPT ![w] = [account |-> a, copy |-> new, emit |-> Emits(a), told |-> FALSE]]
        /\ mixed' = IF \E v \in TWorkers : carry[v] # Nothing /\ carry[v].account = a
                    THEN mixed \cup {a} ELSE mixed
        /\ UNCHANGED <<tNow, deferred, dash, desktop>>

(* The callback defers the publication to the app's loop.                  *)
CallBack(w) ==
    /\ carry[w] # Nothing /\ ~carry[w].told
    /\ deferred' = Append(deferred, [account |-> carry[w].account, copy |-> carry[w].copy])
    /\ carry' = [carry EXCEPT ![w].told = TRUE]
    /\ UNCHANGED <<tNow, entry, lastEmit, dash, desktop, mixed>>

EmitEvent(w) ==
    /\ carry[w] # Nothing /\ carry[w].told
    /\ desktop' = IF carry[w].emit THEN [desktop EXCEPT ![carry[w].account] = carry[w].copy] ELSE desktop
    /\ carry' = [carry EXCEPT ![w] = Nothing]
    /\ UNCHANGED <<tNow, entry, lastEmit, deferred, dash, mixed>>

(* publish_traffic_update on the event loop.                               *)
PublishTrafficUpdate ==
    /\ deferred # <<>>
    /\ dash' = IF dash.open
               THEN [dash EXCEPT !.shown[Head(deferred).account] = Head(deferred).copy]
               ELSE dash
    /\ deferred' = Tail(deferred)
    /\ UNCHANGED <<tNow, entry, lastEmit, carry, desktop, mixed>>

Recorded == {a \in TAccounts : entry[a] # NoBytes}

Snapshot(shown) == [a \in TAccounts |-> IF a \in Recorded THEN entry[a] ELSE shown[a]]

(* A connection is subscribed and gets a snapshot, if the database opens;  *)
(* so does one that asks.                                                  *)
OpenTrafficSocket(ok) ==
    /\ ~dash.open
    /\ dash' = [open |-> TRUE, shown |-> IF ok THEN Snapshot(Blank) ELSE Blank]
    /\ UNCHANGED <<tNow, entry, lastEmit, carry, deferred, desktop, mixed>>

AskForSnapshot ==
    /\ dash.open
    /\ dash' = [dash EXCEPT !.shown = Snapshot(@)]
    /\ UNCHANGED <<tNow, entry, lastEmit, carry, deferred, desktop, mixed>>

CloseTrafficSocket ==
    /\ dash.open
    /\ dash' = [open |-> FALSE, shown |-> Blank]
    /\ UNCHANGED <<tNow, entry, lastEmit, carry, deferred, desktop, mixed>>

TimePasses ==
    /\ tNow < MaxTick
    /\ tNow' = tNow + 1
    /\ UNCHANGED <<entry, lastEmit, carry, deferred, dash, desktop, mixed>>

TrafficNext ==
    \/ \E w \in TWorkers :
         \/ \E a \in TAccounts, egress \in BOOLEAN : RecordTraffic(w, a, egress)
         \/ CallBack(w) \/ EmitEvent(w)
    \/ PublishTrafficUpdate
    \/ \E ok \in BOOLEAN : OpenTrafficSocket(ok)
    \/ AskForSnapshot \/ CloseTrafficSocket \/ TimePasses

TrafficSpec == TrafficInit /\ [][TrafficNext]_trafficVars

-----------------------------------------------------------------------------
TrafficTypeOK ==
    /\ tNow \in Throttle..MaxTick
    /\ {entry, desktop} \subseteq [TAccounts -> [up : 0..MaxBytes, down : 0..MaxBytes, at : 0..MaxTick]]
    /\ \A i \in 1..Len(deferred) : deferred[i].account \in TAccounts

(* Nothing about the account is on its way to a display.                   *)
Still(a) ==
    /\ \A w \in TWorkers : carry[w] = Nothing \/ carry[w].account # a
    /\ \A i \in 1..Len(deferred) : deferred[i].account # a

(* Once nothing is on its way, a dashboard that shows an account shows its *)
(* totals, whenever it connected or asked; only two workers that recorded  *)
(* the account at once can leave an older count on the screen.             *)
DashboardShowsTheTotals ==
    \A a \in TAccounts \ mixed :
        dash.open /\ Still(a) /\ dash.shown[a] # Nothing => dash.shown[a] = entry[a]

(* What the desktop was last told lacks only what was recorded within one  *)
(* throttle interval of it: a steady flow of bytes does not silence it.    *)
DesktopLagsByTheThrottle ==
    \A a \in TAccounts \ mixed :
        Still(a) => entry[a].at - desktop[a].at < Throttle

(* What is shown of the traffic is what was counted.                       *)
TrafficSafety == TrafficTypeOK /\ DashboardShowsTheTotals /\ DesktopLagsByTheThrottle
=============================================================================

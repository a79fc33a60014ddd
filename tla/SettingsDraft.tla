--------------------------- MODULE SettingsDraft ---------------------------
(***************************************************************************)
(* The settings page of the desktop window: a draft the user edits, the    *)
(* settings the window believes are stored (applied), and the requests     *)
(* that save the draft, change the pool of locked accounts at once, load   *)
(* the settings at start, and switch the cluster on and off or restart it  *)
(* when saved settings concern it.  Each is an async function that goes on *)
(* after an await with what it captured before (useSettings.ts,            *)
(* useSettingsSaveActions.ts, useClusterSyncFlows.ts).                     *)
(*                                                                         *)
(* Of the fifty settings four are kept: the pool, which is changed without *)
(* the draft; the two schema versions, which constrain each other; and     *)
(* discovery, for the ones set one by one.  The last three concern the     *)
(* cluster.  A request to the runtime may be refused, and it may time out  *)
(* after the runtime has carried it out.                                   *)
(***************************************************************************)
EXTENDS Naturals, FiniteSets

CONSTANTS
    SOps,          \* calls of the page that can be under way at once
    NullRow,         \* null
    MaxVersion,    \* the largest schema version
    MaxEdits,      \* bound on the edits
    MaxCalls       \* bound on the calls after the load

Rows == [discovery : BOOLEAN, schema : 1..MaxVersion, min : 1..MaxVersion, pool : {0, 1}]

ASSUME DraftAssumption ==
    /\ MaxVersion \in Nat \ {0}
    /\ {MaxEdits, MaxCalls} \subseteq Nat
    /\ NullRow \notin Rows

Fields == {"discovery", "schema", "min", "pool"}

VARIABLES
    kept,       \* the runtime's settings row
    draft,      \* dashboardSettings
    applied,    \* appliedDashboardSettings
    saving,     \* settingsSaveInFlight
    sop,        \* the calls and what they captured
    booted,     \* the start-up load has been asked for
    running,    \* the cluster: on, and with which settings
    shown,      \* clusterStatus.enabled, as last polled
    edits,      \* edits so far
    calls,      \* calls so far, the load apart
    typed,      \* unsaved edits made while no call was under way
    doubt,      \* why applied may not be what is kept
    astray      \* the cluster was knowingly left with other settings

draftVars == <<kept, draft, applied, saving, sop, booted, running, shown, edits, calls,
               typed, doubt, astray>>

NoCall ==
    [pc |-> "idle", kind |-> "none", base |-> NullRow, prev |-> NullRow, got |-> NullRow,
     flag |-> FALSE]
Untyped == [f \in Fields |-> NullRow]
ClusterOff == [on |-> FALSE, conf |-> NullRow]

defaultDashboardSettings == [discovery |-> TRUE, schema |-> 1, min |-> 1, pool |-> 0]

(* syncSettingsFingerprint, and the settings clusterConfigFromSettings     *)
(* passes on.                                                              *)
SyncPart(row) == [discovery |-> row.discovery, schema |-> row.schema, min |-> row.min]

DraftInit ==
    /\ kept \in {row \in Rows : row.min <= row.schema /\ row.pool = 0}
    /\ draft = defaultDashboardSettings
    /\ applied = defaultDashboardSettings
    /\ saving = FALSE
    /\ sop = [o \in SOps |-> NoCall]
    /\ booted = FALSE
    /\ running = ClusterOff
    /\ shown = FALSE
    /\ edits = 0 /\ calls = 0
    /\ typed = Untyped
    /\ doubt = {"unloaded"}
    /\ astray = FALSE

(* The edits an answer does not show as stored.                            *)
StillTyped(row) == [f \in Fields |-> IF typed[f] = row[f] THEN NullRow ELSE typed[f]]

AtRest == \A o \in SOps : sop[o].pc = "idle"

-----------------------------------------------------------------------------
(* EDITING *)

boundedInteger(v, low, high) == IF v < low THEN low ELSE IF v > high THEN high ELSE v

SchemaVersionPatch(row, v) ==
    LET bounded == boundedInteger(v, 1, MaxVersion)
    IN  [row EXCEPT !.schema = bounded, !.min = IF @ < bounded THEN @ ELSE bounded]

(* Mutant: the minimum is not held below the schema version.               *)
MinVersionPatch_Uncapped(row, v) == [row EXCEPT !.min = boundedInteger(v, 1, MaxVersion)]

MinVersionPatch(row, v) ==
    LET bounded == boundedInteger(v, 1, MaxVersion)
    IN  [row EXCEPT !.min = IF bounded < row.schema THEN bounded ELSE row.schema]

ApplyPatch(row) ==
    /\ edits < MaxEdits
    /\ edits' = edits + 1
    /\ draft' = row
    /\ typed' = [f \in Fields |->
                    IF row[f] = draft[f] THEN typed[f]
                    ELSE IF AtRest /\ doubt = {} /\ row[f] # applied[f] THEN row[f]
                    ELSE NullRow]
    /\ UNCHANGED <<kept, applied, saving, sop, booted, running, shown, calls, doubt,
                   astray>>

(* The setters of the page: some clamp, some normalise, all patch.         *)
Edit ==
    \/ \E on \in BOOLEAN : ApplyPatch([draft EXCEPT !.discovery = on])
    \/ \E v \in 0..(MaxVersion + 1) : ApplyPatch(SchemaVersionPatch(draft, v))
    \/ \E v \in 0..(MaxVersion + 1) : ApplyPatch(MinVersionPatch(draft, v))

DiscardChanges ==
    /\ draft' = applied
    /\ typed' = Untyped
    /\ UNCHANGED <<kept, applied, saving, sop, booted, running, shown, edits, calls, doubt,
                   astray>>

-----------------------------------------------------------------------------
(* CALLS *)

(* A call begins with what it captures of the page.                        *)
BeginCall(o, call, pc, base, flag) ==
    /\ sop[o].pc = "idle"
    /\ call # "load" => calls < MaxCalls
    /\ calls' = IF call = "load" THEN calls ELSE calls + 1
    /\ sop' = [sop EXCEPT ![o] =
                  [pc |-> pc, kind |-> call, base |-> base, prev |-> applied,
                   got |-> NullRow, flag |-> flag]]
    /\ doubt' = IF AtRest THEN doubt ELSE doubt \cup {"overlap"}
    /\ UNCHANGED <<kept, draft, applied, running, shown, edits, typed, astray>>

(* useBootstrap: once, some time after the page can be edited.             *)
RefreshSettings(o) ==
    /\ ~booted
    /\ booted' = TRUE
    /\ BeginCall(o, "load", "sent", NullRow, FALSE)
    /\ UNCHANGED saving

SaveSettings(o) ==
    /\ ~saving
    /\ saving' = TRUE
    /\ BeginCall(o, "save", "sent", draft, shown)
    /\ UNCHANGED booted

UpdatePool(o) ==
    /\ BeginCall(o, "pool", "sent", draft, FALSE)
    /\ UNCHANGED <<saving, booted>>

ToggleSync(o) ==
    LET unsaved == draft # applied
    IN  /\ BeginCall(o, "toggle", IF shown THEN "off" ELSE "enable",
                 IF unsaved THEN draft ELSE applied, unsaved)
        /\ UNCHANGED <<saving, booted>>

(* What the runtime would store for the call: it merges the fields sent.   *)
Requested(c) ==
    CASE c.kind = "save" -> c.base
      [] c.kind = "pool" -> [kept EXCEPT !.pool = 1 - c.base.pool]
      [] c.kind = "toggle" -> [c.base EXCEPT !.discovery = FALSE]
      [] OTHER -> kept

(* The runtime's settings handler, and its answer: the row, an error, or   *)
(* none in time.                                                           *)
RuntimeHandles(o, outcome) ==
    LET c == sop[o]
    IN  /\ c.pc = "sent"
        /\ outcome # "refused" => Requested(c).min <= Requested(c).schema
        /\ kept' = IF outcome = "refused" THEN kept ELSE Requested(c)
        /\ sop' = [sop EXCEPT ![o].pc = "answered",
                              ![o].got = IF outcome = "answered" THEN Requested(c) ELSE NullRow]
        /\ doubt' = IF outcome = "lost" /\ c.kind # "load" THEN doubt \cup {"lost"} ELSE doubt
        /\ UNCHANGED <<draft, applied, saving, booted, running, shown, edits, calls, typed, astray>>

GoOn(o, pc) == sop' = [sop EXCEPT ![o] = IF pc = "idle" THEN NoCall ELSE [@ EXCEPT !.pc = pc]]

(* A saved change of the cluster's settings restarts a cluster that was    *)
(* shown as running when the user clicked.                                 *)
Restarts(c) == c.flag /\ SyncPart(c.prev) # SyncPart(c.got)

SaveAnswered(o) ==
    LET c == sop[o]
    IN  /\ c.pc = "answered" /\ c.kind = "save"
        /\ saving' = FALSE
        /\ IF c.got = NullRow
           THEN GoOn(o, "idle") /\ UNCHANGED <<draft, applied, typed, astray>>
           ELSE /\ applied' = c.got /\ draft' = c.got /\ typed' = Untyped
                /\ GoOn(o, IF Restarts(c) THEN "disable" ELSE "idle")
                /\ astray' = (astray \/ (running.on /\ ~c.flag))
        /\ UNCHANGED <<kept, booted, running, shown, edits, calls, doubt>>

(* The draft as it was when the pool was changed, with the new pool.       *)
PoolDraft(c) == [c.base EXCEPT !.pool = c.got.pool]

PoolAnswered(o) ==
    LET c == sop[o]
    IN  /\ c.pc = "answered" /\ c.kind = "pool"
        /\ IF c.got = NullRow THEN UNCHANGED <<draft, applied, typed>>
           ELSE applied' = c.got /\ draft' = PoolDraft(c) /\ typed' = StillTyped(c.got)
        /\ GoOn(o, "idle")
        /\ UNCHANGED <<kept, saving, booted, running, shown, edits, calls, doubt, astray>>

SettingsLoaded(o) ==
    LET c == sop[o]
    IN  /\ c.pc = "answered" /\ c.kind = "load"
        /\ IF c.got = NullRow THEN UNCHANGED <<draft, applied, typed, doubt>>
           ELSE /\ applied' = c.got /\ draft' = c.got /\ typed' = Untyped
                /\ doubt' = doubt \ {"unloaded"}
        /\ GoOn(o, "idle")
        /\ UNCHANGED <<kept, saving, booted, running, shown, edits, calls, astray>>

-----------------------------------------------------------------------------
(* THE CLUSTER SWITCH *)

(* clusterDisable, by the switch or before a restart.                      *)
Disable(o, ok) ==
    LET c == sop[o]
    IN  /\ c.pc \in {"off", "disable"}
        /\ running' = IF ok THEN ClusterOff ELSE running
        /\ GoOn(o, IF ~ok THEN "idle" ELSE IF c.pc = "off" THEN "status" ELSE "restart")
        /\ astray' = (astray \/ (~ok /\ c.pc = "disable"))
        /\ UNCHANGED <<kept, draft, applied, saving, booted, shown, edits, calls, typed, doubt>>

EnableWith(c) ==
    CASE c.pc = "enable" -> c.base
      [] c.pc = "fallback" -> [c.base EXCEPT !.discovery = FALSE]
      [] c.pc = "restart" -> c.got

(* clusterEnable.  A failure leaves the cluster off, or as it was when the *)
(* settings are refused; discovery on a host nobody can reach is refused   *)
(* and tried again without.                                                *)
Enable(o, outcome) ==
    LET c == sop[o]
    IN  /\ c.pc \in {"enable", "fallback", "restart"}
        /\ IF outcome = "ok"
           THEN /\ running' = [on |-> TRUE, conf |-> SyncPart(EnableWith(c))]
                /\ GoOn(o, IF c.pc = "fallback" THEN "sent" ELSE "status")
                /\ astray' = (doubt # {} \/ (c.pc = "enable" /\ c.flag))
           ELSE /\ running' \in {running, ClusterOff}
                /\ GoOn(o, IF outcome = "unreachable" THEN "fallback" ELSE "idle")
                /\ UNCHANGED astray
        /\ outcome = "unreachable" => c.pc = "enable" /\ c.base.discovery
        /\ UNCHANGED <<kept, draft, applied, saving, booted, shown, edits, calls, typed, doubt>>

(* The fallback is stored; unsaved changes stay in the draft.              *)
FallbackAnswered(o) ==
    LET c == sop[o]
    IN  /\ c.pc = "answered" /\ c.kind = "toggle"
        /\ IF c.got = NullRow THEN astray' = TRUE /\ UNCHANGED <<draft, applied, typed>>
           ELSE /\ applied' = c.got
                /\ draft' = IF c.flag THEN draft ELSE c.got
                /\ typed' = StillTyped(c.got)
                /\ UNCHANGED astray
        /\ GoOn(o, IF c.got = NullRow THEN "idle" ELSE "status")
        /\ UNCHANGED <<kept, saving, booted, running, shown, edits, calls, doubt>>

(* refreshClusterState at the end of a call, and the poll every 2 s.       *)
StatusShown(o) ==
    /\ sop[o].pc = "status"
    /\ shown' = running.on
    /\ GoOn(o, "idle")
    /\ UNCHANGED <<kept, draft, applied, saving, booted, running, edits, calls, typed,
                   doubt, astray>>

PollStatus ==
    /\ shown' = running.on
    /\ UNCHANGED <<kept, draft, applied, saving, sop, booted, running, edits, calls, typed,
                   doubt, astray>>

DraftNext ==
    \/ Edit \/ DiscardChanges \/ PollStatus
    \/ \E o \in SOps :
         \/ RefreshSettings(o) \/ SaveSettings(o) \/ UpdatePool(o) \/ ToggleSync(o)
         \/ \E outcome \in {"answered", "refused", "lost"} : RuntimeHandles(o, outcome)
         \/ SaveAnswered(o) \/ PoolAnswered(o) \/ SettingsLoaded(o) \/ FallbackAnswered(o)
         \/ \E ok \in BOOLEAN : Disable(o, ok)
         \/ \E outcome \in {"ok", "unreachable", "failed"} : Enable(o, outcome)
         \/ StatusShown(o)

DraftSpec == DraftInit /\ [][DraftNext]_draftVars

-----------------------------------------------------------------------------
(* PROPERTIES *)

DraftTypeOK ==
    /\ {kept, draft, applied} \subseteq Rows
    /\ \A o \in SOps : sop[o].base \in Rows \cup {NullRow} /\ sop[o].got \in Rows \cup {NullRow}
    /\ doubt \subseteq {"unloaded", "overlap", "lost"}

(* Whatever is edited, saved, answered or discarded in whatever order, the *)
(* runtime would not refuse the draft for its versions.                    *)
DraftIsSavable == draft.min <= draft.schema

(* An edit made while no call is under way stays in the draft until it is  *)
(* saved or discarded: a change of the pool, a refused save or the cluster *)
(* switch do not take it away.                                             *)
TypedEditsStay == \A f \in Fields : typed[f] # NullRow => draft[f] = typed[f]

(* Once no call is under way, the page compares the draft with what is     *)
(* stored, unless it was never loaded, calls overlapped or an answer was   *)
(* lost.                                                                   *)
AppliedIsStored == AtRest /\ doubt = {} => applied = kept

(* A running cluster has the stored settings, unless the user switched it  *)
(* on with unsaved ones, a save did not see that it runs, or a restart     *)
(* failed half way.                                                        *)
ClusterRunsTheSettings ==
    AtRest /\ doubt = {} /\ ~astray /\ running.on => running.conf = SyncPart(kept)

(* The settings page keeps what the user typed and what the runtime has.   *)
DraftSafety ==
    /\ DraftTypeOK
    /\ DraftIsSavable
    /\ TypedEditsStay
    /\ AppliedIsStored
    /\ ClusterRunsTheSettings
=============================================================================

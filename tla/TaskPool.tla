------------------------------ MODULE TaskPool ------------------------------
(***************************************************************************)
(* What the HTTP server's routes may assume of the task executor, whatever *)
(* threads it is made of: a task handed in is either refused, and never    *)
(* run, or accepted; accepted tasks begin in the order of their acceptance *)
(* and each of them is run once, to its end, or is still to be.  The pool  *)
(* refuses a task only while it is closed or full, and opens again only    *)
(* when everything it accepted before has ended.                           *)
(***************************************************************************)
EXTENDS Naturals, Sequences, FiniteSets

CONSTANTS
    Tasks,
    Capacity    \* how many tasks may wait or run at a time

VARIABLES
    open,
    waiting,    \* accepted and not begun, in order
    running,    \* begun and not ended
    ended, refused

poolVars == <<open, waiting, running, ended, refused>>

PoolInit ==
    /\ open = FALSE
    /\ waiting = <<>>
    /\ running = {} /\ ended = {} /\ refused = {}

HasRoom == open /\ Len(waiting) + Cardinality(running) < Capacity

\* A task is handed in once.
IsNew(t) ==
    /\ \A i \in 1 .. Len(waiting) : waiting[i] # t
    /\ t \notin running \union ended \union refused

Open ==
    /\ waiting = <<>> /\ running = {}
    /\ open' = TRUE
    /\ UNCHANGED <<waiting, running, ended, refused>>

Close ==
    /\ open' = FALSE
    /\ UNCHANGED <<waiting, running, ended, refused>>

Accept(t) ==
    /\ IsNew(t)
    /\ HasRoom
    /\ waiting' = Append(waiting, t)
    /\ UNCHANGED <<open, running, ended, refused>>

Refuse(t) ==
    /\ IsNew(t)
    /\ ~HasRoom
    /\ refused' = refused \union {t}
    /\ UNCHANGED <<open, waiting, running, ended>>

Begin ==
    /\ waiting # <<>>
    /\ Head(waiting) \notin running \union ended \union refused
    /\ running' = running \union {Head(waiting)}
    /\ waiting' = Tail(waiting)
    /\ UNCHANGED <<open, ended, refused>>

End(t) ==
    /\ t \in running
    /\ running' = running \ {t}
    /\ ended' = ended \union {t}
    /\ UNCHANGED <<open, waiting, refused>>

PoolNext ==
    \/ Open \/ Close \/ Begin
    \/ \E t \in Tasks : Accept(t) \/ Refuse(t) \/ End(t)

PoolSpec == PoolInit /\ [][PoolNext]_poolVars
=============================================================================

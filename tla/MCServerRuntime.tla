-------------------------- MODULE MCServerRuntime --------------------------
(* Two workers, two requests and one usage refresh over an executor that   *)
(* holds two tasks; start() and stop() may be called any number of times.  *)
EXTENDS ServerRuntime

CONSTANTS w1, w2, r1, r2, b1

MCWorkers == {w1, w2}
MCTasks == {r1, r2, b1}
MCBackground == {b1}
=============================================================================

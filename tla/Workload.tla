------------------------------ MODULE Workload ------------------------------
(***************************************************************************)
(* What a run of goRunner promises, without goroutines, channels or        *)
(* requests: each input line gets one session at most, no more sessions    *)
(* run at a time than there are clients, and the run ends orderly only     *)
(* when every session it began is over.  Any other end is abrupt.          *)
(***************************************************************************)
EXTENDS Integers, FiniteSets

CONSTANTS
  Sessions,  \* the lines that may get a session
  Capacity   \* how many sessions may run at a time

VARIABLES
  running,   \* the sessions that have begun and are not over
  finished,  \* the sessions that are over
  ended      \* "no", "orderly" or "abrupt"

Init ==
  /\ running = {}
  /\ finished = {}
  /\ ended = "no"

Begin(s) ==
  /\ ended = "no"
  /\ s \notin running \cup finished
  /\ Cardinality(running) < Capacity
  /\ running' = running \cup {s}
  /\ UNCHANGED <<finished, ended>>

Finish(s) ==
  /\ ended = "no"
  /\ s \in running
  /\ running' = running \ {s}
  /\ finished' = finished \cup {s}
  /\ UNCHANGED ended

EndOrderly ==
  /\ ended = "no"
  /\ running = {}
  /\ ended' = "orderly"
  /\ UNCHANGED <<running, finished>>

EndAbruptly ==
  /\ ended = "no"
  /\ ended' = "abrupt"
  /\ UNCHANGED <<running, finished>>

Next ==
  \/ \E s \in Sessions : Begin(s) \/ Finish(s)
  \/ EndOrderly
  \/ EndAbruptly

Spec == Init /\ [][Next]_<<running, finished, ended>>
=============================================================================

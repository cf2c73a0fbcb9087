------------------------------- MODULE Steps -------------------------------
(***************************************************************************)
(* What one client does with its lines, without a clock, answers, counters *)
(* or other clients: DoReq goes through the command queue, one command     *)
(* after the other or the same again, from the first one to the end of the *)
(* session, and goes ahead with no request once the deadline has passed.   *)
(***************************************************************************)
EXTENDS Integers

CONSTANTS
  Length,   \* of the command queue
  Repeats   \* the places of it whose command may be repeated

VARIABLES
  doing,    \* "nothing", "deciding" whether to ask, or "asking"
  place,    \* in the queue
  deadline  \* "never", "armed" or "past"

vars == <<doing, place, deadline>>

Init ==
  /\ doing = "nothing"
  /\ place = 1
  /\ deadline \in {"never", "armed"}

(* Time may pass during any step.                                          *)
Ticks == deadline' \in {deadline} \cup {d \in {"past"} : deadline = "armed"}

Open ==
  /\ doing = "nothing" /\ doing' = "deciding"
  /\ place' = 1

Ask ==
  /\ deadline # "past"
  /\ doing = "deciding" /\ doing' = "asking"
  /\ UNCHANGED place

GoOn ==
  /\ doing = "asking" /\ doing' = "deciding"
  /\ place' \in {place + 1} \cup ({place} \cap Repeats)
  /\ place' <= Length

(* Before a request only for the deadline; after one for what was missing, *)
(* or because it was the last.                                             *)
Finish ==
  /\ doing = "asking" \/ (doing = "deciding" /\ deadline # "never")
  /\ doing' = "nothing"
  /\ place' = 1

Wait == UNCHANGED <<doing, place>>

Next == Ticks /\ (Open \/ Ask \/ GoOn \/ Finish \/ Wait)

Spec == Init /\ [][Next]_vars
=============================================================================

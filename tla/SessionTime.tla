---------------------------- MODULE SessionTime ----------------------------
(***************************************************************************)
(* How long goRunner takes a session to last (runner.go,                   *)
(* EstimateSessionTime), from the MsecDelay and MsecRepeat of the commands *)
(* in the queue.  The ramp-up of the clients is derived from it.           *)
(***************************************************************************)
EXTENDS Integers, Sequences

CONSTANT CallTime   \* what a request is taken to last: 100 ms in the code

ASSUME CallTimeAssumption == CallTime \in Nat

(* The sums of the first 0, 1, ..., n numbers of x.                        *)
Sums(x, n) ==
  LET sum[k \in 0 .. n] == IF k = 0 THEN 0 ELSE sum[k - 1] + x[k] IN sum

(* What a command adds; there is no delay after the last one.              *)
CommandDuration(delay, repeat, k) ==
  CallTime + CASE repeat[k] > 0                     -> repeat[k]
               [] repeat[k] <= 0 /\ k < Len(delay)  -> delay[k]
               [] OTHER                             -> 0

BugEstimateSessionTime(delay, repeat) ==   \* a repeated command counts once
  Sums([k \in DOMAIN delay |-> CallTime + IF k < Len(delay) THEN delay[k] ELSE 0],
       Len(delay))[Len(delay)]

EstimateSessionTime(delay, repeat) ==
  Sums([k \in DOMAIN delay |-> CommandDuration(delay, repeat, k)], Len(delay))[Len(delay)]
=============================================================================

------------------------------ MODULE Session ------------------------------
(***************************************************************************)
(* The sessions of one client on the clock (runner.go, client, DoReq and   *)
(* findSessionVars): delays, repeats and the deadline in milliseconds, and *)
(* which request each session variable was set by.  A request is one step  *)
(* from its sleep to its start and one from there to the next DoReq call;  *)
(* how these interleave with other goroutines is in Clients.               *)
(***************************************************************************)
EXTENDS SessionTime

CONSTANTS
  NSteps,      \* length of runner.commandQueue
  Delay,       \* MsecDelay of each command
  Repeat,      \* MsecRepeat of each command
  Var,         \* names of session variables
  Capture,     \* variables each command has a SessionVar entry for
  Must,        \* variables the MustCapture of each command names
  Func,        \* variables each command has a FuncVar entry for
  StopTime,    \* runner.stopTime, or 0 without flag -t
  MaxLines,    \* bound: lines the client gets
  MaxLatency,  \* bound: duration of a request
  MaxSlip,     \* bound: how long after its time a sleep ends
  MaxWait      \* bound: how long the client waits for a line

Step == 1 .. NSteps

ASSUME SessionAssumption ==
  /\ NSteps \in Nat \ {0}
  /\ Delay \in [Step -> Nat]
  /\ Repeat \in [Step -> Nat]
  /\ Capture \in [Step -> SUBSET Var]
  /\ Must \in [Step -> SUBSET Var]
  /\ Func \in [Step -> SUBSET Var]
  /\ StopTime \in Nat
  /\ MaxLines \in Nat
  /\ MaxLatency \in Nat
  /\ MaxSlip \in Nat
  /\ MaxWait \in Nat

VARIABLES
  now,          \* the clock
  at,           \* where the client is: "range", "due" (DoReq called) or "asked"
  step,         \* stepCounter, counted from 1
  delay,        \* delay, the argument of DoReq
  msDelay,      \* the delay of client's next first DoReq
  commandTime,  \* commandTime, the argument of DoReq
  values,       \* sessionVars: the request that set each variable, or 0
  sent,         \* history: requests so far
  sessions,     \* history: lines so far
  opened,       \* history: sent, when the session began
  last,         \* history: step of the session's last request, or 0
  began,        \* history: when the first of the command's requests began
  started,      \* startTime
  slip,         \* history: by how much the last sleep was too long
  slips,        \* history: the same, summed over the command's repeats
  begun,        \* history: when the session's first request began
  overslept     \* history: slips since then, summed

vars == <<now, at, step, delay, msDelay, commandTime, values, sent, sessions,
          opened, last, began, started, slip, slips, begun, overslept>>

Init ==
  /\ now = 0
  /\ at = "range"
  /\ step = 1
  /\ delay = 0
  /\ msDelay = 0
  /\ commandTime = 0
  /\ values = [v \in Var |-> 0]
  /\ sent = 0
  /\ sessions = 0
  /\ opened = 0
  /\ last = 0
  /\ began = 0
  /\ started = 0
  /\ slip = 0
  /\ slips = 0
  /\ begun = 0
  /\ overslept = 0

BugTake ==   \* sessionVars made once per client
  /\ at = "range"
  /\ sessions < MaxLines
  /\ at' = "due"
  /\ now' \in now .. now + MaxWait
  /\ sessions' = sessions + 1
  /\ step' = 1
  /\ delay' = msDelay
  /\ commandTime' = 0
  /\ opened' = sent
  /\ last' = 0
  /\ UNCHANGED <<values, msDelay, sent, began, started, slip, slips, begun, overslept>>

(* The client takes a line and calls DoReq with empty sessionVars.         *)
Take ==
  /\ at = "range"
  /\ sessions < MaxLines
  /\ at' = "due"
  /\ now' \in now .. now + MaxWait
  /\ sessions' = sessions + 1
  /\ step' = 1
  /\ delay' = msDelay
  /\ commandTime' = 0
  /\ values' = [v \in Var |-> 0]
  /\ opened' = sent
  /\ last' = 0
  /\ UNCHANGED <<msDelay, sent, began, started, slip, slips, begun, overslept>>

(* The session returns through DoReq's recursion; the next one begins      *)
(* after postSessionDelay, the last command's MsecDelay.                   *)
SessionOver ==
  /\ at' = "range"
  /\ msDelay' = Delay[NSteps]

BugPastDeadline == StopTime # 0 /\ now > StopTime   \* forgets the delay

BugPastOnce ==   \* checked for the session's first request only
  StopTime # 0 /\ last = 0 /\ now + delay > StopTime

PastDeadline == StopTime # 0 /\ now + delay > StopTime

CutShort ==
  /\ at = "due"
  /\ PastDeadline
  /\ SessionOver
  /\ UNCHANGED <<now, step, delay, commandTime, values, sent, sessions, opened,
                 last, began, started, slip, slips, begun, overslept>>

(* DoReq sleeps, and httpReq sets the FuncVars and sends the request.      *)
Request ==
  /\ at = "due"
  /\ ~PastDeadline
  /\ at' = "asked"
  /\ slip' \in 0 .. MaxSlip
  /\ now' = now + delay + slip'
  /\ started' = now'
  /\ began' = IF last = step THEN began ELSE now'
  /\ slips' = IF last = step THEN slips + slip' ELSE 0
  /\ begun' = IF last = 0 THEN now' ELSE begun
  /\ overslept' = IF last = 0 THEN 0 ELSE overslept + slip'
  /\ sent' = sent + 1
  /\ last' = step
  /\ values' = [v \in Var |-> IF v \in Func[step] THEN sent' ELSE values[v]]
  /\ UNCHANGED <<step, delay, msDelay, commandTime, sessions, opened>>

-----------------------------------------------------------------------------
(* What findSessionVars makes of an answer: the variables of the command   *)
(* that matched, "short" for an answer of two characters or less, "none"   *)
(* without a response (a TCP request without one ends the process).        *)
Answer == [kind : {"full"}, got : SUBSET Capture[step]]
            \cup [kind : {"short", "none"}, got : {{}}]

BugContinues(a) ==   \* an earlier value will do
  CASE a.kind = "full"  -> \A v \in Must[step] \cap Capture[step] : v \in a.got \/ values[v] # 0
    [] a.kind = "short" -> FALSE
    [] a.kind = "none"  -> Must[step] = {}

(* continueSession.  A MustCapture without SessionVar only matters when    *)
(* there is no response.                                                   *)
Continues(a) ==
  CASE a.kind = "full"  -> Must[step] \cap Capture[step] \subseteq a.got
    [] a.kind = "short" -> FALSE
    [] a.kind = "none"  -> Must[step] = {}

BugRequestTime(x)     == x + 2 * Delay[step]   \* the delay twice
BugRequestTimeLess(x) == x - Delay[step]       \* the delay subtracted

(* The delay after the request, and its duration x.                        *)
RequestTime(x) == Delay[step] + x

(* "add delay again here, to find out whether the delay will put us past   *)
(* the repeat time"                                                        *)
Again(x) == commandTime + RequestTime(x) + Delay[step] < Repeat[step]

BugCommandTimeAfter(x) == IF Again(x) THEN RequestTime(x) ELSE 0   \* does not add up
BugCommandTimeKept(x)  == commandTime + RequestTime(x)             \* is not reset

CommandTimeAfter(x) == IF Again(x) THEN commandTime + RequestTime(x) ELSE 0

StepAfter(x) == IF Again(x) THEN step ELSE step + 1

(* doLog and the rest of DoReq: with the next request or the session's end.*)
Return ==
  /\ at = "asked"
  /\ \E x \in 1 .. MaxLatency, a \in Answer :
       /\ now' = now + x
       /\ values' = [v \in Var |-> IF v \in a.got THEN sent ELSE values[v]]
       /\ delay' = Delay[step]
       /\ commandTime' = CommandTimeAfter(x)
       /\ \/ /\ Continues(a) /\ StepAfter(x) <= NSteps
             /\ at' = "due"
             /\ step' = StepAfter(x)
             /\ UNCHANGED msDelay
          \/ /\ ~(Continues(a) /\ StepAfter(x) <= NSteps)
             /\ SessionOver
             /\ UNCHANGED step
  /\ UNCHANGED <<sent, sessions, opened, last, began, started, slip, slips,
                 begun, overslept>>

Done == at = "range" /\ sessions = MaxLines /\ UNCHANGED vars

Next == Take \/ CutShort \/ Request \/ Return \/ Done

Spec == Init /\ [][Next]_vars

-----------------------------------------------------------------------------
TypeOK ==
  /\ now \in Nat
  /\ at \in {"range", "due", "asked"}
  /\ step \in Step
  /\ delay \in Nat
  /\ msDelay \in Nat
  /\ commandTime \in Nat
  /\ values \in [Var -> 0 .. sent]
  /\ sent \in Nat
  /\ sessions \in 0 .. MaxLines
  /\ opened \in 0 .. sent
  /\ last \in 0 .. NSteps
  /\ began \in Nat
  /\ started \in Nat
  /\ slip \in 0 .. MaxSlip
  /\ slips \in Nat
  /\ begun \in Nat
  /\ overslept \in Nat

(* commandTime, which DoReq adds up from delays and durations, is the time *)
(* since the command's first request began, but for the sleeps' slips.     *)
CommandTimeIsElapsed ==
  /\ at = "asked" => started = began + commandTime + slips
  /\ at = "due" /\ last = step => now + delay = began + commandTime + slips

(* A session repeats a command exactly as long as its MsecRepeat, counted  *)
(* from the start of the command's first request without the sleeps' slips,*)
(* leaves room for the delay before a request and the one DoReq adds       *)
(* "again".                                                                *)
RepeatsUseBudget ==
  [][at = "asked" /\ at' = "due" =>
       (step' = step <=> now' - slips + 2 * Delay[step] < began + Repeat[step])]_vars

(* No request begins after the -t deadline but for its own sleep's slip.   *)
DeadlineKept == StopTime # 0 /\ at = "asked" => started <= StopTime + slip

(* Each session variable was set by a request of this session: no value of *)
(* another input line is sent ("sessionVars should start fresh every time  *)
(* we start a DoReq session").                                             *)
OwnValues ==
  at # "range" => \A v \in Var : values[v] = 0 \/ values[v] > opened

(* A session goes on only with every must-capture of the command just run  *)
(* in hand, and from the latest answer: a stale value does not count.      *)
MustCaptured ==
  at = "due" /\ last # 0 =>
    \A v \in Must[last] \cap Capture[last] : values[v] = sent

(* The requests of one session, each a DoReq within the DoReq before it,   *)
(* are at most those that fit into every MsecRepeat when a request takes a *)
(* millisecond: no session repeats for ever, and the stack is bounded.     *)
MostRequests(k) ==
  IF Repeat[k] > Delay[k] THEN 1 + (Repeat[k] - Delay[k] - 1) \div (Delay[k] + 1) ELSE 1

StackBounded ==
  sent - opened <= Sums([k \in Step |-> MostRequests(k)], NSteps)[NSteps]

(* The time NewRunner takes a session to last (EstimateSessionTime) is not *)
(* exceeded, but for slips, by sessions whose requests last no longer than *)
(* it takes them to, if no command that repeats has a delay longer than    *)
(* its MsecRepeat.                                                         *)
SessionWithinEstimate ==
  at = "range" /\ last # 0 /\ MaxLatency <= CallTime
    /\ (\A k \in Step : Repeat[k] > 0 => Delay[k] <= Repeat[k]) =>
      now - begun - overslept <= EstimateSessionTime(Delay, Repeat)

(***************************************************************************)
(* The abstract promise: all that clients without a clock (Clients) know   *)
(* of time is whether the deadline has passed and which commands repeat.   *)
(***************************************************************************)
Promise == INSTANCE Steps WITH
  Length   <- NSteps,
  Repeats  <- {k \in Step : Repeat[k] > 0},
  doing    <- CASE at = "range" -> "nothing"
                [] at = "due"   -> "deciding"
                [] at = "asked" -> "asking",
  place    <- IF at = "range" THEN 1 ELSE step,
  deadline <- IF StopTime = 0 THEN "never" ELSE IF now <= StopTime THEN "armed" ELSE "past"

(* A client on the clock goes through the command queue in order, repeats  *)
(* only commands with an MsecRepeat, and goes ahead with no request past   *)
(* the deadline (the recursion of DoReq).                                  *)
StepsThrough == Promise!Spec
=============================================================================

------------------------------ MODULE Clients ------------------------------
(***************************************************************************)
(* The client goroutines of goRunner (runner.go, client, DoReq and doLog): *)
(* each one takes input lines from the traffic channel and drives one      *)
(* session of requests per line.  The step a session is at is kept; the    *)
(* clock is abstracted to "the -t deadline has or has not passed", and an  *)
(* answer to what the bookkeeping tells apart.  The modules GoRunner and   *)
(* Listener put a producer in front of the clients.                        *)
(***************************************************************************)
EXTENDS Integers, FiniteSets

CONSTANTS
  NClients,      \* flag -c: number of client goroutines
  NSteps,        \* length of runner.commandQueue
  TcpSteps,      \* the steps whose command has ReqType TCP
  MustCapture,   \* the steps whose command has a non-empty MustCapture
  RepeatSteps,   \* the steps whose command has MsecRepeat > 0
  Timed,         \* whether flag -t was given
  MaxLines,      \* bound: lines the input delivers
  MaxRequests    \* bound: requests of a client at which repeating stops

ASSUME ClientsAssumption ==
  /\ NClients \in Nat \ {0}
  /\ NSteps \in Nat \ {0}
  /\ TcpSteps \subseteq 1 .. NSteps
  /\ MustCapture \subseteq 1 .. NSteps
  /\ RepeatSteps \subseteq 1 .. NSteps
  /\ Timed \in BOOLEAN
  /\ MaxLines \in Nat \ {0}
  /\ MaxRequests \in Nat

Client == 0 .. NClients - 1
Line   == 1 .. MaxLines
NoLine == 0

VARIABLES
  cpc,                 \* where each client goroutine is
  job,                 \* the input line of its session, or NoLine
  step,                \* stepCounter, counted from 1
  answer,              \* what the request in flight came back with
  loaded,              \* its copy of foundAllSessionVars between load and store
  requests,            \* result.requests
  success,             \* result.success
  badFailed,           \* result.badFailed
  networkFailed,       \* result.networkFailed
  foundAllSessionVars, \* runner.foundAllSessionVars, written without a lock
  wg,                  \* counter of runner.wgClients
  closed,              \* trafficChannel has been closed
  stop,                \* runner.stopTime: "never" set, "armed", or "past"
  over,                \* history: lines whose session has returned
  missed,              \* history: some answer lacked a session variable
  late                 \* history: requests a client began after the deadline

sessionVars == <<cpc, job, step, answer, loaded, over, late>>
tallies     == <<requests, success, badFailed, networkFailed>>
clientVars  == <<sessionVars, tallies, foundAllSessionVars, wg, closed, stop, missed>>

ClientState ==
  {"unborn", "ramp", "range", "check", "sleep", "ask",
   "count", "load", "store", "verdict", "row", "gone"}

(***************************************************************************)
(* What doLog tells apart of an answer: TCP, an HTTP response with an      *)
(* accepted or refused status, or no response; and the two results of      *)
(* findSessionVars.  A missing must-capture is a missing variable.         *)
(***************************************************************************)
Answer == [kind : {"tcp", "good", "bad", "none"}, found : BOOLEAN, must : BOOLEAN]

NoAnswer == [kind |-> "none", found |-> FALSE, must |-> TRUE]

AnswersTo(s) ==
  IF s \in TcpSteps
  THEN {a \in Answer : a.kind = "tcp" /\ (a.found => a.must)}
  ELSE {a \in Answer : a.kind \in {"good", "bad"} /\ (a.found => a.must)}
         \cup {[kind |-> "none", found |-> FALSE, must |-> s \notin MustCapture]}

ClientsInit ==
  /\ cpc = [c \in Client |-> "unborn"]
  /\ job = [c \in Client |-> NoLine]
  /\ step = [c \in Client |-> 1]
  /\ answer = [c \in Client |-> NoAnswer]
  /\ loaded = [c \in Client |-> TRUE]
  /\ requests = [c \in Client |-> 0]
  /\ success = [c \in Client |-> 0]
  /\ badFailed = [c \in Client |-> 0]
  /\ networkFailed = [c \in Client |-> 0]
  /\ foundAllSessionVars = TRUE
  /\ wg = 0
  /\ closed = FALSE
  /\ stop = IF Timed THEN "armed" ELSE "never"
  /\ over = {}
  /\ missed = FALSE
  /\ late = [c \in Client |-> 0]

Goto(c, to) == cpc' = [cpc EXCEPT ![c] = to]
Move(c, from, to) == cpc[c] = from /\ Goto(c, to)

-----------------------------------------------------------------------------
(* Operators named Bug... are faults a change of the code could plausibly  *)
(* introduce in the definition that follows; no specification uses them.   *)
BugStartClient(c) ==   \* one Add(1), outside the loop
  /\ Move(c, "unborn", "ramp")
  /\ wg' = 1
  /\ UNCHANGED <<job, step, answer, loaded, tallies, foundAllSessionVars,
                 closed, stop, over, missed, late>>

(* StartClients runs this once per client: Add(1), a results entry, `go`.  *)
StartClient(c) ==
  /\ Move(c, "unborn", "ramp")
  /\ wg' = wg + 1
  /\ UNCHANGED <<job, step, answer, loaded, tallies, foundAllSessionVars,
                 closed, stop, over, missed, late>>

(* time.Sleep(initialDelay) is over; the client ranges over the channel.   *)
RampedUp(c) ==
  /\ Move(c, "ramp", "range")
  /\ UNCHANGED <<job, step, answer, loaded, tallies, foundAllSessionVars,
                 wg, closed, stop, over, missed, late>>

(* The unbuffered channel hands line l over: a sender waits with it.       *)
Take(c, l) ==
  /\ Move(c, "range", "check")
  /\ job' = [job EXCEPT ![c] = l]
  /\ UNCHANGED <<step, answer, loaded, tallies, foundAllSessionVars,
                 wg, closed, stop, over, missed, late>>

BugLeaveTwice(c) ==   \* Done() deferred and called
  /\ closed
  /\ Move(c, "range", "gone")
  /\ wg' = wg - 2
  /\ UNCHANGED <<job, step, answer, loaded, tallies, foundAllSessionVars,
                 closed, stop, over, missed, late>>

BugLeaveIdle(c) ==   \* leaves when no line is waiting
  /\ Move(c, "range", "gone")
  /\ wg' = wg - 1
  /\ UNCHANGED <<job, step, answer, loaded, tallies, foundAllSessionVars,
                 closed, stop, over, missed, late>>

(* The channel is closed: the range loop ends and the deferred Done runs.  *)
Leave(c) ==
  /\ closed
  /\ Move(c, "range", "gone")
  /\ wg' = wg - 1
  /\ UNCHANGED <<job, step, answer, loaded, tallies, foundAllSessionVars,
                 closed, stop, over, missed, late>>

BugSessionOver(c) ==   \* a stepCounter per client, not per line
  /\ Goto(c, "range")
  /\ over' = over \cup {job[c]}
  /\ job' = [job EXCEPT ![c] = NoLine]
  /\ UNCHANGED step

(* The session returns to the range loop, which drops its state.           *)
SessionOver(c) ==
  /\ Goto(c, "range")
  /\ over' = over \cup {job[c]}
  /\ job' = [job EXCEPT ![c] = NoLine]
  /\ step' = [step EXCEPT ![c] = 1]

BugCutShort(c) ==   \* the client leaves for good
  /\ stop # "never"
  /\ Move(c, "check", "gone")
  /\ wg' = wg - 1
  /\ over' = over \cup {job[c]}
  /\ job' = [job EXCEPT ![c] = NoLine]
  /\ UNCHANGED <<step, answer, loaded, tallies, foundAllSessionVars,
                 closed, stop, missed, late>>

(* DoReq gives the session up: the delay would end past the deadline, as   *)
(* it may before the deadline and always does after it.                    *)
CutShort(c) ==
  /\ stop # "never"
  /\ cpc[c] = "check"
  /\ SessionOver(c)
  /\ UNCHANGED <<answer, loaded, tallies, foundAllSessionVars,
                 wg, closed, stop, missed, late>>

BugGoAhead(c) ==   \* no deadline check
  /\ Move(c, "check", "sleep")
  /\ UNCHANGED <<job, step, answer, loaded, tallies, foundAllSessionVars,
                 wg, closed, stop, over, missed, late>>

(* The deadline check passes; DoReq sleeps for the delay.                  *)
GoAhead(c) ==
  /\ stop # "past"
  /\ Move(c, "check", "sleep")
  /\ UNCHANGED <<job, step, answer, loaded, tallies, foundAllSessionVars,
                 wg, closed, stop, over, missed, late>>

(* The sleep is over and the request goes out, late if the deadline passed *)
(* during the sleep.                                                       *)
StartRequest(c) ==
  /\ Move(c, "sleep", "ask")
  /\ late' = [late EXCEPT ![c] = IF stop = "past" THEN @ + 1 ELSE @]
  /\ UNCHANGED <<job, step, answer, loaded, tallies, foundAllSessionVars,
                 wg, closed, stop, over, missed>>

(* httpReq or tcpReq returns: an answer, or none before readTimeout.       *)
Returned(c) ==
  /\ Move(c, "ask", "count")
  /\ \E a \in AnswersTo(step[c]) : answer' = [answer EXCEPT ![c] = a]
  /\ UNCHANGED <<job, step, loaded, tallies, foundAllSessionVars,
                 wg, closed, stop, over, missed, late>>

(* doLog, first: the atomic increment of result.requests.                  *)
CountRequest(c) ==
  /\ Move(c, "count", IF answer[c].kind \in {"good", "bad"} THEN "load" ELSE "verdict")
  /\ requests' = [requests EXCEPT ![c] = @ + 1]
  /\ UNCHANGED <<job, step, answer, loaded, success, badFailed, networkFailed,
                 foundAllSessionVars, wg, closed, stop, over, missed, late>>

(* findSessionVars, then the read of foundAllSessionVars ...               *)
LoadFlag(c) ==
  /\ Move(c, "load", "store")
  /\ loaded' = [loaded EXCEPT ![c] = foundAllSessionVars]
  /\ missed' = (missed \/ ~answer[c].found)
  /\ UNCHANGED <<job, step, answer, tallies, foundAllSessionVars,
                 wg, closed, stop, over, late>>

BugStoreFlag(c) ==   \* the last answer decides
  /\ Move(c, "store", IF answer[c].kind = "tcp" THEN "row" ELSE "verdict")
  /\ foundAllSessionVars' = answer[c].found
  /\ loaded' = [loaded EXCEPT ![c] = TRUE]
  /\ UNCHANGED <<job, step, answer, tallies, wg, closed, stop, over, missed, late>>

(* ... and its write, with other clients free to run in between.           *)
StoreFlag(c) ==
  /\ Move(c, "store", IF answer[c].kind = "tcp" THEN "row" ELSE "verdict")
  /\ foundAllSessionVars' = (loaded[c] /\ answer[c].found)
  /\ loaded' = [loaded EXCEPT ![c] = TRUE]
  /\ UNCHANGED <<job, step, answer, tallies, wg, closed, stop, over, missed, late>>

BugVerdict(c) ==   \* no response is no outcome
  /\ Move(c, "verdict", IF answer[c].kind = "tcp" THEN "load" ELSE "row")
  /\ success' = [success EXCEPT ![c] = IF answer[c].kind \in {"tcp", "good"} THEN @ + 1 ELSE @]
  /\ badFailed' = [badFailed EXCEPT ![c] = IF answer[c].kind = "bad" THEN @ + 1 ELSE @]
  /\ UNCHANGED <<job, step, answer, loaded, requests, networkFailed, foundAllSessionVars,
                 wg, closed, stop, over, missed, late>>

(* The atomic increment of one outcome: before the flag for TCP, after it  *)
(* for an HTTP response.                                                   *)
Verdict(c) ==
  LET k == answer[c].kind
      Bump(f, kinds) == [f EXCEPT ![c] = IF k \in kinds THEN @ + 1 ELSE @]
  IN  /\ Move(c, "verdict", IF k = "tcp" THEN "load" ELSE "row")
      /\ success' = Bump(success, {"tcp", "good"})
      /\ badFailed' = Bump(badFailed, {"bad"})
      /\ networkFailed' = Bump(networkFailed, {"none"})
      /\ UNCHANGED <<job, step, answer, loaded, requests, foundAllSessionVars,
                     wg, closed, stop, over, missed, late>>

(* The steps DoReq may move to: a repeat leaves stepCounter where it was.  *)
StepsAfter(c) ==
  {step[c] + 1}
    \cup {s \in {step[c]} : s \in RepeatSteps /\ requests[c] < MaxRequests}

BugWriteRow(c) ==   \* goes one command past the end of commandQueue
  /\ cpc[c] = "row"
  /\ answer' = [answer EXCEPT ![c] = NoAnswer]
  /\ \E s \in StepsAfter(c) :
       \/ /\ answer[c].must /\ s <= NSteps + 1
          /\ Goto(c, "check")
          /\ step' = [step EXCEPT ![c] = s]
          /\ UNCHANGED <<job, over>>
       \/ /\ ~(answer[c].must /\ s <= NSteps + 1)
          /\ SessionOver(c)
  /\ UNCHANGED <<loaded, tallies, foundAllSessionVars, wg, closed, stop, missed, late>>

(* The log row is printed under stdoutMutex and DoReq goes on with a       *)
(* request of the session or returns through its recursion.                *)
WriteRow(c) ==
  /\ cpc[c] = "row"
  /\ answer' = [answer EXCEPT ![c] = NoAnswer]
  /\ \E s \in StepsAfter(c) :
       \/ /\ answer[c].must /\ s <= NSteps
          /\ Goto(c, "check")
          /\ step' = [step EXCEPT ![c] = s]
          /\ UNCHANGED <<job, over>>
       \/ /\ ~(answer[c].must /\ s <= NSteps)
          /\ SessionOver(c)
  /\ UNCHANGED <<loaded, tallies, foundAllSessionVars, wg, closed, stop, missed, late>>

(* time passes stopTime                                                    *)
Expire ==
  /\ stop = "armed"
  /\ stop' = "past"
  /\ UNCHANGED <<sessionVars, tallies, foundAllSessionVars, wg, closed, missed>>

(* The steps a client goroutine takes by itself once it holds a line, and  *)
(* those around it.                                                        *)
InSession(c) ==
  \/ CutShort(c) \/ GoAhead(c) \/ StartRequest(c) \/ Returned(c)
  \/ CountRequest(c) \/ LoadFlag(c) \/ StoreFlag(c) \/ Verdict(c) \/ WriteRow(c)

ClientStep(c) == RampedUp(c) \/ Leave(c) \/ InSession(c)

-----------------------------------------------------------------------------
ClientsTypeOK ==
  /\ cpc \in [Client -> ClientState]
  /\ job \in [Client -> Line \cup {NoLine}]
  /\ step \in [Client -> 1 .. NSteps]
  /\ answer \in [Client -> Answer]
  /\ loaded \in [Client -> BOOLEAN]
  /\ requests \in [Client -> Nat]
  /\ success \in [Client -> Nat]
  /\ badFailed \in [Client -> Nat]
  /\ networkFailed \in [Client -> Nat]
  /\ foundAllSessionVars \in BOOLEAN
  /\ wg \in Int
  /\ closed \in BOOLEAN
  /\ stop \in {"never", "armed", "past"}
  /\ over \subseteq Line
  /\ missed \in BOOLEAN
  /\ late \in [Client -> Nat]

Working(c) == cpc[c] \notin {"unborn", "ramp", "range", "gone"}
Alive(c)   == cpc[c] \notin {"unborn", "gone"}

(* A client holds an input line exactly while it is in a session.          *)
WorkHasLine == \A c \in Client : Working(c) <=> job[c] # NoLine

(* runner.wgClients counts the clients that are started and have not left. *)
WgCountsClients == wg = Cardinality({c \in Client : Alive(c)})

(* A request of client c has been counted and its outcome has not.         *)
Unsettled(c) ==
  \/ cpc[c] = "verdict"
  \/ cpc[c] \in {"load", "store"} /\ answer[c].kind # "tcp"

(* Every request a client has counted is counted under exactly one outcome *)
(* or is the one it is working on (doLog's four counters, read by Exit at  *)
(* any moment).                                                            *)
CountsAddUp ==
  \A c \in Client :
    requests[c] = success[c] + badFailed[c] + networkFailed[c]
                    + (IF Unsettled(c) THEN 1 ELSE 0)

(* After the -t deadline a client begins one request at most: the one      *)
(* whose delay it was sleeping through.                                    *)
AtMostOneLate == \A c \in Client : late[c] <= 1
=============================================================================

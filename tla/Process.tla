------------------------------ MODULE Process ------------------------------
(***************************************************************************)
(* The goRunner process (goRunner.go, main): main starts the clients,      *)
(* feeds them until the input ends, closes the channel, waits and exits; a *)
(* second goroutine exits at a signal.  Where the lines come from is left  *)
(* open: GoRunner (a file or standard input) and Listener (HTTP posts) are *)
(* the two feeders, and both implement ProcessSpec.                        *)
(***************************************************************************)
EXTENDS Results

VARIABLES
  main,    \* where the main goroutine is
  handed   \* history: the lines handed to a client

processVars == <<clientVars, resultVars, main, handed>>

MainState == {"start", "feed", "close", "wait", "orderly", "abort"}

ProcessInit ==
  /\ ClientsInit
  /\ ResultsInit
  /\ main = "start"
  /\ handed = {}

(* StartClients, one iteration: clients start in the order of their ids.   *)
StartClients ==
  /\ main = "start"
  /\ \E c \in Client :
       /\ \A d \in Client : d < c => cpc[d] # "unborn"
       /\ StartClient(c)
       /\ NewEntry(c)
       /\ main' = IF c = NClients - 1 THEN "feed" ELSE "start"
  /\ UNCHANGED handed

(* trafficChannel <- l: the channel is open, and client c is at its range  *)
(* loop.                                                                   *)
Send(c, l) ==
  /\ ~closed
  /\ Take(c, l)
  /\ handed' = handed \cup {l}
  /\ UNCHANGED <<resultVars, main>>

(* The input ends, and main leaves its loop.                               *)
StopFeeding ==
  /\ main = "feed"
  /\ main' = "close"
  /\ UNCHANGED <<clientVars, resultVars, handed>>

(* Main calls runner.Exit() in the midst of the input.                     *)
Abort ==
  /\ main = "feed"
  /\ main' = "abort"
  /\ EnterExit("main")
  /\ UNCHANGED <<clientVars, handed>>

(* Main calls os.Exit(1), with the clients already started (flagError).    *)
Fail ==
  /\ main = "feed"
  /\ main' = "abort"
  /\ status' = 1
  /\ exitBy' = "main"
  /\ UNCHANGED <<xpc, todo, cur, sumRequests, sumSuccess>>
  /\ UNCHANGED <<clientVars, handed>>

BugClose ==   \* forgets close(trafficChannel)
  /\ main = "close"
  /\ main' = "wait"
  /\ UNCHANGED <<clientVars, resultVars, handed>>

Close ==
  /\ main = "close"
  /\ closed' = TRUE
  /\ main' = "wait"
  /\ UNCHANGED <<sessionVars, tallies, foundAllSessionVars, wg, stop, missed>>
  /\ UNCHANGED <<resultVars, handed>>

BugWait ==   \* exits without runner.Wait()
  /\ main = "wait"
  /\ main' = "orderly"
  /\ EnterExit("main")
  /\ UNCHANGED <<clientVars, handed>>

(* runner.Wait() returns and main calls runner.Exit().                     *)
Wait ==
  /\ main = "wait"
  /\ wg = 0
  /\ main' = "orderly"
  /\ EnterExit("main")
  /\ UNCHANGED <<clientVars, handed>>

(* SIGINT or SIGTERM: the handler takes the first one and calls Exit.      *)
Interrupt ==
  /\ EnterExit("signal")
  /\ UNCHANGED <<clientVars, main, handed>>

Clock == Expire /\ UNCHANGED <<resultVars, main, handed>>

ClientMoves(c) == ClientStep(c) /\ UNCHANGED <<resultVars, main, handed>>

ClientDies(c) == FatalRequest(c) /\ UNCHANGED <<clientVars, main, handed>>

ExitMoves(e) == ExitStep(e) /\ UNCHANGED <<clientVars, main, handed>>

Executing == status = Running

(* What the process does by itself, whatever feeds it.                     *)
ProcessStep ==
  \/ StartClients \/ Close \/ Wait \/ Interrupt \/ Clock
  \/ \E c \in Client : ClientMoves(c) \/ ClientDies(c)
  \/ \E e \in Exiter : ExitMoves(e)

(* A feeder sends every line once, after the clients are started.          *)
FeederStep ==
  \/ StopFeeding \/ Abort \/ Fail
  \/ \E c \in Client, l \in Line :
       main \in {"feed", "close"} /\ l \notin handed /\ Send(c, l)

ProcessNext == Executing /\ (ProcessStep \/ FeederStep)

ProcessSpec == ProcessInit /\ [][ProcessNext]_processVars

-----------------------------------------------------------------------------
ProcessTypeOK ==
  /\ ClientsTypeOK
  /\ ResultsTypeOK
  /\ main \in MainState
  /\ handed \subseteq Line

(* The process ended through main's own runner.Exit() after Wait().        *)
OrderlyExit == exitBy = "main" /\ main = "orderly"

(* An orderly exit follows the end of every session that was begun, and    *)
(* all clients have left: wgClients counts exactly those yet to leave.     *)
OrderlyExitIsComplete ==
  OrderlyExit => over = handed /\ \A c \in Client : cpc[c] = "gone"

(* The status of an orderly exit tells the truth about every request of    *)
(* every client: 32 exactly when one did not succeed, and 33 only when an  *)
(* answer lacked a session variable.                                       *)
OrderlyStatusExact ==
  OrderlyExit =>
    /\ status = 32 <=> \E c \in Client : requests[c] # success[c]
    /\ status = 33 => missed

(* Status 0 of an orderly exit means that every answer held the session    *)
(* variables its command asked for (doLog ANDs each result into            *)
(* foundAllSessionVars).                                                   *)
ZeroMeansAllFound == OrderlyExit /\ status = 0 => ~missed

(* An input line gets one session only: no two clients work on the same    *)
(* line, and none on a line whose session is over.                         *)
OneClientPerLine ==
  \A c \in Client : job[c] # NoLine =>
    /\ job[c] \in handed \ over
    /\ \A d \in Client \ {c} : job[d] # job[c]

(***************************************************************************)
(* The abstract promise: a session is the input line it works on.          *)
(***************************************************************************)
LinesHeld == {job[c] : c \in Client} \ {NoLine}

Ending ==
  CASE Executing                 -> "no"
    [] ~Executing /\ OrderlyExit  -> "orderly"
    [] ~Executing /\ ~OrderlyExit -> "abrupt"

Promise == INSTANCE Workload WITH
  Sessions <- Line,
  Capacity <- NClients,
  running  <- LinesHeld,
  finished <- over,
  ended    <- Ending

(* goRunner keeps that promise, whatever clients, signals and fatal        *)
(* requests do in between.                                                 *)
KeepsPromise == Promise!Spec

(* And to each of its clients, with all the others around it, Steps.       *)
Queue(c) == INSTANCE Steps WITH
  Length   <- NSteps,
  Repeats  <- RepeatSteps,
  doing    <- IF ~Working(c) THEN "nothing"
              ELSE IF cpc[c] = "check" THEN "deciding" ELSE "asking",
  place    <- step[c],
  deadline <- stop

(* Each client goes through the command queue in order, repeats only       *)
(* commands with an MsecRepeat, and goes ahead with no request past the    *)
(* deadline, as a client on the clock does (Session).                      *)
StepsThrough ==
  /\ \A c \in Client : Queue(c)!Init
  /\ [][\A c \in Client : [Queue(c)!Next]_(Queue(c)!vars)]_processVars
=============================================================================

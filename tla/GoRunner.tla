------------------------------ MODULE GoRunner ------------------------------
(***************************************************************************)
(* goRunner fed from a file or from standard input (goRunner.go, main):    *)
(* main reads one line after the other, compares its number of fields with *)
(* the first line's, and hands it to a client.                             *)
(***************************************************************************)
EXTENDS Process

CONSTANT Delims   \* how many delimiters a non-empty input line may have

ASSUME DelimsAssumption == Delims \subseteq Nat /\ Delims # {}

VARIABLES
  feed,          \* where main is in its loop: "scan" or "hand"
  nread,         \* input lines read so far
  nbDelimeters,  \* delimiters of the first line
  line           \* the line main is working on

inputVars == <<feed, nread, nbDelimeters, line>>
vars      == <<processVars, inputVars>>

(* An empty line has no delimiter.                                         *)
InputLine ==
  [delims : Delims, empty : {FALSE}] \cup {[delims |-> 0, empty |-> TRUE]}

NoInput == [delims |-> 0, empty |-> FALSE]

Init ==
  /\ ProcessInit
  /\ feed = "scan"
  /\ nread = 0
  /\ nbDelimeters = 0
  /\ line = NoInput

(* The input file cannot be opened.                                        *)
NoInputFile ==
  /\ nread = 0
  /\ Fail
  /\ UNCHANGED inputVars

(* scanner.Scan() delivers a line.  It is compared with the first one      *)
(* before it is found to be empty; a mismatch makes main exit at once.     *)
ReadLine ==
  /\ main = "feed"
  /\ feed = "scan"
  /\ nread < MaxLines
  /\ nread' = nread + 1
  /\ \E l \in InputLine :
       LET expected == IF nread = 0 THEN l.delims ELSE nbDelimeters IN
       /\ line' = l
       /\ nbDelimeters' = expected
       /\ \/ l.delims # expected /\ Abort /\ UNCHANGED feed
          \/ l.delims = expected /\ l.empty /\ StopFeeding /\ UNCHANGED feed
          \/ l.delims = expected /\ ~l.empty /\ feed' = "hand" /\ UNCHANGED processVars

(* scanner.Scan() returns false: end of input, or a line it cannot hold.   *)
EndOfInput ==
  /\ feed = "scan"
  /\ StopFeeding
  /\ UNCHANGED inputVars

BugHandOver(c) ==   \* sends the line again after a slow session
  /\ main = "feed"
  /\ feed = "hand"
  /\ Send(c, nread)
  /\ feed' \in {"scan", "hand"}
  /\ UNCHANGED <<nread, nbDelimeters, line>>

(* trafficChannel <- inputLine meets a client at its range loop.           *)
HandOver(c) ==
  /\ main = "feed"
  /\ feed = "hand"
  /\ Send(c, nread)
  /\ feed' = "scan"
  /\ line' = NoInput
  /\ UNCHANGED <<nread, nbDelimeters>>

(* Nothing runs once the process has exited.                               *)
Exited == ~Executing /\ UNCHANGED vars

Next ==
  \/ /\ Executing
     /\ \/ NoInputFile \/ ReadLine \/ EndOfInput
        \/ \E c \in Client : HandOver(c)
        \/ ProcessStep /\ UNCHANGED inputVars
  \/ Exited

Spec == Init /\ [][Next]_vars

(***************************************************************************)
(* The Go scheduler runs every goroutine that can run, sleeps and the      *)
(* deadline come to an end, and the server or readTimeout ends a request.  *)
(* Nothing makes the input deliver a line or end, or a signal arrive.      *)
(***************************************************************************)
Live(A) == Executing /\ A /\ UNCHANGED inputVars

Fairness ==
  /\ WF_vars(Live(StartClients))
  /\ WF_vars(Live(Close))
  /\ WF_vars(Live(Wait))
  /\ WF_vars(Live(Clock))
  /\ WF_vars(Executing /\ \E c \in Client : HandOver(c))
  /\ \A c \in Client : WF_vars(Live(ClientMoves(c)))
  /\ \A e \in Exiter : WF_vars(Live(ExitMoves(e)))

FairSpec == Spec /\ Fairness

-----------------------------------------------------------------------------
TypeOK ==
  /\ ProcessTypeOK
  /\ feed \in {"scan", "hand"}
  /\ nread \in 0 .. MaxLines
  /\ nbDelimeters \in Delims \cup {0}
  /\ line \in InputLine \cup {NoInput}

(* An empty input line ends the input and never aborts the run.            *)
EmptyLineQuits == line.empty => main # "abort"

(* Every line main hands out gets a session that ends, unless the process  *)
(* ends first.                                                             *)
EveryLineServed ==
  \A l \in Line :
    (main = "feed" /\ feed = "hand" /\ nread = l) ~> (l \in over \/ ~Executing)

(* When the input has ended the process exits: Wait() returns.             *)
ExitsAfterInput == (main = "close") ~> ~Executing

(* A signal ends the process, whatever main and the clients wait for.      *)
SignalEnds == (xpc["signal"] # "off") ~> ~Executing
=============================================================================

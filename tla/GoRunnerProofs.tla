--------------------------- MODULE GoRunnerProofs ---------------------------
(***************************************************************************)
(* goRunner fed from a file or from standard input implements ProcessSpec, *)
(* so what ProcessProofs shows of any feeder holds of it: the theorems     *)
(* below, for any number of clients, lines and steps and any input.        *)
(***************************************************************************)
EXTENDS GoRunner, ProcessProofs

(* The lines handed out are the ones read, less the one in main's hand.    *)
FeedInv ==
  /\ nread \in 0 .. MaxLines
  /\ handed \subseteq 1 .. nread
  /\ feed = "hand" => nread > 0 /\ nread \notin handed
  /\ feed \in {"scan", "hand"}

LEMMA FeedInit == Init => FeedInv
BY ClientsAssumption DEF Init, ProcessInit, FeedInv

LEMMA FeedStep == FeedInv /\ [Next]_vars => FeedInv'
<1> SUFFICES ASSUME FeedInv, [Next]_vars PROVE FeedInv'
  OBVIOUS
<1> USE DEF FeedInv
<1>1. CASE ReadLine
  <2>1. nread' = nread + 1 /\ nread < MaxLines /\ feed = "scan" /\ handed' = handed
        /\ feed' \in {"scan", "hand"}
    BY <1>1 DEF ReadLine, Abort, StopFeeding, processVars
  <2> QED  BY <2>1, ClientsAssumption
<1>2. ASSUME NEW c \in Client, HandOver(c) PROVE FeedInv'
  BY <1>2 DEF HandOver, Send
<1>3. CASE NoInputFile \/ EndOfInput
  BY <1>3 DEF NoInputFile, EndOfInput, Fail, StopFeeding, inputVars
<1>4. CASE ProcessStep /\ UNCHANGED inputVars
  BY <1>4 DEF ProcessStep, StartClients, Close, Wait, Interrupt, Clock, ClientMoves,
              ClientDies, ExitMoves, inputVars
<1>5. CASE UNCHANGED vars
  BY <1>5 DEF vars, processVars, inputVars
<1> QED  BY <1>1, <1>2, <1>3, <1>4, <1>5 DEF Next, Exited

(* Every step of GoRunner is a step of the process, or leaves it alone.    *)
LEMMA FeederImplements == FeedInv /\ [Next]_vars => [ProcessNext]_processVars
<1> SUFFICES ASSUME FeedInv, [Next]_vars PROVE [ProcessNext]_processVars
  OBVIOUS
<1>1. CASE UNCHANGED vars
  BY <1>1 DEF vars
<1>2. CASE Executing /\ (NoInputFile \/ ReadLine \/ EndOfInput)
  BY <1>2 DEF NoInputFile, ReadLine, EndOfInput, ProcessNext, FeederStep
<1>3. ASSUME Executing, NEW c \in Client, HandOver(c) PROVE ProcessNext
  <2>1. nread \in Line /\ nread \notin handed /\ main = "feed" /\ Send(c, nread)
    BY <1>3, ClientsAssumption DEF HandOver, FeedInv, Line
  <2> QED  BY <1>3, <2>1 DEF ProcessNext, FeederStep
<1>4. CASE Executing /\ ProcessStep
  BY <1>4 DEF ProcessNext
<1> QED  BY <1>1, <1>2, <1>3, <1>4 DEF Next, Exited

(* goRunner reading a file or standard input is a process with a feeder    *)
(* that hands every line over once.                                        *)
THEOREM GoRunnerIsProcess == Spec => ProcessSpec
<1>1. Init => ProcessInit
  BY DEF Init
<1> QED
  BY <1>1, FeedInit, FeedStep, FeederImplements, PTL DEF Spec, ProcessSpec

-----------------------------------------------------------------------------
(* Every variable keeps its type.                                          *)
THEOREM TypeCorrect == Spec => []TypeOK
<1> DEFINE InputType == /\ nbDelimeters \in Delims \cup {0}
                        /\ line \in InputLine \cup {NoInput}
<1>1. Init => InputType
  BY DEF Init
<1>2. InputType /\ [Next]_vars => InputType'
  <2> SUFFICES ASSUME InputType, [Next]_vars PROVE InputType'
    OBVIOUS
  <2>1. CASE ReadLine
    <3>1. PICK l \in InputLine :
            /\ line' = l
            /\ nbDelimeters' = IF nread = 0 THEN l.delims ELSE nbDelimeters
      BY <2>1 DEF ReadLine
    <3>2. l.delims \in Delims \cup {0}
      <4>1. CASE l \in [delims : Delims, empty : {FALSE}]
        BY <4>1
      <4>2. CASE l = [delims |-> 0, empty |-> TRUE]
        BY <4>2
      <4> QED  BY <4>1, <4>2 DEF InputLine
    <3> QED  BY <3>1, <3>2
  <2>2. CASE \E c \in Client : HandOver(c)
    BY <2>2 DEF HandOver
  <2>3. CASE UNCHANGED inputVars
    BY <2>3 DEF inputVars
  <2> QED
    BY <2>1, <2>2, <2>3 DEF Next, Exited, NoInputFile, EndOfInput, vars
<1>3. ProcessTypeOK /\ FeedInv /\ InputType => TypeOK
  BY DEF TypeOK, FeedInv
<1> QED
  BY <1>1, <1>2, <1>3, FeedInit, FeedStep, GoRunnerIsProcess, ProcessTypes, PTL DEF Spec

(* An input line gets one session: no two clients ever work on the same    *)
(* line, nor one on a line whose session is over.                          *)
THEOREM LinesCorrect == Spec => []OneClientPerLine
BY GoRunnerIsProcess, ProcessLines, PTL

(* Every counted request is counted under exactly one outcome, or is the   *)
(* one in hand.                                                            *)
THEOREM CountsCorrect == Spec => []CountsAddUp
BY GoRunnerIsProcess, ProcessCounts, PTL

(* After the deadline a client begins one request at most.                 *)
THEOREM LateCorrect == Spec => []AtMostOneLate
BY GoRunnerIsProcess, ProcessLate, PTL

(* runner.wgClients counts exactly the clients started and not yet gone.   *)
THEOREM WgCorrect == Spec => []WgCountsClients
BY GoRunnerIsProcess, ProcessWg, PTL

(* The status of an orderly exit: 32 exactly when some request of some     *)
(* client did not succeed, and 33 only when a session variable was missing.*)
THEOREM StatusCorrect == Spec => []OrderlyStatusExact
BY GoRunnerIsProcess, ProcessStatus, PTL

(* With one client, status 0 of an orderly exit means that every answer    *)
(* held the session variables its command asked for.  (With two clients    *)
(* the run lost_flag refutes it.)                                          *)
THEOREM SoloStatusCorrect ==
  ASSUME NClients = 1
  PROVE  Spec => []ZeroMeansAllFound
BY GoRunnerIsProcess, ProcessSoloStatus, PTL

(* An orderly exit leaves no session of a handed line unfinished and no    *)
(* client behind.                                                          *)
THEOREM ExitComplete == Spec => []OrderlyExitIsComplete
BY GoRunnerIsProcess, ProcessExit, PTL

(* goRunner implements Workload: one session for a line at most, no more   *)
(* at a time than clients, and an orderly end only after the last session. *)
THEOREM PromiseKept == Spec => KeepsPromise
BY GoRunnerIsProcess, ProcessPromise, PTL

(* Each client goes through its commands in order, repeats only those with *)
(* an MsecRepeat, and goes ahead with no request past the deadline.        *)
THEOREM StepsFollowed == Spec => StepsThrough
BY GoRunnerIsProcess, ProcessSteps, PTL
=============================================================================

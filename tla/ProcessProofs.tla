--------------------------- MODULE ProcessProofs ---------------------------
(***************************************************************************)
(* The safety of ProcessSpec, for any number of clients, lines and steps   *)
(* and for any feeder: the types, the counters, the deadline, the flag,    *)
(* who works on which line, what an orderly exit means, and the promise of *)
(* Workload.  First come what the steps of clients and of exits preserve.  *)
(***************************************************************************)
EXTENDS Process, FiniteSetTheorems, TLAPS

-----------------------------------------------------------------------------
(* Type correctness.                                                       *)

LEMMA ClientFacts == Client \subseteq Int /\ 0 \in Client /\ NClients - 1 \in Client
BY ClientsAssumption DEF Client

LEMMA AnswersAreAnswers == \A s : AnswersTo(s) \subseteq Answer
<1> TAKE s
<1>1. [kind |-> "none", found |-> FALSE, must |-> s \notin MustCapture] \in Answer
  BY Zenon DEF Answer
<1> QED  BY <1>1 DEF AnswersTo

LEMMA NoAnswerType == NoAnswer \in Answer
BY Zenon DEF NoAnswer, Answer

(* A client's own step keeps the types of the clients' state.              *)
LEMMA ClientStepTypes ==
  ASSUME ClientsTypeOK, WorkHasLine, NEW c \in Client, ClientStep(c)
  PROVE  ClientsTypeOK'
<1> USE DEF ClientsTypeOK, Move, Goto, sessionVars, tallies
<1>1. CASE RampedUp(c)
  BY <1>1 DEF RampedUp, ClientState
<1>2. CASE Leave(c)
  BY <1>2 DEF Leave, ClientState
<1>3. CASE CutShort(c)
  BY <1>3, ClientsAssumption DEF CutShort, SessionOver, ClientState, WorkHasLine, Working
<1>4. CASE GoAhead(c)
  BY <1>4 DEF GoAhead, ClientState
<1>5. CASE StartRequest(c)
  BY <1>5 DEF StartRequest, ClientState
<1>6. CASE Returned(c)
  BY <1>6, AnswersAreAnswers DEF Returned, ClientState
<1>7. CASE CountRequest(c)
  BY <1>7 DEF CountRequest, ClientState
<1>8. CASE LoadFlag(c)
  BY <1>8 DEF LoadFlag, ClientState
<1>9. CASE StoreFlag(c)
  BY <1>9 DEF StoreFlag, ClientState
<1>10. CASE Verdict(c)
  BY <1>10 DEF Verdict, ClientState
<1>11. CASE WriteRow(c)
  <2>1. answer' \in [Client -> Answer]
    BY <1>11, NoAnswerType DEF WriteRow
  <2>2. step' \in [Client -> 1 .. NSteps]
    BY <1>11, ClientsAssumption DEF WriteRow, SessionOver, StepsAfter
  <2>3. /\ cpc' \in [Client -> ClientState]
        /\ job' \in [Client -> Line \cup {NoLine}]
        /\ over' \subseteq Line
    BY <1>11 DEF WriteRow, SessionOver, ClientState, WorkHasLine, Working
  <2> QED  BY <1>11, <2>1, <2>2, <2>3 DEF WriteRow
<1> QED
  BY <1>1, <1>2, <1>3, <1>4, <1>5, <1>6, <1>7, <1>8, <1>9, <1>10, <1>11
     DEF ClientStep, InSession

(* What StartClient and Take do to the types of the clients' state.        *)
LEMMA StartClientTypes ==
  ASSUME ClientsTypeOK, NEW c \in Client, StartClient(c)
  PROVE  ClientsTypeOK'
BY DEF ClientsTypeOK, StartClient, Move, Goto, tallies, ClientState

LEMMA TakeTypes ==
  ASSUME ClientsTypeOK, NEW c \in Client, NEW l \in Line, Take(c, l)
  PROVE  ClientsTypeOK'
BY DEF ClientsTypeOK, Take, Move, Goto, tallies, ClientState

LEMMA ClientsTypeStutter ==
  ASSUME ClientsTypeOK, UNCHANGED clientVars
  PROVE  ClientsTypeOK'
BY DEF ClientsTypeOK, clientVars, sessionVars, tallies

(* The steps of an exit keep the types of its state.                       *)
LEMMA ResultsTypeStutter ==
  ASSUME ResultsTypeOK, UNCHANGED resultVars
  PROVE  ResultsTypeOK'
BY DEF ResultsTypeOK, resultVars

LEMMA EnterExitTypes ==
  ASSUME ResultsTypeOK, NEW e \in Exiter, EnterExit(e)
  PROVE  ResultsTypeOK'
BY DEF ResultsTypeOK, EnterExit, Born

LEMMA ExitStepTypes ==
  ASSUME ResultsTypeOK, ClientsTypeOK, NEW e \in Exiter, ExitStep(e)
  PROVE  ResultsTypeOK'
<1> USE DEF ResultsTypeOK
<1>1. CASE SumRequests(e)
  <2>1. PICK c \in todo[e] :
          /\ cur' = [cur EXCEPT ![e] = c]
          /\ todo' = [todo EXCEPT ![e] = @ \ {c}]
          /\ sumRequests' = [sumRequests EXCEPT ![e] = @ + requests[c]]
    BY <1>1 DEF SumRequests
  <2>2. c \in Client /\ requests[c] \in Nat
    BY DEF ClientsTypeOK
  <2> QED  BY <1>1, <2>1, <2>2 DEF SumRequests
<1>2. CASE SumSuccess(e)
  <2>1. success[cur[e]] \in Nat
    BY DEF ClientsTypeOK
  <2> QED  BY <1>2, <2>1 DEF SumSuccess
<1>3. CASE OsExit(e)
  <2>1. exitStatus(e) \in {0, 32, 33}
    BY DEF exitStatus
  <2> QED  BY <1>3, <2>1 DEF OsExit, Exiter
<1> QED  BY <1>1, <1>2, <1>3 DEF ExitStep

LEMMA NewEntryTypes ==
  ASSUME ResultsTypeOK, NEW c \in Client, NewEntry(c)
  PROVE  ResultsTypeOK'
BY DEF ResultsTypeOK, NewEntry

LEMMA FatalRequestTypes ==
  ASSUME ResultsTypeOK, NEW c \in Client, FatalRequest(c)
  PROVE  ResultsTypeOK'
BY DEF ResultsTypeOK, FatalRequest

-----------------------------------------------------------------------------
(* A client works exactly while it holds a line.                           *)
LEMMA WorkHasLineStep ==
  ASSUME ClientsTypeOK, WorkHasLine, NEW c \in Client,
         \/ StartClient(c)
         \/ \E l \in Line : Take(c, l)
         \/ ClientStep(c)
  PROVE  WorkHasLine'
<1> USE DEF ClientsTypeOK, WorkHasLine, Working, Move, Goto, sessionVars
<1>1. CASE StartClient(c)
  BY <1>1 DEF StartClient
<1>2. CASE \E l \in Line : Take(c, l)
  BY <1>2 DEF Take, Line, NoLine
<1>3. CASE RampedUp(c)
  BY <1>3 DEF RampedUp
<1>4. CASE Leave(c)
  BY <1>4 DEF Leave
<1>5. CASE CutShort(c)
  BY <1>5 DEF CutShort, SessionOver
<1>6. CASE GoAhead(c)
  BY <1>6 DEF GoAhead
<1>7. CASE StartRequest(c)
  BY <1>7 DEF StartRequest
<1>8. CASE Returned(c)
  BY <1>8 DEF Returned
<1>9. CASE CountRequest(c)
  BY <1>9 DEF CountRequest
<1>10. CASE LoadFlag(c)
  BY <1>10 DEF LoadFlag
<1>11. CASE StoreFlag(c)
  BY <1>11 DEF StoreFlag
<1>12. CASE Verdict(c)
  BY <1>12 DEF Verdict
<1>13. CASE WriteRow(c)
  BY <1>13 DEF WriteRow, SessionOver
<1> QED
  BY <1>1, <1>2, <1>3, <1>4, <1>5, <1>6, <1>7, <1>8, <1>9, <1>10, <1>11,
     <1>12, <1>13 DEF ClientStep, InSession

-----------------------------------------------------------------------------
(* The counters.                                                           *)
LEMMA CountsClientStep ==
  ASSUME ClientsTypeOK, CountsAddUp, NEW c \in Client, ClientStep(c)
  PROVE  CountsAddUp'
<1> USE DEF ClientsTypeOK, CountsAddUp, Unsettled, Move, Goto, sessionVars, tallies
<1>1. CASE RampedUp(c)
  BY <1>1 DEF RampedUp
<1>2. CASE Leave(c)
  BY <1>2 DEF Leave
<1>3. CASE CutShort(c)
  BY <1>3 DEF CutShort, SessionOver
<1>4. CASE GoAhead(c)
  BY <1>4 DEF GoAhead
<1>5. CASE StartRequest(c)
  BY <1>5 DEF StartRequest
<1>6. CASE Returned(c)
  BY <1>6, AnswersAreAnswers DEF Returned
<1>7. CASE CountRequest(c)
  <2>1. answer[c].kind \in {"tcp", "good", "bad", "none"}
    BY DEF Answer
  <2> QED  BY <1>7, <2>1 DEF CountRequest
<1>8. CASE LoadFlag(c)
  BY <1>8 DEF LoadFlag
<1>9. CASE StoreFlag(c)
  BY <1>9 DEF StoreFlag
<1>10. CASE Verdict(c)
  <2>1. answer[c].kind \in {"tcp", "good", "bad", "none"}
    BY DEF Answer
  <2> QED  BY <1>10, <2>1 DEF Verdict
<1>11. CASE WriteRow(c)
  BY <1>11 DEF WriteRow, SessionOver
<1> QED
  BY <1>1, <1>2, <1>3, <1>4, <1>5, <1>6, <1>7, <1>8, <1>9, <1>10, <1>11
     DEF ClientStep, InSession

-----------------------------------------------------------------------------
(* The deadline.  A request begun late was slept for, and no client goes   *)
(* to sleep once the deadline has passed.                                  *)
LateInv ==
  /\ stop # "past" => \A c \in Client : late[c] = 0
  /\ stop = "past" => \A c \in Client :
       late[c] <= 1 /\ (cpc[c] = "sleep" => late[c] = 0)

LEMMA LateClientStep ==
  ASSUME ClientsTypeOK, LateInv, NEW c \in Client, ClientStep(c)
  PROVE  LateInv'
<1> USE DEF ClientsTypeOK, LateInv, Move, Goto, sessionVars
<1>1. CASE StartRequest(c)
  BY <1>1 DEF StartRequest
<1>2. CASE GoAhead(c)
  BY <1>2 DEF GoAhead
<1>3. CASE /\ UNCHANGED <<stop, late>>
           /\ \E pc \in ClientState \ {"sleep"} : cpc' = [cpc EXCEPT ![c] = pc]
  BY <1>3
<1>4. CASE RampedUp(c) \/ Leave(c) \/ CutShort(c)
  BY <1>3, <1>4 DEF RampedUp, Leave, CutShort, SessionOver, ClientState
<1>5. CASE Returned(c) \/ CountRequest(c) \/ LoadFlag(c)
  BY <1>3, <1>5 DEF Returned, CountRequest, LoadFlag, ClientState
<1>6. CASE StoreFlag(c) \/ Verdict(c)
  BY <1>3, <1>6 DEF StoreFlag, Verdict, ClientState
<1>7. CASE WriteRow(c)
  BY <1>3, <1>7 DEF WriteRow, SessionOver, ClientState
<1> QED  BY <1>1, <1>2, <1>4, <1>5, <1>6, <1>7 DEF ClientStep, InSession

-----------------------------------------------------------------------------
(* The flag.  Whatever clears foundAllSessionVars, or is about to, saw an  *)
(* answer that lacked a variable.                                          *)
FlagInv ==
  /\ ~foundAllSessionVars => missed
  /\ \A c \in Client : ~loaded[c] => missed
  /\ \A c \in Client : cpc[c] = "store" /\ ~answer[c].found => missed

LEMMA FlagClientStep ==
  ASSUME ClientsTypeOK, FlagInv, NEW c \in Client, ClientStep(c)
  PROVE  FlagInv'
<1> USE DEF ClientsTypeOK, FlagInv, Move, Goto, sessionVars
<1>1. CASE LoadFlag(c)
  BY <1>1 DEF LoadFlag
<1>2. CASE StoreFlag(c)
  BY <1>2 DEF StoreFlag
<1>3. CASE /\ UNCHANGED <<foundAllSessionVars, loaded, missed>>
           /\ \E pc \in ClientState \ {"store"} : cpc' = [cpc EXCEPT ![c] = pc]
           /\ \A d \in Client \ {c} : answer'[d] = answer[d]
  BY <1>3
<1>4. CASE RampedUp(c) \/ Leave(c) \/ CutShort(c)
  BY <1>3, <1>4 DEF RampedUp, Leave, CutShort, SessionOver, ClientState
<1>5. CASE GoAhead(c) \/ StartRequest(c)
  BY <1>3, <1>5 DEF GoAhead, StartRequest, ClientState
<1>6. CASE Returned(c)
  BY <1>3, <1>6 DEF Returned, ClientState
<1>7. CASE CountRequest(c) \/ Verdict(c)
  BY <1>3, <1>7 DEF CountRequest, Verdict, ClientState
<1>8. CASE WriteRow(c)
  BY <1>3, <1>8 DEF WriteRow, SessionOver, ClientState
<1> QED  BY <1>1, <1>2, <1>4, <1>5, <1>6, <1>7, <1>8 DEF ClientStep, InSession

-----------------------------------------------------------------------------
(* The clients main waits for.                                             *)
AliveClients == {c \in Client : Alive(c)}

LEMMA AliveFinite == IsFiniteSet(AliveClients)
<1>1. IsFiniteSet(Client)
  BY FS_Interval, ClientsAssumption DEF Client
<1> QED  BY <1>1, FS_Subset DEF AliveClients

-----------------------------------------------------------------------------
(* The exit.  Once main is in its own Exit() all clients are gone, so the  *)
(* counters it adds up stand still: its two sums agree exactly when they   *)
(* agree for every entry visited so far.                                   *)
SumsAgree(r, s, seen) ==
  /\ r >= s
  /\ r = s <=> \A c \in seen : requests[c] = success[c]

SumInv ==
  /\ xpc["main"] = "sum" =>
       SumsAgree(sumRequests["main"], sumSuccess["main"], Client \ todo["main"])
  /\ xpc["main"] = "add" =>
       /\ cur["main"] \notin todo["main"]
       /\ SumsAgree(sumRequests["main"] - requests[cur["main"]], sumSuccess["main"],
                    Client \ (todo["main"] \cup {cur["main"]}))

AllGone == \A c \in Client : cpc[c] = "gone"

LEMMA SuccessAtMostRequests ==
  ASSUME ClientsTypeOK, CountsAddUp
  PROVE  \A c \in Client : /\ requests[c] \in Nat /\ success[c] \in Nat
                            /\ success[c] <= requests[c]
BY DEF ClientsTypeOK, CountsAddUp

(* Main's walk over the results keeps the sums honest.                     *)
LEMMA SumStep ==
  ASSUME ClientsTypeOK, ResultsTypeOK, CountsAddUp, SumInv, UNCHANGED clientVars,
         SumRequests("main") \/ SumSuccess("main")
  PROVE  SumInv'
<1>1. UNCHANGED <<requests, success>>
  BY DEF clientVars, tallies
<1>2. \A c \in Client : /\ requests[c] \in Nat /\ success[c] \in Nat
                         /\ success[c] <= requests[c]
  BY SuccessAtMostRequests
<1>3. CASE SumRequests("main")
  <2>1. PICK c \in todo["main"] :
          /\ cur' = [cur EXCEPT !["main"] = c]
          /\ todo' = [todo EXCEPT !["main"] = @ \ {c}]
          /\ sumRequests' = [sumRequests EXCEPT !["main"] = @ + requests[c]]
    BY <1>3 DEF SumRequests
  <2>2. /\ cur'["main"] = c
        /\ todo'["main"] = todo["main"] \ {c}
        /\ sumRequests'["main"] = sumRequests["main"] + requests[c]
        /\ sumSuccess'["main"] = sumSuccess["main"]
        /\ xpc["main"] = "sum" /\ xpc'["main"] = "add"
        /\ c \in Client
    BY <1>3, <2>1 DEF SumRequests, ResultsTypeOK, Exiter
  <2>3. Client \ (todo'["main"] \cup {c}) = Client \ todo["main"]
    BY <2>2, <2>1
  <2>4. sumRequests["main"] \in Nat /\ sumSuccess["main"] \in Nat
    BY DEF ResultsTypeOK, Exiter
  <2>5. sumRequests'["main"] - requests'[c] = sumRequests["main"]
    BY <1>1, <1>2, <2>2, <2>4
  <2> QED  BY <1>1, <2>2, <2>3, <2>5 DEF SumInv, SumsAgree
<1>4. CASE SumSuccess("main")
  <2> DEFINE c == cur["main"]
             r == sumRequests["main"]
             s == sumSuccess["main"]
             seen == Client \ (todo["main"] \cup {c})
  <2>1. /\ todo'["main"] = todo["main"]
        /\ sumRequests'["main"] = r
        /\ sumSuccess'["main"] = s + success[c]
        /\ xpc["main"] = "add" /\ xpc'["main"] = "sum"
    BY <1>4 DEF SumSuccess, ResultsTypeOK, Exiter
  <2>2. c \in Client /\ r \in Nat /\ s \in Nat
    BY DEF ResultsTypeOK, Exiter
  <2>3. c \notin todo["main"] /\ SumsAgree(r - requests[c], s, seen)
    BY <2>1 DEF SumInv
  <2>4. Client \ todo["main"] = seen \cup {c}
    BY <2>2, <2>3
  <2>5. r >= s + success[c]
    BY <1>2, <2>2, <2>3 DEF SumsAgree
  <2>6. r = s + success[c] <=> \A d \in seen \cup {c} : requests[d] = success[d]
    <3>1. r = s + success[c] <=> r - requests[c] = s /\ requests[c] = success[c]
      BY <1>2, <2>2, <2>3 DEF SumsAgree
    <3> QED  BY <2>3, <3>1 DEF SumsAgree
  <2> QED  BY <1>1, <2>1, <2>4, <2>5, <2>6 DEF SumInv, SumsAgree
<1> QED  BY <1>3, <1>4

-----------------------------------------------------------------------------
(* The steps of the process, one disjunct per action.                      *)
Hands(c) ==
  \E l \in Line : main \in {"feed", "close"} /\ l \notin handed /\ Send(c, l)

LEMMA NextCases ==
  ASSUME ProcessNext
  PROVE  \/ StartClients \/ Close \/ Wait \/ Interrupt \/ Clock
         \/ StopFeeding \/ Abort \/ Fail
         \/ \E c \in Client : Hands(c) \/ ClientMoves(c) \/ ClientDies(c)
         \/ \E e \in Exiter : ExitMoves(e)
BY DEF ProcessNext, ProcessStep, FeederStep, Hands

-----------------------------------------------------------------------------
(* Type correctness: with WorkHasLine it is inductive, since a session     *)
(* that ends adds the line it held to over.                                *)
TypeInv == ProcessTypeOK /\ WorkHasLine

LEMMA TypeInit == ProcessInit => TypeInv
<1> SUFFICES ASSUME ProcessInit PROVE TypeInv
  OBVIOUS
<1>1. ClientsTypeOK
  <2>1. answer \in [Client -> Answer]
    BY NoAnswerType DEF ProcessInit, ClientsInit
  <2>2. step \in [Client -> 1 .. NSteps]
    BY ClientsAssumption DEF ProcessInit, ClientsInit
  <2>3. /\ cpc \in [Client -> ClientState]
        /\ job \in [Client -> Line \cup {NoLine}]
        /\ loaded \in [Client -> BOOLEAN]
    BY Zenon DEF ProcessInit, ClientsInit, ClientState
  <2>4. /\ requests \in [Client -> Nat] /\ success \in [Client -> Nat]
        /\ badFailed \in [Client -> Nat] /\ networkFailed \in [Client -> Nat]
        /\ late \in [Client -> Nat]
    BY DEF ProcessInit, ClientsInit
  <2>5. foundAllSessionVars \in BOOLEAN /\ closed \in BOOLEAN /\ missed \in BOOLEAN
    BY Zenon DEF ProcessInit, ClientsInit
  <2>6. wg \in Int /\ over \subseteq Line
    BY DEF ProcessInit, ClientsInit
  <2>7. stop \in {"never", "armed", "past"}
    BY DEF ProcessInit, ClientsInit
  <2> QED  BY <2>1, <2>2, <2>3, <2>4, <2>5, <2>6, <2>7 DEF ClientsTypeOK
<1>2. ResultsTypeOK
  BY ClientFacts DEF ProcessInit, ResultsInit, ResultsTypeOK, Running
<1>3. WorkHasLine
  BY DEF ProcessInit, ClientsInit, WorkHasLine, Working, NoLine
<1> QED  BY <1>1, <1>2, <1>3 DEF ProcessInit, TypeInv, ProcessTypeOK, MainState

LEMMA WorkHasLineStutter == WorkHasLine /\ UNCHANGED clientVars => WorkHasLine'
BY DEF WorkHasLine, Working, clientVars, sessionVars

LEMMA TypeStep == TypeInv /\ [ProcessNext]_processVars => TypeInv'
<1> SUFFICES ASSUME TypeInv, [ProcessNext]_processVars PROVE TypeInv'
  OBVIOUS
<1> USE DEF TypeInv, ProcessTypeOK
<1>1. CASE StartClients
  <2>1. PICK c \in Client : StartClient(c) /\ NewEntry(c)
                             /\ main' \in {"feed", "start"}
    BY <1>1 DEF StartClients
  <2> QED
    BY <1>1, <2>1, StartClientTypes, NewEntryTypes, WorkHasLineStep DEF StartClients, MainState
<1>2. CASE Fail
  <2>1. ClientsTypeOK' /\ WorkHasLine'
    BY <1>2, ClientsTypeStutter, WorkHasLineStutter DEF Fail
  <2>2. ResultsTypeOK'
    BY <1>2 DEF Fail, ResultsTypeOK
  <2> QED  BY <1>2, <2>1, <2>2 DEF Fail, MainState
<1>3. CASE StopFeeding
  BY <1>3, ClientsTypeStutter, WorkHasLineStutter, ResultsTypeStutter DEF StopFeeding, MainState
<1>4. CASE Abort \/ Wait
  BY <1>4, ClientsTypeStutter, WorkHasLineStutter, EnterExitTypes DEF Abort, Wait, Exiter, MainState
<1>5. CASE Close
  <2>1. ClientsTypeOK' /\ WorkHasLine'
    BY <1>5 DEF Close, ClientsTypeOK, WorkHasLine, Working, sessionVars, tallies
  <2> QED  BY <1>5, <2>1, ResultsTypeStutter DEF Close, MainState
<1>6. CASE Interrupt
  BY <1>6, ClientsTypeStutter, WorkHasLineStutter, EnterExitTypes DEF Interrupt, Exiter
<1>7. CASE Clock
  <2>1. ClientsTypeOK' /\ WorkHasLine'
    BY <1>7 DEF Clock, Expire, ClientsTypeOK, WorkHasLine, Working, sessionVars, tallies
  <2> QED  BY <1>7, <2>1, ResultsTypeStutter DEF Clock
<1>8. ASSUME NEW c \in Client, Hands(c) PROVE TypeInv'
  <2>1. PICK l \in Line : Send(c, l)
    BY <1>8 DEF Hands
  <2>2. ClientsTypeOK' /\ WorkHasLine'
    BY <2>1, TakeTypes, WorkHasLineStep DEF Send
  <2> QED  BY <2>1, <2>2, ResultsTypeStutter DEF Send
<1>9. ASSUME NEW c \in Client, ClientMoves(c) PROVE TypeInv'
  BY <1>9, ClientStepTypes, WorkHasLineStep, ResultsTypeStutter DEF ClientMoves
<1>10. ASSUME NEW c \in Client, ClientDies(c) PROVE TypeInv'
  BY <1>10, FatalRequestTypes, ClientsTypeStutter, WorkHasLineStutter DEF ClientDies
<1>11. ASSUME NEW e \in Exiter, ExitMoves(e) PROVE TypeInv'
  BY <1>11, ExitStepTypes, ClientsTypeStutter, WorkHasLineStutter DEF ExitMoves
<1>12. CASE UNCHANGED processVars
  BY <1>12, ClientsTypeStutter, WorkHasLineStutter, ResultsTypeStutter DEF processVars
<1> QED
  BY <1>1, <1>2, <1>3, <1>4, <1>5, <1>6, <1>7, <1>8, <1>9, <1>10, <1>11, <1>12, NextCases

(* Every variable of main, the clients and the exit keeps its type.        *)
THEOREM ProcessTypes == ProcessSpec => []ProcessTypeOK
<1>1. TypeInv => ProcessTypeOK
  BY DEF TypeInv
<1> QED  BY <1>1, TypeInit, TypeStep, PTL DEF ProcessSpec

-----------------------------------------------------------------------------
(* The counters.  CountsAddUp is inductive once the types are known.       *)

LEMMA CountsInit == ProcessInit => CountsAddUp
BY DEF ProcessInit, ClientsInit, CountsAddUp, Unsettled

LEMMA CountsStep == TypeInv /\ CountsAddUp /\ [ProcessNext]_processVars => CountsAddUp'
<1> SUFFICES ASSUME TypeInv, CountsAddUp, [ProcessNext]_processVars PROVE CountsAddUp'
  OBVIOUS
<1>0. ClientsTypeOK
  BY DEF TypeInv, ProcessTypeOK
<1>1. CASE UNCHANGED <<cpc, answer, tallies>>
  BY <1>1 DEF CountsAddUp, Unsettled, tallies
<1>2. CASE StartClients
  BY <1>0, <1>2
     DEF StartClients, StartClient, Move, Goto, ClientsTypeOK, CountsAddUp, Unsettled, tallies
<1>3. ASSUME NEW c \in Client, Hands(c) PROVE CountsAddUp'
  BY <1>0, <1>3
     DEF Hands, Send, Take, Move, Goto, ClientsTypeOK, CountsAddUp, Unsettled, tallies
<1>4. ASSUME NEW c \in Client, ClientMoves(c) PROVE CountsAddUp'
  BY <1>0, <1>4, CountsClientStep DEF ClientMoves
<1>5. \/ UNCHANGED <<cpc, answer, tallies>>
      \/ StartClients
      \/ \E c \in Client : Hands(c) \/ ClientMoves(c)
  BY NextCases DEF Fail, Abort, StopFeeding, Close, Wait, Interrupt,
         Clock, Expire, ClientDies, ExitMoves, processVars, clientVars, sessionVars
<1> QED  BY <1>1, <1>2, <1>3, <1>4, <1>5

(* Every counted request is counted under exactly one outcome, or is the   *)
(* one in hand.                                                            *)
THEOREM ProcessCounts == ProcessSpec => []CountsAddUp
BY TypeInit, TypeStep, CountsInit, CountsStep, PTL DEF ProcessSpec

-----------------------------------------------------------------------------
LEMMA LateInit == ProcessInit => LateInv
BY DEF ProcessInit, ClientsInit, LateInv

LEMMA LateStep == TypeInv /\ LateInv /\ [ProcessNext]_processVars => LateInv'
<1> SUFFICES ASSUME TypeInv, LateInv, [ProcessNext]_processVars PROVE LateInv'
  OBVIOUS
<1>0. ClientsTypeOK
  BY DEF TypeInv, ProcessTypeOK
<1>1. CASE UNCHANGED <<cpc, stop, late>>
  BY <1>1 DEF LateInv
<1>2. CASE StartClients
  BY <1>0, <1>2 DEF StartClients, StartClient, Move, Goto, ClientsTypeOK, LateInv
<1>3. ASSUME NEW c \in Client, Hands(c) PROVE LateInv'
  BY <1>0, <1>3 DEF Hands, Send, Take, Move, Goto, ClientsTypeOK, LateInv
<1>4. ASSUME NEW c \in Client, ClientMoves(c) PROVE LateInv'
  BY <1>0, <1>4, LateClientStep DEF ClientMoves
<1>5. CASE Clock
  BY <1>5 DEF Clock, Expire, sessionVars, LateInv
<1>6. \/ UNCHANGED <<cpc, stop, late>>
      \/ StartClients \/ Clock
      \/ \E c \in Client : Hands(c) \/ ClientMoves(c)
  BY NextCases DEF Fail, Abort, StopFeeding, Close, Wait, Interrupt,
         ClientDies, ExitMoves, processVars, clientVars, sessionVars
<1> QED  BY <1>1, <1>2, <1>3, <1>4, <1>5, <1>6

(* After the deadline a client begins one request at most.                 *)
THEOREM ProcessLate == ProcessSpec => []AtMostOneLate
<1>1. TypeInv /\ LateInv => AtMostOneLate
  BY DEF TypeInv, ProcessTypeOK, ClientsTypeOK, LateInv, AtMostOneLate
<1> QED  BY <1>1, TypeInit, TypeStep, LateInit, LateStep, PTL DEF ProcessSpec

-----------------------------------------------------------------------------
LEMMA FlagInit == ProcessInit => FlagInv
BY DEF ProcessInit, ClientsInit, FlagInv

LEMMA FlagStep == TypeInv /\ FlagInv /\ [ProcessNext]_processVars => FlagInv'
<1> SUFFICES ASSUME TypeInv, FlagInv, [ProcessNext]_processVars PROVE FlagInv'
  OBVIOUS
<1>0. ClientsTypeOK
  BY DEF TypeInv, ProcessTypeOK
<1>1. CASE UNCHANGED <<cpc, answer, loaded, foundAllSessionVars, missed>>
  BY <1>1 DEF FlagInv
<1>2. CASE StartClients
  BY <1>0, <1>2 DEF StartClients, StartClient, Move, Goto, ClientsTypeOK, FlagInv
<1>3. ASSUME NEW c \in Client, Hands(c) PROVE FlagInv'
  BY <1>0, <1>3 DEF Hands, Send, Take, Move, Goto, ClientsTypeOK, FlagInv
<1>4. ASSUME NEW c \in Client, ClientMoves(c) PROVE FlagInv'
  BY <1>0, <1>4, FlagClientStep DEF ClientMoves
<1>5. \/ UNCHANGED <<cpc, answer, loaded, foundAllSessionVars, missed>>
      \/ StartClients
      \/ \E c \in Client : Hands(c) \/ ClientMoves(c)
  BY NextCases DEF Fail, Abort, StopFeeding, Close, Wait, Interrupt,
         Clock, Expire, ClientDies, ExitMoves, processVars, clientVars, sessionVars
<1> QED  BY <1>1, <1>2, <1>3, <1>4, <1>5

-----------------------------------------------------------------------------
(* The lines.  A line is handed over once, and is then held by exactly one *)
(* client until its session is over.                                       *)
LineInv ==
  /\ over \subseteq handed
  /\ OneClientPerLine
  /\ \A l \in handed : l \in over \/ \E c \in Client : job[c] = l

LEMMA LineInit == ProcessInit => LineInv
BY DEF ProcessInit, ClientsInit, LineInv, OneClientPerLine

LEMMA LineSessionOver ==
  ASSUME ClientsTypeOK, WorkHasLine, LineInv, NEW c \in Client, Working(c),
         SessionOver(c), UNCHANGED handed
  PROVE  LineInv'
<1>1. job[c] # NoLine /\ job[c] \in handed
  BY DEF WorkHasLine, LineInv, OneClientPerLine
<1>2. \A d \in Client \ {c} : job'[d] = job[d] /\ job[d] # job[c]
  BY <1>1 DEF SessionOver, ClientsTypeOK, LineInv, OneClientPerLine
<1>3. job'[c] = NoLine /\ over' = over \cup {job[c]}
  BY DEF SessionOver, ClientsTypeOK
<1>4. OneClientPerLine'
  BY <1>1, <1>2, <1>3 DEF LineInv, OneClientPerLine
<1>5. \A l \in handed' : l \in over' \/ \E d \in Client : job'[d] = l
  BY <1>1, <1>2, <1>3 DEF LineInv
<1> QED  BY <1>1, <1>3, <1>4, <1>5 DEF LineInv

LEMMA LineStep == TypeInv /\ LineInv /\ [ProcessNext]_processVars => LineInv'
<1> SUFFICES ASSUME TypeInv, LineInv, [ProcessNext]_processVars PROVE LineInv'
  OBVIOUS
<1>0. ClientsTypeOK /\ WorkHasLine
  BY DEF TypeInv, ProcessTypeOK
<1>1. CASE UNCHANGED <<job, over, handed>>
  BY <1>1 DEF LineInv, OneClientPerLine
<1>2. ASSUME NEW c \in Client, Hands(c) PROVE LineInv'
  <2>1. PICK l \in Line : l \notin handed /\ Send(c, l)
    BY <1>2 DEF Hands
  <2>2. /\ job' = [job EXCEPT ![c] = l]
        /\ handed' = handed \cup {l}
        /\ cpc[c] = "range"
        /\ UNCHANGED over
    BY <2>1 DEF Send, Take, Move
  <2>3. \A d \in Client : job[d] # l
    BY <2>1 DEF LineInv, OneClientPerLine, Line, NoLine
  <2>4. job[c] = NoLine
    BY <1>0, <2>2 DEF WorkHasLine, Working
  <2>5. OneClientPerLine'
    BY <1>0, <2>1, <2>2, <2>3 DEF LineInv, OneClientPerLine, ClientsTypeOK
  <2>6. \A k \in handed' : k \in over' \/ \E d \in Client : job'[d] = k
    <3> SUFFICES ASSUME NEW k \in handed', k \notin over'
                 PROVE  \E d \in Client : job'[d] = k
      OBVIOUS
    <3>1. CASE k = l
      BY <1>0, <2>2, <3>1 DEF ClientsTypeOK
    <3>2. CASE k # l
      <4>1. PICK d \in Client : job[d] = k
        BY <2>2, <3>2 DEF LineInv
      <4>2. k # NoLine
        BY <2>2, <3>2 DEF TypeInv, ProcessTypeOK, Line, NoLine
      <4> QED  BY <1>0, <2>2, <2>4, <4>1, <4>2 DEF ClientsTypeOK
    <3> QED  BY <3>1, <3>2
  <2> QED  BY <2>2, <2>5, <2>6 DEF LineInv
<1>3. ASSUME NEW c \in Client, ClientMoves(c) PROVE LineInv'
  <2>1. UNCHANGED handed
    BY <1>3 DEF ClientMoves
  <2>2. CASE CutShort(c)
    BY <1>0, <2>1, <2>2, LineSessionOver DEF CutShort, Working
  <2>3. CASE WriteRow(c) /\ SessionOver(c)
    BY <1>0, <2>1, <2>3, LineSessionOver DEF WriteRow, Working
  <2>4. CASE UNCHANGED <<job, over>>
    BY <1>1, <2>1, <2>4
  <2> QED
    BY <1>3, <2>2, <2>3, <2>4
       DEF ClientMoves, ClientStep, InSession, RampedUp, Leave, GoAhead, StartRequest,
           Returned, CountRequest, LoadFlag, StoreFlag, Verdict, WriteRow
<1>4. \/ UNCHANGED <<job, over, handed>>
      \/ \E c \in Client : Hands(c) \/ ClientMoves(c)
  BY NextCases
     DEF StartClients, StartClient, Fail, Abort, StopFeeding, Close, Wait, Interrupt,
         Clock, Expire, ClientDies, ExitMoves, processVars, clientVars, sessionVars
<1> QED  BY <1>1, <1>2, <1>3, <1>4

(* An input line gets one session: no two clients ever work on the same    *)
(* line, nor one on a line whose session is over.                          *)
THEOREM ProcessLines == ProcessSpec => []OneClientPerLine
<1>1. LineInv => OneClientPerLine
  BY DEF LineInv
<1> QED  BY <1>1, TypeInit, TypeStep, LineInit, LineStep, PTL DEF ProcessSpec

-----------------------------------------------------------------------------
WgInv ==
  /\ WgCountsClients
  /\ main # "start" => \A c \in Client : cpc[c] # "unborn"
  /\ \A c, d \in Client : d < c /\ cpc[d] = "unborn" => cpc[c] = "unborn"

LEMMA WgInit == ProcessInit => WgInv
<1> SUFFICES ASSUME ProcessInit PROVE WgInv
  OBVIOUS
<1>1. AliveClients = {}
  BY DEF ProcessInit, ClientsInit, AliveClients, Alive
<1> QED  BY <1>1, FS_EmptySet DEF ProcessInit, ClientsInit, WgInv, WgCountsClients, AliveClients

LEMMA WgStep == TypeInv /\ WgInv /\ [ProcessNext]_processVars => WgInv'
<1> SUFFICES ASSUME TypeInv, WgInv, [ProcessNext]_processVars PROVE WgInv'
  OBVIOUS
<1>0. cpc \in [Client -> ClientState] /\ wg \in Int
  BY DEF TypeInv, ProcessTypeOK, ClientsTypeOK
<1>1. ASSUME AliveClients' = AliveClients, wg' = wg PROVE WgCountsClients'
  BY <1>1 DEF WgInv, WgCountsClients, AliveClients
<1>2. CASE UNCHANGED <<cpc, wg>> /\ (main = "start" => main' = "start")
  <2>1. AliveClients' = AliveClients
    BY <1>2 DEF AliveClients, Alive
  <2> QED  BY <1>1, <1>2, <2>1 DEF WgInv
<1>3. CASE StartClients
  <2>1. PICK c \in Client :
          /\ \A d \in Client : d < c => cpc[d] # "unborn"
          /\ cpc[c] = "unborn"
          /\ cpc' = [cpc EXCEPT ![c] = "ramp"]
          /\ wg' = wg + 1
          /\ main' = IF c = NClients - 1 THEN "feed" ELSE "start"
    BY <1>3 DEF StartClients, StartClient, Move, Goto
  <2>2. AliveClients' = AliveClients \cup {c} /\ c \notin AliveClients
    BY <1>0, <2>1 DEF AliveClients, Alive
  <2>3. WgCountsClients'
    BY <2>1, <2>2, AliveFinite, FS_AddElement DEF WgInv, WgCountsClients, AliveClients
  <2>4. main' # "start" => \A d \in Client : cpc'[d] # "unborn"
    BY <1>0, <2>1, ClientsAssumption DEF Client
  <2>5. \A b, d \in Client : d < b /\ cpc'[d] = "unborn" => cpc'[b] = "unborn"
    BY <1>0, <2>1, ClientFacts DEF WgInv
  <2> QED  BY <2>3, <2>4, <2>5 DEF WgInv
<1>4. ASSUME NEW c \in Client, Leave(c), UNCHANGED main PROVE WgInv'
  <2>1. /\ cpc[c] = "range"
        /\ cpc' = [cpc EXCEPT ![c] = "gone"]
        /\ wg' = wg - 1
    BY <1>4 DEF Leave, Move, Goto
  <2>2. AliveClients' = AliveClients \ {c} /\ c \in AliveClients
    BY <1>0, <2>1 DEF AliveClients, Alive
  <2>3. WgCountsClients'
    BY <2>1, <2>2, AliveFinite, FS_RemoveElement DEF WgInv, WgCountsClients, AliveClients
  <2> QED  BY <1>0, <1>4, <2>1, <2>3 DEF WgInv
<1>5. ASSUME NEW c \in Client, NEW pc \in ClientState \ {"unborn", "gone"},
             Alive(c), cpc' = [cpc EXCEPT ![c] = pc], wg' = wg,
             main = "start" => main' = "start"
      PROVE  WgInv'
  <2>1. AliveClients' = AliveClients
    BY <1>0, <1>5 DEF AliveClients, Alive
  <2> QED  BY <1>0, <1>1, <1>5, <2>1 DEF WgInv, Alive
<1>6. ASSUME NEW c \in Client, Hands(c) PROVE WgInv'
  BY <1>5, <1>6 DEF Hands, Send, Take, Move, Goto, ClientState, Alive
<1>7. ASSUME NEW c \in Client, ClientMoves(c) PROVE WgInv'
  <2>1. UNCHANGED main
    BY <1>7 DEF ClientMoves
  <2> USE DEF Move, Goto, ClientState, Alive
  <2>2. CASE Leave(c)
    BY <1>4, <2>1, <2>2
  <2>3. CASE RampedUp(c) \/ CutShort(c) \/ GoAhead(c)
    BY <1>5, <2>1, <2>3 DEF RampedUp, CutShort, GoAhead, SessionOver
  <2>4. CASE StartRequest(c) \/ Returned(c) \/ CountRequest(c)
    BY <1>5, <2>1, <2>4 DEF StartRequest, Returned, CountRequest
  <2>5. CASE LoadFlag(c) \/ StoreFlag(c) \/ Verdict(c)
    BY <1>5, <2>1, <2>5 DEF LoadFlag, StoreFlag, Verdict
  <2>6. CASE WriteRow(c)
    BY <1>5, <2>1, <2>6 DEF WriteRow, SessionOver
  <2> QED
    BY <1>7, <2>2, <2>3, <2>4, <2>5, <2>6 DEF ClientMoves, ClientStep, InSession
<1>8. \/ UNCHANGED <<cpc, wg>> /\ (main = "start" => main' = "start")
      \/ StartClients
      \/ \E c \in Client : Hands(c) \/ ClientMoves(c)
  BY NextCases DEF Fail, Abort, StopFeeding, Close, Wait, Interrupt,
         Clock, Expire, ClientDies, ExitMoves, processVars, clientVars, sessionVars
<1> QED  BY <1>2, <1>3, <1>6, <1>7, <1>8

(* runner.wgClients counts exactly the clients started and not yet gone.   *)
THEOREM ProcessWg == ProcessSpec => []WgCountsClients
<1>1. WgInv => WgCountsClients
  BY DEF WgInv
<1> QED  BY <1>1, TypeInit, TypeStep, WgInit, WgStep, PTL DEF ProcessSpec

-----------------------------------------------------------------------------
ExitInv ==
  /\ Executing <=> exitBy = "nobody"
  /\ main \notin {"orderly", "abort"} => xpc["main"] = "off" /\ exitBy # "main"
  /\ xpc["main"] = "off" => sumRequests["main"] = 0 /\ sumSuccess["main"] = 0
  /\ main = "orderly" => xpc["main"] # "off" /\ AllGone /\ SumInv
  /\ OrderlyStatusExact

Inv == TypeInv /\ CountsAddUp /\ FlagInv /\ LineInv /\ WgInv

LEMMA ExitInit == ProcessInit => ExitInv
BY DEF ProcessInit, ResultsInit, ExitInv, OrderlyStatusExact, OrderlyExit, Executing, Exiter

(* Nobody is left to run when main is in its own Exit().                   *)
LEMMA GoneClientsRest ==
  ASSUME AllGone, NEW c \in Client
  PROVE  ~Hands(c) /\ ~ClientMoves(c) /\ ~ClientDies(c)
BY DEF AllGone, Hands, Send, Take, ClientMoves, ClientStep, InSession, ClientDies, FatalRequest,
       RampedUp, Leave, CutShort, GoAhead, StartRequest, Returned, CountRequest,
       LoadFlag, StoreFlag, Verdict, WriteRow, Move

LEMMA ExitStepInv == Inv /\ ExitInv /\ [ProcessNext]_processVars => ExitInv'
<1> SUFFICES ASSUME Inv, ExitInv, [ProcessNext]_processVars PROVE ExitInv'
  OBVIOUS
<1>0. ClientsTypeOK /\ ResultsTypeOK /\ CountsAddUp /\ FlagInv
  BY DEF Inv, TypeInv, ProcessTypeOK
<1>1. CASE UNCHANGED processVars
  BY <1>1 DEF processVars, clientVars, sessionVars, tallies, resultVars, ExitInv, AllGone, SumInv, SumsAgree,
              OrderlyStatusExact, OrderlyExit, Executing
<1>2. SUFFICES ASSUME Executing, ProcessNext PROVE ExitInv'
  BY <1>1 DEF ProcessNext
<1>3. exitBy = "nobody"
  BY <1>2 DEF ExitInv
<1>4. ASSUME status' = status, exitBy' = exitBy PROVE /\ (Executing <=> exitBy = "nobody")'
                                                     /\ exitBy' # "main"
                                                     /\ OrderlyStatusExact'
  BY <1>2, <1>3, <1>4 DEF OrderlyStatusExact, OrderlyExit, Executing
<1>5. CASE main = "orderly"
  <2>1. AllGone /\ SumInv /\ xpc["main"] # "off"
    BY <1>5 DEF ExitInv
  <2>2. CASE Clock \/ Interrupt
    <3>1. /\ UNCHANGED <<cpc, requests, success, cur, sumRequests, sumSuccess, status, exitBy, main>>
          /\ xpc'["main"] = xpc["main"] /\ todo'["main"] = todo["main"]
      BY <1>0, <2>2 DEF Clock, Expire, Interrupt, EnterExit, clientVars, sessionVars, tallies,
                        resultVars, ResultsTypeOK, Exiter
    <3> QED  BY <1>4, <1>5, <2>1, <3>1 DEF ExitInv, AllGone, SumInv, SumsAgree
  <2>3. CASE ExitMoves("main")
    <3>1. UNCHANGED <<clientVars, main>> /\ AllGone'
      BY <2>1, <2>3 DEF ExitMoves, clientVars, sessionVars, AllGone
    <3>2. CASE SumRequests("main") \/ SumSuccess("main")
      <4>1. SumInv'
        BY <1>0, <2>1, <3>1, <3>2, SumStep
      <4>2. UNCHANGED <<status, exitBy>> /\ xpc'["main"] # "off"
        BY <1>0, <3>2 DEF SumRequests, SumSuccess, ResultsTypeOK, Exiter
      <4> QED  BY <1>4, <1>5, <3>1, <4>1, <4>2 DEF ExitInv
    <3>3. CASE OsExit("main")
      <4>1. /\ xpc["main"] = "sum" /\ todo["main"] = {}
            /\ status' = exitStatus("main") /\ exitBy' = "main"
            /\ UNCHANGED <<xpc, todo, cur, sumRequests, sumSuccess>>
        BY <3>3 DEF OsExit
      <4>2. SumsAgree(sumRequests["main"], sumSuccess["main"], Client)
        BY <2>1, <4>1 DEF SumInv
      <4>3. status' = 32 <=> \E c \in Client : requests[c] # success[c]
        BY <4>1, <4>2 DEF exitStatus, SumsAgree
      <4>4. status' = 33 => missed
        BY <1>0, <4>1 DEF exitStatus, FlagInv
      <4>5. status' # Running
        BY <4>1 DEF exitStatus, Running
      <4>6. UNCHANGED <<requests, success, missed>>
        BY <3>1 DEF clientVars, tallies
      <4> QED
        BY <1>5, <2>1, <3>1, <4>1, <4>3, <4>4, <4>5, <4>6
           DEF ExitInv, SumInv, SumsAgree, OrderlyStatusExact, Executing
    <3> QED  BY <2>3, <3>2, <3>3 DEF ExitMoves, ExitStep
  <2>4. CASE ExitMoves("signal")
    <3>1. /\ UNCHANGED <<cpc, requests, success, main>>
          /\ xpc'["main"] = xpc["main"] /\ todo'["main"] = todo["main"]
          /\ cur'["main"] = cur["main"]
          /\ sumRequests'["main"] = sumRequests["main"]
          /\ sumSuccess'["main"] = sumSuccess["main"]
      BY <1>0, <2>4 DEF ExitMoves, ExitStep, SumRequests, SumSuccess, OsExit, clientVars,
                        sessionVars, tallies, ResultsTypeOK, Exiter
    <3>2. SumInv' /\ AllGone'
      BY <2>1, <3>1 DEF SumInv, SumsAgree, AllGone
    <3>3. \/ UNCHANGED <<status, exitBy>>
          \/ exitBy' = "signal" /\ status' # Running
      BY <2>4 DEF ExitMoves, ExitStep, SumRequests, SumSuccess, OsExit, exitStatus, Running
    <3>4. /\ (Executing <=> exitBy = "nobody")'
          /\ OrderlyStatusExact'
      BY <1>4, <3>3 DEF Executing, OrderlyStatusExact, OrderlyExit
    <3> QED  BY <1>5, <2>1, <3>1, <3>2, <3>4 DEF ExitInv
  <2> QED
    BY <1>2, <1>5, <2>1, <2>2, <2>3, <2>4, GoneClientsRest, NextCases
       DEF StartClients, Fail, Abort, StopFeeding, Close, Wait, Exiter
<1>6. CASE main # "orderly" /\ Wait
  <2>1. wg = 0 /\ main = "wait" /\ main' = "orderly" /\ UNCHANGED clientVars
        /\ xpc["main"] = "off"
        /\ xpc' = [xpc EXCEPT !["main"] = "sum"]
        /\ todo' = [todo EXCEPT !["main"] = Born]
        /\ UNCHANGED <<sumRequests, sumSuccess, status, exitBy>>
    BY <1>6 DEF Wait, EnterExit
  <2>2. AliveClients = {}
    BY <2>1, AliveFinite, FS_EmptySet DEF Inv, WgInv, WgCountsClients, AliveClients
  <2>3. AllGone
    BY <2>1, <2>2 DEF Inv, WgInv, AliveClients, Alive, AllGone
  <2>4. Born = Client
    BY <2>3 DEF Born, AllGone
  <2>5. xpc'["main"] = "sum" /\ todo'["main"] = Client
    BY <1>0, <2>1, <2>4 DEF ResultsTypeOK, Exiter
  <2>6. sumRequests["main"] = 0 /\ sumSuccess["main"] = 0
    BY <2>1 DEF ExitInv
  <2>7. SumInv'
    BY <2>1, <2>5, <2>6 DEF SumInv, SumsAgree
  <2>8. AllGone'
    BY <2>1, <2>3 DEF AllGone, clientVars, sessionVars
  <2> QED  BY <1>4, <2>1, <2>5, <2>7, <2>8 DEF ExitInv
<1>7. CASE main # "orderly" /\ ~Wait
  <2>1. main' # "orderly"
    BY <1>2, <1>7, NextCases
       DEF StartClients, Fail, Abort, StopFeeding, Close, Interrupt, Clock,
           Hands, Send, ClientMoves, ClientDies, ExitMoves
  <2>2. \/ status' = status /\ exitBy' = exitBy
        \/ status' # Running /\ exitBy' # "nobody"
    <3>1. CASE StartClients \/ Fail
      BY <3>1 DEF StartClients, NewEntry, Fail, Running
    <3>2. CASE Abort \/ StopFeeding \/ Close \/ Interrupt \/ Clock
      BY <3>2 DEF Abort, StopFeeding, Close, EnterExit, Interrupt, Clock, resultVars
    <3>3. CASE \E c \in Client : Hands(c) \/ ClientMoves(c) \/ ClientDies(c)
      BY <3>3 DEF Hands, Send, ClientMoves, ClientDies, FatalRequest, resultVars, Running
    <3>4. ASSUME NEW e \in Exiter, ExitMoves(e)
          PROVE  \/ status' = status /\ exitBy' = exitBy
                 \/ status' # Running /\ exitBy' # "nobody"
      <4>1. exitStatus(e) \in {0, 32, 33}
        BY DEF exitStatus
      <4> QED
        BY <3>4, <4>1 DEF ExitMoves, ExitStep, SumRequests, SumSuccess, OsExit, Running, Exiter
    <3> QED  BY <1>2, <1>7, <3>1, <3>2, <3>3, <3>4, NextCases
  <2>3. (Executing <=> exitBy = "nobody")' /\ OrderlyStatusExact'
    BY <1>4, <2>1, <2>2 DEF Executing, OrderlyStatusExact, OrderlyExit
  <2>4. main' \notin {"orderly", "abort"} => xpc'["main"] = "off" /\ exitBy' # "main"
    <3> SUFFICES ASSUME main' \notin {"orderly", "abort"}
                 PROVE  xpc'["main"] = "off" /\ exitBy' # "main"
      OBVIOUS
    <3>1. xpc["main"] = "off"
      BY <1>2, <1>7, NextCases
         DEF ExitInv, StartClients, Fail, Abort, StopFeeding, Close, Interrupt,
             Clock, Hands, Send, ClientMoves, ClientDies, ExitMoves
    <3>2. CASE StartClients \/ StopFeeding \/ Close \/ Clock
      BY <1>3, <3>1, <3>2 DEF StartClients, NewEntry, StopFeeding, Close, Clock, resultVars
    <3>3. CASE Abort
      BY <1>3, <3>1, <3>3 DEF Abort, resultVars
    <3>4. CASE Interrupt
      BY <1>0, <1>3, <3>1, <3>4 DEF Interrupt, EnterExit, ResultsTypeOK, Exiter
    <3>5. CASE \E c \in Client : Hands(c) \/ ClientMoves(c) \/ ClientDies(c)
      BY <1>3, <3>1, <3>5 DEF Hands, Send, ClientMoves, ClientDies, FatalRequest, resultVars
    <3>6. ASSUME NEW e \in Exiter, ExitMoves(e)
          PROVE  xpc'["main"] = "off" /\ exitBy' # "main"
      <4>1. e = "signal"
        BY <3>1, <3>6 DEF ExitMoves, ExitStep, SumRequests, SumSuccess, OsExit, Exiter
      <4> QED
        BY <1>0, <1>3, <3>1, <3>6, <4>1
           DEF ExitMoves, ExitStep, SumRequests, SumSuccess, OsExit, ResultsTypeOK, Exiter
    <3>7. ~Fail
      BY DEF Fail
    <3> QED  BY <1>2, <1>7, <3>2, <3>3, <3>4, <3>5, <3>6, <3>7, NextCases
  <2>5. xpc'["main"] = "off" => sumRequests'["main"] = 0 /\ sumSuccess'["main"] = 0
    BY <1>0, <1>2, <1>7, NextCases
       DEF ExitInv, StartClients, NewEntry, Fail, Abort, StopFeeding, Close,
           EnterExit, Interrupt, Clock, Hands, Send, ClientMoves, ClientDies, FatalRequest,
           ExitMoves, ExitStep, SumRequests, SumSuccess, OsExit, resultVars,
           ResultsTypeOK, Exiter
  <2> QED  BY <2>1, <2>3, <2>4, <2>5 DEF ExitInv
<1> QED  BY <1>5, <1>6, <1>7

-----------------------------------------------------------------------------
LEMMA InvInit == ProcessInit => Inv
BY TypeInit, CountsInit, FlagInit, LineInit, WgInit DEF Inv

LEMMA InvStep == Inv /\ [ProcessNext]_processVars => Inv'
BY TypeStep, CountsStep, FlagStep, LineStep, WgStep DEF Inv

LEMMA AllInvariants == ProcessSpec => [](Inv /\ ExitInv)
BY InvInit, InvStep, ExitInit, ExitStepInv, PTL DEF ProcessSpec

(* The status of an orderly exit: 32 exactly when some request of some     *)
(* client did not succeed, and 33 only when a session variable was missing.*)
THEOREM ProcessStatus == ProcessSpec => []OrderlyStatusExact
<1>1. ExitInv => OrderlyStatusExact
  BY DEF ExitInv
<1> QED  BY <1>1, AllInvariants, PTL

(* An orderly exit leaves no session of a handed line unfinished and no    *)
(* client behind.                                                          *)
THEOREM ProcessExit == ProcessSpec => []OrderlyExitIsComplete
<1>1. Inv /\ ExitInv => OrderlyExitIsComplete
  <2> SUFFICES ASSUME Inv, ExitInv, OrderlyExit
               PROVE  over = handed /\ AllGone
    BY DEF OrderlyExitIsComplete, AllGone
  <2>1. AllGone
    BY DEF ExitInv, OrderlyExit
  <2>2. \A c \in Client : job[c] = NoLine
    BY <2>1 DEF Inv, TypeInv, WorkHasLine, Working, AllGone
  <2>3. 0 \notin handed
    BY DEF Inv, TypeInv, ProcessTypeOK, Line
  <2> QED  BY <2>1, <2>2, <2>3 DEF Inv, LineInv, NoLine
<1> QED  BY <1>1, AllInvariants, PTL

-----------------------------------------------------------------------------
(* The promise of Workload.                                                *)

LEMMA PromiseInit == ProcessInit => Promise!Init
BY DEF ProcessInit, ClientsInit, ResultsInit, Promise!Init, LinesHeld, Ending, Executing

(* A client that ranges over the channel leaves room for one more session. *)
LEMMA RoomForOne ==
  ASSUME ClientsTypeOK, NEW c \in Client, job[c] = NoLine
  PROVE  Cardinality(LinesHeld) < NClients
<1> DEFINE busy == {d \in Client \ {c} : job[d] # NoLine}
           f == [d \in busy |-> job[d]]
<1>1. IsFiniteSet(Client) /\ Cardinality(Client) = NClients
  BY FS_Interval, ClientsAssumption DEF Client
<1>2. IsFiniteSet(Client \ {c}) /\ Cardinality(Client \ {c}) = NClients - 1
  BY <1>1, FS_RemoveElement
<1>3. IsFiniteSet(busy) /\ Cardinality(busy) <= NClients - 1
  BY <1>2, FS_Subset
<1>4. f \in Surjection(busy, LinesHeld)
  <2>1. f \in [busy -> LinesHeld]
    BY DEF LinesHeld
  <2>2. \A l \in LinesHeld : \E d \in busy : f[d] = l
    BY DEF LinesHeld
  <2> QED  BY <2>1, <2>2 DEF Surjection
<1>5. IsFiniteSet(LinesHeld) /\ Cardinality(LinesHeld) <= Cardinality(busy)
  BY <1>3, <1>4, FS_Surjection
<1>6. Cardinality(busy) \in Nat /\ Cardinality(LinesHeld) \in Nat
  BY <1>3, <1>5, FS_CardinalityType
<1> QED  BY <1>3, <1>5, <1>6, ClientsAssumption

LEMMA PromiseStep ==
  Inv /\ ExitInv /\ Inv' /\ ExitInv' /\ [ProcessNext]_processVars
    => [Promise!Next]_<<LinesHeld, over, Ending>>
<1> SUFFICES ASSUME Inv, ExitInv, Inv', ExitInv', [ProcessNext]_processVars
             PROVE  [Promise!Next]_<<LinesHeld, over, Ending>>
  OBVIOUS
<1>0. ClientsTypeOK /\ WorkHasLine
  BY DEF Inv, TypeInv, ProcessTypeOK
<1>1. CASE UNCHANGED processVars
  <2>1. UNCHANGED <<job, over, status, exitBy, main>>
    BY <1>1 DEF processVars, clientVars, sessionVars, resultVars
  <2> QED  BY <2>1 DEF LinesHeld, Ending, Executing, OrderlyExit
<1>2. SUFFICES ASSUME Executing, ProcessNext
               PROVE  [Promise!Next]_<<LinesHeld, over, Ending>>
  BY <1>1 DEF ProcessNext
<1>3. Ending = "no"
  BY <1>2 DEF Ending
<1>4. ASSUME UNCHANGED status PROVE Ending' = "no"
  BY <1>2, <1>4 DEF Ending, Executing
<1>5. CASE UNCHANGED <<job, over>>
  <2>1. UNCHANGED <<LinesHeld, over>>
    BY <1>5 DEF LinesHeld
  <2>2. CASE Ending' = "no"
    BY <1>3, <2>1, <2>2
  <2>3. CASE Ending' = "abrupt"
    BY <1>3, <2>1, <2>3 DEF Promise!Next, Promise!EndAbruptly
  <2>4. CASE ~Executing' /\ OrderlyExit' /\ Ending' = "orderly"
    <3>1. AllGone'
      BY <2>4 DEF ExitInv, OrderlyExit
    <3>2. \A c \in Client : job'[c] = NoLine
      BY <3>1 DEF Inv, TypeInv, WorkHasLine, Working, AllGone
    <3>3. LinesHeld = {}
      BY <1>5, <3>2 DEF LinesHeld
    <3> QED  BY <1>3, <2>1, <2>4, <3>3 DEF Promise!Next, Promise!EndOrderly
  <2> QED  BY <2>2, <2>3, <2>4 DEF Ending
<1>6. ASSUME NEW c \in Client, Hands(c)
      PROVE  \E l \in Line : Promise!Begin(l)
  <2>1. PICK l \in Line : l \notin handed /\ Send(c, l)
    BY <1>6 DEF Hands
  <2>2. /\ cpc[c] = "range"
        /\ job' = [job EXCEPT ![c] = l]
        /\ UNCHANGED <<over, status>>
    BY <2>1 DEF Send, Take, Move, resultVars
  <2>3. l # NoLine
    BY DEF Line, NoLine
  <2>4. job[c] = NoLine
    BY <1>0, <2>2 DEF WorkHasLine, Working
  <2>5. l \notin LinesHeld \cup over
    <3>1. l \notin over
      BY <2>1 DEF Inv, LineInv
    <3>2. \A d \in Client : job[d] # l
      BY <2>1, <2>3 DEF Inv, LineInv, OneClientPerLine
    <3> QED  BY <3>1, <3>2 DEF LinesHeld
  <2>6. LinesHeld' = LinesHeld \cup {l}
    <3>1. \A d \in Client : job'[d] = IF d = c THEN l ELSE job[d]
      BY <1>0, <2>2 DEF ClientsTypeOK
    <3> QED  BY <2>3, <2>4, <3>1 DEF LinesHeld
  <2>7. Cardinality(LinesHeld) < NClients
    BY <1>0, <2>4, RoomForOne
  <2>8. UNCHANGED <<over, Ending>>
    BY <1>3, <1>4, <2>2
  <2> QED
    BY <1>3, <2>5, <2>6, <2>7, <2>8
       DEF Promise!Begin, Promise!Cardinality, Cardinality
<1>7. ASSUME NEW c \in Client, Working(c), SessionOver(c), UNCHANGED status
      PROVE  Promise!Finish(job[c]) /\ job[c] \in Line
  <2>1. job[c] # NoLine /\ job[c] \in Line
    BY <1>0, <1>7 DEF WorkHasLine, ClientsTypeOK
  <2>2. \A d \in Client : job'[d] = IF d = c THEN NoLine ELSE job[d]
    BY <1>0, <1>7 DEF SessionOver, ClientsTypeOK
  <2>3. \A d \in Client \ {c} : job[d] # job[c]
    BY <2>1 DEF Inv, LineInv, OneClientPerLine
  <2>4. LinesHeld' = LinesHeld \ {job[c]}
    BY <2>2, <2>3 DEF LinesHeld
  <2> QED  BY <1>3, <1>4, <1>7, <2>1, <2>4 DEF Promise!Finish, LinesHeld, SessionOver
<1>8. ASSUME NEW c \in Client, ClientMoves(c)
      PROVE  UNCHANGED <<job, over>> \/ (Working(c) /\ SessionOver(c) /\ UNCHANGED status)
  BY <1>8 DEF ClientMoves, ClientStep, InSession, RampedUp, Leave, CutShort, GoAhead,
              StartRequest, Returned, CountRequest, LoadFlag, StoreFlag, Verdict, WriteRow,
              Working, resultVars
<1>9. \/ UNCHANGED <<job, over>>
      \/ \E c \in Client : Hands(c) \/ ClientMoves(c)
  BY <1>2, NextCases
     DEF StartClients, StartClient, Fail, Abort, StopFeeding, Close, Wait,
         Interrupt, Clock, Expire, ClientDies, ExitMoves, clientVars, sessionVars
<1> QED  BY <1>5, <1>6, <1>7, <1>8, <1>9 DEF Promise!Next

(* goRunner implements Workload: one session for a line at most, no more   *)
(* at a time than clients, and an orderly end only after the last session. *)
THEOREM ProcessPromise == ProcessSpec => KeepsPromise
BY AllInvariants, PromiseInit, PromiseStep, PTL DEF ProcessSpec, KeepsPromise, Promise!Spec

-----------------------------------------------------------------------------
(* With one client nothing runs between doLog's read of                    *)
(* foundAllSessionVars and its write, so a missing variable is forgotten   *)
(* by nobody.                                                              *)
SoloInv ==
  /\ \A c \in Client : cpc[c] = "store" => loaded[c] = foundAllSessionVars
  /\ missed /\ foundAllSessionVars =>
       \E c \in Client : cpc[c] = "store" /\ ~answer[c].found

LEMMA SoloInit == ProcessInit => SoloInv
BY DEF ProcessInit, ClientsInit, SoloInv

LEMMA SoloClientStep ==
  ASSUME NClients = 1, ClientsTypeOK, SoloInv, NEW c \in Client, ClientStep(c)
  PROVE  SoloInv'
<1> USE DEF ClientsTypeOK, SoloInv, Move, Goto, sessionVars
<1>0. Client = {c}
  BY DEF Client
<1>1. CASE LoadFlag(c)
  BY <1>0, <1>1 DEF LoadFlag
<1>2. CASE StoreFlag(c)
  BY <1>0, <1>2 DEF StoreFlag
<1>3. CASE /\ UNCHANGED <<foundAllSessionVars, missed>>
           /\ cpc[c] # "store"
           /\ \E pc \in ClientState \ {"store"} : cpc' = [cpc EXCEPT ![c] = pc]
  BY <1>0, <1>3
<1>4. CASE RampedUp(c) \/ Leave(c) \/ CutShort(c)
  BY <1>3, <1>4 DEF RampedUp, Leave, CutShort, SessionOver, ClientState
<1>5. CASE GoAhead(c) \/ StartRequest(c)
  BY <1>3, <1>5 DEF GoAhead, StartRequest, ClientState
<1>6. CASE Returned(c)
  BY <1>3, <1>6 DEF Returned, ClientState
<1>7. CASE CountRequest(c) \/ Verdict(c)
  BY <1>3, <1>7 DEF CountRequest, Verdict, ClientState
<1>8. CASE WriteRow(c)
  BY <1>3, <1>8 DEF WriteRow, SessionOver, ClientState
<1> QED  BY <1>1, <1>2, <1>4, <1>5, <1>6, <1>7, <1>8 DEF ClientStep, InSession

LEMMA SoloStep ==
  ASSUME NClients = 1
  PROVE  TypeInv /\ SoloInv /\ [ProcessNext]_processVars => SoloInv'
<1> SUFFICES ASSUME TypeInv, SoloInv, [ProcessNext]_processVars PROVE SoloInv'
  OBVIOUS
<1>0. ClientsTypeOK
  BY DEF TypeInv, ProcessTypeOK
<1>1. CASE UNCHANGED <<cpc, answer, loaded, foundAllSessionVars, missed>>
  BY <1>1 DEF SoloInv
<1>2. CASE StartClients
  BY <1>0, <1>2 DEF StartClients, StartClient, Move, Goto, ClientsTypeOK, SoloInv
<1>3. ASSUME NEW c \in Client, Hands(c) PROVE SoloInv'
  BY <1>0, <1>3 DEF Hands, Send, Take, Move, Goto, ClientsTypeOK, SoloInv
<1>4. ASSUME NEW c \in Client, ClientMoves(c) PROVE SoloInv'
  BY <1>0, <1>4, SoloClientStep DEF ClientMoves
<1>5. \/ UNCHANGED <<cpc, answer, loaded, foundAllSessionVars, missed>>
      \/ StartClients
      \/ \E c \in Client : Hands(c) \/ ClientMoves(c)
  BY NextCases DEF Fail, Abort, StopFeeding, Close, Wait, Interrupt,
         Clock, Expire, ClientDies, ExitMoves, processVars, clientVars, sessionVars
<1> QED  BY <1>1, <1>2, <1>3, <1>4, <1>5

LEMMA ZeroStep ==
  Inv /\ ExitInv /\ SoloInv /\ ZeroMeansAllFound /\ [ProcessNext]_processVars => ZeroMeansAllFound'
<1> SUFFICES ASSUME Inv, ExitInv, SoloInv, ZeroMeansAllFound, [ProcessNext]_processVars, OrderlyExit', status' = 0
             PROVE  ~missed'
  BY DEF ZeroMeansAllFound
<1>1. CASE UNCHANGED processVars
  BY <1>1 DEF processVars, clientVars, resultVars, ZeroMeansAllFound, OrderlyExit
<1>2. SUFFICES ASSUME Executing, ProcessNext PROVE ~missed'
  BY <1>1 DEF ProcessNext
<1>3. exitBy = "nobody" /\ exitBy' = "main" /\ main' = "orderly"
  BY <1>2 DEF ExitInv, OrderlyExit
<1>4. ExitMoves("main") /\ OsExit("main")
  <2>1. CASE StartClients \/ Fail
    BY <1>3, <2>1 DEF StartClients, NewEntry, Fail
  <2>2. CASE Abort \/ StopFeeding \/ Close \/ Wait \/ Interrupt \/ Clock
    BY <1>3, <2>2 DEF Abort, StopFeeding, Close, Wait, EnterExit, Interrupt, Clock, resultVars
  <2>3. CASE \E c \in Client : Hands(c) \/ ClientMoves(c) \/ ClientDies(c)
    BY <1>3, <2>3 DEF Hands, Send, ClientMoves, ClientDies, FatalRequest, resultVars
  <2>4. ASSUME NEW e \in Exiter, ExitMoves(e)
        PROVE  ExitMoves("main") /\ OsExit("main")
    BY <1>3, <2>4 DEF ExitMoves, ExitStep, SumRequests, SumSuccess, OsExit
  <2> QED  BY <1>2, <2>1, <2>2, <2>3, <2>4, NextCases
<1>5. AllGone /\ UNCHANGED missed
  BY <1>3, <1>4 DEF ExitMoves, clientVars, ExitInv
<1>6. foundAllSessionVars
  BY <1>4 DEF OsExit, exitStatus
<1> QED  BY <1>5, <1>6 DEF AllGone, SoloInv

(* With one client, status 0 of an orderly exit means that every answer    *)
(* held the session variables its command asked for.  (With two clients    *)
(* the run lost_flag refutes it.)                                 *)
THEOREM ProcessSoloStatus ==
  ASSUME NClients = 1
  PROVE  ProcessSpec => []ZeroMeansAllFound
<1>1. ProcessInit => ZeroMeansAllFound
  BY DEF ProcessInit, ResultsInit, ZeroMeansAllFound, OrderlyExit
<1> QED
  BY <1>1, AllInvariants, TypeInit, TypeStep, SoloInit, SoloStep, ZeroStep, PTL DEF ProcessSpec

-----------------------------------------------------------------------------
(* The promise of Steps: outside a session stepCounter is at the queue's   *)
(* first command, where the next session begins.                           *)
PlaceInv == \A c \in Client : ~Working(c) => step[c] = 1

Asking(c) == Working(c) /\ cpc[c] # "check"

LEMMA QueueInit == ProcessInit => PlaceInv /\ \A c \in Client : Queue(c)!Init
BY DEF ProcessInit, ClientsInit, PlaceInv, Working, Queue!Init

(* A client whose place and whose doing stay: time may pass.               *)
LEMMA QueueWaits ==
  ASSUME NEW c \in Client, step'[c] = step[c],
         Working(c)' <=> Working(c), cpc'[c] = "check" <=> cpc[c] = "check",
         stop' = stop \/ (stop = "armed" /\ stop' = "past")
  PROVE  Queue(c)!Next
BY DEF Queue!Next, Queue!Ticks, Queue!Wait, Working

(* What a step of client c is to itself.                                   *)
LEMMA QueueMoves ==
  ASSUME ClientsTypeOK, PlaceInv, NEW c \in Client, ClientStep(c)
  PROVE  Queue(c)!Next /\ (~Working(c)' => step'[c] = 1)
<1> USE DEF ClientsTypeOK, Move, Goto, sessionVars
<1>1. CASE \E pc \in ClientState \ {"unborn", "ramp", "range", "gone", "check"} :
             Asking(c) /\ cpc' = [cpc EXCEPT ![c] = pc] /\ UNCHANGED <<step, stop>>
  <2>1. Working(c) /\ Working(c)' /\ cpc[c] # "check" /\ cpc'[c] # "check"
    BY <1>1 DEF Working, Asking
  <2> QED  BY <1>1, <2>1, QueueWaits
<1>2. CASE RampedUp(c) \/ Leave(c)
  <2>1. ~Working(c) /\ ~Working(c)' /\ cpc[c] # "check" /\ cpc'[c] # "check"
        /\ UNCHANGED <<step, stop>>
    BY <1>2 DEF RampedUp, Leave, Working
  <2> QED  BY <2>1, QueueWaits DEF PlaceInv
<1>3. CASE CutShort(c)
  BY <1>3 DEF CutShort, SessionOver, Working, Queue!Next, Queue!Ticks, Queue!Finish
<1>4. CASE GoAhead(c)
  BY <1>4 DEF GoAhead, Working, Queue!Next, Queue!Ticks, Queue!Ask
<1>5. CASE StartRequest(c) \/ Returned(c)
  BY <1>1, <1>5 DEF StartRequest, Returned, Working, Asking, ClientState
<1>6. CASE CountRequest(c) \/ LoadFlag(c)
  BY <1>1, <1>6 DEF CountRequest, LoadFlag, Working, Asking, ClientState
<1>7. CASE StoreFlag(c) \/ Verdict(c)
  BY <1>1, <1>7 DEF StoreFlag, Verdict, Working, Asking, ClientState
<1>8. CASE WriteRow(c)
  <2>1. Working(c) /\ cpc[c] # "check" /\ stop' = stop
    BY <1>8 DEF WriteRow, Working
  <2>2. PICK s \in StepsAfter(c) :
          \/ s <= NSteps /\ cpc' = [cpc EXCEPT ![c] = "check"] /\ step' = [step EXCEPT ![c] = s]
          \/ cpc' = [cpc EXCEPT ![c] = "range"] /\ step' = [step EXCEPT ![c] = 1]
    BY <1>8 DEF WriteRow, SessionOver
  <2>3. CASE s <= NSteps /\ cpc' = [cpc EXCEPT ![c] = "check"] /\ step' = [step EXCEPT ![c] = s]
    <3>1. Working(c)' /\ cpc'[c] = "check" /\ step'[c] = s
      BY <2>3 DEF Working
    <3>2. s \in {step[c] + 1} \cup ({step[c]} \cap RepeatSteps)
      BY <2>2 DEF StepsAfter
    <3>3. Queue(c)!GoOn
      BY <2>1, <2>3, <3>1, <3>2 DEF Queue!GoOn
    <3> QED  BY <2>1, <3>1, <3>3 DEF Queue!Next, Queue!Ticks
  <2>4. CASE cpc' = [cpc EXCEPT ![c] = "range"] /\ step' = [step EXCEPT ![c] = 1]
    BY <2>1, <2>4 DEF Working, Queue!Next, Queue!Ticks, Queue!Finish
  <2> QED  BY <2>2, <2>3, <2>4
<1> QED  BY <1>2, <1>3, <1>4, <1>5, <1>6, <1>7, <1>8 DEF ClientStep, InSession

(* A step of one client leaves the others where they are.                  *)
LEMMA OthersStay ==
  ASSUME ClientsTypeOK, NEW c \in Client, ClientStep(c), NEW d \in Client \ {c}
  PROVE  cpc'[d] = cpc[d] /\ step'[d] = step[d] /\ stop' = stop
<1> USE DEF ClientsTypeOK, Move, Goto, sessionVars
<1>1. CASE RampedUp(c) \/ Leave(c) \/ CutShort(c)
  BY <1>1 DEF RampedUp, Leave, CutShort, SessionOver
<1>2. CASE GoAhead(c) \/ StartRequest(c) \/ Returned(c)
  BY <1>2 DEF GoAhead, StartRequest, Returned
<1>3. CASE CountRequest(c) \/ LoadFlag(c) \/ StoreFlag(c) \/ Verdict(c)
  BY <1>3 DEF CountRequest, LoadFlag, StoreFlag, Verdict
<1>4. CASE WriteRow(c)
  BY <1>4 DEF WriteRow, SessionOver
<1> QED  BY <1>1, <1>2, <1>3, <1>4 DEF ClientStep, InSession

LEMMA QueueStep ==
  TypeInv /\ PlaceInv /\ [ProcessNext]_processVars =>
    /\ PlaceInv'
    /\ [\A c \in Client : [Queue(c)!Next]_(Queue(c)!vars)]_processVars
<1> SUFFICES ASSUME TypeInv, PlaceInv, ProcessNext
             PROVE  PlaceInv' /\ \A c \in Client : [Queue(c)!Next]_(Queue(c)!vars)
  BY DEF PlaceInv, Working, processVars, clientVars, sessionVars
<1>0. ClientsTypeOK
  BY DEF TypeInv, ProcessTypeOK
<1>1. CASE UNCHANGED <<cpc, step>> /\ (stop' = stop \/ (stop = "armed" /\ stop' = "past"))
  <2>1. PlaceInv'
    BY <1>1 DEF PlaceInv, Working
  <2>2. \A c \in Client : Queue(c)!Next
    BY <1>1, QueueWaits DEF Working
  <2> QED  BY <2>1, <2>2
<1>2. CASE StartClients
  <2>1. PICK c \in Client : StartClient(c)
    BY <1>2 DEF StartClients
  <2>2. cpc[c] = "unborn" /\ cpc' = [cpc EXCEPT ![c] = "ramp"] /\ UNCHANGED <<step, stop>>
    BY <2>1 DEF StartClient, Move, Goto
  <2>3. \A d \in Client : (Working(d)' <=> Working(d)) /\ (cpc'[d] = "check" <=> cpc[d] = "check")
    BY <1>0, <2>2 DEF ClientsTypeOK, Working
  <2>4. \A d \in Client : Queue(d)!Next
    BY <2>2, <2>3, QueueWaits
  <2> QED  BY <2>2, <2>3, <2>4 DEF PlaceInv
<1>3. ASSUME NEW c \in Client, Hands(c)
      PROVE  PlaceInv' /\ \A d \in Client : Queue(d)!Next
  <2>1. cpc[c] = "range" /\ cpc' = [cpc EXCEPT ![c] = "check"] /\ UNCHANGED <<step, stop>>
    BY <1>3 DEF Hands, Send, Take, Move, Goto
  <2>2. ~Working(c) /\ Working(c)' /\ cpc'[c] = "check" /\ step'[c] = 1
    BY <1>0, <2>1 DEF ClientsTypeOK, Working, PlaceInv
  <2>3. Queue(c)!Next
    BY <2>1, <2>2 DEF Queue!Next, Queue!Ticks, Queue!Open
  <2>4. \A d \in Client \ {c} :
          (Working(d)' <=> Working(d)) /\ (cpc'[d] = "check" <=> cpc[d] = "check")
    BY <1>0, <2>1 DEF ClientsTypeOK, Working
  <2>5. \A d \in Client \ {c} : Queue(d)!Next
    BY <2>1, <2>4, QueueWaits
  <2> QED  BY <2>1, <2>2, <2>3, <2>4, <2>5 DEF PlaceInv
<1>4. ASSUME NEW c \in Client, ClientMoves(c)
      PROVE  PlaceInv' /\ \A d \in Client : Queue(d)!Next
  <2>1. Queue(c)!Next /\ (~Working(c)' => step'[c] = 1)
    BY <1>0, <1>4, QueueMoves DEF ClientMoves
  <2>2. \A d \in Client \ {c} : cpc'[d] = cpc[d] /\ step'[d] = step[d] /\ stop' = stop
    BY <1>0, <1>4, OthersStay DEF ClientMoves
  <2>3. \A d \in Client \ {c} : Queue(d)!Next
    BY <2>2, QueueWaits DEF Working
  <2>4. \A d \in Client \ {c} : ~Working(d)' => step'[d] = 1
    BY <2>2 DEF PlaceInv, Working
  <2> QED  BY <2>1, <2>3, <2>4 DEF PlaceInv
<1>5. \/ UNCHANGED <<cpc, step>> /\ (stop' = stop \/ (stop = "armed" /\ stop' = "past"))
      \/ StartClients
      \/ \E c \in Client : Hands(c) \/ ClientMoves(c)
  BY NextCases DEF Fail, Abort, StopFeeding, Close, Wait, Interrupt,
         Clock, Expire, ClientDies, ExitMoves, clientVars, sessionVars
<1> QED  BY <1>1, <1>2, <1>3, <1>4, <1>5

(* Each client of the process implements Steps, with all the others around *)
(* it: the commands in order, repeats only of those with an MsecRepeat,    *)
(* and no request gone ahead with past the deadline.                       *)
THEOREM ProcessSteps == ProcessSpec => StepsThrough
<1>1. ProcessSpec => [](TypeInv /\ PlaceInv)
  BY TypeInit, TypeStep, QueueInit, QueueStep, PTL DEF ProcessSpec
<1> QED  BY <1>1, QueueInit, QueueStep, PTL DEF ProcessSpec, StepsThrough
=============================================================================

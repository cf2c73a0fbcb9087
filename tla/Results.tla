------------------------------ MODULE Results ------------------------------
(***************************************************************************)
(* How the process ends: runner.Exit() adds up the clients' results and    *)
(* turns them into an exit status, in the main goroutine and in the signal *)
(* handler's, while the clients may still be counting; or a request ends   *)
(* the process from inside a client.                                       *)
(***************************************************************************)
EXTENDS Clients

VARIABLES
  xpc,         \* "off", "sum" or "add": where each goroutine is in Exit()
  todo,        \* entries of the results map its range loop has yet to visit
  cur,         \* the entry it is visiting
  sumRequests, \* summary["requests"]
  sumSuccess,  \* summary["success"]
  status,      \* exit status of the process, or Running
  exitBy       \* who ended the process

resultVars == <<xpc, todo, cur, sumRequests, sumSuccess, status, exitBy>>

Exiter  == {"main", "signal"}
Running == -1

ResultsInit ==
  /\ xpc = [e \in Exiter |-> "off"]
  /\ todo = [e \in Exiter |-> {}]
  /\ cur = [e \in Exiter |-> 0]
  /\ sumRequests = [e \in Exiter |-> 0]
  /\ sumSuccess = [e \in Exiter |-> 0]
  /\ status = Running
  /\ exitBy = "nobody"

(* The keys of runner.results.                                             *)
Born == {c \in Client : cpc[c] # "unborn"}

(* A call of runner.Exit() enters GetResults.                              *)
EnterExit(e) ==
  /\ xpc[e] = "off"
  /\ xpc' = [xpc EXCEPT ![e] = "sum"]
  /\ todo' = [todo EXCEPT ![e] = Born]
  /\ UNCHANGED <<cur, sumRequests, sumSuccess, status, exitBy>>

(* GetResults reads result.requests of some entry, in the map's order ...  *)
SumRequests(e) ==
  /\ xpc[e] = "sum"
  /\ \E c \in todo[e] :
       /\ cur' = [cur EXCEPT ![e] = c]
       /\ todo' = [todo EXCEPT ![e] = @ \ {c}]
       /\ sumRequests' = [sumRequests EXCEPT ![e] = @ + requests[c]]
  /\ xpc' = [xpc EXCEPT ![e] = "add"]
  /\ UNCHANGED <<sumSuccess, status, exitBy>>

(* ... and afterwards its result.success.                                  *)
SumSuccess(e) ==
  /\ xpc[e] = "add"
  /\ sumSuccess' = [sumSuccess EXCEPT ![e] = @ + success[cur[e]]]
  /\ xpc' = [xpc EXCEPT ![e] = "sum"]
  /\ UNCHANGED <<todo, cur, sumRequests, status, exitBy>>

BugexitStatus(e) ==   \* looks at the session variables first
  CASE ~foundAllSessionVars -> 33
    [] foundAllSessionVars /\ sumSuccess[e] # sumRequests[e] -> 32
    [] OTHER -> 0

exitStatus(e) ==
  CASE sumSuccess[e] # sumRequests[e] -> 32
    [] sumSuccess[e] = sumRequests[e] /\ ~foundAllSessionVars -> 33
    [] OTHER -> 0

BugOsExit(e) ==   \* waits for the clients at a signal, too
  /\ xpc[e] = "sum"
  /\ todo[e] = {}
  /\ wg = 0
  /\ status' = exitStatus(e)
  /\ exitBy' = e
  /\ UNCHANGED <<xpc, todo, cur, sumRequests, sumSuccess>>

(* The results are printed and os.Exit ends every goroutine.               *)
OsExit(e) ==
  /\ xpc[e] = "sum"
  /\ todo[e] = {}
  /\ status' = exitStatus(e)
  /\ exitBy' = e
  /\ UNCHANGED <<xpc, todo, cur, sumRequests, sumSuccess>>

(* A request ends the process: os.Exit(1) in tcpReq or doFunc, or a panic  *)
(* (a failing JavaScript function, a macro's [a:b] past its value, a       *)
(* SessionVar that is no regular expression), which nothing recovers.  The *)
(* macros of SessionLog can do so at the end of a session.                 *)
FatalRequest(c) ==
  /\ \/ cpc[c] = "ask" /\ status' \in {1, 2}
     \/ cpc[c] = "load" /\ status' = 2
     \/ /\ cpc[c] = "row"
        /\ ~answer[c].must \/ step[c] = NSteps
        /\ status' = 2
  /\ exitBy' = "client"
  /\ UNCHANGED <<xpc, todo, cur, sumRequests, sumSuccess>>

ExitStep(e) == SumRequests(e) \/ SumSuccess(e) \/ OsExit(e)

(* StartClients adds the entry of client c while a goroutine may be ranging *)
(* over the map: the entry is visited or not, or the runtime stops the      *)
(* process ("concurrent map iteration and map write").                      *)
Ranging(e) == xpc[e] # "off"

NewEntry(c) ==
  \/ /\ \E seen \in SUBSET {e \in Exiter : Ranging(e)} :
          todo' = [e \in Exiter |-> IF e \in seen THEN todo[e] \cup {c} ELSE todo[e]]
     /\ UNCHANGED <<xpc, cur, sumRequests, sumSuccess, status, exitBy>>
  \/ /\ \E e \in Exiter : Ranging(e)
     /\ status' = 2
     /\ exitBy' = "runtime"
     /\ UNCHANGED <<xpc, todo, cur, sumRequests, sumSuccess>>

ResultsTypeOK ==
  /\ xpc \in [Exiter -> {"off", "sum", "add"}]
  /\ todo \in [Exiter -> SUBSET Client]
  /\ cur \in [Exiter -> Client]
  /\ sumRequests \in [Exiter -> Nat]
  /\ sumSuccess \in [Exiter -> Nat]
  /\ status \in {Running, 0, 1, 2, 32, 33}
  /\ exitBy \in {"nobody", "main", "signal", "client", "runtime"}
=============================================================================

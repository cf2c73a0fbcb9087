------------------------------ MODULE Listener ------------------------------
(***************************************************************************)
(* goRunner fed over HTTP (flag -p): main sits in ListenAndServe, and a    *)
(* handler goroutine per request sends the rows of its body to the clients *)
(* (goRunner.go, main and HandleInputArgs).  Rows are numbered in the      *)
(* order in which the handlers scan them.                                  *)
(***************************************************************************)
EXTENDS Process

CONSTANT NPosts   \* bound: HTTP requests that arrive

ASSUME NPostsAssumption == NPosts \in Nat \ {0}

Post == 1 .. NPosts

VARIABLES
  listening,  \* the port was bound: connections may be open from then on
  nscanned,   \* rows scanned so far, by all handlers
  hpc,        \* where the handler of each request is
  place,      \* where a request carries its input: in its "body" or "path"
  row,        \* the row a handler has scanned and not yet handed over
  rows        \* history: the rows scanned from each request

postVars == <<listening, nscanned, hpc, place, row, rows>>
vars     == <<processVars, postVars>>

HandlerState == {"absent", "scan", "send", "replied", "panicked"}

Init ==
  /\ ProcessInit
  /\ listening = FALSE
  /\ nscanned = 0
  /\ hpc = [p \in Post |-> "absent"]
  /\ place = [p \in Post |-> "body"]
  /\ row = [p \in Post |-> NoLine]
  /\ rows = [p \in Post |-> {}]

Goes(p, from, to) == hpc[p] = from /\ hpc' = [hpc EXCEPT ![p] = to]

(* ListenAndServe binds the port and serves.                               *)
Listen ==
  /\ main = "feed"
  /\ listening' = TRUE
  /\ UNCHANGED <<nscanned, hpc, place, row, rows, processVars>>

(* ListenAndServe returns, its error unread: the port could not be bound,  *)
(* or accepting failed.  Open connections stay open.                       *)
ListenFails ==
  /\ StopFeeding
  /\ UNCHANGED postVars

(* A request comes in on a new or an open connection.                      *)
Arrive(p) ==
  /\ listening
  /\ Goes(p, "absent", "scan")
  /\ place' \in {[place EXCEPT ![p] = w] : w \in {"body", "path"}}
  /\ UNCHANGED <<listening, nscanned, row, rows, processVars>>

(* scanner.Scan() finds a row in the body; the path is not looked at.      *)
ScanRow(p) ==
  /\ place[p] = "body"
  /\ nscanned < MaxLines
  /\ Goes(p, "scan", "send")
  /\ nscanned' = nscanned + 1
  /\ row' = [row EXCEPT ![p] = nscanned + 1]
  /\ rows' = [rows EXCEPT ![p] = @ \cup {nscanned + 1}]
  /\ UNCHANGED <<listening, place, processVars>>

BugSendRow(c, p) ==   \* hands the row to a goroutine of its own
  /\ Goes(p, "send", "scan")
  /\ row' = [row EXCEPT ![p] = NoLine]
  /\ \/ Send(c, row[p])
     \/ UNCHANGED processVars
  /\ UNCHANGED <<listening, nscanned, place, rows>>

(* trafficChannel <- inputLine meets a client.                             *)
SendRow(c, p) ==
  /\ Goes(p, "send", "scan")
  /\ Send(c, row[p])
  /\ row' = [row EXCEPT ![p] = NoLine]
  /\ UNCHANGED <<listening, nscanned, place, rows>>

BugSendPanics(p) ==   \* recovers in the handler and answers all the same
  /\ closed
  /\ Goes(p, "send", "replied")
  /\ UNCHANGED <<listening, nscanned, place, row, rows, processVars>>

(* A send on the closed channel panics; net/http recovers the panic and    *)
(* drops the connection.                                                   *)
SendPanics(p) ==
  /\ closed
  /\ Goes(p, "send", "panicked")
  /\ UNCHANGED <<listening, nscanned, place, row, rows, processVars>>

(* Scan returns false: the body is read, broke off, or holds a row that is *)
(* too long.  The reply is 200.                                            *)
Reply(p) ==
  /\ Goes(p, "scan", "replied")
  /\ UNCHANGED <<listening, nscanned, place, row, rows, processVars>>

HandlerStep(p) ==
  ScanRow(p) \/ (\E c \in Client : SendRow(c, p)) \/ SendPanics(p) \/ Reply(p)

Exited == ~Executing /\ UNCHANGED vars

Next ==
  \/ /\ Executing
     /\ \/ Listen \/ ListenFails
        \/ \E p \in Post : Arrive(p) \/ HandlerStep(p)
        \/ ProcessStep /\ UNCHANGED postVars
  \/ Exited

Spec == Init /\ [][Next]_vars

(***************************************************************************)
(* The scheduler runs every goroutine that can run and a body comes to its *)
(* end; nothing makes a request arrive or the listener fail.               *)
(***************************************************************************)
Live(A) == Executing /\ A /\ UNCHANGED postVars

Fairness ==
  /\ WF_vars(Live(StartClients))
  /\ WF_vars(Live(Close))
  /\ WF_vars(Live(Wait))
  /\ \A p \in Post : WF_vars(Executing /\ HandlerStep(p))
  /\ \A c \in Client : WF_vars(Live(ClientMoves(c)))
  /\ \A e \in Exiter : WF_vars(Live(ExitMoves(e)))

FairSpec == Spec /\ Fairness

-----------------------------------------------------------------------------
TypeOK ==
  /\ ProcessTypeOK
  /\ listening \in BOOLEAN
  /\ nscanned \in 0 .. MaxLines
  /\ hpc \in [Post -> HandlerState]
  /\ place \in [Post -> {"body", "path"}]
  /\ row \in [Post -> Line \cup {NoLine}]
  /\ rows \in [Post -> SUBSET Line]

(* A row that was scanned is in the hand of one handler or was handed to a *)
(* client, and not both; only a panic keeps it from a client for good.     *)
Unsent == {row[p] : p \in Post} \ {NoLine}

NoRowLost ==
  /\ handed \cup Unsent = 1 .. nscanned
  /\ handed \cap Unsent = {}
  /\ \A p, q \in Post : row[p] = row[q] => p = q \/ row[p] = NoLine
  /\ \A p \in Post : row[p] # NoLine <=> hpc[p] \in {"send", "panicked"}

(* When the process ends orderly, the session of every row of a request    *)
(* that was answered with 200 is over.                                     *)
AcknowledgedServed ==
  OrderlyExit =>
    \A p \in Post : hpc[p] = "replied" /\ rows[p] # {} => rows[p] \subseteq over

(* A request whose input is in its path is answered when a client has it   *)
(* (usage of -p: "HTTP GET or POST calls accepted i.e                      *)
(* http://localhost/john,pass1").                                          *)
PathIsFed ==
  \A p \in Post : hpc[p] = "replied" /\ place[p] = "path" => rows[p] # {}

(* A handler waiting to hand a row over does not wait for ever: a client   *)
(* takes the row, or the channel is closed under it.                       *)
RowSettles ==
  \A p \in Post : (hpc[p] = "send") ~> (hpc[p] # "send" \/ ~Executing)
=============================================================================

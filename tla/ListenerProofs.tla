--------------------------- MODULE ListenerProofs ---------------------------
(***************************************************************************)
(* goRunner fed over HTTP implements ProcessSpec, too: for any number of   *)
(* clients, requests and rows, whenever accepting fails.                   *)
(***************************************************************************)
EXTENDS Listener, ProcessProofs

PostType ==
  /\ listening \in BOOLEAN
  /\ nscanned \in 0 .. MaxLines
  /\ hpc \in [Post -> HandlerState]
  /\ place \in [Post -> {"body", "path"}]
  /\ row \in [Post -> Line \cup {NoLine}]
  /\ rows \in [Post -> SUBSET Line]

(* NoRowLost, said of each row; a request's rows are with the clients, but *)
(* for the one in its handler's hand.                                      *)
RowInv ==
  /\ handed \subseteq 1 .. nscanned
  /\ \A l \in 1 .. nscanned : l \in handed \/ \E p \in Post : row[p] = l
  /\ \A p \in Post : row[p] # NoLine => row[p] \in (1 .. nscanned) \ handed
  /\ \A p, q \in Post : row[p] = row[q] => p = q \/ row[p] = NoLine
  /\ \A p \in Post : row[p] # NoLine <=> hpc[p] \in {"send", "panicked"}
  /\ \A p \in Post : rows[p] \subseteq handed \cup {row[p]}

PostInv == PostType /\ RowInv

LEMMA PostInit == Init => PostInv
<1> SUFFICES ASSUME Init PROVE PostInv
  OBVIOUS
<1>1. PostType
  <2>1. nscanned \in 0 .. MaxLines
    BY ClientsAssumption DEF Init
  <2>2. /\ listening \in BOOLEAN
        /\ hpc \in [Post -> HandlerState]
        /\ place \in [Post -> {"body", "path"}]
    BY Zenon DEF Init, HandlerState
  <2>3. row \in [Post -> Line \cup {NoLine}] /\ rows \in [Post -> SUBSET Line]
    BY Zenon DEF Init
  <2> QED  BY <2>1, <2>2, <2>3 DEF PostType
<1>2. handed = {} /\ nscanned = 0
  BY DEF Init, ProcessInit
<1>3. \A p \in Post : row[p] = NoLine /\ rows[p] = {} /\ hpc[p] = "absent"
  BY DEF Init
<1> QED  BY <1>1, <1>2, <1>3 DEF PostInv, RowInv

(* What a step of main, a client or the clock changes is not the handlers'.*)
LEMMA ProcessKeepsHanded ==
  ASSUME ProcessStep \/ StopFeeding PROVE UNCHANGED handed
BY DEF ProcessStep, StopFeeding, StartClients, Close, Wait, Interrupt, Clock,
       ClientMoves, ClientDies, ExitMoves

LEMMA PostStep == PostInv /\ [Next]_vars => PostInv'
<1> SUFFICES ASSUME PostInv, [Next]_vars PROVE PostInv'
  OBVIOUS
<1> USE DEF PostInv
<1>1. CASE UNCHANGED <<handed, nscanned, row, rows, hpc, place>> /\ listening' \in BOOLEAN
  BY <1>1 DEF PostType, RowInv
<1>2. CASE Listen
  BY <1>1, <1>2 DEF Listen, processVars
<1>3. CASE (ProcessStep \/ StopFeeding) /\ UNCHANGED postVars
  BY <1>1, <1>3, ProcessKeepsHanded DEF postVars, PostType
<1>4. ASSUME NEW p \in Post, Arrive(p) \/ SendPanics(p) \/ Reply(p)
      PROVE  PostInv'
  <2>1. /\ UNCHANGED <<handed, nscanned, row, rows, listening>>
        /\ \/ hpc[p] = "absent" /\ hpc' = [hpc EXCEPT ![p] = "scan"]
           \/ hpc[p] = "send" /\ hpc' = [hpc EXCEPT ![p] = "panicked"]
           \/ hpc[p] = "scan" /\ hpc' = [hpc EXCEPT ![p] = "replied"]
    BY <1>4 DEF Arrive, SendPanics, Reply, Goes, processVars
  <2>2. place' \in [Post -> {"body", "path"}]
    BY <1>4 DEF Arrive, SendPanics, Reply, PostType
  <2> QED  BY <2>1, <2>2 DEF PostType, RowInv, HandlerState
<1>5. ASSUME NEW p \in Post, ScanRow(p) PROVE PostInv'
  <2> DEFINE l == nscanned + 1
  <2>1. /\ hpc[p] = "scan" /\ hpc' = [hpc EXCEPT ![p] = "send"]
        /\ nscanned < MaxLines /\ nscanned' = l
        /\ row' = [row EXCEPT ![p] = l]
        /\ rows' = [rows EXCEPT ![p] = @ \cup {l}]
        /\ UNCHANGED <<listening, place, handed>>
    BY <1>5 DEF ScanRow, Goes, processVars
  <2>2. l \in Line /\ l \in 1 .. nscanned' /\ l \notin 1 .. nscanned /\ l # NoLine
        /\ nscanned' \in 0 .. MaxLines
    BY <2>1, ClientsAssumption DEF PostType, Line, NoLine
  <2>3. row[p] = NoLine
    BY <2>1 DEF RowInv
  <2>4. 1 .. nscanned' = (1 .. nscanned) \cup {l}
    BY <2>1 DEF PostType
  <2>5. PostType'
    BY <2>1, <2>2 DEF PostType, HandlerState
  <2>6. \A q \in Post : row'[q] = IF q = p THEN l ELSE row[q]
    BY <2>1 DEF PostType
  <2>7. \A q \in Post : q # p => row[q] # l
    BY <2>2 DEF RowInv
  <2>8. \A q \in Post : hpc'[q] = IF q = p THEN "send" ELSE hpc[q]
    BY <2>1 DEF PostType
  <2>9. \A q \in Post : rows'[q] = IF q = p THEN rows[p] \cup {l} ELSE rows[q]
    BY <2>1 DEF PostType
  <2>10. \A q \in Post : rows'[q] \subseteq handed \cup {row'[q]}
    <3> SUFFICES ASSUME NEW q \in Post, NEW r \in rows'[q]
                 PROVE  r \in handed \cup {row'[q]}
      OBVIOUS
    <3>1. CASE q = p /\ r # l
      <4>1. r \in rows[p] /\ r # NoLine
        BY <3>1, <2>9 DEF PostType, Line, NoLine
      <4> QED  BY <4>1, <2>3 DEF RowInv
    <3>2. CASE q = p /\ r = l
      BY <3>2, <2>6
    <3>3. CASE q # p
      BY <3>3, <2>6, <2>9 DEF RowInv
    <3> QED  BY <3>1, <3>2, <3>3
  <2>11. (\A m \in 1 .. nscanned : m \in handed \/ \E q \in Post : row[q] = m)'
    <3> SUFFICES ASSUME NEW m \in 1 .. nscanned', m \notin handed
                 PROVE  \E q \in Post : row'[q] = m
      BY <2>1
    <3>1. CASE m = l
      BY <3>1, <2>6
    <3>2. CASE m # l
      <4>1. PICK q \in Post : row[q] = m
        BY <3>2, <2>4 DEF RowInv
      <4>2. m # NoLine
        BY DEF NoLine
      <4> QED  BY <4>1, <4>2, <2>3, <2>6
    <3> QED  BY <3>1, <3>2
  <2>14. /\ (handed \subseteq 1 .. nscanned)'
         /\ (\A q \in Post : row[q] # NoLine => row[q] \in (1 .. nscanned) \ handed)'
    BY <2>1, <2>2, <2>4, <2>6 DEF RowInv
  <2>12. (\A q, r \in Post : row[q] = row[r] => q = r \/ row[q] = NoLine)'
    BY <2>6, <2>7 DEF RowInv
  <2>13. (\A q \in Post : row[q] # NoLine <=> hpc[q] \in {"send", "panicked"})'
    BY <2>2, <2>6, <2>8 DEF RowInv
  <2> QED  BY <2>1, <2>5, <2>10, <2>11, <2>12, <2>13, <2>14 DEF RowInv
<1>6. ASSUME NEW p \in Post, NEW c \in Client, SendRow(c, p) PROVE PostInv'
  <2>1. /\ hpc[p] = "send" /\ hpc' = [hpc EXCEPT ![p] = "scan"]
        /\ handed' = handed \cup {row[p]}
        /\ row' = [row EXCEPT ![p] = NoLine]
        /\ UNCHANGED <<listening, nscanned, place, rows>>
    BY <1>6 DEF SendRow, Goes, Send
  <2>2. row[p] \in 1 .. nscanned /\ row[p] # NoLine
    BY <2>1 DEF RowInv
  <2>3. PostType'
    BY <2>1 DEF PostType, HandlerState
  <2>4. \A q \in Post : /\ row'[q] = IF q = p THEN NoLine ELSE row[q]
                        /\ hpc'[q] = IF q = p THEN "scan" ELSE hpc[q]
    BY <2>1 DEF PostType
  <2>5. \A q \in Post : q # p => row[q] # row[p]
    BY <2>2 DEF RowInv
  <2>6. (\A m \in 1 .. nscanned : m \in handed \/ \E q \in Post : row[q] = m)'
    <3> SUFFICES ASSUME NEW m \in 1 .. nscanned, m \notin handed'
                 PROVE  \E q \in Post : row'[q] = m
      BY <2>1
    <3>1. PICK q \in Post : row[q] = m
      BY <2>1 DEF RowInv
    <3> QED  BY <2>1, <2>4, <3>1
  <2>7. (handed \subseteq 1 .. nscanned)'
    BY <2>1, <2>2 DEF RowInv
  <2>8. (\A q \in Post : row[q] # NoLine => row[q] \in (1 .. nscanned) \ handed)'
    BY <2>1, <2>4, <2>5 DEF RowInv
  <2>9. (\A q, r \in Post : row[q] = row[r] => q = r \/ row[q] = NoLine)'
    BY <2>4 DEF RowInv
  <2>10. (\A q \in Post : row[q] # NoLine <=> hpc[q] \in {"send", "panicked"})'
    BY <2>4 DEF RowInv
  <2>11. (\A q \in Post : rows[q] \subseteq handed \cup {row[q]})'
    BY <2>1, <2>4 DEF RowInv
  <2> QED  BY <2>3, <2>6, <2>7, <2>8, <2>9, <2>10, <2>11 DEF RowInv
<1>7. CASE UNCHANGED vars
  BY <1>1, <1>7 DEF vars, processVars, postVars, PostType
<1> QED
  BY <1>2, <1>3, <1>4, <1>5, <1>6, <1>7 DEF Next, HandlerStep, ListenFails, Exited

(* A handler runs only while main listens or closes, until the channel is  *)
(* closed.                                                                 *)
MainInv ==
  /\ ~closed => main \in {"start", "feed", "close"}
  /\ main = "start" => ~listening
  /\ ~listening => \A p \in Post : hpc[p] = "absent"

LEMMA ClientKeepsClosed ==
  ASSUME NEW c \in Client, ClientStep(c) PROVE UNCHANGED closed
BY DEF ClientStep, RampedUp, Leave, InSession, CutShort, GoAhead, StartRequest, Returned,
       CountRequest, LoadFlag, StoreFlag, Verdict, WriteRow

LEMMA MainInit == Init => MainInv
BY DEF Init, ProcessInit, MainInv

LEMMA MainStep == PostInv /\ MainInv /\ [Next]_vars => MainInv'
<1> SUFFICES ASSUME PostInv, MainInv, [Next]_vars PROVE MainInv'
  OBVIOUS
<1> USE DEF MainInv
<1>1. CASE UNCHANGED <<main, closed, hpc, listening>>
  BY <1>1
<1>2. CASE Listen
  BY <1>2 DEF Listen, processVars, clientVars
<1>3. CASE UNCHANGED postVars /\ (StartClients \/ Close \/ Wait \/ StopFeeding)
  <2>1. UNCHANGED <<hpc, listening>>
    BY <1>3 DEF postVars
  <2>2. CASE StartClients
    BY <2>1, <2>2 DEF StartClients, StartClient
  <2>3. CASE Close
    BY <2>1, <2>3 DEF Close
  <2>4. CASE Wait \/ StopFeeding
    BY <2>1, <2>4 DEF Wait, StopFeeding, clientVars
  <2> QED  BY <1>3, <2>2, <2>3, <2>4
<1>4. CASE UNCHANGED postVars /\ (Interrupt \/ Clock)
  BY <1>4, <1>1 DEF Interrupt, Clock, Expire, postVars, clientVars
<1>5. ASSUME NEW c \in Client, UNCHANGED postVars, ClientMoves(c) \/ ClientDies(c)
      PROVE  MainInv'
  BY <1>5, <1>1, ClientKeepsClosed DEF ClientMoves, ClientDies, postVars, clientVars
<1>6. ASSUME NEW e \in Exiter, UNCHANGED postVars, ExitMoves(e) PROVE MainInv'
  BY <1>6, <1>1 DEF ExitMoves, postVars, clientVars
<1>7. ASSUME NEW p \in Post, Arrive(p) \/ ScanRow(p) \/ SendPanics(p) \/ Reply(p)
      PROVE  MainInv'
  <2>1. UNCHANGED <<main, closed, listening>>
    BY <1>7 DEF Arrive, ScanRow, SendPanics, Reply, processVars, clientVars
  <2>2. listening
    BY <1>7 DEF Arrive, ScanRow, SendPanics, Reply, Goes
  <2> QED  BY <2>1, <2>2
<1>8. ASSUME NEW p \in Post, NEW c \in Client, SendRow(c, p) PROVE MainInv'
  <2>1. UNCHANGED <<main, closed, listening>>
    BY <1>8 DEF SendRow, Send, Take
  <2>2. listening
    BY <1>8 DEF SendRow, Goes
  <2> QED  BY <2>1, <2>2
<1>9. CASE UNCHANGED vars
  BY <1>9, <1>1 DEF vars, processVars, clientVars, postVars
<1> QED
  BY <1>2, <1>3, <1>4, <1>5, <1>6, <1>7, <1>8, <1>9
     DEF Next, HandlerStep, ListenFails, Exited, ProcessStep

(* Every step of Listener is a step of the process, or leaves it alone.    *)
LEMMA ListenerImplements ==
  PostInv /\ MainInv /\ [Next]_vars => [ProcessNext]_processVars
<1> SUFFICES ASSUME PostInv, MainInv, [Next]_vars PROVE [ProcessNext]_processVars
  OBVIOUS
<1>1. CASE UNCHANGED processVars
  BY <1>1
<1>2. CASE Executing /\ (ListenFails \/ ProcessStep)
  BY <1>2 DEF ListenFails, ProcessNext, FeederStep
<1>3. ASSUME Executing, NEW p \in Post, NEW c \in Client, SendRow(c, p)
      PROVE  ProcessNext
  <2>1. hpc[p] = "send" /\ Send(c, row[p]) /\ ~closed
    BY <1>3 DEF SendRow, Goes, Send
  <2>2. main \in {"feed", "close"}
    BY <2>1 DEF MainInv
  <2>3. row[p] \in Line /\ row[p] \notin handed
    BY <2>1, ClientsAssumption DEF PostInv, PostType, RowInv, Line
  <2> QED  BY <1>3, <2>1, <2>2, <2>3 DEF ProcessNext, FeederStep
<1> QED
  BY <1>1, <1>2, <1>3
     DEF Next, HandlerStep, Listen, Arrive, ScanRow, SendPanics, Reply, Exited, vars

(* goRunner listening for requests is a process with a feeder that hands   *)
(* every row over once.                                                    *)
THEOREM ListenerIsProcess == Spec => ProcessSpec
<1>1. Init => ProcessInit
  BY DEF Init
<1> QED
  BY <1>1, PostInit, PostStep, MainInit, MainStep, ListenerImplements, PTL
     DEF Spec, ProcessSpec

(* Every variable keeps its type.                                          *)
THEOREM ListenerTypes == Spec => []TypeOK
<1>1. ProcessTypeOK /\ PostInv => TypeOK
  BY DEF TypeOK, PostInv, PostType
<1> QED  BY <1>1, PostInit, PostStep, ListenerIsProcess, ProcessTypes, PTL DEF Spec

(* A scanned row is in the hand of one handler or was handed to a client.  *)
THEOREM RowsKept == Spec => []NoRowLost
<1>1. PostInv => NoRowLost
  <2> SUFFICES ASSUME PostInv PROVE NoRowLost
    OBVIOUS
  <2> USE DEF PostInv, RowInv
  <2>1. \A l \in Unsent : l \in (1 .. nscanned) \ handed
    BY DEF Unsent
  <2>2. \A l \in 1 .. nscanned : l \in handed \/ l \in Unsent
    BY DEF Unsent, NoLine, PostType
  <2> QED  BY <2>1, <2>2 DEF NoRowLost
<1> QED  BY <1>1, PostInit, PostStep, PTL DEF Spec

(* At an orderly end every row of an answered request had its session.     *)
THEOREM AcknowledgedRowsServed == Spec => []AcknowledgedServed
<1>1. PostInv /\ OrderlyExitIsComplete => AcknowledgedServed
  <2> SUFFICES ASSUME PostInv, OrderlyExitIsComplete, OrderlyExit,
                      NEW p \in Post, hpc[p] = "replied", NEW r \in rows[p]
               PROVE  r \in over
    BY DEF AcknowledgedServed
  <2>1. row[p] = NoLine
    BY DEF PostInv, RowInv
  <2>2. r # NoLine
    BY DEF PostInv, PostType, Line, NoLine
  <2>3. r \in handed
    BY <2>1, <2>2 DEF PostInv, RowInv
  <2> QED  BY <2>3 DEF OrderlyExitIsComplete
<1> QED  BY <1>1, PostInit, PostStep, ListenerIsProcess, ProcessExit, PTL DEF Spec

(* goRunner fed over HTTP implements Workload as well.                     *)
THEOREM ListenerKeepsPromise == Spec => KeepsPromise
BY ListenerIsProcess, ProcessPromise, PTL
=============================================================================

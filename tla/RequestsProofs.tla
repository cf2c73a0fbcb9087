--------------------------- MODULE RequestsProofs ---------------------------
(***************************************************************************)
(* The sessions of any client of any runner: they begin when the runner is *)
(* ready, a TCP request is its body but for the encrypted range, its reply *)
(* is what the server sent as far as it has arrived, a client dies of a    *)
(* macro only for one of two reasons, and an HTTP request says what the    *)
(* ini file means.                                                         *)
(*                                                                         *)
(* In this order: bytes; types and TCP; the values of macros level by      *)
(* level, and what makes one dead; the texts and tables of an ini file;    *)
(* why a client is dead; what a level of values means; HTTP.               *)
(***************************************************************************)
EXTENDS Requests, CommandsProofs, FiniteSetTheorems

(* Bytes that occur at start occur first somewhere.                        *)
LEMMA FirstOccurs ==
  ASSUME NEW bytes, NEW send, NEW start \in Nat \ {0}, Occurs(bytes, send, start)
  PROVE  \E p \in 1 .. start :
           Occurs(bytes, send, p) /\ \A q \in 1 .. p - 1 : ~Occurs(bytes, send, q)
<1> DEFINE S == {p \in 1 .. start : Occurs(bytes, send, p)}
<1>1. S \subseteq Nat /\ start \in S
  OBVIOUS
<1>2. PICK n \in S : \A m \in S : n <= m
  BY <1>1, Least
<1>3. ASSUME NEW q \in 1 .. n - 1 PROVE ~Occurs(bytes, send, q)
  <2>1. q \in 1 .. start /\ ~(n <= q)
    OBVIOUS
  <2> QED  BY <1>2, <2>1
<1> QED  BY <1>2, <1>3

(* What Seal makes of the bytes of a message.                              *)
SealedOnce(sealed, send, start, count, n) ==
  LET range == SubSeq(send, start, start + count - 1) IN
  /\ Len(sealed) = n
  /\ \E p \in 1 .. start :
       /\ Occurs(range, send, p)
       /\ \A i \in 1 .. n :
            sealed[i] = IF i \in p .. p + count - 1 THEN Aes(range)[i - p + 1] ELSE send[i]

LEMMA SealSeals ==
  ASSUME NEW send, NEW n \in Nat, Len(send) = n,
         NEW start \in Nat \ {0}, NEW count \in Nat \ {0},
         start - 1 + count <= n
  PROVE  SealedOnce(Seal(send, start, count), send, start, count, n)
<1> DEFINE range == SubSeq(send, start, start + count - 1)
           First(p) == /\ Occurs(range, send, p)
                       /\ \A q \in 1 .. p - 1 : ~Occurs(range, send, q)
           p == CHOOSE x \in 1 .. start : First(x)
           sealed == Seal(send, start, count)
<1>1. Len(range) = count /\ \A i \in 1 .. count : range[i] = send[start - 1 + i]
  OBVIOUS
<1>2. Occurs(range, send, start)
  <2> HIDE DEF range
  <2> QED  BY <1>1 DEF Occurs
<1>3. p \in 1 .. start /\ Occurs(range, send, p)
  <2> HIDE DEF range
  <2>1. \E x \in 1 .. start : First(x)
    BY <1>2, FirstOccurs
  <2> QED  BY <2>1
<1>4. sealed = [i \in 1 .. n |-> IF i \in p .. p + count - 1
                                 THEN Aes(range)[i - p + 1] ELSE send[i]]
  BY DEF Seal
<1> HIDE DEF range, p, sealed
<1>5. Len(sealed) = n
  BY <1>4
<1>6. \A i \in 1 .. n : sealed[i] = IF i \in p .. p + count - 1
                                    THEN Aes(range)[i - p + 1] ELSE send[i]
  BY <1>4
<1>7. \E x \in 1 .. start :
        /\ Occurs(range, send, x)
        /\ \A i \in 1 .. n : sealed[i] = IF i \in x .. x + count - 1
                                         THEN Aes(range)[i - x + 1] ELSE send[i]
  BY <1>3, <1>6
<1> QED  BY <1>5, <1>7 DEF range, sealed, SealedOnce

-----------------------------------------------------------------------------
(* A step of NewRunner with its tables is one of NewRunner.                *)
LEMMA PrepareIsNext ==
  ASSUME Prepare PROVE Next /\ pc # "ready"
<1>1. CASE UseSequence \/ StartChain \/ Follow \/ EndChain \/ SetPostSessionDelay
  BY <1>1 DEF Next, UseSequence, StartChain, Follow, EndChain, SetPostSessionDelay
<1>2. CASE Register
  BY <1>2 DEF Next, Register, CheckCommand
<1>3. CASE RegisterTimes
  <2>1. BadTimeMacro \/ InitRampUp
    BY <1>3 DEF RegisterTimes
  <2> QED  BY <2>1 DEF Next, BadTimeMacro, InitRampUp
<1> QED  BY <1>1, <1>2, <1>3 DEF Prepare

LEMMA StepIsNext ==
  ASSUME [RequestsNext]_allVars PROVE [Next]_vars
<1>1. CASE Prepare
  BY <1>1, PrepareIsNext
<1>2. CASE UNCHANGED vars
  BY <1>2
<1>3. CASE Rest
  BY <1>3 DEF Next
<1> QED  BY <1>1, <1>2, <1>3 DEF RequestsNext, allVars

(* Texts and sessions are added to NewRunner without a change to it.       *)
THEOREM ImplementsCommands == RequestsSpec => Spec
<1>1. RequestsInit => Init
  BY DEF RequestsInit
<1> QED  BY <1>1, StepIsNext, PTL DEF RequestsSpec, Spec

-----------------------------------------------------------------------------
(* Between the request and its answer, what was sent is what the texts of  *)
(* the command say.                                                        *)
TcpSent ==
  at = "sent" /\ IsTcp =>
    /\ Decodes(Body)
    /\ Encrypts(EncryptStart, EncryptCt) => Sealable
    /\ sent["bytes"] = IF Encrypts(EncryptStart, EncryptCt)
                       THEN Seal(Decode(Body), EncryptStart, EncryptCt) ELSE Decode(Body)

ReplyRead ==
  \/ reply = NoReply
  \/ \E a \in Answer : \E n \in 1 .. Len(a) :
       /\ n <= BufSize /\ ResponseLen(SubSeq(a, 1, n)) <= BufSize
       /\ reply = [bytes |-> Reply(SubSeq(a, 1, n)), of |-> a, arrived |-> n]

RInv ==
  /\ RequestsTypeOK
  /\ pc # "ready" => step = 1
  /\ TcpSent
  /\ ReplyRead

LEMMA SameCommand ==
  ASSUME UNCHANGED <<config, commandQueue, step>>
  PROVE  /\ IsTcp' = IsTcp
         /\ EncryptStart' = EncryptStart
         /\ EncryptCt' = EncryptCt
BY DEF IsTcp, EncryptStart, EncryptCt, FieldInteger, FieldString, command

LEMMA SameTexts ==
  ASSUME UNCHANGED <<config, commandQueue, step, line, sessionVars, macroVars>>
  PROVE  Body' = Body /\ Iv' = Iv /\ EncryptKey' = EncryptKey
<1>1. command' = command
  BY DEF command
<1>2. ASSUME NEW s PROVE Text(s, command)' = Text(s, command)
  BY <1>1 DEF Text, FieldString
<1>3. Tables(command)' = Tables(command)
  BY <1>1, <1>2 DEF Tables, InputMacros, InputText, macroVars
<1> QED
  BY <1>2, <1>3 DEF Body, Iv, EncryptKey, RunnerMacros

LEMMA TcpSentStays ==
  ASSUME TcpSent, UNCHANGED <<config, commandQueue, step, line, sessionVars, macroVars, sent, at>>
  PROVE  TcpSent'
<1>1. /\ Body' = Body /\ Iv' = Iv /\ EncryptKey' = EncryptKey
      /\ IsTcp' = IsTcp /\ EncryptStart' = EncryptStart /\ EncryptCt' = EncryptCt
  BY SameTexts, SameCommand
<1>2. Sealable' = Sealable
  BY <1>1 DEF Sealable
<1> QED  BY <1>1, <1>2 DEF TcpSent

(* The parts of RequestsTypeOK that a step may disturb.                    *)
LEMMA TypeStays ==
  ASSUME RequestsTypeOK, pc = "ready", UNCHANGED <<vars, reply>>,
         at' \in {"range", "due", "sent", "answer", "logged", "dead", "exit", "overrun"},
         step' \in 1 .. Len(commandQueue), line' \in Line \cup {None},
         capture' \in Nat \ {0}, continue' \in BOOLEAN
  PROVE  RequestsTypeOK'
BY DEF RequestsTypeOK, vars

LEMMA RInvInit == RequestsInit => RInv
<1> SUFFICES ASSUME RequestsInit PROVE RInv
  OBVIOUS
<1>1. pc = "queue" /\ at = "range" /\ step = 1 /\ reply = NoReply
      /\ line = None /\ capture = 1 /\ continue = TRUE
  BY DEF RequestsInit, Init
<1>2. RequestsTypeOK
  <2>1. reply.arrived = 0 /\ reply.of = << >> /\ 0 \in 0 .. BufSize
    BY <1>1, TcpReqAssumption DEF NoReply
  <2> QED  BY <1>1, <2>1 DEF RequestsTypeOK
<1> QED  BY <1>1, <1>2 DEF RInv, TcpSent, ReplyRead

LEMMA PrepareKeepsRInv ==
  ASSUME Inv, Inv', RInv, Prepare, UNCHANGED requestVars PROVE RInv'
<1>1. pc # "ready" /\ at = "range" /\ at' = "range" /\ step' = 1 /\ reply' = reply
      /\ line' = line /\ capture' = capture /\ continue' = continue
  BY PrepareIsNext DEF RInv, RequestsTypeOK, requestVars
<1>2. ASSUME pc' = "ready" PROVE 1 \in 1 .. Len(commandQueue')
  <2>1. commandQueue' \in Seq(Name) /\ Len(commandQueue') > 0
    BY <1>2 DEF Inv, TypeOK, CheckedInv
  <2>2. Len(commandQueue') \in Nat
    BY <2>1, LenProperties
  <2> QED  BY <2>1, <2>2
<1>3. RequestsTypeOK'
  BY <1>1, <1>2 DEF RInv, RequestsTypeOK
<1>4. TcpSent' /\ ReplyRead'
  BY <1>1 DEF RInv, TcpSent, ReplyRead
<1> QED  BY <1>1, <1>3, <1>4 DEF RInv

(* What a step of the client finds.                                        *)
LEMMA ClientFacts ==
  ASSUME RInv, pc = "ready" \/ at # "range"
  PROVE  /\ pc = "ready" /\ step \in 1 .. Len(commandQueue)
         /\ line \in Line \cup {None} /\ capture \in Nat \ {0} /\ continue \in BOOLEAN
BY DEF RInv, RequestsTypeOK

LEMMA ReplyStays ==
  ASSUME ReplyRead, reply' = reply PROVE ReplyRead'
BY DEF ReplyRead

LEMMA OtherStepsKeepRInv ==
  ASSUME RInv, UNCHANGED <<vars, macroVars>>,
         TakeLine \/ CutShort \/ FunctionFails \/ NoResponse \/ Response
           \/ TcpFails \/ Logged
  PROVE  RInv'
<1>1. pc = "ready" \/ at # "range"
  BY DEF TakeLine, CutShort, FunctionFails, NoResponse, Response, TcpFails, Logged
<1>2. reply' = reply /\ at' # "sent"
  BY DEF TakeLine, CutShort, FunctionFails, NoResponse, Response, TcpFails, Logged
<1>3. at' \in {"range", "due", "sent", "answer", "logged", "dead", "exit", "overrun"}
  BY DEF TakeLine, CutShort, FunctionFails, NoResponse, Response, TcpFails, Logged
<1>4. step' \in 1 .. Len(commandQueue)
  <2>1. step' = step \/ step' = 1
    BY DEF TakeLine, CutShort, EndSession, FunctionFails, NoResponse, Response, TcpFails, Logged
  <2>2. 1 \in 1 .. Len(commandQueue)
    BY <1>1, ClientFacts
  <2> QED  BY <1>1, <2>1, <2>2, ClientFacts
<1>5. line' \in Line \cup {None} /\ capture' \in Nat \ {0} /\ continue' \in BOOLEAN
  <2>1. line' = line \/ line' = None \/ line' \in Line
    BY DEF TakeLine, CutShort, EndSession, FunctionFails, NoResponse, Response, TcpFails, Logged
  <2>2. capture' = capture \/ capture' = 1
    BY DEF TakeLine, CutShort, EndSession, FunctionFails, NoResponse, Response, TcpFails, Logged
  <2>3. \/ continue' = continue \/ continue' = TRUE \/ continue' = FALSE
        \/ continue' = (MustCapture = Unset)
    BY Zenon
    DEF TakeLine, CutShort, EndSession, FunctionFails, NoResponse, Response, TcpFails, Logged
  <2>4. continue' \in BOOLEAN
    BY <1>1, <2>3, ClientFacts, Zenon
  <2> QED  BY <1>1, <2>1, <2>2, <2>4, ClientFacts
<1>6. RequestsTypeOK'
  BY <1>1, <1>2, <1>3, <1>4, <1>5, ClientFacts, TypeStays DEF RInv
<1>7. TcpSent'
  BY <1>2 DEF TcpSent
<1>8. ReplyRead'
  BY <1>2, ReplyStays DEF RInv
<1>9. pc' = "ready"
  BY <1>1, ClientFacts DEF vars
<1> QED  BY <1>6, <1>7, <1>8, <1>9 DEF RInv

LEMMA HttpRequestKeepsRInv ==
  ASSUME RInv, UNCHANGED <<vars, macroVars>>, HttpRequest PROVE RInv'
<1>1. /\ at = "due" /\ ~IsTcp
      /\ UNCHANGED <<line, step, reply, capture>>
      /\ at' \in {"dead", "logged", "exit", "sent"}
  BY DEF HttpRequest
<1>2. continue' = continue \/ continue' = (MustCapture = Unset)
  BY Zenon DEF HttpRequest
<1>3. continue' \in BOOLEAN
  BY <1>1, <1>2, ClientFacts, Zenon
<1>4. RequestsTypeOK'
  BY <1>1, <1>3, ClientFacts, TypeStays DEF RInv
<1>5. TcpSent'
  BY <1>1, SameCommand DEF TcpSent, vars
<1>6. ReplyRead'
  BY <1>1, ReplyStays DEF RInv
<1> QED  BY <1>1, <1>4, <1>5, <1>6, ClientFacts DEF RInv, vars

LEMMA TcpRequestKeepsRInv ==
  ASSUME RInv, UNCHANGED <<vars, macroVars>>, TcpRequest PROVE RInv'
<1>1. /\ at = "due" /\ IsTcp
      /\ UNCHANGED <<line, step, sessionVars, reply, capture, continue>>
      /\ at' \in {"dead", "exit", "sent"}
  BY DEF TcpRequest
<1>2. RequestsTypeOK'
  BY <1>1, ClientFacts, TypeStays DEF RInv
<1>3. ASSUME at' = "sent" PROVE TcpSent'
  <2>1. /\ Decodes(Body)
        /\ Encrypts(EncryptStart, EncryptCt) => Sealable
        /\ sent' = [f \in {"bytes"} |->
                      IF Encrypts(EncryptStart, EncryptCt)
                      THEN Seal(Decode(Body), EncryptStart, EncryptCt) ELSE Decode(Body)]
    BY <1>3 DEF TcpRequest, Sendable
  <2>2. /\ Body' = Body /\ Iv' = Iv /\ EncryptKey' = EncryptKey
        /\ EncryptStart' = EncryptStart /\ EncryptCt' = EncryptCt
    BY <1>1, SameTexts, SameCommand DEF vars
  <2>3. Sealable' = Sealable
    BY <2>2 DEF Sealable
  <2>4. sent'["bytes"] = IF Encrypts(EncryptStart, EncryptCt)
                         THEN Seal(Decode(Body), EncryptStart, EncryptCt) ELSE Decode(Body)
    BY <2>1
  <2> QED  BY <2>1, <2>2, <2>3, <2>4 DEF TcpSent
<1>4. TcpSent'
  BY <1>3 DEF TcpSent
<1>5. ReplyRead'
  BY <1>1, ReplyStays DEF RInv
<1> QED  BY <1>1, <1>2, <1>4, <1>5, ClientFacts DEF RInv, vars

LEMMA TcpReplyKeepsRInv ==
  ASSUME RInv, UNCHANGED <<vars, macroVars>>, TcpReply PROVE RInv'
<1>1. /\ at = "sent" /\ capture' = 1
      /\ UNCHANGED <<line, step, sessionVars, sent>>
      /\ at' \in {"overrun", "answer", "logged"}
  BY DEF TcpReply
<1>2. PICK a \in Answer : \E n \in 1 .. Len(a) :
        /\ n <= BufSize
        /\ \/ reply' = reply /\ continue' = continue
           \/ /\ ResponseLen(SubSeq(a, 1, n)) <= BufSize
              /\ reply' = [bytes |-> Reply(SubSeq(a, 1, n)), of |-> a, arrived |-> n]
              /\ continue' = (ResponseLen(SubSeq(a, 1, n)) > 1)
  BY DEF TcpReply
<1>3. PICK n \in 1 .. Len(a) :
        /\ n <= BufSize
        /\ \/ reply' = reply /\ continue' = continue
           \/ /\ ResponseLen(SubSeq(a, 1, n)) <= BufSize
              /\ reply' = [bytes |-> Reply(SubSeq(a, 1, n)), of |-> a, arrived |-> n]
              /\ continue' = (ResponseLen(SubSeq(a, 1, n)) > 1)
  BY <1>2
<1>4. continue' \in BOOLEAN
  <2>1. continue \in BOOLEAN
    BY <1>1, ClientFacts
  <2>2. continue' = continue \/ continue' = (ResponseLen(SubSeq(a, 1, n)) > 1)
    BY <1>3, Zenon
  <2>3. CASE continue' = continue
    BY <2>1, <2>3
  <2>4. CASE continue' = (ResponseLen(SubSeq(a, 1, n)) > 1)
    BY <2>4
  <2> QED  BY <2>2, <2>3, <2>4
<1>5. reply'.arrived \in 0 .. BufSize /\ reply'.of \in Answer \cup {<< >>}
  <2>1. reply.arrived \in 0 .. BufSize /\ reply.of \in Answer \cup {<< >>}
    BY DEF RInv, RequestsTypeOK
  <2>2. CASE reply' = reply
    BY <2>1, <2>2
  <2>3. CASE reply' = [bytes |-> Reply(SubSeq(a, 1, n)), of |-> a, arrived |-> n]
    <3>1. reply'.arrived = n /\ reply'.of = a
      BY <2>3
    <3>2. n \in Nat /\ BufSize \in Nat
      BY TcpReqAssumption
    <3> QED  BY <1>3, <3>1, <3>2
  <2> QED  BY <1>3, <2>2, <2>3
<1>6. RequestsTypeOK'
  <2>1. pc' = "ready" /\ step' \in 1 .. Len(commandQueue') /\ line' \in Line \cup {None}
    BY <1>1, ClientFacts DEF vars
  <2> QED  BY <1>1, <1>4, <1>5, <2>1 DEF RequestsTypeOK
<1>7. TcpSent'
  BY <1>1 DEF TcpSent
<1>8. ReplyRead'
  <2>1. CASE reply' = reply
    BY <2>1, ReplyStays DEF RInv
  <2>2. CASE reply' # reply
    BY <1>3, <2>2 DEF ReplyRead
  <2> QED  BY <2>1, <2>2
<1> QED  BY <1>1, <1>6, <1>7, <1>8, ClientFacts DEF RInv, vars

LEMMA CaptureKeepsRInv ==
  ASSUME RInv, UNCHANGED <<vars, macroVars>>, Capture PROVE RInv'
<1>1. /\ at = "answer" /\ capture' = capture + 1
      /\ UNCHANGED <<line, step, sent, reply>>
      /\ at' \in {"dead", "answer"}
  BY DEF Capture
<1>2. \/ continue' = continue
      \/ continue' = (continue /\ (MustCapture # Unset =>
                        config.vars[command][capture].name \notin MustCapture))
  BY Zenon DEF Capture
<1>3. continue' \in BOOLEAN
  <2>1. continue \in BOOLEAN
    BY <1>1, ClientFacts
  <2> QED  BY <1>2, <2>1, Zenon
<1>4. capture' \in Nat \ {0}
  BY <1>1, ClientFacts
<1>5. RequestsTypeOK'
  BY <1>1, <1>3, <1>4, ClientFacts, TypeStays DEF RInv
<1>6. TcpSent'
  BY <1>1 DEF TcpSent
<1>7. ReplyRead'
  BY <1>1, ReplyStays DEF RInv
<1> QED  BY <1>1, <1>5, <1>6, <1>7, ClientFacts DEF RInv, vars

LEMMA ProceedKeepsRInv ==
  ASSUME RInv, UNCHANGED <<vars, macroVars>>, Proceed PROVE RInv'
<1>1. /\ at = "logged" /\ at' \in {"due", "dead", "range"} /\ reply' = NoReply
      /\ line' \in {line, None} /\ capture' \in {capture, 1} /\ continue' \in {continue, TRUE}
  BY DEF Proceed, EndSession
<1>2. step' \in 1 .. Len(commandQueue)
  <2>1. step \in 1 .. Len(commandQueue)
    BY <1>1, ClientFacts
  <2>2. PICK s \in NextStep : \/ GoesOn(s) /\ step' = s
                             \/ step' = step
                             \/ step' = 1
    BY DEF Proceed, EndSession
  <2>3. s \in {step, step + 1}
    BY DEF NextStep
  <2>4. Len(commandQueue) \in Nat
    BY <1>1, ClientFacts, LenProperties DEF RInv
  <2> QED  BY <2>1, <2>2, <2>3, <2>4 DEF GoesOn
<1>3. RequestsTypeOK'
  <2>1. reply'.arrived = 0 /\ reply'.of = << >> /\ 0 \in 0 .. BufSize
    BY <1>1, TcpReqAssumption DEF NoReply
  <2>2. pc = "ready" /\ line \in Line \cup {None} /\ capture \in Nat \ {0} /\ continue \in BOOLEAN
    BY <1>1, ClientFacts
  <2>3. line' \in Line \cup {None} /\ capture' \in Nat \ {0}
    BY <1>1, <2>2
  <2>4. continue' \in BOOLEAN
    BY <1>1, <2>2, Zenon
  <2>5. pc' = "ready" /\ step' \in 1 .. Len(commandQueue')
    BY <1>2, <2>2 DEF vars
  <2> QED  BY <1>1, <2>1, <2>3, <2>4, <2>5 DEF RequestsTypeOK
<1>4. TcpSent' /\ ReplyRead'
  BY <1>1 DEF TcpSent, ReplyRead
<1> QED  BY <1>1, <1>3, <1>4, ClientFacts DEF RInv, vars

LEMMA RInvStays ==
  ASSUME RInv, UNCHANGED allVars PROVE RInv'
<1>1. UNCHANGED <<vars, macroVars, requestVars>>
  BY DEF allVars
<1>2. TcpSent' /\ ReplyRead'
  BY <1>1, TcpSentStays, ReplyStays DEF RInv, vars, requestVars
<1> QED  BY <1>1, <1>2 DEF RInv, RequestsTypeOK, vars, requestVars

LEMMA RInvStep == Inv /\ Inv' /\ RInv /\ [RequestsNext]_allVars => RInv'
<1> SUFFICES ASSUME Inv, Inv', RInv, [RequestsNext]_allVars PROVE RInv'
  OBVIOUS
<1>1. CASE Prepare /\ UNCHANGED requestVars
  BY <1>1, PrepareKeepsRInv
<1>2. CASE ClientMoves /\ UNCHANGED <<vars, macroVars>>
  BY <1>2, OtherStepsKeepRInv, HttpRequestKeepsRInv, TcpRequestKeepsRInv, TcpReplyKeepsRInv,
     CaptureKeepsRInv, ProceedKeepsRInv
  DEF ClientMoves
<1>3. CASE UNCHANGED allVars
  BY <1>3, RInvStays
<1>4. CASE Rest /\ UNCHANGED <<macroVars, requestVars>>
  BY <1>4, RInvStays DEF Rest, allVars
<1> QED  BY <1>1, <1>2, <1>3, <1>4 DEF RequestsNext

LEMMA AllRequestInvariants == RequestsSpec => [](Inv /\ RInv)
<1>1. Inv /\ RInv /\ [RequestsNext]_allVars => Inv' /\ RInv'
  BY StepIsNext, InvStep, RInvStep
<1>2. RequestsInit => Inv /\ RInv
  BY InvInit, RInvInit DEF RequestsInit
<1> QED  BY <1>1, <1>2, PTL DEF RequestsSpec

-----------------------------------------------------------------------------
(* A step of a client finds the runner ready and stays within its queue.   *)
THEOREM RequestsTypeCorrect == RequestsSpec => []RequestsTypeOK
<1>1. RInv => RequestsTypeOK
  BY DEF RInv
<1> QED  BY <1>1, AllRequestInvariants, PTL

(* A TCP request is its body; if bytes are to be encrypted, they are, in   *)
(* one place that holds the bytes of the range, and no other byte changes. *)
THEOREM RangeCorrect == RequestsSpec => []RangeEncrypted
<1> DEFINE plain == Decode(Body)
           range == SubSeq(plain, EncryptStart, EncryptStart + EncryptCt - 1)
<1>1. ASSUME TcpSent, at = "sent", IsTcp PROVE RangeEncrypted
  <2>1. EncryptStart \in Int /\ EncryptCt \in Int
    BY DEF EncryptStart, EncryptCt, FieldInteger
  <2>2. \E n \in Nat : Len(plain) = n
    <3>1. Body \in Seq(Hex)
      BY <1>1 DEF TcpSent, Decodes
    <3>2. Len(Body) \div 2 \in Nat
      BY <3>1, LenProperties
    <3>3. Len(plain) = Len(Body) \div 2
      BY <3>2 DEF Decode
    <3> QED  BY <3>2, <3>3
  <2>3. CASE Encrypts(EncryptStart, EncryptCt)
    <3>1. /\ EncryptStart \in Nat \ {0} /\ EncryptCt \in Nat \ {0}
          /\ EncryptStart - 1 + EncryptCt <= Len(plain)
          /\ EncryptCt > 0 /\ EncryptStart > 0
      BY <1>1, <2>1, <2>3 DEF TcpSent, Sealable, InMessage, Encrypts
    <3>2. sent["bytes"] = Seal(plain, EncryptStart, EncryptCt)
      BY <1>1, <2>3 DEF TcpSent
    <3> HIDE DEF plain
    <3>3. /\ Len(sent["bytes"]) = Len(plain)
          /\ \E p \in 1 .. EncryptStart :
               /\ Occurs(range, plain, p)
               /\ \A i \in 1 .. Len(plain) :
                    sent["bytes"][i] = IF i \in p .. p + EncryptCt - 1
                                       THEN Aes(range)[i - p + 1] ELSE plain[i]
      <4>1. PICK n \in Nat : Len(plain) = n
        BY <2>2
      <4>2. EncryptStart - 1 + EncryptCt <= n
        BY <3>1, <4>1
      <4>3. SealedOnce(Seal(plain, EncryptStart, EncryptCt), plain, EncryptStart, EncryptCt, n)
        BY <3>1, <4>1, <4>2, SealSeals, Zenon
      <4> QED  BY <3>2, <4>1, <4>3 DEF SealedOnce
    <3> QED  BY <1>1, <3>1, <3>3 DEF RangeEncrypted, plain
  <2>4. CASE ~Encrypts(EncryptStart, EncryptCt)
    <3>1. sent["bytes"] = plain /\ ~(EncryptCt > 0 /\ EncryptStart > 0)
      BY <1>1, <2>4 DEF TcpSent, Encrypts
    <3> QED  BY <1>1, <3>1 DEF RangeEncrypted
  <2> QED  BY <2>3, <2>4
<1>2. RInv => RangeEncrypted
  BY <1>1 DEF RInv, RangeEncrypted
<1> QED  BY <1>2, AllRequestInvariants, PTL

LEMMA LengthIsNat ==
  ASSUME NEW x \in Nat, NEW y \in Nat
  PROVE  x * Radix + y \in Nat
<1>1. Radix \in Nat
  BY TcpReqAssumption
<1> QED  BY <1>1

(* The buffer after a read of a part of an answer.                         *)
LEMMA BufferHolds ==
  ASSUME NEW a \in Answer, NEW n \in 1 .. Len(a), n <= BufSize
  PROVE  LET arrived == SubSeq(a, 1, n) IN
         /\ \A i \in 1 .. BufSize : Buffer(arrived)[i] = IF i <= n THEN a[i] ELSE 0
         /\ ResponseLen(arrived) \in Nat
<1> DEFINE arrived == SubSeq(a, 1, n)
<1>1. a \in Seq(0 .. Radix - 1) /\ n \in Nat /\ BufSize \in Nat /\ BufSize >= 2 /\ Radix \in Nat
  BY RequestsAssumption, TcpReqAssumption
<1>2. Len(arrived) = n /\ \A i \in 1 .. n : arrived[i] = a[i]
  BY <1>1
<1> HIDE DEF arrived
<1>3. \A i \in 1 .. BufSize : Buffer(arrived)[i] = IF i <= n THEN a[i] ELSE 0
  BY <1>1, <1>2 DEF Buffer
<1>4. \A i \in 1 .. n : a[i] \in Nat
  <2> SUFFICES ASSUME NEW i \in 1 .. n PROVE a[i] \in Nat
    OBVIOUS
  <2>1. i \in 1 .. Len(a)
    BY <1>1
  <2>2. a[i] \in 0 .. Radix - 1
    BY <1>1, <2>1, ElementOfSeq
  <2> QED  BY <1>1, <2>2
<1>5. Buffer(arrived)[1] \in Nat /\ Buffer(arrived)[2] \in Nat
  BY <1>1, <1>3, <1>4
<1>6. ResponseLen(arrived) \in Nat
  BY <1>5, LengthIsNat DEF ResponseLen
<1> QED  BY <1>3, <1>6 DEF arrived

(* The reply of a TCP request is what has arrived of it, and zeros.        *)
THEOREM ReplyCorrect == RequestsSpec => []ReplyWhole
<1>1. ASSUME NEW a \in Answer, NEW n \in 1 .. Len(a),
             n <= BufSize, ResponseLen(SubSeq(a, 1, n)) <= BufSize,
             reply = [bytes |-> Reply(SubSeq(a, 1, n)), of |-> a, arrived |-> n]
      PROVE  ReplyWhole
  <2> DEFINE arrived == SubSeq(a, 1, n)
             r == ResponseLen(arrived)
             b == Buffer(arrived)
  <2>1. /\ \A i \in 1 .. BufSize : b[i] = IF i <= n THEN a[i] ELSE 0
        /\ r \in Nat
    BY <1>1, BufferHolds
  <2>2. reply.bytes = SubSeq(b, 1, r) /\ reply.of = a /\ reply.arrived = n /\ r <= BufSize
    BY <1>1 DEF Reply
  <2>3. r = b[1] * Radix + b[2]
    BY DEF ResponseLen
  <2>4. BufSize \in Nat /\ BufSize >= 2 /\ a \in Seq(0 .. Radix - 1)
    BY TcpReqAssumption, RequestsAssumption
  <2> HIDE DEF b, r
  <2>5. Len(reply.bytes) = r /\ \A i \in 1 .. r : reply.bytes[i] = b[i]
    BY <2>1, <2>2
  <2>6. \A i \in 1 .. Len(reply.bytes) :
          reply.bytes[i] = IF i <= reply.arrived THEN reply.of[i] ELSE 0
    BY <2>1, <2>2, <2>4, <2>5
  <2>7. ASSUME n = Len(a), Len(a) > 1, Len(a) = a[1] * Radix + a[2] PROVE reply.bytes = a
    <3>1. Len(a) \in Nat /\ DOMAIN a = 1 .. Len(a) /\ a = [i \in 1 .. Len(a) |-> a[i]]
      BY <2>4
    <3>2. b[1] = a[1] /\ b[2] = a[2]
      BY <2>1, <2>4, <2>7, <3>1
    <3>3. r = Len(a)
      BY <2>3, <2>7, <3>2
    <3>4. \A i \in 1 .. Len(a) : b[i] = a[i]
      BY <1>1, <2>1, <2>4, <2>7, <3>1
    <3>5. SubSeq(b, 1, r) = [i \in 1 .. Len(a) |-> b[i]]
      BY <3>1, <3>3
    <3>6. [i \in 1 .. Len(a) |-> b[i]] = [i \in 1 .. Len(a) |-> a[i]]
      BY <3>4
    <3> QED  BY <2>2, <3>1, <3>5, <3>6
  <2> QED  BY <2>2, <2>6, <2>7 DEF ReplyWhole
<1>2. ASSUME reply = NoReply PROVE ReplyWhole
  BY <1>2 DEF NoReply, ReplyWhole
<1>3. RInv => ReplyWhole
  BY <1>1, <1>2 DEF RInv, ReplyRead
<1> QED  BY <1>3, AllRequestInvariants, PTL

-----------------------------------------------------------------------------
(* The values of macros, level by level.                                   *)
Levels(v, t, l, s) ==
  /\ v[0] = Level(t, l, s, 0, << >>)
  /\ \A n \in 1 .. 3 : v[n] = Level(t, l, s, n, v[n - 1])

LEMMA ThreeDigests ==
  Digest = {"pks", "md5", "b64"} /\ Cardinality(Digest) = 3
<1>1. Digest = {"pks", "md5", "b64"}
  BY DEF Digest, Input
<1>2. IsFiniteSet({}) /\ Cardinality({}) = 0
  BY FS_EmptySet
<1>3. IsFiniteSet({"pks"}) /\ Cardinality({"pks"}) = 1
  BY <1>2, FS_Singleton
<1>4. IsFiniteSet({"pks"} \cup {"md5"}) /\ Cardinality({"pks"} \cup {"md5"}) = 2
  BY <1>3, FS_AddElement
<1>5. Cardinality(({"pks"} \cup {"md5"}) \cup {"b64"}) = 3
  BY <1>4, FS_AddElement
<1>6. ({"pks"} \cup {"md5"}) \cup {"b64"} = Digest
  BY <1>1
<1> QED  BY <1>1, <1>5, <1>6

LEMMA LevelFacts ==
  ASSUME NEW t, NEW l, NEW s, NEW n \in Nat, NEW below, NEW m \in AllMacros(t)
  PROVE  /\ m.kind \in Digest /\ n = 0 => Level(t, l, s, n, below)[m] = Cut(<<Dead>>, m.cut)
         /\ m.kind \in Digest /\ n > 0 =>
              Level(t, l, s, n, below)[m] =
                Cut(Encode(m.kind, Expand(t.inputText[m.kind], t.inputMacros[m.kind], below)), m.cut)
         /\ m.kind \notin Digest =>
              Level(t, l, s, n, below)[m] = Cut(Lookup(m, t.times, l, s), m.cut)
<1> DEFINE x == Encode(m.kind, Expand(t.inputText[m.kind], t.inputMacros[m.kind], below))
           y == Lookup(m, t.times, l, s)
           raw == CASE m.kind \in Digest /\ n = 0 -> <<Dead>>
                    [] m.kind \in Digest /\ n > 0 -> x
                    [] OTHER -> y
<1>1. Level(t, l, s, n, below)[m] = Cut(raw, m.cut)
  BY DEF Level
<1> HIDE DEF x, y
<1>2. /\ m.kind \in Digest /\ n = 0 => raw = <<Dead>>
      /\ m.kind \in Digest /\ n > 0 => raw = x
      /\ m.kind \notin Digest => raw = y
  OBVIOUS
<1> HIDE DEF raw
<1> QED  BY <1>1, <1>2 DEF x, y

LEMMA FirstLevel ==
  ASSUME NEW t, NEW l, NEW s, NEW x, NEW y
  PROVE  Level(t, l, s, 0, x) = Level(t, l, s, 0, y)
<1>1. ASSUME NEW m \in AllMacros(t) PROVE Level(t, l, s, 0, x)[m] = Level(t, l, s, 0, y)[m]
  BY LevelFacts
<1>2. ASSUME NEW z PROVE Level(t, l, s, 0, z) = [m \in AllMacros(t) |-> Level(t, l, s, 0, z)[m]]
  BY DEF Level
<1>3. [m \in AllMacros(t) |-> Level(t, l, s, 0, x)[m]] = [m \in AllMacros(t) |-> Level(t, l, s, 0, y)[m]]
  BY <1>1
<1> QED  BY <1>2, <1>3

LEMMA ValuesFacts ==
  ASSUME NEW t, NEW l, NEW s
  PROVE  \E v : Levels(v, t, l, s) /\ Values(t, l, s) = v[3]
<1> DEFINE Upto(v, k) == v = [n \in 0 .. k |-> Level(t, l, s, n, v[n - 1])]
           Chosen(k) == CHOOSE v : Upto(v, k)
           Is(v) == Upto(v, 3)
           u == Chosen(3)
<1>1. Values(t, l, s) = u[3]
  <2>1. Values(t, l, s) = Chosen(Cardinality(Digest))[Cardinality(Digest)]
    BY DEF Values
  <2> HIDE DEF Chosen
  <2> QED  BY <2>1, ThreeDigests
<1> DEFINE l0 == Level(t, l, s, 0, << >>)
           l1 == Level(t, l, s, 1, l0)
           l2 == Level(t, l, s, 2, l1)
           l3 == Level(t, l, s, 3, l2)
           v == [n \in 0 .. 3 |-> IF n = 0 THEN l0 ELSE IF n = 1 THEN l1 ELSE IF n = 2 THEN l2 ELSE l3]
<1>2. v[0] = l0 /\ v[1] = l1 /\ v[2] = l2 /\ v[3] = l3
  <2> HIDE DEF l0, l1, l2, l3
  <2> QED  OBVIOUS
<1>3. ASSUME NEW n \in 0 .. 3 PROVE v[n] = Level(t, l, s, n, v[n - 1])
  <2> HIDE DEF v
  <2>1. n = 0 \/ n = 1 \/ n = 2 \/ n = 3
    OBVIOUS
  <2>2. CASE n = 0
    BY <1>2, <2>2, FirstLevel
  <2>3. CASE n = 1
    BY <1>2, <2>3
  <2>4. CASE n = 2
    BY <1>2, <2>4
  <2>5. CASE n = 3
    BY <1>2, <2>5
  <2> QED  BY <2>1, <2>2, <2>3, <2>4, <2>5
<1>4. Is(v)
  <2> DEFINE w == [n \in 0 .. 3 |-> Level(t, l, s, n, v[n - 1])]
  <2>1. \A n \in 0 .. 3 : v[n] = w[n]
    <3> HIDE DEF v
    <3> QED  BY <1>3
  <2>2. v = w
    <3> HIDE DEF l0, l1, l2, l3
    <3>1. DOMAIN v = 0 .. 3 /\ v = [n \in 0 .. 3 |-> v[n]]
      OBVIOUS
    <3>2. w = [n \in 0 .. 3 |-> w[n]]
      OBVIOUS
    <3> HIDE DEF v, w
    <3> QED  BY <2>1, <3>1, <3>2
  <2> HIDE DEF v
  <2> QED  BY <2>2
<1> HIDE DEF v
<1>5. Is(u)
  BY <1>4
<1> HIDE DEF u
<1>6. /\ u[0] = Level(t, l, s, 0, u[0 - 1])
      /\ \A n \in 1 .. 3 : u[n] = Level(t, l, s, n, u[n - 1])
  BY <1>5
<1>7. Levels(u, t, l, s)
  BY <1>6, FirstLevel DEF Levels
<1> QED  BY <1>1, <1>7

-----------------------------------------------------------------------------
(* What the tables and the texts that NewRunner and a client have are.     *)
AllTexts(f) == \A x \in DOMAIN f : IsText(f[x])

Sane(t, l, s) ==
  /\ AllTexts(l) /\ AllTexts(s)
  /\ IsList(t.macros)
  /\ \A d \in Digest : IsList(t.inputMacros[d]) /\ IsText(t.inputText[d])
  /\ \A m \in AllMacros(t) : IsCut(m.cut)

FitsIn(m, t, l, s) ==
  CutFits(m.cut, IF m.kind \in Digest THEN DigestLen ELSE Len(Lookup(m, t.times, l, s)))

LEMMA LookupText ==
  ASSUME NEW m, NEW times, NEW l, AllTexts(l), NEW s, AllTexts(s)
  PROVE  IsText(Lookup(m, times, l, s))
<1>1. IsText(<< >>)
  <2>1. PICK x \in Seq({}) : x = << >>
    BY EmptySeq
  <2>2. IsList(x) /\ ToSet(x) \subseteq {}
    BY ElementsOf
  <2> QED  BY <2>1, <2>2 DEF IsText
<1>2. IsText(<<Opaque("now", <<Uncut(m)>>)>>)
  <2> DEFINE e == Opaque("now", <<Uncut(m)>>)
  <2>1. e # Dead
    BY DEF Opaque, Dead
  <2> HIDE DEF e
  <2>2. PICK x \in Seq({e}) : x = <<e>>
    <3>1. <<e>> \in Seq({e})
      OBVIOUS
    <3> QED  BY <3>1
  <2>3. IsList(x) /\ ToSet(x) \subseteq {e}
    BY ElementsOf
  <2>4. IsText(x)
    BY <2>1, <2>3 DEF IsText
  <2> QED  BY <2>2, <2>4 DEF e
<1>3. \A x \in DOMAIN Env : IsText(Env[x])
  BY MacrosAssumption
<1>4. \/ Lookup(m, times, l, s) = <<Opaque("now", <<Uncut(m)>>)>>
      \/ m.id \in DOMAIN Env /\ Lookup(m, times, l, s) = Env[m.id]
      \/ m.id \in DOMAIN l /\ Lookup(m, times, l, s) = l[m.id]
      \/ m.id \in DOMAIN s /\ Lookup(m, times, l, s) = s[m.id]
      \/ Lookup(m, times, l, s) = << >>
  BY DEF Lookup
<1> QED  BY <1>1, <1>2, <1>3, <1>4 DEF AllTexts

(* A digest is a text if the values it is made from are.                   *)
LEMMA LevelText ==
  ASSUME NEW t, NEW l, NEW s, Sane(t, l, s), NEW n \in 1 .. 3, NEW below,
         NEW m \in AllMacros(t), FitsIn(m, t, l, s),
         m.kind \in Digest => \A x \in ToSet(t.inputMacros[m.kind]) : IsText(below[x])
  PROVE  IsText(Level(t, l, s, n, below)[m])
<1>1. n \in Nat /\ n > 0
  OBVIOUS
<1>2. IsCut(m.cut)
  BY DEF Sane
<1>3. CASE m.kind \in Digest
  <2> DEFINE text == Expand(t.inputText[m.kind], t.inputMacros[m.kind], below)
  <2>1. text # <<Dead>>
    <3>1. IsText(t.inputText[m.kind]) /\ IsList(t.inputMacros[m.kind])
      BY <1>3 DEF Sane
    <3> QED  BY <1>3, <3>1, ExpandText
  <2>2. Level(t, l, s, n, below)[m] = Cut(Encode(m.kind, text), m.cut)
    BY <1>1, <1>3, LevelFacts
  <2> HIDE DEF text
  <2>3. IsText(Encode(m.kind, text)) /\ Len(Encode(m.kind, text)) = DigestLen
    BY <1>3, <2>1, EncodeText, EncodeFacts
  <2>4. CutFits(m.cut, DigestLen)
    BY <1>3 DEF FitsIn
  <2>5. IsText(Cut(Encode(m.kind, text), m.cut))
    BY <1>2, <2>3, <2>4, CutText
  <2> QED  BY <2>2, <2>5
<1>4. CASE m.kind \notin Digest
  <2>1. Level(t, l, s, n, below)[m] = Cut(Lookup(m, t.times, l, s), m.cut)
    BY <1>1, <1>4, LevelFacts
  <2>2. IsText(Lookup(m, t.times, l, s))
    BY LookupText DEF Sane
  <2>3. CutFits(m.cut, Len(Lookup(m, t.times, l, s)))
    BY <1>4 DEF FitsIn
  <2>4. IsText(Cut(Lookup(m, t.times, l, s), m.cut))
    BY <1>2, <2>2, <2>3, CutText
  <2> QED  BY <2>1, <2>4
<1> QED  BY <1>3, <1>4

(* The digests that have one of D in their input.                          *)
Caught(t, D) == {d \in Digest : \E x \in ToSet(t.inputMacros[d]) : x.kind \in D}

Alive(t, v, D) == \A m \in AllMacros(t) : m.kind \notin D => IsText(v[m])

LEMMA LevelAlive ==
  ASSUME NEW t, NEW l, NEW s, Sane(t, l, s), \A m \in AllMacros(t) : FitsIn(m, t, l, s),
         NEW n \in 1 .. 3, NEW below, NEW D, Alive(t, below, D)
  PROVE  Alive(t, Level(t, l, s, n, below), Caught(t, D))
<1> SUFFICES ASSUME NEW m \in AllMacros(t), m.kind \notin Caught(t, D)
             PROVE  IsText(Level(t, l, s, n, below)[m])
  BY DEF Alive
<1>1. ASSUME m.kind \in Digest, NEW x \in ToSet(t.inputMacros[m.kind]) PROVE IsText(below[x])
  <2>1. x \in AllMacros(t)
    BY <1>1 DEF AllMacros
  <2>2. x.kind \notin D
    BY <1>1 DEF Caught
  <2> QED  BY <2>1, <2>2 DEF Alive
<1> QED  BY <1>1, LevelText

(* Three digests cannot wait for each other longer than three rounds,      *)
(* unless some of them go round.                                           *)
Rounds(t, S) == S \in (SUBSET Digest) \ {{}} /\ S \subseteq Caught(t, S)

LEMMA ThreeRounds ==
  ASSUME NEW t, NEW d \in Caught(t, Caught(t, Caught(t, Digest)))
  PROVE  \E S : Rounds(t, S)
<1> DEFINE A == Caught(t, Digest)
           B == Caught(t, A)
           C == Caught(t, B)
<1>1. ASSUME NEW X, NEW Y, X \subseteq Y PROVE Caught(t, X) \subseteq Caught(t, Y)
  BY <1>1 DEF Caught
<1>2. A \subseteq Digest /\ B \subseteq A /\ C \subseteq B /\ d \in C
  <2>1. \A X : Caught(t, X) \subseteq Digest
    BY DEF Caught
  <2>2. B \subseteq A
    BY <1>1, <2>1
  <2>3. C \subseteq B
    BY <1>1, <2>2
  <2> QED  BY <2>1, <2>2, <2>3
<1>3. CASE A = Digest
  <2>1. Rounds(t, Digest)
    <3> HIDE DEF B, C
    <3> QED  BY <1>2, <1>3 DEF Rounds
  <2> QED  BY <2>1
<1>4. CASE B = A
  <2>1. Rounds(t, A)
    <3>1. A \subseteq Caught(t, A)
      BY <1>4
    <3> HIDE DEF A, B, C
    <3> QED  BY <1>2, <3>1 DEF Rounds
  <2> QED  BY <2>1
<1>5. CASE C = B
  <2>1. Rounds(t, B)
    <3>1. B \subseteq Caught(t, B)
      BY <1>5
    <3> HIDE DEF A, B, C
    <3> QED  BY <1>2, <3>1 DEF Rounds
  <2> QED  BY <2>1
<1>6. CASE A # Digest /\ B # A /\ C # B
  <2> HIDE DEF A, B, C
  <2>1. PICK x \in Digest : x \notin A
    BY <1>2, <1>6
  <2>2. PICK y \in A : y \notin B
    BY <1>2, <1>6
  <2>3. PICK z \in B : z \notin C
    BY <1>2, <1>6
  <2>4. Digest = {"pks", "md5", "b64"}
    BY ThreeDigests
  <2> QED  BY <1>2, <2>1, <2>2, <2>3, <2>4
<1> QED  BY <1>3, <1>4, <1>5, <1>6

(* A macro ends the process only by a cut that is too long, or by digests  *)
(* that go round.                                                          *)
LEMMA DeadMeans ==
  ASSUME NEW t, NEW l, NEW s, Sane(t, l, s), NEW text, IsText(text),
         Replace(t, l, s, text) = <<Dead>>
  PROVE  (\E m \in AllMacros(t) : ~FitsIn(m, t, l, s)) \/ (\E S : Rounds(t, S))
<1> SUFFICES ASSUME \A m \in AllMacros(t) : FitsIn(m, t, l, s), ~\E S : Rounds(t, S)
             PROVE  FALSE
  OBVIOUS
<1>1. PICK v : Levels(v, t, l, s) /\ Values(t, l, s) = v[3]
  BY ValuesFacts
<1>2. Alive(t, v[1], Caught(t, Digest))
  <2>1. ASSUME NEW m \in AllMacros(t), m.kind \notin Digest PROVE IsText(v[0][m])
    <3>1. v[0][m] = v[1][m]
      <4>1. v[0] = Level(t, l, s, 0, << >>) /\ v[1] = Level(t, l, s, 1, v[0])
        BY <1>1 DEF Levels
      <4> QED  BY <2>1, <4>1, LevelFacts
    <3>2. IsText(Level(t, l, s, 1, v[0])[m])
      BY <2>1, LevelText
    <3> QED  BY <1>1, <3>1, <3>2 DEF Levels
  <2>2. Alive(t, v[0], Digest)
    BY <2>1 DEF Alive
  <2>3. v[1] = Level(t, l, s, 1, v[0])
    BY <1>1 DEF Levels
  <2> QED  BY <2>2, <2>3, LevelAlive
<1>3. Alive(t, v[2], Caught(t, Caught(t, Digest)))
  <2>1. v[2] = Level(t, l, s, 2, v[1])
    BY <1>1 DEF Levels
  <2> QED  BY <1>2, <2>1, LevelAlive
<1>4. Alive(t, v[3], Caught(t, Caught(t, Caught(t, Digest))))
  <2>1. v[3] = Level(t, l, s, 3, v[2])
    BY <1>1 DEF Levels
  <2> QED  BY <1>3, <2>1, LevelAlive
<1>5. Caught(t, Caught(t, Caught(t, Digest))) = {}
  BY ThreeRounds
<1>6. \A m \in ToSet(t.macros) : IsText(v[3][m])
  BY <1>4, <1>5 DEF Alive, AllMacros
<1>7. Expand(text, t.macros, v[3]) # <<Dead>>
  BY <1>6, ExpandText DEF Sane
<1> QED  BY <1>1, <1>7 DEF Replace

-----------------------------------------------------------------------------
(* The texts of an ini file.                                               *)
LEMMA EmptyTemplate == IsTemplate(<< >>)
<1>1. PICK x \in Seq({}) : x = << >>
  BY EmptySeq
<1>2. IsList(x) /\ ToSet(x) \subseteq {}
  BY ElementsOf
<1> QED  BY <1>1, <1>2 DEF IsTemplate, IsText

LEMMA TextTemplate ==
  ASSUME config \in Config, NEW s \in Setting, NEW c \in Name
  PROVE  IsTemplate(Text(s, c))
<1>1. c \in Section /\ "default" \in Section
  BY DEF Section
<1>2. \A x \in Section : config.text[s][x] = Unset \/ IsTemplate(config.text[s][x])
  BY MacrosAssumption
<1>3. \/ FieldString(config.text[s], c) = config.text[s][c]
      \/ FieldString(config.text[s], c) = config.text[s]["default"]
      \/ FieldString(config.text[s], c) = Unset
  BY DEF FieldString
<1> QED  BY <1>1, <1>2, <1>3, EmptyTemplate DEF Text

LEMMA ListTexts ==
  ASSUME config \in Config, NEW c \in Name
  PROVE  /\ \A i \in DOMAIN config.vars[c] : IsTemplate(config.vars[c][i].pattern)
         /\ \A i \in DOMAIN HeaderTexts(c) : IsTemplate(HeaderTexts(c)[i])
<1>1. c \in Section
  BY DEF Section
<1>2. /\ \A h \in ToSet(config.headers[c]) : h.text = Unset \/ IsTemplate(h.text)
      /\ \A v \in ToSet(config.vars[c]) : IsTemplate(v.pattern)
  BY <1>1, MacrosAssumption
<1>3. \A i \in DOMAIN config.vars[c] : IsTemplate(config.vars[c][i].pattern)
  BY <1>2 DEF ToSet
<1>4. ASSUME NEW i \in DOMAIN config.headers[c] PROVE IsTemplate(HeaderTexts(c)[i])
  <2>1. config.headers[c][i].text = Unset \/ IsTemplate(config.headers[c][i].text)
    BY <1>2 DEF ToSet
  <2> QED  BY <2>1, EmptyTemplate DEF HeaderTexts
<1>5. DOMAIN HeaderTexts(c) = DOMAIN config.headers[c]
  BY DEF HeaderTexts
<1> QED  BY <1>3, <1>4, <1>5

FieldTexts(c) ==
  {Text(s, c) : s \in {"ReqBody", "ReqUrl", "EncryptIv", "EncryptKey"}}
    \cup {config.vars[c][i].pattern : i \in DOMAIN config.vars[c]}
    \cup {HeaderTexts(c)[i] : i \in DOMAIN HeaderTexts(c)}

LEMMA MentionedIs ==
  ASSUME NEW c PROVE Mentioned(c) = UNION {MacrosOf(x) : x \in FieldTexts(c)}
BY DEF Mentioned, FieldTexts, MacrosOf

LEMMA FieldTemplates ==
  ASSUME config \in Config, NEW c \in Name, NEW x \in FieldTexts(c)
  PROVE  IsTemplate(x)
<1>1. CASE x \in {Text(s, c) : s \in {"ReqBody", "ReqUrl", "EncryptIv", "EncryptKey"}}
  BY <1>1, TextTemplate DEF Setting
<1>2. CASE x \in {config.vars[c][i].pattern : i \in DOMAIN config.vars[c]}
  BY <1>2, ListTexts
<1>3. CASE x \in {HeaderTexts(c)[i] : i \in DOMAIN HeaderTexts(c)}
  BY <1>3, ListTexts
<1> QED  BY <1>1, <1>2, <1>3 DEF FieldTexts

LEMMA AsSeq ==
  ASSUME NEW n \in Nat, NEW U, NEW s, DOMAIN s = 1 .. n, s = [i \in 1 .. n |-> s[i]],
         \A i \in 1 .. n : s[i] \in U
  PROVE  s \in Seq(U) /\ \A i \in 1 .. n : s[i] \in ToSet(s)
<1>1. s \in [1 .. n -> U]
  OBVIOUS
<1>2. s \in Seq(U)
  BY <1>1, IsASeq
<1> QED  BY <1>2 DEF ToSet

LEMMA FieldsFacts ==
  ASSUME config \in Config, NEW c \in Name
  PROVE  Fields(c) \in Seq(FieldTexts(c)) /\ FieldTexts(c) \subseteq ToSet(Fields(c))
<1> DEFINE F == FieldTexts(c)
           T(s) == Text(s, c)
           vs == config.vars[c]
           hs == config.headers[c]
<1>1. PICK a \in Seq(F) : /\ a = <<T("ReqBody"), T("ReqUrl"), T("EncryptIv"), T("EncryptKey")>>
                           /\ {T(s) : s \in {"ReqBody", "ReqUrl", "EncryptIv", "EncryptKey"}}
                                \subseteq ToSet(a)
  <2>1. T("ReqBody") \in F /\ T("ReqUrl") \in F /\ T("EncryptIv") \in F /\ T("EncryptKey") \in F
    BY DEF FieldTexts
  <2> HIDE DEF F, T
  <2>2. PICK a : a = <<T("ReqBody"), T("ReqUrl"), T("EncryptIv"), T("EncryptKey")>>
    OBVIOUS
  <2>3. DOMAIN a = 1 .. 4 /\ a[1] = T("ReqBody") /\ a[2] = T("ReqUrl") /\ a[3] = T("EncryptIv")
        /\ a[4] = T("EncryptKey")
    BY <2>2
  <2>4. T("ReqBody") \in ToSet(a) /\ T("ReqUrl") \in ToSet(a)
        /\ T("EncryptIv") \in ToSet(a) /\ T("EncryptKey") \in ToSet(a)
    <3>1. 1 \in DOMAIN a /\ 2 \in DOMAIN a /\ 3 \in DOMAIN a /\ 4 \in DOMAIN a
      BY <2>3
    <3> QED  BY <2>3, <3>1 DEF ToSet
  <2>5. a \in Seq(F)
    BY <2>1, <2>2
  <2> QED  BY <2>2, <2>4, <2>5
<1>2. PICK n \in Nat : DOMAIN vs = 1 .. n
  <2>1. IsList(vs)
    BY MacrosAssumption DEF Section
  <2> QED  BY <2>1, ListFacts
<1>3. PICK b \in Seq(F) : /\ b = [i \in DOMAIN vs |-> vs[i].pattern]
                           /\ \A i \in DOMAIN vs : vs[i].pattern \in ToSet(b)
  <2>1. \A i \in DOMAIN vs : vs[i].pattern \in F
    BY DEF FieldTexts
  <2> HIDE DEF F, vs
  <2>2. PICK b : b = [i \in DOMAIN vs |-> vs[i].pattern]
    OBVIOUS
  <2>3. DOMAIN b = 1 .. n /\ b = [i \in 1 .. n |-> b[i]] /\ \A i \in 1 .. n : b[i] = vs[i].pattern
    BY <1>2, <2>2
  <2>4. b \in Seq(F) /\ \A i \in 1 .. n : b[i] \in ToSet(b)
    BY <1>2, <2>1, <2>3, AsSeq
  <2> QED  BY <1>2, <2>2, <2>3, <2>4
<1>4. PICK m \in Nat : DOMAIN hs = 1 .. m
  <2>1. IsList(hs)
    BY MacrosAssumption DEF Section
  <2> QED  BY <2>1, ListFacts
<1>5. PICK d \in Seq(F) : /\ d = HeaderTexts(c)
                           /\ \A i \in DOMAIN d : d[i] \in ToSet(d)
  <2>1. PICK d : d = HeaderTexts(c)
    OBVIOUS
  <2>2. DOMAIN d = 1 .. m /\ d = [i \in 1 .. m |-> d[i]]
    BY <1>4, <2>1 DEF HeaderTexts
  <2>3. \A i \in 1 .. m : d[i] \in F
    BY <2>1, <2>2 DEF FieldTexts
  <2> HIDE DEF F
  <2>4. d \in Seq(F) /\ \A i \in 1 .. m : d[i] \in ToSet(d)
    BY <2>2, <2>3, AsSeq
  <2> QED  BY <2>1, <2>2, <2>4
<1>6. Fields(c) = (a \o b) \o d
  BY <1>1, <1>3, <1>5 DEF Fields
<1>7. PICK ab \in Seq(F) : ab = a \o b
  <2> HIDE DEF F
  <2>1. a \o b \in Seq(F)
    BY ConcatProperties
  <2> QED  BY <2>1
<1>8. ToSet(a) \subseteq ToSet(ab) /\ ToSet(b) \subseteq ToSet(ab)
  <2> HIDE DEF F
  <2> QED  BY <1>7, ElementsOfCat
<1>9. ab \o d \in Seq(F) /\ ToSet(ab) \subseteq ToSet(ab \o d) /\ ToSet(d) \subseteq ToSet(ab \o d)
  <2> HIDE DEF F
  <2> QED  BY ConcatProperties, ElementsOfCat
<1>10. PICK abd : abd = ab \o d
  OBVIOUS
<1>11. F \subseteq ToSet(abd)
  <2>1. ToSet(a) \subseteq ToSet(abd) /\ ToSet(b) \subseteq ToSet(abd) /\ ToSet(d) \subseteq ToSet(abd)
    BY <1>8, <1>9, <1>10
  <2>2. {T(s) : s \in {"ReqBody", "ReqUrl", "EncryptIv", "EncryptKey"}} \subseteq ToSet(abd)
    BY <1>1, <2>1
  <2>3. {vs[i].pattern : i \in DOMAIN vs} \subseteq ToSet(abd)
    BY <1>3, <2>1
  <2>4. {HeaderTexts(c)[i] : i \in DOMAIN HeaderTexts(c)} \subseteq ToSet(abd)
    BY <1>5, <2>1
  <2> QED  BY <2>2, <2>3, <2>4 DEF FieldTexts
<1> QED  BY <1>6, <1>7, <1>9, <1>10, <1>11

(* A table with the macros of some texts added.                            *)
LEMMA AddMacrosFacts ==
  ASSUME NEW M, NEW macros \in Seq(M), NEW T, NEW texts \in Seq(T),
         \A x \in T : IsList(x) /\ MacrosOf(x) \subseteq M
  PROVE  /\ AddMacros(macros, texts) \in Seq(M)
         /\ ToSet(macros) \subseteq ToSet(AddMacros(macros, texts))
         /\ \A x \in ToSet(texts) : MacrosOf(x) \subseteq ToSet(AddMacros(macros, texts))
<1> DEFINE n == Len(texts)
           parts == [i \in DOMAIN texts |-> Found(texts[i])]
<1>1. n \in Nat /\ DOMAIN texts = 1 .. n /\ \A i \in 1 .. n : texts[i] \in T
  BY LenProperties, ElementOfSeq
<1>2. ASSUME NEW i \in 1 .. n
      PROVE  /\ parts[i] = Found(texts[i]) /\ parts[i] \in Seq(M)
             /\ MacrosOf(texts[i]) \subseteq ToSet(parts[i])
  <2>1. IsList(texts[i]) /\ MacrosOf(texts[i]) \subseteq M
    BY <1>1
  <2>2. parts[i] = Found(texts[i])
    BY <1>1
  <2>3. Found(texts[i]) \in Seq(MacrosOf(texts[i])) /\ MacrosOf(texts[i]) \subseteq ToSet(Found(texts[i]))
    BY <2>1, FoundFacts
  <2>4. Found(texts[i]) \in Seq(M)
    BY <2>1, <2>3, SeqMonotonic
  <2> QED  BY <2>2, <2>3, <2>4
<1> HIDE DEF parts, n
<1>3. PICK b \in Seq(M) : b = Join(parts, n)
  <2>1. Join(parts, n) \in Seq(M)
    BY <1>1, <1>2, JoinType
  <2> QED  BY <2>1
<1>4. \A i \in 1 .. n : ToSet(parts[i]) \subseteq ToSet(b)
  BY <1>1, <1>2, <1>3, JoinHasParts
<1>5. PICK all \in Seq(M) : all = macros \o b
  <2>1. macros \o b \in Seq(M)
    BY ConcatProperties
  <2> QED  BY <2>1
<1>6. ToSet(macros) \subseteq ToSet(all) /\ ToSet(b) \subseteq ToSet(all)
  BY <1>5, ElementsOfCat
<1>7. AddMacros(macros, texts) = Distinct(all)
  BY <1>3, <1>5 DEF AddMacros, parts, n
<1>8. Distinct(all) \in Seq(M) /\ ToSet(all) \subseteq ToSet(Distinct(all))
  BY DistinctFacts
<1>9. ASSUME NEW x \in ToSet(texts) PROVE MacrosOf(x) \subseteq ToSet(Distinct(all))
  <2>1. PICK i \in 1 .. n : texts[i] = x
    BY <1>1 DEF ToSet
  <2> QED  BY <1>2, <1>4, <1>6, <1>8, <2>1
<1> QED  BY <1>6, <1>7, <1>8, <1>9

-----------------------------------------------------------------------------
(* The tables have macros that the texts of their command mention; those   *)
(* of a command that has been checked have all of them; and the times of a *)
(* runner that is ready are known, but for those in the input of PKSENC.   *)
Says(k) == IF k = SessionLog THEN MacrosOf(config.log) ELSE Mentioned(k)

Wants(d, k) == IF k = SessionLog THEN {} ELSE InputMentions(d, k)

TablesInv ==
  /\ DOMAIN commandMacros = Key
  /\ \A d \in Digest : DOMAIN inputMacros[d] = Key
  /\ \A k \in Key : commandMacros[k] \in Seq(Says(k))
  /\ \A k \in Key, d \in Digest : inputMacros[d][k] \in Seq(Wants(d, k))

Complete(c) ==
  /\ Mentioned(c) \subseteq ToSet(commandMacros[c])
  /\ \A d \in Digest : InputMentions(d, c) \subseteq ToSet(inputMacros[d][c])

CompleteInv == \A i \in 1 .. checked : Complete(commandQueue[i])

Timed(macros) == \A m \in ToSet(macros) : IsTime(m) => Uncut(m) \in timeMacros

OnlyTimes == \A x \in timeMacros : IsTime(x)

TimesInv ==
  pc = "ready" =>
    /\ OnlyTimes
    /\ \A k \in Key :
         /\ Timed(commandMacros[k])
         /\ \A d \in Digest \ {"pks"} : Timed(inputMacros[d][k])

MInv == TablesInv /\ CompleteInv /\ TimesInv

LEMMA SameMentions ==
  ASSUME config' = config
  PROVE  /\ \A k : Says(k)' = Says(k) /\ Mentioned(k)' = Mentioned(k)
         /\ \A d, k : Wants(d, k)' = Wants(d, k) /\ InputMentions(d, k)' = InputMentions(d, k)
<1>1. ASSUME NEW s, NEW k PROVE Text(s, k)' = Text(s, k)
  BY DEF Text, FieldString
<1>2. ASSUME NEW k PROVE HeaderTexts(k)' = HeaderTexts(k)
  BY DEF HeaderTexts
<1>3. ASSUME NEW k PROVE Mentioned(k)' = Mentioned(k)
  BY <1>1, <1>2 DEF Mentioned
<1>4. ASSUME NEW d, NEW k PROVE InputMentions(d, k)' = InputMentions(d, k)
  BY <1>1 DEF InputMentions
<1>5. ASSUME NEW k PROVE Says(k)' = Says(k)
  BY <1>3 DEF Says
<1>6. ASSUME NEW d, NEW k PROVE Wants(d, k)' = Wants(d, k)
  BY <1>4 DEF Wants
<1> QED  BY <1>3, <1>4, <1>5, <1>6

LEMMA MInvStays ==
  ASSUME MInv, UNCHANGED <<config, macroVars>>,
         \/ UNCHANGED <<commandQueue, checked>>
         \/ checked' = 0,
         pc' = "ready" => pc = "ready"
  PROVE  MInv'
<1>1. UNCHANGED <<commandMacros, inputMacros, timeMacros>>
  BY DEF macroVars
<1>2. TablesInv'
  BY <1>1, SameMentions DEF MInv, TablesInv
<1>3. CompleteInv'
  <2>1. ASSUME NEW c PROVE Complete(c)' <=> Complete(c)
    BY <1>1, SameMentions DEF Complete
  <2>2. CASE checked' = 0
    BY <2>2 DEF CompleteInv
  <2>3. CASE UNCHANGED <<commandQueue, checked>>
    BY <2>1, <2>3 DEF MInv, CompleteInv
  <2> QED  BY <2>2, <2>3
<1>4. TimesInv'
  BY <1>1 DEF MInv, TimesInv, OnlyTimes, Timed
<1> QED  BY <1>2, <1>3, <1>4 DEF MInv

LEMMA MInvInit == RequestsInit => MInv
<1> SUFFICES ASSUME RequestsInit PROVE MInv
  OBVIOUS
<1>1. /\ commandMacros = [k \in Key |-> << >>]
      /\ inputMacros = [d \in Digest |-> [k \in Key |-> << >>]]
      /\ checked = 0 /\ pc # "ready"
  BY DEF RequestsInit, Init, MacrosInit
<1>2. \A U : << >> \in Seq(U)
  BY EmptySeq
<1>3. TablesInv
  BY <1>1, <1>2 DEF TablesInv
<1>4. CompleteInv /\ TimesInv
  BY <1>1 DEF CompleteInv, TimesInv
<1> QED  BY <1>3, <1>4 DEF MInv

LEMMA LogIsNoName == SessionLog \notin Name /\ SessionLog \in Key /\ Name \subseteq Key
BY MacrosAssumption DEF Key

(* The tables of a command with its texts.                                 *)
LEMMA FieldsAdded ==
  ASSUME config \in Config, NEW c \in Name, NEW macros \in Seq(Mentioned(c))
  PROVE  /\ AddMacros(macros, Fields(c)) \in Seq(Mentioned(c))
         /\ Mentioned(c) \subseteq ToSet(AddMacros(macros, Fields(c)))
<1> DEFINE T == FieldTexts(c)
           M == Mentioned(c)
<1>1. PICK texts \in Seq(T) : texts = Fields(c) /\ T \subseteq ToSet(texts)
  BY FieldsFacts
<1>2. \A x \in T : IsList(x) /\ MacrosOf(x) \subseteq M
  <2>1. \A x \in T : IsTemplate(x)
    BY FieldTemplates
  <2>2. \A x \in T : MacrosOf(x) \subseteq M
    BY MentionedIs
  <2> QED  BY <2>1, <2>2 DEF IsTemplate, IsText
<1> HIDE DEF T, M
<1>3. /\ AddMacros(macros, texts) \in Seq(M)
      /\ \A x \in ToSet(texts) : MacrosOf(x) \subseteq ToSet(AddMacros(macros, texts))
  <2>1. macros \in Seq(M)
    BY DEF M
  <2> QED  BY <1>2, <2>1, AddMacrosFacts
<1>4. M \subseteq ToSet(AddMacros(macros, texts))
  BY <1>1, <1>3, MentionedIs DEF M, T
<1> QED  BY <1>1, <1>3, <1>4 DEF M

LEMMA InputAdded ==
  ASSUME NEW text, IsTemplate(text), NEW M, NEW macros \in Seq(M), MacrosOf(text) \subseteq M
  PROVE  /\ AddMacros(macros, <<text>>) \in Seq(M)
         /\ MacrosOf(text) \subseteq ToSet(AddMacros(macros, <<text>>))
         /\ ToSet(macros) \subseteq ToSet(AddMacros(macros, <<text>>))
<1> DEFINE T == {text}
<1>1. PICK texts \in Seq(T) : texts = <<text>>
  <2>1. <<text>> \in Seq(T)
    OBVIOUS
  <2> QED  BY <2>1
<1>2. \A x \in T : IsList(x) /\ MacrosOf(x) \subseteq M
  BY DEF IsTemplate, IsText
<1>3. text \in ToSet(texts)
  BY <1>1, OnlyElement
<1> HIDE DEF T
<1>4. /\ AddMacros(macros, texts) \in Seq(M)
      /\ ToSet(macros) \subseteq ToSet(AddMacros(macros, texts))
      /\ \A x \in ToSet(texts) : MacrosOf(x) \subseteq ToSet(AddMacros(macros, texts))
  BY <1>2, AddMacrosFacts
<1> QED  BY <1>1, <1>3, <1>4

LEMMA RegisterKeepsMInv ==
  ASSUME Inv, MInv, Register PROVE MInv'
<1> DEFINE c == commandQueue[checked + 1]
           After(d) == LET text == Text(Input[d], c) IN
             IF text = << >> THEN inputMacros[d]
             ELSE [inputMacros[d] EXCEPT ![c] = AddMacros(<< >>, <<text>>)]
<1>1. /\ config' = config /\ commandQueue' = commandQueue /\ pc = "check" /\ pc' # "ready"
      /\ checked < Len(commandQueue) /\ timeMacros' = timeMacros
  BY DEF Register, CheckCommand
<1>2. \/ UNCHANGED <<checked, commandMacros, inputMacros>>
      \/ /\ checked' = checked + 1
         /\ commandMacros' = [commandMacros EXCEPT ![c] = AddMacros(commandMacros[c], Fields(c))]
         /\ inputMacros' = [d \in Digest |-> After(d)]
  BY DEF Register
<1>3. CASE UNCHANGED <<checked, commandMacros, inputMacros>>
  <2>1. UNCHANGED macroVars
    BY <1>1, <1>3 DEF macroVars
  <2> QED  BY <1>1, <1>3, <2>1, MInvStays
<1>4. CASE /\ checked' = checked + 1
           /\ commandMacros' = [commandMacros EXCEPT ![c] = AddMacros(commandMacros[c], Fields(c))]
           /\ inputMacros' = [d \in Digest |-> After(d)]
  <2>1. config \in Config /\ checked \in Nat /\ c \in Name
    <3>1. commandQueue \in Seq(Name) /\ checked \in 0 .. Len(commandQueue)
      BY DEF Inv, TypeOK
    <3>2. Len(commandQueue) \in Nat
      BY <3>1, LenProperties
    <3>3. checked + 1 \in 1 .. Len(commandQueue)
      BY <1>1, <3>1, <3>2
    <3> QED  BY <3>1, <3>3, ElementOfSeq DEF Inv
  <2>2. c # SessionLog /\ c \in Key
    BY <2>1, LogIsNoName
  <2> HIDE DEF c
  <2>3. /\ DOMAIN commandMacros = Key
        /\ \A d \in Digest : DOMAIN inputMacros[d] = Key
        /\ \A k \in Key : commandMacros[k] \in Seq(Says(k))
        /\ \A k \in Key, d \in Digest : inputMacros[d][k] \in Seq(Wants(d, k))
    BY DEF MInv, TablesInv
  <2>4. commandMacros[c] \in Seq(Mentioned(c))
    BY <2>2, <2>3 DEF Says
  <2> DEFINE added == AddMacros(commandMacros[c], Fields(c))
  <2>5. added \in Seq(Mentioned(c)) /\ Mentioned(c) \subseteq ToSet(added)
    BY <2>1, <2>4, FieldsAdded
  <2> HIDE DEF added
  <2>6. /\ DOMAIN commandMacros' = Key /\ commandMacros'[c] = added
        /\ \A k \in Key \ {c} : commandMacros'[k] = commandMacros[k]
    BY <1>4, <2>2, <2>3 DEF added
  <2>7. ASSUME NEW d \in Digest
        PROVE  /\ DOMAIN inputMacros'[d] = Key
               /\ inputMacros'[d][c] \in Seq(InputMentions(d, c))
               /\ InputMentions(d, c) \subseteq ToSet(inputMacros'[d][c])
               /\ \A k \in Key \ {c} : inputMacros'[d][k] = inputMacros[d][k]
    <3> DEFINE text == Text(Input[d], c)
    <3>1. inputMacros'[d] = After(d)
      BY <1>4
    <3>2. InputMentions(d, c) = MacrosOf(text)
      BY DEF InputMentions, MacrosOf
    <3>3. CASE text = << >>
      <4>1. inputMacros'[d] = inputMacros[d]
        BY <3>1, <3>3
      <4>2. InputMentions(d, c) = {}
        <5>1. PICK x \in Seq({}) : x = << >>
          BY EmptySeq
        <5>2. ToSet(x) \subseteq {}
          BY ElementsOf
        <5> QED  BY <3>2, <3>3, <5>1, <5>2 DEF MacrosOf
      <4>3. inputMacros[d][c] \in Seq(InputMentions(d, c))
        BY <2>2, <2>3 DEF Wants
      <4> QED  BY <2>3, <4>1, <4>2, <4>3
    <3>4. CASE text # << >>
      <4>1. inputMacros'[d] = [inputMacros[d] EXCEPT ![c] = AddMacros(<< >>, <<text>>)]
        BY <3>1, <3>4
      <4>2. IsTemplate(text)
        <5>1. Input[d] \in Setting
          BY DEF Setting
        <5> QED  BY <2>1, <5>1, TextTemplate
      <4> HIDE DEF text
      <4>3. << >> \in Seq(MacrosOf(text))
        BY EmptySeq
      <4>4. /\ AddMacros(<< >>, <<text>>) \in Seq(MacrosOf(text))
            /\ MacrosOf(text) \subseteq ToSet(AddMacros(<< >>, <<text>>))
        BY <4>2, <4>3, InputAdded
      <4>5. /\ DOMAIN inputMacros'[d] = Key
            /\ inputMacros'[d][c] = AddMacros(<< >>, <<text>>)
            /\ \A k \in Key \ {c} : inputMacros'[d][k] = inputMacros[d][k]
        BY <2>2, <2>3, <4>1
      <4> QED  BY <3>2, <4>4, <4>5
    <3> QED  BY <3>3, <3>4
  <2> HIDE DEF After
  <2>8. TablesInv'
    <3>1. ASSUME NEW k \in Key PROVE commandMacros'[k] \in Seq(Says(k)')
      BY <1>1, <2>2, <2>3, <2>5, <2>6, SameMentions DEF Says
    <3>2. ASSUME NEW k \in Key, NEW d \in Digest PROVE inputMacros'[d][k] \in Seq(Wants(d, k)')
      BY <1>1, <2>2, <2>3, <2>7, SameMentions DEF Wants
    <3> QED  BY <2>6, <2>7, <3>1, <3>2 DEF TablesInv
  <2>9. CompleteInv'
    <3>1. ASSUME NEW i \in 1 .. checked + 1 PROVE Complete(commandQueue[i])'
      <4>1. CASE commandQueue[i] = c
        BY <1>1, <2>5, <2>6, <2>7, <4>1, SameMentions DEF Complete
      <4>2. CASE commandQueue[i] # c
        <5>1. i \in 1 .. checked /\ i \in 1 .. Len(commandQueue)
          <6>1. i # checked + 1
            BY <4>2 DEF c
          <6>2. Len(commandQueue) \in Nat
            BY LenProperties DEF Inv, TypeOK
          <6> QED  BY <1>1, <2>1, <6>1, <6>2
        <5>2. commandQueue[i] \in Key
          BY <5>1, ElementOfSeq, LogIsNoName DEF Inv, TypeOK
        <5>3. Complete(commandQueue[i])
          BY <5>1 DEF MInv, CompleteInv
        <5> QED  BY <1>1, <2>6, <2>7, <4>2, <5>2, <5>3, SameMentions DEF Complete
      <4> QED  BY <4>1, <4>2
    <3> QED  BY <1>1, <1>4, <3>1 DEF CompleteInv
  <2>10. TimesInv'
    BY <1>1 DEF TimesInv
  <2> QED  BY <2>8, <2>9, <2>10 DEF MInv
<1> QED  BY <1>2, <1>3, <1>4

LEMMA MacroOfTemplate ==
  ASSUME NEW text, IsTemplate(text), NEW m \in MacrosOf(text)
  PROVE  m = Macro(m.kind, m.id, m.cut) /\ IsCut(m.cut)
BY DEF IsTemplate, MacrosOf, IsCut

(* Whatever a table has comes from a text of the ini file.                 *)
LEMMA TableMacros ==
  ASSUME config \in Config, NEW k \in Key,
         NEW m \in Says(k) \cup UNION {Wants(d, k) : d \in Digest}
  PROVE  m = Macro(m.kind, m.id, m.cut) /\ IsCut(m.cut)
<1>1. CASE k = SessionLog
  <2>1. m \in MacrosOf(config.log)
    BY <1>1 DEF Says, Wants
  <2>2. IsTemplate(config.log)
    BY MacrosAssumption
  <2> QED  BY <2>1, <2>2, MacroOfTemplate
<1>2. CASE k # SessionLog
  <2>1. k \in Name
    BY <1>2 DEF Key
  <2>2. CASE m \in Says(k)
    <3>1. PICK x \in FieldTexts(k) : m \in MacrosOf(x)
      BY <1>2, <2>2, MentionedIs DEF Says
    <3>2. IsTemplate(x)
      BY <2>1, FieldTemplates
    <3> QED  BY <3>1, <3>2, MacroOfTemplate
  <2>3. CASE m \in UNION {Wants(d, k) : d \in Digest}
    <3>1. PICK d \in Digest : m \in InputMentions(d, k)
      BY <1>2, <2>3 DEF Wants
    <3>2. m \in MacrosOf(Text(Input[d], k))
      BY <3>1 DEF InputMentions, MacrosOf
    <3>3. IsTemplate(Text(Input[d], k))
      <4>1. Input[d] \in Setting
        BY DEF Setting
      <4> QED  BY <2>1, <4>1, TextTemplate
    <3> QED  BY <3>2, <3>3, MacroOfTemplate
  <2> QED  BY <2>2, <2>3
<1> QED  BY <1>1, <1>2

LEMMA SeqElements ==
  ASSUME NEW U, NEW s \in Seq(U) PROVE ToSet(s) \subseteq U /\ IsList(s)
BY ElementsOf

LEMMA RegisterTimesKeepsMInv ==
  ASSUME Inv, MInv, RegisterTimes PROVE MInv'
<1> DEFINE added == AddMacros(commandMacros[SessionLog], <<config.log>>)
           scanned == UNION ({ToSet(commandMacros'[k]) : k \in Key}
                        \cup {ToSet(inputMacros[d][k]) : d \in Digest \ {"pks"}, k \in Key})
<1>1. /\ UNCHANGED <<config, commandQueue, checked, inputMacros>>
      /\ commandMacros' = [commandMacros EXCEPT ![SessionLog] = added]
  BY DEF RegisterTimes, BadTimeMacro, InitRampUp
<1>2. \/ pc' # "ready"
      \/ /\ \A m \in scanned : IsTime(m) => ~Unreadable(m)
         /\ timeMacros' = {m \in scanned : IsTime(m)}
  BY DEF RegisterTimes, BadTimeMacro, InitRampUp
<1>3. /\ DOMAIN commandMacros = Key
      /\ \A d \in Digest : DOMAIN inputMacros[d] = Key
      /\ \A k \in Key : commandMacros[k] \in Seq(Says(k))
      /\ \A k \in Key, d \in Digest : inputMacros[d][k] \in Seq(Wants(d, k))
  BY DEF MInv, TablesInv
<1>4. SessionLog \in Key /\ SessionLog \notin Name
  BY LogIsNoName
<1>5. added \in Seq(Says(SessionLog))
  <2>1. commandMacros[SessionLog] \in Seq(MacrosOf(config.log))
    BY <1>3, <1>4 DEF Says
  <2>2. IsTemplate(config.log)
    BY MacrosAssumption DEF Inv
  <2>3. added \in Seq(MacrosOf(config.log))
    BY <2>1, <2>2, InputAdded
  <2> QED  BY <2>3 DEF Says
<1> HIDE DEF added
<1>6. /\ DOMAIN commandMacros' = Key /\ commandMacros'[SessionLog] = added
      /\ \A k \in Key \ {SessionLog} : commandMacros'[k] = commandMacros[k]
  BY <1>1, <1>3, <1>4
<1>7. TablesInv'
  <2>1. ASSUME NEW k \in Key PROVE commandMacros'[k] \in Seq(Says(k)')
    BY <1>1, <1>3, <1>5, <1>6, SameMentions
  <2>2. ASSUME NEW k \in Key, NEW d \in Digest PROVE inputMacros'[d][k] \in Seq(Wants(d, k)')
    BY <1>1, <1>3, SameMentions
  <2> QED  BY <1>1, <1>3, <1>6, <2>1, <2>2 DEF TablesInv
<1>8. CompleteInv'
  <2>1. ASSUME NEW i \in 1 .. checked PROVE Complete(commandQueue[i])'
    <3>1. commandQueue[i] \in Name
      <4>1. commandQueue \in Seq(Name) /\ checked \in 0 .. Len(commandQueue) /\ Len(commandQueue) \in Nat
        BY LenProperties DEF Inv, TypeOK
      <4>2. i \in 1 .. Len(commandQueue)
        BY <4>1
      <4> QED  BY <4>1, <4>2, ElementOfSeq
    <3>2. commandMacros'[commandQueue[i]] = commandMacros[commandQueue[i]]
      BY <1>4, <1>6, <3>1, LogIsNoName
    <3>3. Complete(commandQueue[i])
      BY DEF MInv, CompleteInv
    <3> QED  BY <1>1, <3>2, <3>3, SameMentions DEF Complete
  <2> QED  BY <1>1, <2>1 DEF CompleteInv
<1>9. TimesInv'
  <2>1. CASE pc' # "ready"
    BY <2>1 DEF TimesInv
  <2>2. CASE /\ \A m \in scanned : IsTime(m) => ~Unreadable(m)
             /\ timeMacros' = {m \in scanned : IsTime(m)}
    <3>1. ASSUME NEW m \in scanned, IsTime(m) PROVE Uncut(m) \in timeMacros'
      <4>1. m.cut = << >> /\ m \in timeMacros'
        BY <2>2, <3>1 DEF Unreadable
      <4>2. PICK k \in Key : m \in Says(k) \cup UNION {Wants(d, k) : d \in Digest}
        <5>1. CASE \E k \in Key : m \in ToSet(commandMacros'[k])
          <6>1. PICK k \in Key : m \in ToSet(commandMacros'[k])
            BY <5>1
          <6>2. commandMacros'[k] \in Seq(Says(k))
            BY <1>3, <1>5, <1>6
          <6>3. m \in Says(k)
            BY <6>1, <6>2, SeqElements
          <6> QED  BY <6>3
        <5>2. CASE \E k \in Key, d \in Digest : m \in ToSet(inputMacros[d][k])
          <6>1. PICK k \in Key, d \in Digest : m \in ToSet(inputMacros[d][k])
            BY <5>2
          <6>2. inputMacros[d][k] \in Seq(Wants(d, k))
            BY <1>3
          <6>3. m \in Wants(d, k)
            BY <6>1, <6>2, SeqElements
          <6> QED  BY <6>3
        <5> QED  BY <5>1, <5>2
      <4>3. m = Macro(m.kind, m.id, m.cut)
        BY <4>2, TableMacros DEF Inv
      <4>4. Uncut(m) = m
        BY <4>1, <4>3 DEF Uncut, Macro
      <4> QED  BY <4>1, <4>4
    <3>2. ASSUME NEW k \in Key PROVE Timed(commandMacros[k])'
      <4>1. ToSet(commandMacros'[k]) \subseteq scanned
        OBVIOUS
      <4> QED  BY <3>1, <4>1 DEF Timed
    <3>3. ASSUME NEW k \in Key, NEW d \in Digest \ {"pks"} PROVE Timed(inputMacros[d][k])'
      <4>1. ToSet(inputMacros[d][k]) \subseteq scanned
        OBVIOUS
      <4> QED  BY <1>1, <3>1, <4>1 DEF Timed
    <3>4. OnlyTimes'
      BY <2>2 DEF OnlyTimes, IsTime
    <3> QED  BY <3>2, <3>3, <3>4 DEF TimesInv
  <2> QED  BY <1>2, <2>1, <2>2
<1> QED  BY <1>7, <1>8, <1>9 DEF MInv

LEMMA PrepareKeepsMInv ==
  ASSUME Inv, MInv, Prepare PROVE MInv'
<1>1. CASE UNCHANGED macroVars /\ (UseSequence \/ StartChain \/ Follow \/ EndChain)
  <2>1. config' = config /\ checked' = 0 /\ pc' # "ready"
    BY <1>1 DEF UseSequence, StartChain, Follow, LookUpCall, EndChain, Inv, CheckedInv
  <2> QED  BY <1>1, <2>1, MInvStays
<1>2. CASE UNCHANGED macroVars /\ SetPostSessionDelay
  <2>1. UNCHANGED <<config, commandQueue, checked>> /\ pc' # "ready"
    BY <1>2 DEF SetPostSessionDelay
  <2> QED  BY <1>2, <2>1, MInvStays
<1> QED
  BY <1>1, <1>2, RegisterKeepsMInv, RegisterTimesKeepsMInv DEF Prepare

LEMMA MInvStep ==
  ASSUME Inv, MInv, [RequestsNext]_allVars PROVE MInv'
<1>1. CASE UNCHANGED <<vars, macroVars>>
  BY <1>1, MInvStays DEF vars
<1>2. CASE Prepare
  BY <1>2, PrepareKeepsMInv
<1>3. CASE Rest /\ UNCHANGED macroVars
  BY <1>3, MInvStays DEF Rest, vars
<1> QED  BY <1>1, <1>2, <1>3 DEF RequestsNext, allVars

-----------------------------------------------------------------------------
(* The values of session variables are texts; a client that is dead met a  *)
(* macro that ended the process.                                           *)
VarsInv == AllTexts(sessionVars)

DeadInv ==
  at = "dead" => Dies(command, line, sessionVars) \/ Dies(SessionLog, line, sessionVars)

LEMMA KeptText ==
  ASSUME NEW text, IsText(text)
  PROVE  IsText(SubSeq(text, 1, Min({Len(text), HexLimit})))
<1> DEFINE n == Min({Len(text), HexLimit})
<1>1. text \in Seq(ToSet(text)) /\ Dead \notin ToSet(text) /\ Len(text) \in Nat /\ HexLimit \in Nat
  BY LenProperties, RequestsAssumption DEF IsText, IsList
<1>2. n \in Nat /\ n <= Len(text)
  <2>1. \E x \in {Len(text), HexLimit} : \A y \in {Len(text), HexLimit} : x <= y
    BY <1>1
  <2>2. n \in {Len(text), HexLimit} /\ \A y \in {Len(text), HexLimit} : n <= y
    BY <2>1 DEF Min
  <2> QED  BY <1>1, <2>2
<1> HIDE DEF n
<1>3. \A i \in 1 .. n : text[i] \in ToSet(text)
  <2>1. ASSUME NEW i \in 1 .. n PROVE text[i] \in ToSet(text)
    <3>1. i \in 1 .. Len(text)
      BY <1>1, <1>2
    <3> QED  BY <1>1, <3>1, ElementOfSeq
  <2> QED  BY <2>1
<1>4. PICK s \in Seq(ToSet(text)) : s = SubSeq(text, 1, n)
  <2>1. SubSeq(text, 1, n) \in Seq(ToSet(text))
    BY <1>1, <1>2, <1>3, SubSeqProperties
  <2> QED  BY <2>1
<1>5. IsText(s)
  BY <1>1, ElementsOf DEF IsText
<1> QED  BY <1>4, <1>5 DEF n

LEMMA VarsInvInit == RequestsInit => VarsInv
BY DEF RequestsInit, VarsInv, AllTexts, None

LEMMA VarsInvStep ==
  ASSUME VarsInv, [RequestsNext]_allVars PROVE VarsInv'
<1>1. CASE sessionVars' = sessionVars
  BY <1>1 DEF VarsInv, AllTexts
<1>2. CASE sessionVars' = None
  BY <1>2 DEF VarsInv, AllTexts, None
<1>3. CASE HttpRequest
  <2>1. PICK results \in [config.funcs[command] -> Captured] :
          sessionVars' = [v \in DOMAIN sessionVars \cup DOMAIN results |->
                            IF v \in DOMAIN results THEN results[v] ELSE sessionVars[v]]
    BY <1>3 DEF HttpRequest
  <2>2. \A v \in DOMAIN results : IsText(results[v])
    BY RequestsAssumption
  <2>3. \A v \in DOMAIN sessionVars : IsText(sessionVars[v])
    BY DEF VarsInv, AllTexts
  <2> QED  BY <2>1, <2>2, <2>3 DEF VarsInv, AllTexts
<1>4. CASE Capture
  <2> DEFINE v == config.vars[command][capture]
             Kept(text) == IF IsTcp THEN SubSeq(text, 1, Min({Len(text), HexLimit})) ELSE text
  <2>1. \/ sessionVars' = sessionVars
        \/ \E text \in Captured :
             sessionVars' = [x \in DOMAIN sessionVars \cup {v.name} |->
                               IF x = v.name THEN Kept(text) ELSE sessionVars[x]]
    BY <1>4 DEF Capture
  <2>2. ASSUME NEW text \in Captured PROVE IsText(Kept(text))
    <3>1. IsText(text)
      BY RequestsAssumption
    <3>2. IsText(SubSeq(text, 1, Min({Len(text), HexLimit})))
      BY <3>1, KeptText
    <3> QED  BY <3>1, <3>2
  <2> HIDE DEF Kept, v
  <2>3. \A x \in DOMAIN sessionVars : IsText(sessionVars[x])
    BY DEF VarsInv, AllTexts
  <2>4. CASE \E text \in Captured :
               sessionVars' = [x \in DOMAIN sessionVars \cup {v.name} |->
                                 IF x = v.name THEN Kept(text) ELSE sessionVars[x]]
    <3>1. PICK text \in Captured :
            sessionVars' = [x \in DOMAIN sessionVars \cup {v.name} |->
                              IF x = v.name THEN Kept(text) ELSE sessionVars[x]]
      BY <2>4
    <3> QED  BY <2>2, <2>3, <3>1 DEF VarsInv, AllTexts
  <2> QED  BY <1>1, <2>1, <2>4
<1>5. \/ sessionVars' \in {sessionVars, None}
      \/ HttpRequest \/ Capture
  BY DEF RequestsNext, ClientMoves, TakeLine, CutShort, EndSession, FunctionFails, NoResponse,
         Response, TcpRequest, TcpFails, TcpReply, Logged, Proceed, requestVars, allVars
<1> QED  BY <1>1, <1>2, <1>3, <1>4, <1>5

LEMMA SameTables ==
  ASSUME UNCHANGED <<vars, macroVars>>, step' = step
  PROVE  command' = command /\ \A k : Tables(k)' = Tables(k)
<1>1. command' = command
  BY DEF command, vars
<1>2. ASSUME NEW s, NEW k PROVE Text(s, k)' = Text(s, k)
  BY DEF Text, FieldString, vars
<1>3. ASSUME NEW k PROVE Tables(k)' = Tables(k)
  BY <1>2 DEF Tables, InputMacros, InputText, macroVars
<1> QED  BY <1>1, <1>3

LEMMA DeadInvStays ==
  ASSUME UNCHANGED <<vars, macroVars>>, UNCHANGED <<step, line>>,
         Dies(command, line, sessionVars') \/ Dies(SessionLog, line, sessionVars')
  PROVE  DeadInv'
<1>1. /\ command' = command /\ Tables(command)' = Tables(command)
      /\ Tables(SessionLog)' = Tables(SessionLog)
  <2>1. command' = command /\ Tables(SessionLog)' = Tables(SessionLog)
    BY SameTables
  <2>2. Tables(command)' = Tables(command)
    <3>1. ASSUME NEW s PROVE Text(s, command)' = Text(s, command)
      BY <2>1 DEF Text, FieldString, vars
    <3> QED  BY <2>1, <3>1 DEF Tables, InputMacros, InputText, macroVars
  <2> QED  BY <2>1, <2>2
<1> QED  BY <1>1 DEF DeadInv, Dies, RunnerMacros

LEMMA DeadInvStep ==
  ASSUME RInv, DeadInv, [RequestsNext]_allVars PROVE DeadInv'
<1> SUFFICES ASSUME at' = "dead" PROVE DeadInv'
  BY DEF DeadInv
<1>1. CASE UNCHANGED <<vars, macroVars, requestVars>>
  <2>1. Dies(command, line, sessionVars') \/ Dies(SessionLog, line, sessionVars')
    BY <1>1 DEF DeadInv, requestVars
  <2> QED  BY <1>1, <2>1, DeadInvStays DEF requestVars
<1>2. CASE Prepare /\ UNCHANGED requestVars
  BY <1>2, PrepareIsNext DEF RInv, RequestsTypeOK, requestVars
<1>3. CASE ClientMoves /\ UNCHANGED <<vars, macroVars>>
  <2>1. HttpRequest \/ TcpRequest \/ Capture \/ Proceed
    BY <1>3 DEF ClientMoves, TakeLine, CutShort, FunctionFails, NoResponse, Response, TcpFails,
                TcpReply, Logged
  <2>2. /\ Dies(command, line, sessionVars') \/ Dies(SessionLog, line, sessionVars')
        /\ UNCHANGED <<step, line>>
    <3>1. CASE HttpRequest
      BY <3>1 DEF HttpRequest
    <3>2. CASE TcpRequest
      BY <3>2 DEF TcpRequest
    <3>3. CASE Capture
      BY <3>3 DEF Capture
    <3>4. CASE Proceed
      BY <3>4 DEF Proceed
    <3> QED  BY <2>1, <3>1, <3>2, <3>3, <3>4
  <2> QED  BY <1>3, <2>2, DeadInvStays
<1>4. CASE Rest /\ UNCHANGED <<macroVars, requestVars>>
  BY <1>1, <1>4 DEF Rest
<1> QED  BY <1>1, <1>2, <1>3, <1>4 DEF RequestsNext, allVars

LEMMA SaneTables ==
  ASSUME Inv, RInv, MInv, VarsInv, NEW k \in Key
  PROVE  /\ Sane(Tables(k), line, sessionVars)
         /\ AllMacros(Tables(k)) \subseteq Says(k) \cup UNION {Wants(d, k) : d \in Digest}
         /\ \A d \in Digest : ToSet(Tables(k).inputMacros[d]) \subseteq Wants(d, k)
<1> DEFINE t == Tables(k)
<1>1. /\ t.macros = commandMacros[k] /\ t.times = timeMacros
      /\ \A d \in Digest : t.inputMacros[d] = inputMacros[d][k] /\ t.inputText[d] = InputText(d, k)
  BY DEF Tables, InputMacros
<1> HIDE DEF t
<1>2. config \in Config
  BY DEF Inv
<1>3. IsList(t.macros) /\ ToSet(t.macros) \subseteq Says(k)
  <2>1. t.macros \in Seq(Says(k))
    BY <1>1 DEF MInv, TablesInv
  <2> QED  BY <2>1, SeqElements
<1>4. ASSUME NEW d \in Digest
      PROVE  IsList(t.inputMacros[d]) /\ ToSet(t.inputMacros[d]) \subseteq Wants(d, k)
  <2>1. t.inputMacros[d] \in Seq(Wants(d, k))
    BY <1>1 DEF MInv, TablesInv
  <2> QED  BY <2>1, SeqElements
<1>5. ASSUME NEW d \in Digest PROVE IsText(t.inputText[d])
  <2>1. CASE k = SessionLog
    BY <1>1, <2>1, EmptyTemplate DEF InputText, IsTemplate
  <2>2. CASE k # SessionLog
    <3>1. k \in Name /\ Input[d] \in Setting
      BY <2>2 DEF Key, Setting
    <3>2. IsTemplate(Text(Input[d], k))
      BY <1>2, <3>1, TextTemplate
    <3> QED  BY <1>1, <2>2, <3>2 DEF InputText, IsTemplate
  <2> QED  BY <2>1, <2>2
<1>6. AllMacros(t) \subseteq Says(k) \cup UNION {Wants(d, k) : d \in Digest}
  BY <1>3, <1>4 DEF AllMacros
<1>7. \A m \in AllMacros(t) : IsCut(m.cut)
  BY <1>2, <1>6, TableMacros
<1>8. AllTexts(line) /\ AllTexts(sessionVars)
  BY RequestsAssumption DEF RInv, RequestsTypeOK, VarsInv, AllTexts, None
<1>9. Sane(t, line, sessionVars)
  BY <1>3, <1>4, <1>5, <1>7, <1>8 DEF Sane
<1> QED  BY <1>4, <1>6, <1>9 DEF t

LEMMA CommandIsName ==
  ASSUME Inv, RInv, at # "range" PROVE command \in Name
<1>1. commandQueue \in Seq(Name) /\ step \in 1 .. Len(commandQueue)
  BY DEF Inv, TypeOK, RInv, RequestsTypeOK
<1> QED  BY <1>1, ElementOfSeq DEF command

LEMMA DeadForAReason ==
  ASSUME Inv, RInv, MInv, VarsInv, DeadInv PROVE SoundNeverDies
<1> SUFFICES ASSUME at = "dead" PROVE SoundNeverDies
  BY DEF SoundNeverDies
<1> DEFINE Macros == Mentioned(command) \cup {x \in ToSet(config.log) : IsMacro(x)}
                       \cup UNION {InputMentions(d, command) : d \in Digest}
<1>1. SUFFICES (\E m \in Macros : CutsTooMuch(m)) \/ GoesRound(command)
  BY DEF SoundNeverDies
<1>2. command \in Name /\ command \in Key /\ SessionLog \in Key /\ command # SessionLog
  BY CommandIsName, LogIsNoName
<1>3. ASSUME NEW m, NEW k, ~FitsIn(m, Tables(k), line, sessionVars) PROVE CutsTooMuch(m)
  BY <1>3 DEF FitsIn, CutFits, CutsTooMuch, Tables
<1>4. ASSUME NEW k \in Key, Dies(k, line, sessionVars)
      PROVE  \/ \E m \in Says(k) \cup UNION {Wants(d, k) : d \in Digest} : CutsTooMuch(m)
             \/ \E S : Rounds(Tables(k), S)
  <2>1. Sane(Tables(k), line, sessionVars) /\ IsText(<< >>)
    BY SaneTables, EmptyTemplate DEF IsTemplate
  <2>2. Replace(Tables(k), line, sessionVars, << >>) = <<Dead>>
    BY <1>4 DEF Dies, RunnerMacros
  <2>3. \/ \E m \in AllMacros(Tables(k)) : ~FitsIn(m, Tables(k), line, sessionVars)
        \/ \E S : Rounds(Tables(k), S)
    BY <2>1, <2>2, DeadMeans
  <2> QED  BY <1>3, <2>3, SaneTables
<1>5. CASE Dies(command, line, sessionVars)
  <2>1. CASE \E m \in Says(command) \cup UNION {Wants(d, command) : d \in Digest} : CutsTooMuch(m)
    BY <1>2, <2>1 DEF Says, Wants
  <2>2. CASE \E S : Rounds(Tables(command), S)
    <3>1. PICK S : S \in (SUBSET Digest) \ {{}} /\ S \subseteq Caught(Tables(command), S)
      BY <2>2 DEF Rounds
    <3>2. ASSUME NEW d \in S PROVE \E m \in InputMentions(d, command) : m.kind \in S
      <4>1. PICK x \in ToSet(Tables(command).inputMacros[d]) : x.kind \in S
        BY <3>1 DEF Caught
      <4>2. x \in InputMentions(d, command)
        BY <1>2, <3>1, <4>1, SaneTables DEF Wants
      <4> QED  BY <4>1, <4>2
    <3> QED  BY <3>1, <3>2 DEF GoesRound
  <2> QED  BY <1>2, <1>4, <1>5, <2>1, <2>2
<1>6. CASE Dies(SessionLog, line, sessionVars)
  <2>1. \A d : Wants(d, SessionLog) = {}
    BY DEF Wants
  <2>2. CASE \E m \in Says(SessionLog) \cup UNION {Wants(d, SessionLog) : d \in Digest} : CutsTooMuch(m)
    BY <2>1, <2>2 DEF Says, MacrosOf
  <2>3. CASE \E S : Rounds(Tables(SessionLog), S)
    <3>1. PICK S : S \in (SUBSET Digest) \ {{}} /\ S \subseteq Caught(Tables(SessionLog), S)
      BY <2>3 DEF Rounds
    <3>2. PICK d \in S : \E x \in ToSet(Tables(SessionLog).inputMacros[d]) : x.kind \in S
      BY <3>1 DEF Caught
    <3> QED  BY <1>2, <2>1, <3>1, <3>2, SaneTables
  <2> QED  BY <1>2, <1>4, <1>6, <2>2, <2>3
<1> QED  BY <1>5, <1>6 DEF DeadInv

(* DInv: the tables, the values, and why a client is dead.                 *)
DInv == MInv /\ VarsInv /\ DeadInv

LEMMA AllTableInvariants == RequestsSpec => [](Inv /\ RInv /\ DInv)
<1>1. RequestsInit => DInv
  BY MInvInit, VarsInvInit DEF DInv, DeadInv, RequestsInit
<1>2. Inv /\ RInv /\ DInv /\ [RequestsNext]_allVars => DInv'
  BY MInvStep, VarsInvStep, DeadInvStep DEF DInv
<1> QED  BY <1>1, <1>2, AllRequestInvariants, PTL DEF RequestsSpec

(* For any ini file: no macro ends the process, but for a cut that is too  *)
(* long for its value, or digests whose inputs go round.                   *)
THEOREM NeverDiesCorrect == RequestsSpec => []SoundNeverDies
<1>1. Inv /\ RInv /\ DInv => SoundNeverDies
  BY DeadForAReason DEF DInv
<1> QED  BY <1>1, AllTableInvariants, PTL

-----------------------------------------------------------------------------
(* The values are lists, and a digest has no macro in it.                  *)
LEMMA DigestValue ==
  ASSUME NEW d \in Digest, NEW e, NEW cut, IsCut(cut)
  PROVE  /\ IsList(Cut(Encode(d, e), cut))
         /\ \A k, i, c : Macro(k, i, c) \notin ToSet(Cut(Encode(d, e), cut))
<1> DEFINE U == DigestChars(d, e) \cup {Dead}
<1>1. Encode(d, e) \in Seq(U)
  <2>1. CASE e = <<Dead>>
    <3>1. PICK x \in Seq(U) : x = <<Dead>>
      <4>1. <<Dead>> \in Seq(U)
        OBVIOUS
      <4> QED  BY <4>1
    <3> QED  BY <2>1, <3>1, EncodeDead
  <2>2. CASE e # <<Dead>>
    <3>1. Encode(d, e) \in Seq(DigestChars(d, e))
      BY <2>2, EncodeFacts
    <3> QED  BY <3>1, SeqMonotonic
  <2> QED  BY <2>1, <2>2
<1>2. PICK x \in Seq(U) : x = Cut(Encode(d, e), cut)
  <2>1. Dead \in U
    OBVIOUS
  <2> HIDE DEF U
  <2>2. Cut(Encode(d, e), cut) \in Seq(U)
    BY <1>1, <2>1, CutType
  <2> QED  BY <2>2
<1>3. IsList(x) /\ ToSet(x) \subseteq U
  <2> HIDE DEF U
  <2> QED  BY SeqElements
<1>4. ASSUME NEW k, NEW i, NEW c PROVE Macro(k, i, c) \notin U
  <2>1. Macro(k, i, c) # Dead
    BY DEF Macro, Dead
  <2>2. Macro(k, i, c) \notin DigestChars(d, e)
    BY DigitsAreOpaque
  <2> QED  BY <2>1, <2>2
<1> QED  BY <1>2, <1>3, <1>4

LEMMA ValueFacts ==
  ASSUME NEW t, NEW l, NEW s, Sane(t, l, s), NEW v, Levels(v, t, l, s), NEW n \in 0 .. 3,
         NEW m \in AllMacros(t)
  PROVE  /\ IsList(v[n][m])
         /\ m.kind \in Digest => \A k, i, c : Macro(k, i, c) \notin ToSet(v[n][m])
         /\ m.kind \notin Digest => v[n][m] = Cut(Lookup(m, t.times, l, s), m.cut)
<1>1. PICK below : v[n] = Level(t, l, s, n, below)
  <2>1. CASE n = 0
    BY <2>1 DEF Levels
  <2>2. CASE n # 0
    <3>1. n \in 1 .. 3
      BY <2>2
    <3> QED  BY <3>1 DEF Levels
  <2> QED  BY <2>1, <2>2
<1>2. IsCut(m.cut) /\ n \in Nat
  BY DEF Sane
<1>3. CASE m.kind \in Digest
  <2>1. PICK e : v[n][m] = Cut(Encode(m.kind, e), m.cut)
    <3>1. CASE n = 0
      <4>1. v[n][m] = Cut(Encode(m.kind, <<Dead>>), m.cut)
        BY <1>1, <1>2, <1>3, <3>1, LevelFacts, EncodeDead
      <4> QED  BY <4>1
    <3>2. CASE n # 0
      <4>1. n > 0
        BY <3>2
      <4> QED  BY <1>1, <1>2, <1>3, <4>1, LevelFacts
    <3> QED  BY <3>1, <3>2
  <2> QED  BY <1>2, <1>3, <2>1, DigestValue
<1>4. CASE m.kind \notin Digest
  <2> DEFINE x == Lookup(m, t.times, l, s)
  <2>1. v[n][m] = Cut(x, m.cut)
    BY <1>1, <1>2, <1>4, LevelFacts
  <2>2. IsText(x)
    BY LookupText DEF Sane
  <2> HIDE DEF x
  <2> DEFINE U == ToSet(x) \cup {Dead}
  <2>3. x \in Seq(U) /\ Dead \in U
    BY <2>2, ListFacts DEF IsText
  <2> HIDE DEF U
  <2>4. PICK y \in Seq(U) : y = Cut(x, m.cut)
    <3>1. Cut(x, m.cut) \in Seq(U)
      BY <1>2, <2>3, CutType
    <3> QED  BY <3>1
  <2>5. IsList(y)
    BY SeqElements
  <2> QED  BY <1>4, <2>1, <2>4, <2>5 DEF x
<1> QED  BY <1>3, <1>4

(* The digests of a level mean what they should, unless they are dead.     *)
Agree(t, values, digest) ==
  \A m \in AllMacros(t) :
    m.kind \in Digest /\ ~Contains(values[m], Dead) => values[m] = Cut(digest[m.kind], m.cut)

MacrosOnly(t) == \A m \in AllMacros(t) : m = Macro(m.kind, m.id, m.cut)

(* No name of the environment begins like that of a time.                  *)
Clear(macros) == \A m \in ToSet(macros) : IsTime(m) => m.kind # "env"

LEMMA EnvLookup ==
  ASSUME NEW m, m.kind = "env", m = Macro(m.kind, m.id, m.cut), ~IsTime(m), OnlyTimes
  PROVE  Lookup(m, timeMacros, line, sessionVars) = IF m.id \in DOMAIN Env THEN Env[m.id] ELSE << >>
<1>1. Uncut(m).kind = m.kind /\ Uncut(m).id = m.id
  BY DEF Uncut, Macro
<1>2. Uncut(m) \notin timeMacros
  <2>1. ~IsTime(Uncut(m))
    BY <1>1 DEF IsTime
  <2> QED  BY <2>1 DEF OnlyTimes
<1>3. CASE m.id \in DOMAIN Env
  BY <1>2, <1>3 DEF Lookup
<1>4. CASE m.id \notin DOMAIN Env
  <2>1. m.kind # "args" /\ m.kind # "var"
    OBVIOUS
  <2> QED  BY <1>2, <1>4, <2>1 DEF Lookup
<1> QED  BY <1>3, <1>4

(* Then so does a text with macros of that level.                          *)
LEMMA ExpandMeans ==
  ASSUME NEW t, Sane(t, line, sessionVars), t.times = timeMacros, MacrosOnly(t),
         NEW v, Levels(v, t, line, sessionVars), NEW n \in 0 .. 3,
         NEW digest, Agree(t, v[n], digest),
         NEW macros, IsList(macros), ToSet(macros) \subseteq AllMacros(t),
         Timed(macros), Clear(macros), OnlyTimes, InOrder(macros, v[3]), ~Dying(macros, v[n]),
         NEW text, IsList(text)
  PROVE  Expand(text, macros, v[n]) = AtOnce(text, Meant(ToSet(macros), digest))
<1> DEFINE x == v[n]
           y == v[3]
           M == ToSet(macros)
<1>1. ASSUME NEW m \in M
      PROVE  /\ m \in AllMacros(t) /\ m = Macro(m.kind, m.id, m.cut)
             /\ IsList(x[m]) /\ IsList(y[m]) /\ ~Contains(x[m], Dead)
  <2>1. m \in AllMacros(t)
    OBVIOUS
  <2>2. 3 \in 0 .. 3
    OBVIOUS
  <2>3. IsList(v[n][m]) /\ IsList(v[3][m])
    BY <2>1, <2>2, ValueFacts
  <2> QED  BY <2>1, <2>3 DEF MacrosOnly, Dying
<1>2. Ordered(macros, x)
  <2> SUFFICES ASSUME NEW i \in 1 .. Len(macros), NEW j \in 1 .. Len(macros), i < j
               PROVE  macros[j] \notin ToSet(x[macros[i]])
    BY DEF Ordered
  <2>1. macros[i] \in M /\ macros[j] \in M /\ i \in DOMAIN macros /\ j \in DOMAIN macros
    BY ListFacts
  <2> DEFINE m == macros[i]
             k == macros[j]
  <2>2. k = Macro(k.kind, k.id, k.cut) /\ m \in AllMacros(t)
    BY <1>1, <2>1
  <2>3. CASE m.kind \in Digest
    <3> HIDE DEF k, m
    <3>1. \A a, b, c : Macro(a, b, c) \notin ToSet(v[n][m])
      BY <2>2, <2>3, ValueFacts
    <3>2. Macro(k.kind, k.id, k.cut) \notin ToSet(v[n][m])
      BY <3>1
    <3>3. k \notin ToSet(v[n][m])
      BY <2>2, <3>2
    <3> QED  BY <3>3 DEF k, m
  <2>4. CASE m.kind \notin Digest
    <3>1. 3 \in 0 .. 3
      OBVIOUS
    <3>2. v[n][m] = v[3][m]
      BY <2>2, <2>4, <3>1, ValueFacts
    <3>3. ~Contains(v[3][m], k)
      BY <2>1 DEF InOrder
    <3>4. k \notin ToSet(v[3][m])
      BY <1>1, <2>1, <3>3, ListFacts
    <3> QED  BY <3>2, <3>4
  <2> QED  BY <2>3, <2>4
<1>3. Expand(text, macros, x) = AtOnce(text, [m \in M |-> x[m]])
  <2> DEFINE U == ToSet(text) \cup UNION {ToSet(x[m]) : m \in M}
  <2>1. text \in Seq(U)
    BY ListFacts
  <2>2. ASSUME NEW m \in M PROVE x[m] \in Seq(U)
    <3>1. IsList(x[m]) /\ ToSet(x[m]) \subseteq U
      BY <1>1
    <3> HIDE DEF U
    <3> QED  BY <3>1, ListFacts
  <2> HIDE DEF U, x
  <2> QED  BY <1>2, <2>1, <2>2, ExpandAtOnce DEF x
<1>4. [m \in M |-> x[m]] = Meant(M, digest)
  <2>1. ASSUME NEW m \in M PROVE x[m] = Meant(M, digest)[m]
    <3>1. m \in AllMacros(t) /\ ~Contains(x[m], Dead)
      BY <1>1
    <3> DEFINE now == <<Opaque("now", <<Uncut(m)>>)>>
               look == Lookup(m, timeMacros, line, sessionVars)
               known == IF m.id \in DOMAIN Env THEN Env[m.id] ELSE << >>
               raw == CASE m.kind \in Digest           -> digest[m.kind]
                        [] m.kind = "env"              -> known
                        [] m.kind = "var" /\ IsTime(m) -> now
                        [] OTHER                       -> look
    <3>2. Meant(M, digest)[m] = Cut(raw, m.cut)
      BY DEF Meant
    <3> HIDE DEF now, look, known
    <3>3. CASE m.kind \in Digest
      <4>1. m.kind # "env" /\ m.kind # "var"
        BY <3>3, ThreeDigests
      <4>2. raw = digest[m.kind]
        BY <3>3, <4>1
      <4>3. x[m] = Cut(digest[m.kind], m.cut)
        BY <3>1, <3>3 DEF Agree
      <4> QED  BY <3>2, <4>2, <4>3
    <3>4. CASE m.kind = "var" /\ IsTime(m)
      <4>1. m.kind \notin Digest
        BY <3>4, ThreeDigests
      <4>2. raw = now
        BY <3>4, <4>1
      <4>3. Uncut(m) \in t.times
        BY <3>4 DEF Timed
      <4>4. Lookup(m, t.times, line, sessionVars) = now
        <5>1. m.kind # "env" /\ m.kind # "args"
          BY <3>4
        <5> QED  BY <4>3, <5>1 DEF Lookup, now
      <4>5. x[m] = Cut(Lookup(m, t.times, line, sessionVars), m.cut)
        BY <3>1, <4>1, ValueFacts
      <4> QED  BY <3>2, <4>2, <4>4, <4>5
    <3>5. CASE m.kind = "env"
      <4>1. m.kind \notin Digest
        BY <3>5, ThreeDigests
      <4>2. raw = known
        BY <3>5, <4>1
      <4>3. Lookup(m, timeMacros, line, sessionVars) = known
        <5>1. ~IsTime(m)
          BY <3>5 DEF Clear
        <5> QED  BY <1>1, <3>5, <5>1, EnvLookup DEF known
      <4>4. x[m] = Cut(Lookup(m, t.times, line, sessionVars), m.cut)
        BY <3>1, <4>1, ValueFacts
      <4> QED  BY <3>2, <4>2, <4>3, <4>4
    <3>6. CASE m.kind \notin Digest /\ m.kind # "env" /\ ~(m.kind = "var" /\ IsTime(m))
      <4>1. raw = look
        BY <3>6
      <4>2. x[m] = Cut(Lookup(m, t.times, line, sessionVars), m.cut)
        BY <3>1, <3>6, ValueFacts
      <4> QED  BY <3>2, <4>1, <4>2 DEF look
    <3> QED  BY <3>3, <3>4, <3>5, <3>6
  <2>2. Meant(M, digest) = [m \in M |-> Meant(M, digest)[m]]
    BY DEF Meant
  <2>3. [m \in M |-> x[m]] = [m \in M |-> Meant(M, digest)[m]]
    BY <2>1
  <2> QED  BY <2>2, <2>3
<1> QED  BY <1>3, <1>4

(* What the macros of a command mean, level by level.                      *)
MeantLevels(g, c) ==
  /\ g[0] = MeantDigests(c, 0, << >>)
  /\ \A n \in 1 .. 3 : g[n] = MeantDigests(c, n, g[n - 1])

LEMMA FirstMeant ==
  ASSUME NEW c, NEW x PROVE MeantDigests(c, 0, x) = [d \in Digest |-> <<Dead>>]
BY DEF MeantDigests

LEMMA MeaningFacts ==
  ASSUME NEW c PROVE \E g : MeantLevels(g, c) /\ Meaning(c) = Meant(Mentioned(c), g[3])
<1> DEFINE Upto(g, k) == g = [n \in 0 .. k |-> MeantDigests(c, n, g[n - 1])]
           Chosen(k) == CHOOSE g : Upto(g, k)
           u == Chosen(3)
<1>1. Meaning(c) = Meant(Mentioned(c), u[3])
  <2>1. Meaning(c) = Meant(Mentioned(c), Chosen(Cardinality(Digest))[Cardinality(Digest)])
    BY DEF Meaning
  <2> HIDE DEF Chosen
  <2> QED  BY <2>1, ThreeDigests
<1> DEFINE g0 == MeantDigests(c, 0, << >>)
           g1 == MeantDigests(c, 1, g0)
           g2 == MeantDigests(c, 2, g1)
           g3 == MeantDigests(c, 3, g2)
           g == [n \in 0 .. 3 |-> IF n = 0 THEN g0 ELSE IF n = 1 THEN g1 ELSE IF n = 2 THEN g2 ELSE g3]
<1>2. g[0] = g0 /\ g[1] = g1 /\ g[2] = g2 /\ g[3] = g3
  <2> HIDE DEF g0, g1, g2, g3
  <2> QED  OBVIOUS
<1>3. ASSUME NEW n \in 0 .. 3 PROVE g[n] = MeantDigests(c, n, g[n - 1])
  <2> HIDE DEF g
  <2>1. n = 0 \/ n = 1 \/ n = 2 \/ n = 3
    OBVIOUS
  <2>2. CASE n = 0
    BY <1>2, <2>2, FirstMeant
  <2>3. CASE n = 1
    BY <1>2, <2>3
  <2>4. CASE n = 2
    BY <1>2, <2>4
  <2>5. CASE n = 3
    BY <1>2, <2>5
  <2> QED  BY <2>1, <2>2, <2>3, <2>4, <2>5
<1>4. Upto(g, 3)
  <2> DEFINE w == [n \in 0 .. 3 |-> MeantDigests(c, n, g[n - 1])]
  <2>1. \A n \in 0 .. 3 : g[n] = w[n]
    <3> HIDE DEF g
    <3> QED  BY <1>3
  <2>2. g = w
    <3> HIDE DEF g0, g1, g2, g3
    <3>1. DOMAIN g = 0 .. 3 /\ g = [n \in 0 .. 3 |-> g[n]]
      OBVIOUS
    <3>2. w = [n \in 0 .. 3 |-> w[n]]
      OBVIOUS
    <3> HIDE DEF g, w
    <3> QED  BY <2>1, <3>1, <3>2
  <2> HIDE DEF g
  <2> QED  BY <2>2
<1> HIDE DEF g
<1>5. Upto(u, 3)
  BY <1>4
<1> HIDE DEF u
<1>6. /\ u[0] = MeantDigests(c, 0, u[0 - 1])
      /\ \A n \in 1 .. 3 : u[n] = MeantDigests(c, n, u[n - 1])
  BY <1>5
<1>7. MeantLevels(u, c)
  BY <1>6, FirstMeant DEF MeantLevels
<1> QED  BY <1>1, <1>7

(* The tables have what the ini file mentions in the texts of a command.   *)
LEMMA TablesOfCommand ==
  ASSUME Inv, RInv, MInv, VarsInv, at # "range"
  PROVE  /\ command \in Key /\ command # SessionLog
         /\ MacrosOnly(Tables(command))
         /\ IsList(commandMacros[command]) /\ ToSet(commandMacros[command]) = Mentioned(command)
         /\ \A d \in Digest : /\ IsList(inputMacros[d][command])
                             /\ ToSet(inputMacros[d][command]) = InputMentions(d, command)
<1>1. command \in Name /\ command \in Key /\ command # SessionLog
  BY CommandIsName, LogIsNoName
<1>2. pc = "ready" /\ step \in 1 .. Len(commandQueue)
  BY DEF RInv, RequestsTypeOK
<1>3. Complete(command)
  <2>1. step \in 1 .. checked
    BY <1>2 DEF Inv, CheckedInv
  <2> QED  BY <2>1 DEF MInv, CompleteInv, command
<1>4. commandMacros[command] \in Seq(Mentioned(command))
  BY <1>1 DEF MInv, TablesInv, Says
<1>5. \A d \in Digest : inputMacros[d][command] \in Seq(InputMentions(d, command))
  BY <1>1 DEF MInv, TablesInv, Wants
<1>6. MacrosOnly(Tables(command))
  <2> SUFFICES ASSUME NEW m \in AllMacros(Tables(command))
               PROVE  m = Macro(m.kind, m.id, m.cut)
    BY DEF MacrosOnly
  <2>1. m \in Says(command) \cup UNION {Wants(d, command) : d \in Digest}
    BY <1>1, SaneTables
  <2> QED  BY <1>1, <2>1, TableMacros DEF Inv
<1>7. IsList(commandMacros[command]) /\ ToSet(commandMacros[command]) \subseteq Mentioned(command)
  BY <1>4, SeqElements
<1>8. ASSUME NEW d \in Digest
      PROVE  /\ IsList(inputMacros[d][command])
             /\ ToSet(inputMacros[d][command]) \subseteq InputMentions(d, command)
  <2>1. inputMacros[d][command] \in Seq(InputMentions(d, command))
    BY <1>5
  <2> QED  BY <2>1, SeqElements
<1> QED  BY <1>1, <1>3, <1>6, <1>7, <1>8 DEF Complete

(* A level means what it should if the one below does.                     *)
LEMMA AgreeMore ==
  ASSUME Inv, RInv, MInv, VarsInv, at # "range",
         NEW v, Levels(v, Tables(command), line, sessionVars),
         NEW g, MeantLevels(g, command),
         \A d \in Digest : InOrder(inputMacros[d][command], v[3]),
         \A d \in Digest : Timed(inputMacros[d][command]) /\ Clear(inputMacros[d][command]),
         OnlyTimes,
         NEW n \in 1 .. 3, Agree(Tables(command), v[n - 1], g[n - 1])
  PROVE  Agree(Tables(command), v[n], g[n])
<1> DEFINE c == command
           t == Tables(c)
<1>1. /\ t.times = timeMacros
      /\ \A d \in Digest : t.inputMacros[d] = inputMacros[d][c]
                         /\ t.inputText[d] = Text(Input[d], c)
  BY TablesOfCommand DEF Tables, InputMacros, InputText
<1>2. Sane(t, line, sessionVars) /\ MacrosOnly(t)
  BY TablesOfCommand, SaneTables
<1>3. v[n] = Level(t, line, sessionVars, n, v[n - 1]) /\ g[n] = MeantDigests(c, n, g[n - 1])
  BY DEF Levels, MeantLevels
<1>4. n - 1 \in 0 .. 3 /\ n \in Nat /\ n > 0 /\ n # 0
  OBVIOUS
<1> HIDE DEF t, c
<1>5. ASSUME NEW m \in AllMacros(t), m.kind \in Digest, ~Contains(v[n][m], Dead)
      PROVE  v[n][m] = Cut(g[n][m.kind], m.cut)
  <2> DEFINE d == m.kind
             text == Text(Input[d], c)
             macros == inputMacros[d][c]
             e == Expand(text, macros, v[n - 1])
  <2>0. d \in Digest
    BY <1>5
  <2>1. v[n][m] = Cut(Encode(d, e), m.cut)
    <3>1. v[n][m] = Cut(Encode(d, Expand(t.inputText[d], t.inputMacros[d], v[n - 1])), m.cut)
      BY <1>3, <1>4, <1>5, LevelFacts
    <3> QED  BY <1>1, <1>5, <3>1
  <2>2. g[n][d] = Encode(d, AtOnce(text, Meant(InputMentions(d, c), g[n - 1])))
    BY <1>3, <1>4, <1>5 DEF MeantDigests
  <2>3. /\ IsList(macros) /\ ToSet(macros) = InputMentions(d, c)
        /\ Timed(macros) /\ Clear(macros) /\ InOrder(macros, v[3])
    BY <2>0, TablesOfCommand DEF c
  <2>4. IsList(text)
    BY <1>1, <1>2, <2>0 DEF Sane, IsText
  <2>5. ToSet(macros) \subseteq AllMacros(t)
    BY <1>1, <2>0 DEF AllMacros
  <2> HIDE DEF d, text, macros
  <2>6. ~Dying(macros, v[n - 1])
    <3>1. e # <<Dead>>
      <4>1. CASE e = <<Dead>>
        <5>1. v[n][m] = <<Dead>>
          BY <2>1, <4>1, EncodeDead, CutDead
        <5>2. PICK x \in Seq({Dead}) : x = <<Dead>>
          <6>1. <<Dead>> \in Seq({Dead})
            OBVIOUS
          <6> QED  BY <6>1
        <5>3. Dead \in ToSet(x)
          BY <5>2, OnlyElement
        <5>4. Contains(x, Dead)
          BY <5>3, ElementsOf
        <5> QED  BY <1>5, <5>1, <5>2, <5>4
      <4> QED  BY <4>1
    <3> QED  BY <2>3, <3>1, ExpandFacts
  <2>7. e = AtOnce(text, Meant(ToSet(macros), g[n - 1]))
    <3>1. Levels(v, t, line, sessionVars) /\ Agree(t, v[n - 1], g[n - 1])
      BY DEF t, c
    <3> QED  BY <1>1, <1>2, <1>4, <2>3, <2>4, <2>5, <2>6, <3>1, ExpandMeans
  <2> QED  BY <2>1, <2>2, <2>3, <2>7 DEF d
<1> QED  BY <1>5 DEF Agree, t, c

LEMMA LevelsAgree ==
  ASSUME Inv, RInv, MInv, VarsInv, at # "range",
         NEW v, Levels(v, Tables(command), line, sessionVars),
         NEW g, MeantLevels(g, command),
         \A d \in Digest : InOrder(inputMacros[d][command], v[3]),
         \A d \in Digest : Timed(inputMacros[d][command]) /\ Clear(inputMacros[d][command]),
         OnlyTimes
  PROVE  Agree(Tables(command), v[3], g[3])
<1> DEFINE t == Tables(command)
<1>1. Agree(t, v[0], g[0])
  <2> SUFFICES ASSUME NEW m \in AllMacros(t), m.kind \in Digest PROVE Contains(v[0][m], Dead)
    BY DEF Agree
  <2>1. v[0] = Level(t, line, sessionVars, 0, << >>)
    BY DEF Levels
  <2>2. v[0][m] = Cut(<<Dead>>, m.cut)
    BY <2>1, LevelFacts
  <2>3. v[0][m] = <<Dead>>
    BY <2>2, CutDead
  <2>4. PICK x \in Seq({Dead}) : x = <<Dead>>
    <3>1. <<Dead>> \in Seq({Dead})
      OBVIOUS
    <3> QED  BY <3>1
  <2>5. Dead \in ToSet(x)
    BY <2>4, OnlyElement
  <2>6. Contains(x, Dead)
    BY <2>5, ElementsOf
  <2> QED  BY <2>3, <2>4, <2>6
<1>2. Agree(t, v[1], g[1])
  <2>1. 1 \in 1 .. 3 /\ 1 - 1 = 0
    OBVIOUS
  <2> QED  BY <1>1, <2>1, AgreeMore
<1>3. Agree(t, v[2], g[2])
  <2>1. 2 \in 1 .. 3 /\ 2 - 1 = 1
    OBVIOUS
  <2> QED  BY <1>2, <2>1, AgreeMore
<1>4. Agree(t, v[3], g[3])
  <2>1. 3 \in 1 .. 3 /\ 3 - 1 = 2
    OBVIOUS
  <2> QED  BY <1>3, <2>1, AgreeMore
<1> QED  BY <1>4

-----------------------------------------------------------------------------
(* What is under way as an HTTP request is what httpReq made of the texts. *)
SentInv ==
  at = "sent" /\ ~IsTcp =>
    /\ ~Dies(command, line, sessionVars)
    /\ \A i \in DOMAIN Headers : Headers[i].text # Unset
    /\ sent = [f \in HttpFields |->
                  RunnerMacros(command, line, sessionVars, FirstPart(f, HttpText(f)))]

LEMMA SameHeaders ==
  ASSUME UNCHANGED <<config, commandQueue, step>>
  PROVE  /\ command' = command /\ IsTcp' = IsTcp
         /\ Headers' = Headers /\ HttpFields' = HttpFields
         /\ \A f : HttpText(f)' = HttpText(f)
<1>1. command' = command
  BY DEF command
<1>2. ASSUME NEW s PROVE Text(s, command)' = Text(s, command)
  BY <1>1 DEF Text, FieldString
<1>3. IsTcp' = IsTcp
  BY SameCommand
<1>4. Headers' = Headers
  BY <1>1, <1>2 DEF Headers
<1>5. HttpFields' = HttpFields
  BY <1>4 DEF HttpFields
<1>6. ASSUME NEW f PROVE Header(f)' = Header(f)
  BY <1>4 DEF Header, SelectLastInSeq
<1>7. ASSUME NEW f PROVE HttpText(f)' = HttpText(f)
  BY <1>2, <1>6 DEF HttpText
<1> QED  BY <1>1, <1>3, <1>4, <1>5, <1>7

LEMMA SameFields ==
  ASSUME UNCHANGED <<vars, macroVars, step, line>>, NEW f
  PROVE  /\ RunnerMacros(command, line, sessionVars', FirstPart(f, HttpText(f)))
               = RunnerMacros(command, line, sessionVars, FirstPart(f, HttpText(f)))'
         /\ Dies(command, line, sessionVars') = Dies(command, line, sessionVars)'
<1>1. command' = command /\ HttpText(f)' = HttpText(f)
  BY SameHeaders DEF vars
<1>2. ASSUME NEW s PROVE Text(s, command)' = Text(s, command)
  BY <1>1 DEF Text, FieldString, vars
<1>3. Tables(command)' = Tables(command)
  BY <1>1, <1>2 DEF Tables, InputMacros, InputText, macroVars
<1>4. FirstPart(f, HttpText(f))' = FirstPart(f, HttpText(f))
  <2>1. Text("ReqContentType", command)' = Text("ReqContentType", command)
    BY <1>2
  <2> QED  BY <1>1, <2>1 DEF FirstPart
<1> QED  BY <1>1, <1>3, <1>4 DEF RunnerMacros, Dies

LEMMA SentInvFromFields ==
  ASSUME UNCHANGED <<vars, macroVars, step, line>>,
         ~Dies(command, line, sessionVars'),
         \A i \in DOMAIN Headers : Headers[i].text # Unset,
         sent' = [f \in HttpFields |->
                    RunnerMacros(command, line, sessionVars', FirstPart(f, HttpText(f)))]
  PROVE  SentInv'
<1>1. Headers' = Headers /\ HttpFields' = HttpFields
  BY SameHeaders DEF vars
<1>2. \A f : RunnerMacros(command, line, sessionVars', FirstPart(f, HttpText(f)))
               = RunnerMacros(command, line, sessionVars, FirstPart(f, HttpText(f)))'
  BY SameFields
<1>3. ~Dies(command, line, sessionVars)'
  BY SameFields
<1>4. sent' = [f \in HttpFields' |->
                 RunnerMacros(command, line, sessionVars, FirstPart(f, HttpText(f)))']
  BY <1>1, <1>2
<1> QED  BY <1>1, <1>3, <1>4 DEF SentInv

LEMMA SentInvStays ==
  ASSUME SentInv, UNCHANGED <<vars, macroVars, step, line, sessionVars, sent, at>>
  PROVE  SentInv'
<1> SUFFICES ASSUME at = "sent", ~IsTcp PROVE SentInv'
  BY SameHeaders DEF SentInv, vars
<1> QED  BY SentInvFromFields DEF SentInv

LEMMA SentInvStep ==
  ASSUME SentInv, RInv, [RequestsNext]_allVars PROVE SentInv'
<1> SUFFICES ASSUME at' = "sent" PROVE SentInv'
  BY DEF SentInv
<1>1. CASE UNCHANGED <<vars, macroVars, requestVars>>
  BY <1>1, SentInvStays DEF requestVars
<1>2. CASE Prepare /\ UNCHANGED requestVars
  BY <1>2, PrepareIsNext DEF RInv, RequestsTypeOK, requestVars
<1>3. CASE ClientMoves /\ UNCHANGED <<vars, macroVars>>
  <2>1. HttpRequest \/ TcpRequest
    BY <1>3 DEF ClientMoves, TakeLine, CutShort, FunctionFails, NoResponse, Response, TcpFails,
                TcpReply, Capture, Logged, Proceed
  <2>2. CASE HttpRequest
    BY <1>3, <2>2, SentInvFromFields DEF HttpRequest
  <2>3. CASE TcpRequest
    <3>1. IsTcp /\ UNCHANGED <<line, step>>
      BY <2>3 DEF TcpRequest
    <3>2. IsTcp'
      BY <1>3, <3>1, SameHeaders DEF vars
    <3> QED  BY <3>2 DEF SentInv
  <2> QED  BY <2>1, <2>2, <2>3
<1>4. CASE Rest /\ UNCHANGED <<macroVars, requestVars>>
  BY <1>1, <1>4 DEF Rest
<1> QED  BY <1>1, <1>2, <1>3, <1>4 DEF RequestsNext, allVars

LEMMA Largest ==
  ASSUME NEW n \in Nat, NEW S, S \subseteq 1 .. n, S # {}
  PROVE  Max(S) \in S
<1> DEFINE T == {n - i : i \in S}
<1>1. T \subseteq Nat /\ T # {}
  <2>1. ASSUME NEW i \in S PROVE n - i \in Nat
    <3>1. i \in 1 .. n
      OBVIOUS
    <3> QED  BY <3>1
  <2>2. PICK i \in S : TRUE
    OBVIOUS
  <2>3. n - i \in T
    BY <2>2
  <2> QED  BY <2>1, <2>3
<1> HIDE DEF T
<1>2. PICK k \in T : \A j \in T : k <= j
  BY <1>1, Least
<1>3. PICK x \in S : k = n - x
  BY DEF T
<1>4. \A y \in S : x >= y
  <2> SUFFICES ASSUME NEW y \in S PROVE x >= y
    OBVIOUS
  <2>1. n - y \in T
    BY DEF T
  <2>2. k <= n - y
    BY <1>2, <2>1
  <2> QED  BY <1>3, <2>2
<1> QED  BY <1>4 DEF Max

LEMMA HeaderTemplates ==
  ASSUME config \in Config, command \in Name
  PROVE  /\ Headers \in Seq(ToSet(Headers))
         /\ \A h \in ToSet(Headers) : h.text = Unset \/ IsTemplate(h.text)
<1> DEFINE content == Text("ReqContentType", command)
           a == IF "default" \in config.defined THEN config.headers["default"] ELSE << >>
           b == config.headers[command]
           h == [name |-> "Content-Type", text |-> content]
           c == IF content = << >> THEN << >> ELSE <<h>>
           U == ToSet(a) \cup ToSet(b) \cup {h}
<1>1. command \in Section /\ "default" \in Section
  BY DEF Section
<1>2. \A x \in Section :
        /\ IsList(config.headers[x])
        /\ \A e \in ToSet(config.headers[x]) : e.text = Unset \/ IsTemplate(e.text)
  BY MacrosAssumption
<1>3. IsTemplate(content)
  BY TextTemplate DEF Setting
<1> HIDE DEF content
<1>4. h.text = content
  OBVIOUS
<1> HIDE DEF h
<1>5. IsList(a) /\ \A e \in ToSet(a) : e.text = Unset \/ IsTemplate(e.text)
  <2>1. CASE "default" \in config.defined
    BY <1>1, <1>2, <2>1
  <2>2. CASE "default" \notin config.defined
    <3>1. PICK x \in Seq({}) : x = << >>
      BY EmptySeq
    <3>2. IsList(x) /\ ToSet(x) \subseteq {}
      BY ElementsOf
    <3> QED  BY <2>2, <3>1, <3>2
  <2> QED  BY <2>1, <2>2
<1>6. IsList(b) /\ \A e \in ToSet(b) : e.text = Unset \/ IsTemplate(e.text)
  BY <1>1, <1>2
<1> HIDE DEF a, b
<1>7. a \in Seq(U) /\ b \in Seq(U) /\ c \in Seq(U)
  <2>1. h \in U
    OBVIOUS
  <2>2. a \in Seq(U) /\ b \in Seq(U)
    BY <1>5, <1>6, ListFacts
  <2> HIDE DEF U
  <2>3. << >> \in Seq(U)
    BY EmptySeq
  <2>4. <<h>> \in Seq(U)
    BY <2>1
  <2> QED  BY <2>2, <2>3, <2>4
<1>8. \A e \in U : e.text = Unset \/ IsTemplate(e.text)
  BY <1>3, <1>4, <1>5, <1>6
<1>9. Headers = (a \o b) \o c
  BY DEF Headers, a, b, c, h, content
<1> HIDE DEF c, U
<1>10. Headers \in Seq(U)
  BY <1>7, <1>9, ConcatProperties
<1>11. ToSet(Headers) \subseteq U /\ IsList(Headers)
  BY <1>10, SeqElements
<1> QED  BY <1>8, <1>11 DEF IsList

LEMMA FieldIsTemplate ==
  ASSUME config \in Config, command \in Name,
         \A i \in DOMAIN Headers : Headers[i].text # Unset, NEW f \in HttpFields
  PROVE  IsTemplate(HttpText(f))
<1>1. CASE f \in {"ReqBody", "ReqUrl"}
  BY <1>1, TextTemplate DEF HttpText, Setting
<1>2. CASE f \notin {"ReqBody", "ReqUrl"}
  <2>1. PICK i \in DOMAIN Headers : f = Headers[i].name
    BY <1>2 DEF HttpFields
  <2> DEFINE n == Len(Headers)
             I == {j \in 1 .. n : Headers[j].name = f}
  <2>2. DOMAIN Headers = 1 .. n /\ n \in Nat
    BY HeaderTemplates, LenProperties
  <2>3. I \subseteq 1 .. n /\ I # {}
    BY <2>1, <2>2
  <2>4. Header(f) = Headers[IF I # {} THEN Max(I) ELSE 0].text
    BY DEF Header, SelectLastInSeq
  <2> HIDE DEF n
  <2>5. Max(I) \in I
    <3> HIDE DEF I
    <3> QED  BY <2>2, <2>3, Largest
  <2>6. Max(I) \in DOMAIN Headers /\ Header(f) = Headers[Max(I)].text
    BY <2>2, <2>3, <2>4, <2>5
  <2>7. Headers[Max(I)] \in ToSet(Headers)
    BY <2>6 DEF ToSet
  <2>8. IsTemplate(Header(f))
    BY <2>6, <2>7, HeaderTemplates
  <2> QED  BY <1>2, <2>8 DEF HttpText
<1> QED  BY <1>1, <1>2

LEMMA SaysWhatIsMeant ==
  ASSUME Inv, RInv, MInv, VarsInv, SentInv PROVE SentAsMeant
<1> SUFFICES ASSUME at = "sent", ~IsTcp,
                    LET value == Values(Tables(command), line, sessionVars) IN
                      /\ InOrder(commandMacros[command], value)
                      /\ \A d \in Digest : InOrder(inputMacros[d][command], value),
                    \A m \in Mentioned(command) \cup UNION {InputMentions(d, command) : d \in Digest} :
                      IsTime(m) => m.kind # "env",
                    \A m \in InputMentions("pks", command) :
                      IsTime(m) => Uncut(m) \in timeMacros,
                    NEW f \in HttpFields, FirstPart(f, HttpText(f)) = HttpText(f)
             PROVE  sent[f] = AtOnce(HttpText(f), Meaning(command))
  BY DEF SentAsMeant
<1> DEFINE c == command
           t == Tables(c)
           macros == commandMacros[c]
           text == HttpText(f)
<1>1. PICK v : Levels(v, t, line, sessionVars) /\ Values(t, line, sessionVars) = v[3]
  BY ValuesFacts
<1>2. PICK g : MeantLevels(g, c) /\ Meaning(c) = Meant(Mentioned(c), g[3])
  BY MeaningFacts
<1>3. InOrder(macros, v[3]) /\ \A d \in Digest : InOrder(inputMacros[d][c], v[3])
  BY <1>1
<1>4. /\ c \in Key /\ c # SessionLog /\ MacrosOnly(t)
      /\ IsList(macros) /\ ToSet(macros) = Mentioned(c)
      /\ \A d \in Digest : ToSet(inputMacros[d][c]) = InputMentions(d, c)
  BY TablesOfCommand
<1>5. Timed(macros) /\ OnlyTimes /\ \A d \in Digest : Timed(inputMacros[d][c])
  <2>1. pc = "ready"
    BY DEF RInv, RequestsTypeOK
  <2>2. OnlyTimes /\ Timed(macros) /\ \A d \in Digest \ {"pks"} : Timed(inputMacros[d][c])
    BY <1>4, <2>1 DEF MInv, TimesInv
  <2>3. Timed(inputMacros["pks"][c])
    <3>1. ToSet(inputMacros["pks"][c]) = InputMentions("pks", c)
      BY <1>4, ThreeDigests
    <3> QED  BY <3>1 DEF Timed
  <2> QED  BY <2>2, <2>3
<1>5a. Clear(macros) /\ \A d \in Digest : Clear(inputMacros[d][c])
  BY <1>4 DEF Clear
<1>6. Agree(t, v[3], g[3])
  BY <1>1, <1>2, <1>3, <1>5, <1>5a, LevelsAgree
<1>7. t.macros = macros /\ t.times = timeMacros
  BY DEF Tables
<1>8. Sane(t, line, sessionVars)
  BY <1>4, SaneTables
<1>9. IsList(text)
  <2>1. IsTemplate(text)
    <3>1. c \in Name
      BY CommandIsName
    <3> QED  BY <3>1, FieldIsTemplate DEF SentInv, Inv
  <2> QED  BY <2>1 DEF IsTemplate, IsText
<1>10. ~Dying(macros, v[3])
  <2>1. ~Dies(c, line, sessionVars)
    BY DEF SentInv
  <2>2. Expand(<< >>, macros, v[3]) # <<Dead>>
    BY <1>1, <1>7, <2>1 DEF Dies, RunnerMacros, Replace
  <2> HIDE DEF macros
  <2> QED  BY <1>4, <2>2, ExpandFacts
<1>11. sent[f] = Expand(text, macros, v[3])
  <2>1. sent[f] = RunnerMacros(c, line, sessionVars, text)
    BY DEF SentInv
  <2> QED  BY <1>1, <1>7, <2>1 DEF RunnerMacros, Replace
<1>12. Expand(text, macros, v[3]) = AtOnce(text, Meant(ToSet(macros), g[3]))
  <2>1. 3 \in 0 .. 3 /\ ToSet(macros) \subseteq AllMacros(t)
    BY <1>7 DEF AllMacros
  <2> HIDE DEF text, macros, t
  <2> QED  BY <1>1, <1>3, <1>4, <1>5, <1>6, <1>7, <1>8, <1>9, <1>10, <1>5a, <2>1, ExpandMeans
<1> QED  BY <1>2, <1>4, <1>11, <1>12

LEMMA SentInvAlways == RequestsSpec => []SentInv
<1>1. RequestsInit => SentInv
  BY DEF RequestsInit, SentInv
<1>2. SentInv /\ RInv /\ [RequestsNext]_allVars => SentInv'
  BY SentInvStep
<1> QED  BY <1>1, <1>2, AllRequestInvariants, PTL DEF RequestsSpec

(* For any ini file: an HTTP request has every macro in the place of its   *)
(* value and the values as they are, whatever the order in which they were *)
(* replaced, if no value holds a macro that comes after its own, no name   *)
(* of the environment begins like that of a time, and PKSInput has no time *)
(* of its own.                                                             *)
THEOREM SentCorrect == RequestsSpec => []SentAsMeant
<1>1. Inv /\ RInv /\ DInv /\ SentInv => SentAsMeant
  BY SaysWhatIsMeant DEF DInv
<1> QED  BY <1>1, AllTableInvariants, SentInvAlways, PTL
=============================================================================

------------------------------ MODULE Requests ------------------------------
(***************************************************************************)
(* The sessions of one client of a runner, request by request: what DoReq, *)
(* httpReq and tcpReq send, and what findSessionVars and findFuncVars keep *)
(* for the next request (runner.go).  Clients share the tables of macros,  *)
(* which do not change any more, and the process, which one can end for    *)
(* all.  Times, counters and cookies are in Session, Clients and HttpReq.  *)
(***************************************************************************)
EXTENDS Macros, TcpReq

CONSTANTS
  Line,      \* input lines: a text for each index of ARGS
  Captured,  \* what a pattern captures, or a function returns
  Answer,    \* what a TCP server sends: sequences of bytes
  HexLimit   \* hexadecimal digits kept of a TCP reply, 32

ASSUME RequestsAssumption ==
  /\ HexLimit \in Nat
  /\ Answer \subseteq Seq(0 .. Radix - 1)
  /\ \A f \in Config : DOMAIN f.funcs = Section
  /\ \A l \in Line : \A x \in DOMAIN l : IsText(l[x])
  /\ \A t \in Captured : IsText(t)

VARIABLES
  at,           \* where the client is, or how it ended the process
  line,         \* inputLine
  step,         \* place of the command in commandQueue
  sessionVars,  \* sessionVars: a function on the variables that have a value
  sent,         \* what was sent: a text, or bytes, for each field
  reply,        \* of a TCP request: its reply, and of what the server sent
  capture,      \* the SessionVar that is looked for next
  continue      \* continueSession

requestVars == <<at, line, step, sessionVars, sent, reply, capture, continue>>

None == [x \in {} |-> << >>]

NoReply == [bytes |-> << >>, of |-> << >>, arrived |-> 0]

RequestsInit ==
  /\ Init /\ MacrosInit
  /\ at = "range"
  /\ line = None /\ step = 1
  /\ sessionVars = None
  /\ sent = None /\ reply = NoReply
  /\ capture = 1 /\ continue = TRUE

-----------------------------------------------------------------------------
command == commandQueue[step]

IsTcp == FieldString(config.type, command) = "TCP"

(* A line begins a session.                                                *)
TakeLine ==
  /\ pc = "ready" /\ at = "range"
  /\ line' \in Line
  /\ at' = "due"
  /\ UNCHANGED <<step, sessionVars, sent, reply, capture, continue>>

(* What belongs to the session is given up.                                *)
EndSession ==
  /\ line' = None /\ step' = 1
  /\ sessionVars' = None
  /\ capture' = 1 /\ continue' = TRUE

(* The deadline: DoReq returns, without a row in the session log.          *)
CutShort ==
  /\ at = "due"
  /\ at' = "range"
  /\ EndSession
  /\ UNCHANGED <<sent, reply>>

(* The headers of default and of the command, and ReqContentType: the last *)
(* one of a name counts.  text is what follows the colon; Unset, if there  *)
(* is none.                                                                *)
Headers ==
  (IF "default" \in config.defined THEN config.headers["default"] ELSE << >>)
    \o config.headers[command]
    \o (IF Text("ReqContentType", command) = << >> THEN << >>
        ELSE <<[name |-> "Content-Type", text |-> Text("ReqContentType", command)]>>)

Header(h) == Headers[SelectLastInSeq(Headers, LAMBDA x : x.name = h)].text

HttpFields == {"ReqBody", "ReqUrl"} \cup {Headers[i].name : i \in DOMAIN Headers}

HttpText(f) == IF f \in {"ReqBody", "ReqUrl"} THEN Text(f, command) ELSE Header(f)

HasColon(t) == t = Colon \/ (IsMacro(t) /\ t.cut # << >>)

(* strings.Split takes a header apart at every colon, also at that of a    *)
(* cut; the beginning of a cut macro is no macro any more.  ReqContentType *)
(* is set as it is.                                                        *)
FirstPart(h, text) ==
  LET c == SelectInSeq(text, HasColon) IN
    IF \/ c = 0 \/ h \in {"ReqBody", "ReqUrl"}
       \/ h = "Content-Type" /\ Text("ReqContentType", command) # << >>
    THEN text
    ELSE SubSeq(text, 1, c - 1)
           \o IF text[c] = Colon THEN << >> ELSE <<Opaque("torn", <<text[c]>>)>>

MustCapture == FieldString(config.must, command)

(* findFuncVars sets its variables, the macros are replaced and the        *)
(* request is made -- or cannot be made: NewRequest, or ReqUpload.         *)
HttpRequest ==
  /\ at = "due"
  /\ ~IsTcp
  /\ \E results \in [config.funcs[command] -> Captured] :
       sessionVars' = [v \in DOMAIN sessionVars \cup DOMAIN results |->
                         IF v \in DOMAIN results THEN results[v] ELSE sessionVars[v]]
  /\ \/ /\ Dies(command, line, sessionVars')
        /\ at' = "dead"
        /\ UNCHANGED <<sent, continue>>
     \/ /\ ~Dies(command, line, sessionVars')
        /\ continue' = (MustCapture = Unset)
        /\ at' = "logged"
        /\ UNCHANGED sent
     \/ /\ ~Dies(command, line, sessionVars')
        /\ \E i \in DOMAIN Headers : Headers[i].text = Unset
        /\ at' = "exit"
        /\ UNCHANGED <<sent, continue>>
     \/ /\ ~Dies(command, line, sessionVars')
        /\ \A i \in DOMAIN Headers : Headers[i].text # Unset
        /\ sent' = [f \in HttpFields |->
                      RunnerMacros(command, line, sessionVars', FirstPart(f, HttpText(f)))]
        /\ at' = "sent"
        /\ UNCHANGED continue
  /\ UNCHANGED <<line, step, reply, capture>>

(* A script that cannot be read or run ends the process.                   *)
FunctionFails ==
  /\ at = "due"
  /\ ~IsTcp
  /\ config.funcs[command] # {}
  /\ at' = "exit"
  /\ UNCHANGED <<line, step, sessionVars, sent, reply, capture, continue>>

NoResponse ==
  /\ at = "sent"
  /\ ~IsTcp
  /\ continue' = (MustCapture = Unset)
  /\ at' = "logged"
  /\ UNCHANGED <<line, step, sessionVars, sent, reply, capture>>

(* A body that cannot be read to its end is an answer without characters,  *)
(* in which findSessionVars looks for nothing.                             *)
Response ==
  /\ at = "sent"
  /\ ~IsTcp
  /\ \/ /\ at' = "answer"
        /\ UNCHANGED continue
     \/ /\ at' = "logged"
        /\ continue' = FALSE
  /\ capture' = 1
  /\ UNCHANGED <<line, step, sessionVars, sent, reply>>

-----------------------------------------------------------------------------
NoSpaces(text) == Remove(text, Char(" "))

Body == NoSpaces(RunnerMacros(command, line, sessionVars, Text("ReqBody", command)))

Iv == NoSpaces(RunnerMacros(command, line, sessionVars, Text("EncryptIv", command)))

EncryptKey == RunnerMacros(command, line, sessionVars, Text("EncryptKey", command))

EncryptStart == FieldInteger(config.encryptStart, command)

EncryptCt == FieldInteger(config.encryptCt, command)

(* EncryptIv must be hexadecimal, though buildIv takes its place.          *)
Sealable ==
  /\ InMessage(Decode(Body), EncryptStart, EncryptCt)
  /\ Decodes(Iv)
  /\ KeyReads(EncryptKey)
  /\ WholeBlocks(EncryptCt)

Sendable == Decodes(Body) /\ (Encrypts(EncryptStart, EncryptCt) => Sealable)

(* Every error of a TCP request ends the process.                          *)
TcpRequest ==
  /\ at = "due"
  /\ IsTcp
  /\ \/ /\ Dies(command, line, sessionVars)
        /\ at' = "dead"
        /\ UNCHANGED sent
     \/ /\ ~Dies(command, line, sessionVars)
        /\ ~Sendable
        /\ at' = "exit"
        /\ UNCHANGED sent
     \/ /\ ~Dies(command, line, sessionVars)
        /\ Sendable
        /\ sent' = [f \in {"bytes"} |->
                      IF Encrypts(EncryptStart, EncryptCt)
                      THEN Seal(Decode(Body), EncryptStart, EncryptCt) ELSE Decode(Body)]
        /\ at' = "sent"
  /\ UNCHANGED <<line, step, sessionVars, reply, capture, continue>>

(* The address, the connection, the Write, the Read.                       *)
TcpFails ==
  /\ at \in {"due", "sent"}
  /\ IsTcp
  /\ at' = "exit"
  /\ UNCHANGED <<line, step, sessionVars, sent, reply, capture, continue>>

(* Some of the answer has arrived.  A reply longer than the buffer panics; *)
(* one whose dump has at most two digits ends the session.                 *)
TcpReply ==
  /\ at = "sent"
  /\ IsTcp
  /\ \E a \in Answer : \E n \in 1 .. Len(a) :
       LET arrived == SubSeq(a, 1, n) IN
       /\ n <= BufSize
       /\ \/ /\ ResponseLen(arrived) > BufSize
             /\ at' = "overrun"
             /\ UNCHANGED <<reply, continue>>
          \/ /\ ResponseLen(arrived) <= BufSize
             /\ reply' = [bytes |-> Reply(arrived), of |-> a, arrived |-> n]
             /\ continue' = (ResponseLen(arrived) > 1)
             /\ at' = IF continue' THEN "answer" ELSE "logged"
  /\ capture' = 1
  /\ UNCHANGED <<line, step, sessionVars, sent>>

-----------------------------------------------------------------------------
(* One turn of the loop of findSessionVars.  The macros of the pattern are *)
(* replaced by text that matches itself; an empty pattern is passed over.  *)
Capture ==
  /\ at = "answer"
  /\ capture <= Len(config.vars[command])
  /\ LET v == config.vars[command][capture]
         pattern == RunnerMacros(command, line, sessionVars, v.pattern)
         Kept(text) == IF IsTcp THEN SubSeq(text, 1, Min({Len(text), HexLimit})) ELSE text
     IN
       \/ /\ Dies(command, line, sessionVars)
          /\ at' = "dead"
          /\ UNCHANGED <<sessionVars, continue>>
       \/ /\ ~Dies(command, line, sessionVars)
          /\ pattern # << >>
          /\ \E text \in Captured :
               /\ IsTcp => text \in Seq(LowerHex)
               /\ sessionVars' = [x \in DOMAIN sessionVars \cup {v.name} |->
                                    IF x = v.name THEN Kept(text) ELSE sessionVars[x]]
          /\ UNCHANGED <<at, continue>>
       \/ /\ ~Dies(command, line, sessionVars)
          /\ pattern # << >>
          /\ continue' = (continue /\ (MustCapture # Unset => v.name \notin MustCapture))
          /\ UNCHANGED <<at, sessionVars>>
       \/ /\ ~Dies(command, line, sessionVars)
          /\ pattern = << >>
          /\ UNCHANGED <<at, sessionVars, continue>>
  /\ capture' = capture + 1
  /\ UNCHANGED <<line, step, sent, reply>>

Logged ==
  /\ at = "answer"
  /\ capture > Len(config.vars[command])
  /\ at' = "logged"
  /\ UNCHANGED <<line, step, sessionVars, sent, reply, capture, continue>>

(* A command with MsecRepeat may be due again.                             *)
NextStep == {step + 1} \cup {s \in {step} : FieldInteger(config.repeat, command) > 0}

BugGoesOn(s) == continue   \* the end of the queue is forgotten

GoesOn(s) == continue /\ s <= Len(commandQueue) /\ commandQueue[s] # "none"

(* The next request of the session, or its end with a row in its log.      *)
Proceed ==
  /\ at = "logged"
  /\ \E s \in NextStep :
       \/ /\ GoesOn(s)
          /\ at' = "due"
          /\ step' = s
          /\ UNCHANGED <<line, sessionVars, capture, continue>>
       \/ /\ ~GoesOn(s)
          /\ config.log # << >> /\ Dies(SessionLog, line, sessionVars)
          /\ at' = "dead"
          /\ UNCHANGED <<line, step, sessionVars, capture, continue>>
       \/ /\ ~GoesOn(s)
          /\ config.log = << >> \/ ~Dies(SessionLog, line, sessionVars)
          /\ at' = "range"
          /\ EndSession
  /\ sent' = None /\ reply' = NoReply

ClientMoves ==
  \/ TakeLine \/ CutShort
  \/ HttpRequest \/ FunctionFails \/ NoResponse \/ Response
  \/ TcpRequest \/ TcpFails \/ TcpReply
  \/ Capture \/ Logged \/ Proceed

RequestsNext ==
  \/ Prepare /\ UNCHANGED requestVars
  \/ ClientMoves /\ UNCHANGED <<vars, macroVars>>
  \/ Rest /\ UNCHANGED <<macroVars, requestVars>>

allVars == <<vars, macroVars, requestVars>>

RequestsSpec == RequestsInit /\ [][RequestsNext]_allVars

FairRequestsSpec == RequestsSpec /\ WF_allVars(Prepare /\ UNCHANGED requestVars)

-----------------------------------------------------------------------------
(* The macros the ini file mentions in the texts of a command.             *)
Mentioned(c) ==
  LET texts == {Text(s, c) : s \in {"ReqBody", "ReqUrl", "EncryptIv", "EncryptKey"}}
                 \cup {config.vars[c][i].pattern : i \in DOMAIN config.vars[c]}
                 \cup {HeaderTexts(c)[i] : i \in DOMAIN HeaderTexts(c)}
  IN {m \in UNION {ToSet(t) : t \in texts} : IsMacro(m)}

InputMentions(d, c) == {m \in ToSet(Text(Input[d], c)) : IsMacro(m)}

(* What a macro means ("an env var macro like {$SECRET}", {%UNIXTIME}),    *)
(* and a text: every macro it mentions stands for its value.               *)
Meant(macros, digest) ==
  [m \in macros |-> Cut(
     CASE m.kind \in Digest            -> digest[m.kind]
       [] m.kind = "env"               -> IF m.id \in DOMAIN Env THEN Env[m.id] ELSE << >>
       [] m.kind = "var" /\ IsTime(m)  -> <<Opaque("now", <<Uncut(m)>>)>>
       [] OTHER                        -> Lookup(m, timeMacros, line, sessionVars), m.cut)]

MeantDigests(c, n, below) ==
  [d \in Digest |->
     IF n = 0 THEN <<Dead>>
     ELSE Encode(d, AtOnce(Text(Input[d], c), Meant(InputMentions(d, c), below)))]

Meaning(c) ==
  LET deep == Cardinality(Digest)
      digest[n \in 0 .. deep] == MeantDigests(c, n, digest[n - 1])
  IN Meant(Mentioned(c), digest[deep])

(* No value holds a macro that is replaced after it.                       *)
InOrder(macros, value) ==
  \A i, j \in DOMAIN macros : i < j => ~Contains(value[macros[i]], macros[j])

(* Macros are replaced one after the other, yet a request says what the    *)
(* ini file means: every macro of the command's texts stands for its       *)
(* value, and the text of a macro in a value is left alone -- as long as   *)
(* no value holds a macro that comes after its own, no name of the         *)
(* environment begins like that of a time, PKSInput has no time of its     *)
(* own, and a header has one colon.  (A header of default or a             *)
(* ReqContentType has only the macros replaced that the command mentions   *)
(* elsewhere.)                                                             *)
SentAsMeant ==
  at = "sent" /\ ~IsTcp =>
    LET value == Values(Tables(command), line, sessionVars)
        ordered == /\ InOrder(commandMacros[command], value)
                   /\ \A d \in Digest : InOrder(inputMacros[d][command], value)
        clear == \A m \in Mentioned(command) \cup UNION {InputMentions(d, command) : d \in Digest} :
                   IsTime(m) => m.kind # "env"
        timed == \A m \in InputMentions("pks", command) : IsTime(m) => Uncut(m) \in timeMacros
        whole == {f \in HttpFields : FirstPart(f, HttpText(f)) = HttpText(f)}
    IN ordered /\ clear /\ timed =>
         \A f \in whole : sent[f] = AtOnce(HttpText(f), Meaning(command))

(* A body or URL that is a macro of the environment ("an env var macro     *)
(* like {$SECRET}") is sent as what the environment has by that name.      *)
EnvIsSent ==
  at = "sent" /\ ~IsTcp =>
    \A f \in {"ReqBody", "ReqUrl"}, x \in DOMAIN Env :
      HttpText(f) = <<Macro("env", x, << >>)>> => sent[f] = Env[x]

(* No macro ends the process, unless a cut is longer than the value (which *)
(* may be missing), or the inputs of digests go round: each of some has    *)
(* one of them in its input.                                               *)
CutsTooMuch(m) ==
  LET length == IF m.kind \in Digest THEN DigestLen ELSE Len(Lookup(m, timeMacros, line, sessionVars))
  IN m.cut # << >> /\ ~(m.cut[1] <= m.cut[2] /\ m.cut[2] <= length)

GoesRound(c) ==
  \E S \in (SUBSET Digest) \ {{}} :
    \A d \in S : \E m \in InputMentions(d, c) : m.kind \in S

SoundNeverDies ==
  at = "dead" =>
    \/ \E m \in Mentioned(command) \cup {x \in ToSet(config.log) : IsMacro(x)}
                 \cup UNION {InputMentions(d, command) : d \in Digest} : CutsTooMuch(m)
    \/ GoesRound(command)

(* What a TCP request sends is the body, as long as the body, but for the  *)
(* bytes of the range in one place, where they are encrypted: in the range *)
(* itself, or before it if they occur there.                               *)
RangeEncrypted ==
  at = "sent" /\ IsTcp =>
    LET plain == Decode(Body)
        range == SubSeq(plain, EncryptStart, EncryptStart + EncryptCt - 1)
    IN
    /\ Len(sent["bytes"]) = Len(plain)
    /\ IF EncryptCt > 0 /\ EncryptStart > 0
       THEN \E p \in 1 .. EncryptStart :
              /\ Occurs(range, plain, p)
              /\ \A i \in 1 .. Len(plain) :
                   sent["bytes"][i] = IF i \in p .. p + EncryptCt - 1
                                      THEN Aes(range)[i - p + 1] ELSE plain[i]
       ELSE sent["bytes"] = plain

(* An answer that begins with its own length and arrives in one piece is   *)
(* handed on whole; of any other, a part that has not arrived is zeros.    *)
ReplyWhole ==
  Len(reply.bytes) > 0 =>
    /\ \A i \in 1 .. Len(reply.bytes) :
         reply.bytes[i] = IF i <= reply.arrived THEN reply.of[i] ELSE 0
    /\ reply.arrived = Len(reply.of) /\ Len(reply.of) > 1
         /\ Len(reply.of) = reply.of[1] * Radix + reply.of[2]
       => reply.bytes = reply.of

RequestsTypeOK ==
  /\ at \in {"range", "due", "sent", "answer", "logged", "dead", "exit", "overrun"}
  /\ at # "range" => pc = "ready"
  /\ pc = "ready" => step \in 1 .. Len(commandQueue)
  /\ line \in Line \cup {None}
  /\ reply.arrived \in 0 .. BufSize
  /\ reply.of \in Answer \cup {<< >>}
  /\ capture \in Nat \ {0}
  /\ continue \in BOOLEAN
=============================================================================

------------------------------- MODULE Macros -------------------------------
(***************************************************************************)
(* Macros (macro.go): the tables NewRunner makes of the texts of the ini   *)
(* file, and what RunnerMacros puts in the place of the macros.            *)
(***************************************************************************)
EXTENDS Commands, Texts

CONSTANTS
  Env,        \* the environment: a text for each name
  TimeName,   \* names that begin with TIME or UNIXTIME
  BadTime     \* those of them that parseTimeModifier refuses

SessionLog == "\nSessionLog"   \* stands for no command in the tables

Key == Name \cup {SessionLog}

(* The settings that are texts.                                            *)
Setting ==
  {"ReqBody", "ReqUrl", "ReqContentType", "EncryptIv", "EncryptKey"} \cup {Input[d] : d \in Digest}

(* Besides what Commands says: text has the settings that are texts;       *)
(* headers and vars are lists (ReqHeaders, SessionVar); log is SessionLog. *)
ASSUME MacrosAssumption ==
  /\ SessionLog \notin Name
  /\ BadTime \subseteq TimeName
  /\ \A x \in DOMAIN Env : IsText(Env[x])
  /\ \A f \in Config :
       /\ \A s \in Setting, c \in Section : f.text[s][c] = Unset \/ IsTemplate(f.text[s][c])
       /\ \A c \in Section :
            /\ IsList(f.headers[c])
            /\ \A h \in ToSet(f.headers[c]) : h.text = Unset \/ IsTemplate(h.text)
            /\ IsList(f.vars[c])
            /\ \A v \in ToSet(f.vars[c]) : IsTemplate(v.pattern)
       /\ IsTemplate(f.log)

VARIABLES
  commandMacros,  \* CommandMacros: for each key its macros, in order
  inputMacros,    \* PksMacros, Md5Macros and Base64Macros
  timeMacros      \* the keys of PrintTimeMacros and UnixtimeMacros

macroVars == <<commandMacros, inputMacros, timeMacros>>

MacrosInit ==
  /\ commandMacros = [k \in Key |-> << >>]
  /\ inputMacros = [d \in Digest |-> [k \in Key |-> << >>]]
  /\ timeMacros = {}

-----------------------------------------------------------------------------
(* FieldString of a text; a missing one is empty.                          *)
Text(setting, command) ==
  LET t == FieldString(config.text[setting], command) IN IF t = Unset THEN << >> ELSE t

(* InitMacros for each text, addCommandMacro and its like for each macro.  *)
AddMacros(macros, texts) ==
  Distinct(macros \o Join([i \in DOMAIN texts |-> Found(texts[i])], Len(texts)))

(* text is Unset in a header without a colon.                              *)
HeaderTexts(command) ==
  [i \in DOMAIN config.headers[command] |->
     LET t == config.headers[command][i].text IN IF t = Unset THEN << >> ELSE t]

BugFields(command) ==   \* ReqUrl is forgotten
  <<Text("ReqBody", command), Text("EncryptIv", command), Text("EncryptKey", command)>>
    \o [i \in DOMAIN config.vars[command] |-> config.vars[command][i].pattern]
    \o HeaderTexts(command)

(* The texts NewRunner passes to InitMacros for a command, in its order.   *)
Fields(command) ==
  <<Text("ReqBody", command), Text("ReqUrl", command),
    Text("EncryptIv", command), Text("EncryptKey", command)>>
    \o [i \in DOMAIN config.vars[command] |-> config.vars[command][i].pattern]
    \o HeaderTexts(command)

(* The loop that checks the queue fills the tables as it goes; the table   *)
(* of a digest is made anew, and only if there is an input.                *)
Register ==
  /\ CheckCommand
  /\ LET command == commandQueue[checked + 1] IN
       \/ /\ checked' = checked + 1
          /\ commandMacros' =
               [commandMacros EXCEPT ![command] = AddMacros(@, Fields(command))]
          /\ inputMacros' = [d \in Digest |->
               LET text == Text(Input[d], command) IN
                 IF text = << >> THEN inputMacros[d]
                 ELSE [inputMacros[d] EXCEPT ![command] = AddMacros(<< >>, <<text>>)]]
       \/ checked' = checked /\ UNCHANGED <<commandMacros, inputMacros>>
  /\ UNCHANGED timeMacros

(* The prefix is looked for after two characters, {% or {$.                *)
IsTime(m) == m.kind \in {"env", "var"} /\ m.id \in TimeName

(* parseTimeModifier takes a cut for a modifier it does not know.          *)
Unreadable(m) == m.id \in BadTime \/ m.cut # << >>

(* The log's macros, then the times of all tables but PksMacros.           *)
RegisterTimes ==
  LET tables == [commandMacros EXCEPT ![SessionLog] = AddMacros(@, <<config.log>>)]
      scanned == UNION ({ToSet(tables[k]) : k \in Key}
                   \cup {ToSet(inputMacros[d][k]) : d \in Digest \ {"pks"}, k \in Key})
      times == {m \in scanned : IsTime(m)}
  IN
  /\ \/ /\ \E m \in times : Unreadable(m)
        /\ BadTimeMacro
        /\ UNCHANGED timeMacros
     \/ /\ \A m \in times : ~Unreadable(m)
        /\ InitRampUp
        /\ timeMacros' = times
  /\ commandMacros' = tables
  /\ UNCHANGED inputMacros

(* NewRunner with its tables.                                              *)
Prepare ==
  \/ /\ UseSequence \/ StartChain \/ Follow \/ EndChain \/ SetPostSessionDelay
     /\ UNCHANGED macroVars
  \/ Register
  \/ RegisterTimes

-----------------------------------------------------------------------------
InputText(d, key) == IF key = SessionLog THEN << >> ELSE Text(Input[d], key)

BugInputMacros(d, key) ==   \* the macros of the command in place of the input's
  commandMacros[key]

InputMacros(d, key) == inputMacros[d][key]

(* What the tables say about a command, or about SessionLog.               *)
Tables(key) ==
  [macros |-> commandMacros[key],
   inputMacros |-> [d \in Digest |-> InputMacros(d, key)],
   inputText |-> [d \in Digest |-> InputText(d, key)],
   times |-> timeMacros]

(* _runnerMacro but for digests: a time, whatever its sigil, comes first.  *)
(* line is the input line, a text for each index of ARGS it has; svars are *)
(* the session variables that have a value.                                *)
Lookup(m, times, line, svars) ==
  CASE Uncut(m) \in times                                    -> <<Opaque("now", <<Uncut(m)>>)>>
    [] m.kind = "env" /\ m.id \in DOMAIN Env
         /\ Uncut(m) \notin times                            -> Env[m.id]
    [] m.kind = "args" /\ m.id \in DOMAIN line               -> line[m.id]
    [] m.kind = "var" /\ m.id \in DOMAIN svars
         /\ Uncut(m) \notin times                            -> svars[m.id]
    [] OTHER                                                 -> << >>

(* runnerMacro: a digest evaluates the macros of its input, which may be   *)
(* digests.  Three of them nest no deeper than three, unless they go round *)
(* and the stack overflows.                                                *)
AllMacros(t) == ToSet(t.macros) \cup UNION {ToSet(t.inputMacros[d]) : d \in Digest}

Level(t, line, svars, n, below) ==
  [m \in AllMacros(t) |-> Cut(
     CASE m.kind \in Digest /\ n = 0 -> <<Dead>>
       [] m.kind \in Digest /\ n > 0 ->
            Encode(m.kind, Expand(t.inputText[m.kind], t.inputMacros[m.kind], below))
       [] OTHER -> Lookup(m, t.times, line, svars), m.cut)]

Values(t, line, svars) ==
  LET deep == Cardinality(Digest)
      value[n \in 0 .. deep] == Level(t, line, svars, n, value[n - 1])
  IN value[deep]

Replace(t, line, svars, field) == Expand(field, t.macros, Values(t, line, svars))

RunnerMacros(key, line, svars, field) == Replace(Tables(key), line, svars, field)

Dies(key, line, svars) == RunnerMacros(key, line, svars, << >>) = <<Dead>>
=============================================================================

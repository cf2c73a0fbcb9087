------------------------------ MODULE Commands ------------------------------
(***************************************************************************)
(* From the ini file to a runner (runner.go, NewRunner, and config.go):    *)
(* main builds the command queue from Sequence or by following DoCall,     *)
(* checks every command in it, and works out the delays between sessions   *)
(* and between the clients' starts.  It runs before there are clients.     *)
(* The text of the file is not modelled; a setting is what Atoi and the    *)
(* empty-string test make of it.                                           *)
(***************************************************************************)
EXTENDS SessionTime, FiniteSets

CONSTANTS
  Name,      \* names a command may have, "_start" and "none" among them
  Unset,     \* a setting that is missing or empty
  Config,    \* the ini files considered
  Clients,   \* flag -c
  RampUp,    \* flag -rampUp, or -1
  MaxQueue   \* bound: length at which the queue stops growing

Section == Name \cup {"default"}

(* sequence: the names in Sequence, trimmed; << >> when it is empty.       *)
(* defined: the sections [command "..."] of the file.  malformed: commands *)
(* with a SessionVar of one word.                                          *)
ASSUME CommandsAssumption ==
  /\ "_start" \in Name
  /\ Unset \notin Int
  /\ Clients \in Nat \ {0}
  /\ RampUp \in Nat \cup {-1}
  /\ MaxQueue \in Nat \ {0}
  /\ \A f \in Config :
       /\ f.sequence \in Seq(Name)
       /\ f.defined \subseteq Section
       /\ f.call \in [Name -> Name \cup {""}]
       /\ f.malformed \subseteq Name
       /\ DOMAIN f.delay = Section /\ DOMAIN f.repeat = Section

VARIABLES
  config,            \* runner.config
  pc,                \* where NewRunner is, or how it ended
  commandQueue,      \* runner.commandQueue
  cmd,               \* the DoCall to be followed next
  checked,           \* commands of the queue that passed the checks
  postSessionDelay,  \* runner.postSessionDelay
  rampUpDelay        \* runner.rampUpDelay

vars == <<config, pc, commandQueue, cmd, checked, postSessionDelay, rampUpDelay>>

Init ==
  /\ config \in Config
  /\ pc = "queue"
  /\ commandQueue = << >>
  /\ cmd = ""
  /\ checked = 0
  /\ postSessionDelay = 0
  /\ rampUpDelay = 0

-----------------------------------------------------------------------------
(* A setting of the command's own section, or else of "default".           *)
FieldString(setting, command) ==
  CASE command \in config.defined /\ setting[command] # Unset -> setting[command]
    [] (command \notin config.defined \/ setting[command] = Unset)
         /\ "default" \in config.defined                      -> setting["default"]
    [] OTHER                                                  -> Unset

BugFieldInteger(setting, command) ==   \* the error of Atoi is dropped
  FieldString(setting, command)

(* A text that is no integer counts as 0.                                  *)
FieldInteger(setting, command) ==
  LET str == FieldString(setting, command) IN IF str \in Int THEN str ELSE 0

(* Sequence is given: the queue is its names.                              *)
UseSequence ==
  /\ pc = "queue"
  /\ config.sequence # << >>
  /\ commandQueue' = config.sequence
  /\ pc' = "delay"
  /\ UNCHANGED <<config, cmd, checked, postSessionDelay, rampUpDelay>>

(* config.Command[command].DoCall; a command without a section is a nil    *)
(* pointer.                                                                *)
LookUpCall(command) ==
  \/ /\ command \in config.defined
     /\ cmd' = config.call[command]
     /\ pc' = "chain"
  \/ /\ command \notin config.defined
     /\ pc' = "panic"
     /\ UNCHANGED cmd

(* No Sequence: the queue is _start and the commands DoCall leads to.      *)
StartChain ==
  /\ pc = "queue"
  /\ config.sequence = << >>
  /\ commandQueue' = <<"_start">>
  /\ LookUpCall("_start")
  /\ UNCHANGED <<config, checked, postSessionDelay, rampUpDelay>>

BugEnds(command) == command = ""   \* does not know "none"

BugEndsEarly(command) ==   \* a guard against cycles that comes too late
  command \in {"", "none"} \/ Len(commandQueue) > Cardinality(config.defined)

Ends(command) == command \in {"", "none"}

Follow ==
  /\ pc = "chain"
  /\ ~Ends(cmd)
  /\ Len(commandQueue) < MaxQueue
  /\ commandQueue' = Append(commandQueue, cmd)
  /\ LookUpCall(cmd)
  /\ UNCHANGED <<config, checked, postSessionDelay, rampUpDelay>>

EndChain ==
  /\ pc = "chain"
  /\ Ends(cmd)
  /\ pc' = "delay"
  /\ UNCHANGED <<config, commandQueue, cmd, checked, postSessionDelay, rampUpDelay>>

(* The delay of the last command comes before the next session.            *)
SetPostSessionDelay ==
  /\ pc = "delay"
  /\ postSessionDelay' = FieldInteger(config.delay, commandQueue[Len(commandQueue)])
  /\ pc' = "check"
  /\ UNCHANGED <<config, commandQueue, cmd, checked, rampUpDelay>>

(* The loop that prepares the macros of each command.                      *)
CheckCommand ==
  /\ pc = "check"
  /\ checked < Len(commandQueue)
  /\ LET command == commandQueue[checked + 1] IN
       \/ /\ command \notin config.defined
          /\ pc' = "fatal"
          /\ UNCHANGED checked
       \/ /\ command \in config.defined \cap config.malformed
          /\ pc' = "panic"
          /\ UNCHANGED checked
       \/ /\ command \in config.defined \ config.malformed
          /\ checked' = checked + 1
          /\ UNCHANGED pc
  /\ UNCHANGED <<config, commandQueue, cmd, postSessionDelay, rampUpDelay>>

Estimate ==
  EstimateSessionTime([k \in DOMAIN commandQueue |-> FieldInteger(config.delay, commandQueue[k])],
                      [k \in DOMAIN commandQueue |-> FieldInteger(config.repeat, commandQueue[k])])

(* The division of Go, which drops the remainder.                          *)
Quotient(a, n) == IF a >= 0 THEN a \div n ELSE -((-a) \div n)

BugInitRampUp ==   \* the last command is not checked, and one client less is counted
  /\ pc = "check"
  /\ checked + 1 >= Len(commandQueue)
  /\ rampUpDelay' = IF RampUp = -1 THEN Quotient(Estimate, Clients) ELSE RampUp
  /\ pc' = "ready"
  /\ UNCHANGED <<config, commandQueue, cmd, checked, postSessionDelay>>

BugInitRampUpGaps ==   \* divides by the gaps between the clients, rounding up
  /\ pc = "check"
  /\ checked = Len(commandQueue)
  /\ rampUpDelay' = IF RampUp = -1 THEN 1 + Quotient(Estimate, Clients - 1) ELSE RampUp
  /\ pc' = "ready"
  /\ UNCHANGED <<config, commandQueue, cmd, checked, postSessionDelay>>

InitRampUp ==
  /\ pc = "check"
  /\ checked = Len(commandQueue)
  /\ rampUpDelay' = IF RampUp = -1 THEN Quotient(Estimate, Clients) ELSE RampUp
  /\ pc' = "ready"
  /\ UNCHANGED <<config, commandQueue, cmd, checked, postSessionDelay>>

(* A macro whose name begins with TIME or UNIXTIME cannot be read; Macros  *)
(* says when that is.                                                      *)
BadTimeMacro ==
  /\ pc = "check"
  /\ checked = Len(commandQueue)
  /\ pc' = "fatal"
  /\ UNCHANGED <<config, commandQueue, cmd, checked, postSessionDelay, rampUpDelay>>

Settled == pc \in {"ready", "fatal", "panic"}

(* NewRunner is done, or follows DoCall for ever.                          *)
Rest ==
  /\ \/ Settled
     \/ pc = "chain" /\ ~Ends(cmd) /\ Len(commandQueue) = MaxQueue
  /\ UNCHANGED vars

Next ==
  \/ UseSequence \/ StartChain \/ Follow \/ EndChain
  \/ SetPostSessionDelay \/ CheckCommand \/ BadTimeMacro \/ InitRampUp
  \/ Rest

Spec == Init /\ [][Next]_vars

FairSpec == Spec /\ WF_vars(Next)

-----------------------------------------------------------------------------
TypeOK ==
  /\ pc \in {"queue", "chain", "delay", "check", "ready", "fatal", "panic"}
  /\ commandQueue \in Seq(Name)
  /\ cmd \in Name \cup {""}
  /\ checked \in 0 .. Len(commandQueue)
  /\ postSessionDelay \in Int

(* The clients of a runner that is ready never meet a command without a    *)
(* section (DoReq's "is not defined in the .ini file") nor a SessionVar    *)
(* without its second word (findSessionVars takes s[1]).                   *)
ReadyIsRunnable ==
  pc = "ready" =>
    /\ commandQueue # << >>
    /\ \A k \in DOMAIN commandQueue :
         commandQueue[k] \in config.defined \ config.malformed

(* A queue made from DoCall starts with _start, goes where DoCall leads    *)
(* until it leads nowhere, and holds no command twice.                     *)
ChainVisitsOnce ==
  pc = "ready" /\ config.sequence = << >> =>
    LET n == Len(commandQueue) IN
    /\ commandQueue[1] = "_start"
    /\ \A k \in 1 .. n - 1 : commandQueue[k + 1] = config.call[commandQueue[k]]
    /\ config.call[commandQueue[n]] \in {"", "none"}
    /\ \A j, k \in 1 .. n : commandQueue[j] = commandQueue[k] => j = k

(* The clients of an automatic ramp-up start within one estimated session, *)
(* and as far apart as that allows; at once, if negative delays leave the  *)
(* estimate below 0.                                                       *)
RampUpFits ==
  pc = "ready" /\ RampUp = -1 =>
    /\ rampUpDelay * (Clients - 1) <= IF Estimate > 0 THEN Estimate ELSE 0
    /\ (rampUpDelay + 1) * Clients > Estimate

(* NewRunner comes to an end, unless DoCall leads from _start round and    *)
(* round: every command of some set leads to another one of it.            *)
Endless ==
  /\ config.sequence = << >>
  /\ \E S \in SUBSET ((config.defined \cap Name) \ {"none"}) :
       "_start" \in S /\ \A c \in S : config.call[c] \in S

StartupEnds == (~Endless) ~> Settled
=============================================================================

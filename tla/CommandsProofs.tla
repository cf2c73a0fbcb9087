--------------------------- MODULE CommandsProofs ---------------------------
(***************************************************************************)
(* What NewRunner makes of any ini file: a queue of commands that can be   *)
(* run, and none of them twice when it comes from DoCall.                  *)
(***************************************************************************)
EXTENDS Commands, OperatorProofs

(* The sequence q goes from _start along call, and q that has come to a    *)
(* command twice goes round from there.                                    *)
Walk(q, call) ==
  /\ Len(q) > 0
  /\ q[1] = "_start"
  /\ \A k \in 1 .. Len(q) - 1 : q[k + 1] = call[q[k]]
  /\ \A k \in 2 .. Len(q) : ~Ends(q[k])

Round(q) ==
  \A j, k \in 1 .. Len(q) :
    j < k /\ q[j] = q[k] => q[j + (Len(q) - k)] = q[Len(q)]

LEMMA WalkGrows ==
  ASSUME NEW q \in Seq(Name), NEW call, NEW c \in Name,
         Walk(q, call), c = call[q[Len(q)]], ~Ends(c)
  PROVE  Walk(Append(q, c), call)
<1> DEFINE r == Append(q, c)
<1>1. /\ Len(q) \in Nat /\ Len(q) > 0 /\ Len(r) = Len(q) + 1 /\ r[Len(q) + 1] = c
      /\ \A k \in 1 .. Len(q) : r[k] = q[k]
  BY DEF Walk
<1>2. ASSUME NEW k \in 1 .. Len(q) PROVE r[k + 1] = call[r[k]]
  <2>1. CASE k = Len(q)
    BY <1>1, <2>1
  <2>2. CASE k # Len(q)
    <3>1. k \in 1 .. Len(q) - 1 /\ k + 1 \in 1 .. Len(q)
      BY <1>1, <2>2
    <3> HIDE DEF r
    <3> QED  BY <1>1, <3>1 DEF Walk
  <2> QED  BY <2>1, <2>2
<1>3. ASSUME NEW k \in 2 .. Len(q) + 1 PROVE ~Ends(r[k])
  <2> HIDE DEF r
  <2>1. CASE k = Len(q) + 1
    BY <1>1, <2>1
  <2>2. CASE k # Len(q) + 1
    BY <1>1, <2>2 DEF Walk
  <2> QED  BY <2>1, <2>2
<1> HIDE DEF r
<1>4. Walk(r, call)
  BY <1>1, <1>2, <1>3 DEF Walk
<1> QED  BY <1>4 DEF r

LEMMA RoundGrows ==
  ASSUME NEW q \in Seq(Name), NEW call, NEW c \in Name,
         Walk(q, call), c = call[q[Len(q)]], Round(q)
  PROVE  Round(Append(q, c))
<1> DEFINE r == Append(q, c)
           n == Len(q)
<1>1. /\ n \in Nat /\ n > 0 /\ Len(r) = n + 1 /\ r[n + 1] = c
      /\ \A k \in 1 .. n : r[k] = q[k]
  BY DEF Walk
<1> HIDE DEF r
<1>2. ASSUME NEW j \in 1 .. n + 1, NEW k \in 1 .. n + 1, j < k, r[j] = r[k]
      PROVE  r[j + ((n + 1) - k)] = r[n + 1]
  <2>1. CASE k = n + 1
    BY <1>1, <1>2, <2>1
  <2>2. CASE k # n + 1
    <3>1. k \in 1 .. n /\ j \in 1 .. n - 1 /\ q[j] = q[k]
      BY <1>1, <1>2, <2>2
    <3>2. q[j + (n - k)] = q[n]
      BY <1>2, <3>1 DEF Round
    <3>3. j + (n - k) \in 1 .. n - 1 /\ (j + (n - k)) + 1 \in 1 .. n
          /\ (j + (n - k)) + 1 = j + ((n + 1) - k)
      BY <1>1, <1>2, <3>1
    <3>4. q[(j + (n - k)) + 1] = c
      BY <3>2, <3>3 DEF Walk
    <3> QED  BY <1>1, <3>3, <3>4
  <2> QED  BY <2>1, <2>2
<1>3. Round(r)
  BY <1>1, <1>2 DEF Round
<1> QED  BY <1>3 DEF r

(* A walk that ends goes nowhere twice.                                    *)
LEMMA FiniteWalkIsSimple ==
  ASSUME NEW q \in Seq(Name), NEW call,
         Walk(q, call), Round(q), Ends(call[q[Len(q)]]),
         NEW j \in 1 .. Len(q), NEW k \in 1 .. Len(q), q[j] = q[k], j < k
  PROVE  FALSE
<1>1. Len(q) \in Nat
  OBVIOUS
<1>2. j + (Len(q) - k) \in 1 .. Len(q) - 1 /\ (j + (Len(q) - k)) + 1 \in 2 .. Len(q)
  BY <1>1
<1>3. q[j + (Len(q) - k)] = q[Len(q)]
  BY DEF Round
<1>4. q[(j + (Len(q) - k)) + 1] = call[q[Len(q)]]
  BY <1>2, <1>3 DEF Walk
<1> QED  BY <1>2, <1>4 DEF Walk

-----------------------------------------------------------------------------
(* The queue so far is a walk along DoCall.                                *)
Chained == config.sequence = << >> /\ pc \notin {"queue", "panic"}

ChainInv ==
  Chained =>
    /\ Walk(commandQueue, config.call)
    /\ Round(commandQueue)
    /\ pc = "chain" => cmd = config.call[commandQueue[Len(commandQueue)]]
    /\ pc # "chain" => Ends(config.call[commandQueue[Len(commandQueue)]])

(* What has been checked can be run.                                       *)
CheckedInv ==
  /\ pc \in {"queue", "chain", "delay"} => checked = 0
  /\ pc \in {"delay", "check", "ready"} => Len(commandQueue) > 0
  /\ \A k \in 1 .. checked : commandQueue[k] \in config.defined \ config.malformed
  /\ pc = "ready" => checked = Len(commandQueue)
  /\ pc = "chain" => config.sequence = << >>

Inv == config \in Config /\ TypeOK /\ ChainInv /\ CheckedInv

LEMMA ConfigTypes ==
  ASSUME config \in Config
  PROVE  /\ config.sequence \in Seq(Name)
         /\ \A c \in Name : config.call[c] \in Name \cup {""}
         /\ "_start" \in Name
BY CommandsAssumption

(* A delay or a repeat is an integer, whatever the setting.                *)
LEMMA IntegersAreInt ==
  ASSUME NEW c, NEW g PROVE FieldInteger(g, c) \in Int
BY DEF FieldInteger

LEMMA InvInit == Init => Inv
<1> SUFFICES ASSUME Init PROVE Inv
  OBVIOUS
<1>1. /\ commandQueue \in Seq(Name) /\ Len(commandQueue) = 0
      /\ checked = 0
  BY EmptySeq DEF Init
<1>2. TypeOK
  <2>1. checked \in 0 .. Len(commandQueue)
    BY <1>1
  <2>2. postSessionDelay \in Int
    <3>1. postSessionDelay = 0
      BY DEF Init
    <3> QED  BY <3>1
  <2> QED  BY <1>1, <2>1, <2>2 DEF Init, TypeOK
<1>3. ChainInv
  BY DEF Init, ChainInv, Chained
<1>4. CheckedInv
  <2>1. \A k \in 1 .. checked : commandQueue[k] \in config.defined \ config.malformed
    BY <1>1
  <2> QED  BY <2>1 DEF Init, CheckedInv
<1>5. config \in Config
  BY DEF Init
<1> QED  BY <1>2, <1>3, <1>4, <1>5 DEF Inv

LEMMA UseSequenceKeepsInv ==
  ASSUME Inv, UseSequence PROVE Inv'
<1>1. /\ config' = config /\ cmd' = cmd /\ checked' = 0 /\ checked = 0
      /\ postSessionDelay' = postSessionDelay
      /\ pc' = "delay" /\ commandQueue' = config.sequence /\ config.sequence # << >>
  BY DEF UseSequence, Inv, CheckedInv
<1>2. config \in Config
  BY DEF Inv, TypeOK
<1>3. config.sequence \in Seq(Name) /\ Len(config.sequence) \in Nat \ {0}
  BY <1>1, <1>2, ConfigTypes, EmptySeq
<1>4. TypeOK'
  <2>1. 0 \in 0 .. Len(config.sequence)
    BY <1>3
  <2>2. checked' \in 0 .. Len(commandQueue')
    BY <1>1, <2>1
  <2> QED  BY <1>1, <1>3, <2>2 DEF Inv, TypeOK
<1>5. ChainInv'
  BY <1>1 DEF ChainInv, Chained
<1>6. CheckedInv'
  BY <1>1, <1>3 DEF CheckedInv
<1> QED  BY <1>1, <1>2, <1>4, <1>5, <1>6 DEF Inv

LEMMA StartChainKeepsInv ==
  ASSUME Inv, StartChain PROVE Inv'
<1>1. /\ config' = config /\ checked' = 0 /\ checked = 0
      /\ postSessionDelay' = postSessionDelay
      /\ commandQueue' = <<"_start">> /\ config.sequence = << >>
      /\ \/ cmd' = config.call["_start"] /\ pc' = "chain"
         \/ cmd' = cmd /\ pc' = "panic"
  BY DEF StartChain, LookUpCall, Inv, CheckedInv
<1>2. config \in Config /\ "_start" \in Name
  BY ConfigTypes DEF Inv, TypeOK
<1>3. /\ commandQueue' \in Seq(Name) /\ Len(commandQueue') = 1
      /\ commandQueue'[1] = "_start"
  BY <1>1, <1>2
<1>4. cmd' \in Name \cup {""}
  BY <1>1, <1>2, ConfigTypes DEF Inv, TypeOK
<1>5. TypeOK'
  <2>1. checked' \in 0 .. Len(commandQueue')
    BY <1>1, <1>3
  <2> QED  BY <1>1, <1>3, <1>4, <2>1 DEF Inv, TypeOK
<1>6. CheckedInv'
  BY <1>1, <1>3 DEF CheckedInv
<1>7. Walk(commandQueue', config'.call) /\ Round(commandQueue')
  BY <1>3 DEF Walk, Round
<1>8. ChainInv'
  BY <1>1, <1>3, <1>7 DEF ChainInv, Chained
<1> QED  BY <1>1, <1>2, <1>5, <1>6, <1>8 DEF Inv

LEMMA FollowKeepsInv ==
  ASSUME Inv, Follow PROVE Inv'
<1>1. /\ config' = config /\ checked' = 0 /\ checked = 0
      /\ postSessionDelay' = postSessionDelay
      /\ pc = "chain" /\ ~Ends(cmd) /\ cmd \in Name
      /\ commandQueue' = Append(commandQueue, cmd) /\ config.sequence = << >>
      /\ \/ cmd' = config.call[cmd] /\ pc' = "chain"
         \/ cmd' = cmd /\ pc' = "panic"
  BY DEF Follow, LookUpCall, Inv, CheckedInv, TypeOK, Ends
<1>2. config \in Config /\ commandQueue \in Seq(Name)
  BY DEF Inv, TypeOK
<1>3. /\ cmd = config.call[commandQueue[Len(commandQueue)]]
      /\ Walk(commandQueue, config.call) /\ Round(commandQueue)
  BY <1>1 DEF Inv, ChainInv, Chained
<1>4. /\ commandQueue' \in Seq(Name)
      /\ Len(commandQueue') \in Nat
      /\ Len(commandQueue') = Len(commandQueue) + 1
  BY <1>1, <1>2
<1>5. commandQueue'[Len(commandQueue')] = cmd
  BY <1>1, <1>2
<1>6. cmd' \in Name \cup {""}
  BY <1>1, <1>2, ConfigTypes
<1>7. TypeOK'
  <2>1. checked' \in 0 .. Len(commandQueue')
    BY <1>1, <1>4
  <2> QED  BY <1>1, <1>2, <1>4, <1>6, <2>1 DEF Inv, TypeOK
<1>8. CheckedInv'
  BY <1>1 DEF CheckedInv
<1>9. Walk(commandQueue', config'.call) /\ Round(commandQueue')
  BY <1>1, <1>2, <1>3, WalkGrows, RoundGrows
<1>10. ChainInv'
  BY <1>1, <1>5, <1>9 DEF ChainInv, Chained
<1> QED  BY <1>1, <1>2, <1>7, <1>8, <1>10 DEF Inv

LEMMA EndChainKeepsInv ==
  ASSUME Inv, EndChain PROVE Inv'
<1>1. /\ pc = "chain" /\ pc' = "delay" /\ Ends(cmd)
      /\ UNCHANGED <<config, commandQueue, cmd, checked, postSessionDelay>>
  BY DEF EndChain
<1>2. ChainInv'
  BY <1>1 DEF Inv, CheckedInv, ChainInv, Chained
<1>3. Len(commandQueue) > 0
  BY <1>1 DEF Inv, CheckedInv, ChainInv, Chained, Walk
<1> QED  BY <1>1, <1>2, <1>3 DEF Inv, TypeOK, CheckedInv

(* Steps that leave the queue and the chain alone.                         *)
LEMMA ChainInvStays ==
  ASSUME ChainInv, UNCHANGED <<config, commandQueue, cmd>>,
         pc \notin {"queue", "chain", "panic"}, pc' \notin {"queue", "chain"}
  PROVE  ChainInv'
BY DEF ChainInv, Chained

LEMMA SetDelayKeepsInv ==
  ASSUME Inv, SetPostSessionDelay PROVE Inv'
<1>1. /\ pc = "delay" /\ pc' = "check"
      /\ UNCHANGED <<config, commandQueue, cmd, checked>>
      /\ postSessionDelay' = FieldInteger(config.delay, commandQueue[Len(commandQueue)])
  BY DEF SetPostSessionDelay
<1>2. postSessionDelay' \in Int
  BY <1>1, IntegersAreInt
<1> QED
  BY <1>1, <1>2, ChainInvStays DEF Inv, TypeOK, CheckedInv

LEMMA CheckKeepsInv ==
  ASSUME Inv, CheckCommand PROVE Inv'
<1>1. /\ pc = "check" /\ checked < Len(commandQueue)
      /\ UNCHANGED <<config, commandQueue, cmd, postSessionDelay>>
      /\ \/ pc' \in {"fatal", "panic"} /\ checked' = checked
         \/ /\ pc' = pc /\ checked' = checked + 1
            /\ commandQueue[checked + 1] \in config.defined \ config.malformed
  BY DEF CheckCommand
<1>2. commandQueue \in Seq(Name) /\ checked \in 0 .. Len(commandQueue)
  BY DEF Inv, TypeOK
<1>3. TypeOK'
  <2>1. Len(commandQueue) \in Nat
    BY <1>2
  <2>2. checked' \in 0 .. Len(commandQueue)
    BY <1>1, <1>2, <2>1
  <2>3. checked' \in 0 .. Len(commandQueue')
    BY <1>1, <2>2
  <2> QED  BY <1>1, <2>3 DEF Inv, TypeOK
<1>4. CheckedInv'
  BY <1>1, <1>2 DEF Inv, CheckedInv
<1>5. ChainInv'
  BY <1>1, ChainInvStays DEF Inv
<1> QED  BY <1>1, <1>3, <1>4, <1>5 DEF Inv

LEMMA RampUpKeepsInv ==
  ASSUME Inv, InitRampUp PROVE Inv'
<1>1. /\ pc = "check" /\ pc' = "ready" /\ checked = Len(commandQueue)
      /\ UNCHANGED <<config, commandQueue, cmd, checked, postSessionDelay>>
  BY DEF InitRampUp
<1> QED
  BY <1>1, ChainInvStays DEF Inv, TypeOK, CheckedInv

LEMMA BadTimeKeepsInv ==
  ASSUME Inv, BadTimeMacro PROVE Inv'
<1>1. /\ pc = "check" /\ pc' = "fatal"
      /\ UNCHANGED <<config, commandQueue, cmd, checked, postSessionDelay>>
  BY DEF BadTimeMacro
<1> QED
  BY <1>1, ChainInvStays DEF Inv, TypeOK, CheckedInv

LEMMA InvStep == Inv /\ [Next]_vars => Inv'
<1> SUFFICES ASSUME Inv, [Next]_vars PROVE Inv'
  OBVIOUS
<1>1. CASE UNCHANGED vars
  BY <1>1 DEF vars, Inv, TypeOK, ChainInv, CheckedInv, Chained
<1>2. CASE Rest
  BY <1>1, <1>2 DEF Rest
<1> QED
  BY <1>1, <1>2, UseSequenceKeepsInv, StartChainKeepsInv, FollowKeepsInv, EndChainKeepsInv,
     SetDelayKeepsInv, CheckKeepsInv, RampUpKeepsInv, BadTimeKeepsInv
     DEF Next

LEMMA AllInvariants == Spec => []Inv
BY InvInit, InvStep, PTL DEF Spec

-----------------------------------------------------------------------------
(* Every variable keeps its type: whatever NewRunner ends in, its queue    *)
(* holds names, and the commands checked are commands of the queue.        *)
THEOREM TypeCorrect == Spec => []TypeOK
<1>1. Inv => TypeOK
  BY DEF Inv
<1> QED  BY <1>1, AllInvariants, PTL

(* A runner that is ready holds only commands that can be run.             *)
THEOREM RunnableCorrect == Spec => []ReadyIsRunnable
<1>1. Inv => ReadyIsRunnable
  <2> SUFFICES ASSUME Inv, pc = "ready" PROVE ReadyIsRunnable
    BY DEF ReadyIsRunnable
  <2>1. /\ commandQueue \in Seq(Name) /\ checked = Len(commandQueue)
        /\ Len(commandQueue) > 0
        /\ \A k \in 1 .. checked : commandQueue[k] \in config.defined \ config.malformed
    BY DEF Inv, TypeOK, CheckedInv
  <2>2. DOMAIN commandQueue = 1 .. Len(commandQueue)
    BY <2>1, LenProperties
  <2>3. commandQueue # << >>
    BY <2>1, EmptySeq
  <2> QED  BY <2>1, <2>2, <2>3 DEF ReadyIsRunnable
<1> QED  BY <1>1, AllInvariants, PTL

(* A chain of DoCalls that NewRunner comes to the end of holds no command  *)
(* twice: a second visit would have made it go round for ever.             *)
THEOREM ChainCorrect == Spec => []ChainVisitsOnce
<1>1. ASSUME Inv, pc = "ready", config.sequence = << >>
      PROVE  ChainVisitsOnce
  <2>1. /\ commandQueue \in Seq(Name) /\ Walk(commandQueue, config.call) /\ Round(commandQueue)
        /\ Ends(config.call[commandQueue[Len(commandQueue)]])
    BY <1>1 DEF Inv, TypeOK, ChainInv, Chained
  <2>2. ASSUME NEW j \in 1 .. Len(commandQueue), NEW k \in 1 .. Len(commandQueue),
               commandQueue[j] = commandQueue[k]
        PROVE  j = k
    <3>1. ~(j < k) /\ ~(k < j)
      BY <2>1, <2>2, FiniteWalkIsSimple
    <3> QED  BY <3>1
  <2> QED  BY <2>1, <2>2 DEF ChainVisitsOnce, Walk, Ends
<1>2. Inv => ChainVisitsOnce
  BY <1>1 DEF ChainVisitsOnce
<1> QED  BY <1>2, AllInvariants, PTL

-----------------------------------------------------------------------------
(* A session is estimated to last an integer number of milliseconds.       *)
LEMMA EstimateIsInt ==
  ASSUME Inv PROVE Estimate \in Int
<1> DEFINE delay  == [k \in DOMAIN commandQueue |-> FieldInteger(config.delay, commandQueue[k])]
           repeat == [k \in DOMAIN commandQueue |-> FieldInteger(config.repeat, commandQueue[k])]
           n == Len(commandQueue)
<1>1. commandQueue \in Seq(Name)
  BY DEF Inv, TypeOK
<1>2. n \in Nat /\ DOMAIN commandQueue = 1 .. n
  BY <1>1, LenProperties
<1>3. ASSUME NEW k \in 1 .. n PROVE delay[k] \in Int /\ repeat[k] \in Int
  BY <1>2, IntegersAreInt
<1>4. delay \in Seq(Int) /\ Len(delay) = n
  <2> HIDE DEF n
  <2>1. delay \in [1 .. n -> Int]
    BY <1>2, <1>3
  <2> QED  BY <1>2, <2>1, LenProperties, IsASeq
<1>5. Estimate = EstimateSessionTime(delay, repeat)
  BY DEF Estimate
<1>6. DOMAIN delay = 1 .. n
  BY <1>2
<1> HIDE DEF delay, repeat, n
<1> DEFINE x == [k \in DOMAIN delay |-> CommandDuration(delay, repeat, k)]
<1>7. ASSUME NEW k \in 1 .. n PROVE x[k] \in Int
  BY <1>3, <1>6, CallTimeAssumption DEF CommandDuration
<1>8. Estimate = Sums(x, n)[n]
  BY <1>4, <1>5 DEF EstimateSessionTime
<1> HIDE DEF x
<1> QED  BY <1>2, <1>7, <1>8, SumsInt

(* The automatic delay is made from the estimate, and stays.               *)
RampInv == pc = "ready" /\ RampUp = -1 => rampUpDelay = Quotient(Estimate, Clients)

(* What is left out by a quotient is less than the divisor.                *)
LEMMA QuotientFits ==
  ASSUME NEW e \in Int, NEW n \in Nat \ {0}
  PROVE  LET q == Quotient(e, n) IN
           /\ q \in Int
           /\ q * (n - 1) <= IF e > 0 THEN e ELSE 0
           /\ (q + 1) * n > e
<1>1. CASE e >= 0
  <2> DEFINE q == e \div n
  <2>1. Quotient(e, n) = q
    BY <1>1 DEF Quotient
  <2>2. q \in Nat /\ q * n <= e /\ e < (q + 1) * n
    BY <1>1, Division
  <2> HIDE DEF q
  <2>3. q * (n - 1) = q * n - q
    BY <2>2
  <2>4. q * (n - 1) <= e
    BY <2>2, <2>3
  <2> QED  BY <1>1, <2>1, <2>2, <2>4
<1>2. CASE e < 0
  <2> DEFINE q == (-e) \div n
  <2>1. Quotient(e, n) = -q
    BY <1>2 DEF Quotient
  <2>2. q \in Nat /\ q * n <= -e
    <3>1. -e \in Nat
      BY <1>2
    <3> QED  BY <3>1, Division
  <2> HIDE DEF q
  <2>3. q * (n - 1) >= 0
    <3>1. \A i, j \in Nat : i * j >= 0
      OBVIOUS
    <3> QED  BY <2>2, <3>1
  <2>4. (-q) * (n - 1) = -(q * (n - 1)) /\ (-q + 1) * n = n - q * n
    BY <2>2
  <2>5. q * (n - 1) \in Int /\ q * n \in Int
    BY <2>2
  <2>6. (-q) * (n - 1) <= 0 /\ (-q + 1) * n > e
    BY <2>2, <2>3, <2>4, <2>5
  <2> QED  BY <1>2, <2>1, <2>2, <2>6
<1> QED  BY <1>1, <1>2

LEMMA SameEstimate ==
  ASSUME UNCHANGED <<config, commandQueue>> PROVE Estimate' = Estimate
<1>1. config' = config /\ commandQueue' = commandQueue
  OBVIOUS
<1> QED
  BY <1>1, SMTT(30) DEF Estimate, EstimateSessionTime, CommandDuration, Sums, FieldInteger, FieldString

LEMMA RampStep == RampInv /\ [Next]_vars => RampInv'
<1> SUFFICES ASSUME RampInv, [Next]_vars PROVE RampInv'
  OBVIOUS
<1>1. CASE UNCHANGED vars
  <2>1. UNCHANGED <<pc, rampUpDelay>> /\ Estimate' = Estimate
    BY <1>1, SameEstimate DEF vars
  <2> QED  BY <2>1 DEF RampInv
<1>2. CASE InitRampUp
  <2>1. Estimate' = Estimate
    BY <1>2, SameEstimate DEF InitRampUp
  <2>2. RampUp = -1 => rampUpDelay' = Quotient(Estimate, Clients)
    BY <1>2 DEF InitRampUp
  <2> QED  BY <2>1, <2>2 DEF RampInv
<1>3. CASE Rest
  BY <1>1, <1>3 DEF Rest
<1>4. CASE UseSequence \/ StartChain \/ Follow \/ EndChain \/ SetPostSessionDelay
             \/ CheckCommand \/ BadTimeMacro
  <2>1. pc' # "ready"
    BY <1>4 DEF UseSequence, StartChain, Follow, LookUpCall, EndChain, SetPostSessionDelay,
                CheckCommand, BadTimeMacro
  <2> QED  BY <2>1 DEF RampInv
<1> QED  BY <1>1, <1>2, <1>3, <1>4 DEF Next

(* For any ini file and number of clients: the clients of an automatic     *)
(* ramp-up all start within the time a session is estimated to last, or at *)
(* once when that is below 0.                                              *)
THEOREM RampUpCorrect == Spec => []RampUpFits
<1>1. Inv /\ RampInv => RampUpFits
  <2> SUFFICES ASSUME Inv, RampInv, pc = "ready", RampUp = -1 PROVE RampUpFits
    BY DEF RampUpFits
  <2> DEFINE e == Estimate
  <2>1. e \in Int /\ Clients \in Nat \ {0} /\ rampUpDelay = Quotient(e, Clients)
    BY EstimateIsInt, CommandsAssumption DEF RampInv
  <2> HIDE DEF e
  <2>2. /\ rampUpDelay * (Clients - 1) <= IF e > 0 THEN e ELSE 0
        /\ (rampUpDelay + 1) * Clients > e
    BY <2>1, QuotientFits
  <2> QED  BY <2>2 DEF e, RampUpFits
<1>2. Init => RampInv
  BY DEF Init, RampInv
<1> QED  BY <1>1, <1>2, RampStep, AllInvariants, PTL DEF Spec
=============================================================================

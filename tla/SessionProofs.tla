--------------------------- MODULE SessionProofs ---------------------------
(***************************************************************************)
(* The timing and the variables of a session, for any command queue, any   *)
(* delays, repeats and deadline, any durations and slips.                  *)
(***************************************************************************)
EXTENDS Session, OperatorProofs

(* Where the session is in the repeats of its command: commandTime is      *)
(* reset when it moves on, and within the budget when it repeats.          *)
RepeatInv ==
  /\ at = "asked" => last = step /\ now = started
  /\ at = "due" /\ last # step => commandTime = 0
  /\ at = "due" /\ last = step =>
       delay = Delay[step] /\ commandTime + Delay[step] < Repeat[step]
  /\ at = "asked" =>
       \/ began = started /\ slips = 0 /\ commandTime = 0
       \/ commandTime + Delay[step] < Repeat[step]

(* The request in flight is one of this session.                           *)
SentInv == at = "asked" => sent > opened

Inv ==
  /\ TypeOK
  /\ RepeatInv
  /\ CommandTimeIsElapsed
  /\ DeadlineKept
  /\ OwnValues
  /\ MustCaptured
  /\ SentInv

LEMMA InvInit == Init => Inv
<1> SUFFICES ASSUME Init PROVE Inv
  OBVIOUS
<1> USE DEF Init
<1>1. 1 \in Step /\ 0 \in 0 .. NSteps
  BY SessionAssumption DEF Step
<1>2. TypeOK
  BY <1>1, SessionAssumption DEF TypeOK
<1> QED
  BY <1>2 DEF Inv, RepeatInv, CommandTimeIsElapsed, DeadlineKept, OwnValues, MustCaptured, SentInv

LEMMA TakeKeepsInv ==
  ASSUME Inv, Take PROVE Inv'
<1> USE DEF Take, Inv, TypeOK
<1>1. now' \in Nat /\ 1 \in Step /\ 0 \in 0 .. NSteps
  BY SessionAssumption DEF Step
<1>2. TypeOK'
  BY <1>1, SessionAssumption
<1> QED
  BY <1>2 DEF RepeatInv, CommandTimeIsElapsed, DeadlineKept, OwnValues, MustCaptured, SentInv

LEMMA CutShortKeepsInv ==
  ASSUME Inv, CutShort PROVE Inv'
<1>1. /\ at' = "range" /\ msDelay' = Delay[NSteps] /\ Delay[NSteps] \in Nat
      /\ UNCHANGED <<now, step, delay, commandTime, values, sent, sessions, opened,
                     last, began, started, slip, slips, begun, overslept>>
  BY SessionAssumption DEF CutShort, SessionOver, Step
<1> QED
  BY <1>1 DEF Inv, TypeOK, RepeatInv, CommandTimeIsElapsed, DeadlineKept, OwnValues, MustCaptured, SentInv

(* A request starts after its delay and the slip of the sleep.             *)
LEMMA RequestFacts ==
  ASSUME TypeOK, Request
  PROVE  /\ now \in Nat /\ delay \in Nat /\ slips \in Nat /\ began \in Nat /\ sent \in Nat
         /\ slip' \in Nat /\ now' \in Nat /\ commandTime \in Nat /\ step \in Step
         /\ now' = now + delay + slip' /\ slip' \in 0 .. MaxSlip /\ started' = now'
<1>1. now' = now + delay + slip' /\ slip' \in 0 .. MaxSlip /\ started' = now'
  BY DEF Request
<1>2. now \in Nat /\ delay \in Nat /\ slips \in Nat /\ began \in Nat /\ sent \in Nat
      /\ commandTime \in Nat /\ step \in Step
  BY DEF TypeOK
<1>3. slip' \in Nat
  BY <1>1, SessionAssumption
<1>4. now' \in Nat
  <2>1. now + delay \in Nat
    BY <1>2
  <2>2. (now + delay) + slip' \in Nat
    BY <1>3, <2>1
  <2> QED  BY <1>1, <2>2
<1> QED  BY <1>1, <1>2, <1>3, <1>4

LEMMA RequestKeepsRepeat ==
  ASSUME TypeOK, RepeatInv, CommandTimeIsElapsed, Request
  PROVE  RepeatInv' /\ CommandTimeIsElapsed' /\ began' \in Nat /\ slips' \in Nat
<1>1. at = "due" /\ at' = "asked" /\ last' = step /\ UNCHANGED <<step, commandTime>>
  BY DEF Request
<1>2. CASE last = step
  <2>1. began' = began /\ slips' = slips + slip'
    BY <1>2 DEF Request
  <2>2. now + delay = began + commandTime + slips
    BY <1>1, <1>2 DEF CommandTimeIsElapsed
  <2>3. started' = began' + commandTime' + slips'
    BY <1>1, <2>1, <2>2, RequestFacts
  <2>4. commandTime + Delay[step] < Repeat[step]
    BY <1>1, <1>2 DEF RepeatInv
  <2>5. began' \in Nat /\ slips' \in Nat
    BY <2>1, RequestFacts
  <2>6. RepeatInv'
    BY <1>1, <2>4, RequestFacts DEF RepeatInv
  <2> QED  BY <1>1, <2>3, <2>5, <2>6 DEF CommandTimeIsElapsed
<1>3. CASE last # step
  <2>1. began' = now' /\ slips' = 0
    BY <1>3 DEF Request
  <2>2. commandTime = 0
    BY <1>1, <1>3 DEF RepeatInv
  <2>3. RepeatInv'
    BY <1>1, <2>1, <2>2, RequestFacts DEF RepeatInv
  <2> QED  BY <1>1, <2>1, <2>2, <2>3, RequestFacts DEF CommandTimeIsElapsed
<1> QED  BY <1>2, <1>3

LEMMA RequestKeepsInv ==
  ASSUME Inv, Request PROVE Inv'
<1> USE DEF Inv
<1>1. /\ at' = "asked" /\ last' = step /\ sent' = sent + 1
      /\ UNCHANGED <<step, delay, msDelay, commandTime, sessions, opened>>
  BY DEF Request
<1>2. \A v \in Var : values'[v] = IF v \in Func[step] THEN sent + 1 ELSE values[v]
  BY <1>1 DEF Request
<1>3. sent' \in Nat /\ opened' \in 0 .. sent' /\ opened < sent'
  BY <1>1 DEF TypeOK
<1>4. TypeOK'
  <2>1. values' \in [Var -> 0 .. sent']
    <3>1. \A v \in Var : values[v] \in 0 .. sent
      BY DEF TypeOK
    <3>2. \A v \in Var : (IF v \in Func[step] THEN sent + 1 ELSE values[v]) \in 0 .. sent + 1
      BY RequestFacts, <3>1
    <3> QED  BY <1>1, <3>2 DEF Request
  <2>2. last' \in 0 .. NSteps
    BY <1>1, RequestFacts, SessionAssumption DEF Step
  <2>3. begun' \in Nat /\ overslept' \in Nat
    <3>1. begun \in Nat /\ overslept \in Nat
      BY DEF TypeOK
    <3>2. /\ begun' = IF last = 0 THEN now' ELSE begun
          /\ overslept' = IF last = 0 THEN 0 ELSE overslept + slip'
      BY DEF Request
    <3> QED  BY <3>1, <3>2, RequestFacts
  <2>4. /\ delay' \in Nat /\ msDelay' \in Nat /\ commandTime' \in Nat
        /\ step' \in Step /\ sessions' \in 0 .. MaxLines
    BY <1>1 DEF TypeOK
  <2>5. /\ now' \in Nat /\ started' \in Nat /\ slip' \in 0 .. MaxSlip
        /\ began' \in Nat /\ slips' \in Nat
    BY RequestFacts, RequestKeepsRepeat
  <2> QED
    BY <1>1, <1>3, <2>1, <2>2, <2>3, <2>4, <2>5 DEF TypeOK
<1>5. DeadlineKept'
  <2>1. StopTime = 0 \/ now + delay <= StopTime
    BY RequestFacts, SessionAssumption DEF Request, PastDeadline
  <2> QED  BY <2>1, RequestFacts, SessionAssumption DEF DeadlineKept
<1>6. OwnValues'
  <2>1. \A v \in Var : values[v] = 0 \/ values[v] > opened
    BY DEF OwnValues, Request
  <2> QED  BY <1>1, <1>2, <1>3, <2>1 DEF OwnValues
<1>7. MustCaptured' /\ SentInv'
  BY <1>1, <1>3 DEF MustCaptured, SentInv
<1> QED  BY <1>4, <1>5, <1>6, <1>7, RequestKeepsRepeat

(* What Return does to the variables that the invariants look at.          *)
LEMMA ReturnCases ==
  ASSUME Return
  PROVE  \E x \in 1 .. MaxLatency, a \in Answer :
           /\ now' = now + x
           /\ values' = [v \in Var |-> IF v \in a.got THEN sent ELSE values[v]]
           /\ delay' = Delay[step]
           /\ commandTime' = CommandTimeAfter(x)
           /\ \/ /\ Continues(a) /\ StepAfter(x) <= NSteps
                 /\ at' = "due" /\ step' = StepAfter(x) /\ msDelay' = msDelay
              \/ at' = "range" /\ msDelay' = Delay[NSteps] /\ step' = step
BY DEF Return, SessionOver

LEMMA ReturnKeepsInv ==
  ASSUME Inv, Return PROVE Inv'
<1> USE DEF Inv
<1>1. /\ at = "asked"
      /\ UNCHANGED <<sent, sessions, opened, last, began, started, slip, slips, begun, overslept>>
  BY DEF Return
<1>2. PICK x \in 1 .. MaxLatency, a \in Answer :
           /\ now' = now + x
           /\ values' = [v \in Var |-> IF v \in a.got THEN sent ELSE values[v]]
           /\ delay' = Delay[step]
           /\ commandTime' = CommandTimeAfter(x)
           /\ \/ /\ Continues(a) /\ StepAfter(x) <= NSteps
                 /\ at' = "due" /\ step' = StepAfter(x) /\ msDelay' = msDelay
              \/ at' = "range" /\ msDelay' = Delay[NSteps] /\ step' = step
  BY ReturnCases
<1>3. /\ x \in Nat /\ step \in Step /\ Delay[step] \in Nat /\ Repeat[step] \in Nat
      /\ Delay[NSteps] \in Nat /\ commandTime \in Nat /\ sent \in Nat /\ opened \in 0 .. sent
      /\ now \in Nat /\ started \in Nat /\ began \in Nat /\ slips \in Nat
  BY SessionAssumption DEF TypeOK, Step
<1>4. last = step
  BY <1>1 DEF RepeatInv
<1>5. commandTime' \in Nat /\ StepAfter(x) \in Nat /\ step' \in Step
  <2>1. commandTime' \in Nat /\ StepAfter(x) \in {step, step + 1}
    BY <1>2, <1>3 DEF CommandTimeAfter, RequestTime, StepAfter
  <2> QED  BY <1>2, <1>3, <2>1, SessionAssumption DEF Step
<1>6. \A v \in Var : values'[v] = IF v \in a.got THEN sent ELSE values[v]
  BY <1>2
<1>7. TypeOK'
  <2>1. values' \in [Var -> 0 .. sent']
    <3>1. \A v \in Var : values[v] \in 0 .. sent
      BY DEF TypeOK
    <3>2. \A v \in Var : (IF v \in a.got THEN sent ELSE values[v]) \in 0 .. sent
      BY <1>3, <3>1
    <3> QED  BY <1>1, <1>2, <3>2
  <2> QED  BY <1>1, <1>2, <1>3, <1>5, <2>1 DEF TypeOK
<1>8. RepeatInv' /\ CommandTimeIsElapsed'
  <2>1. CASE at' = "range"
    BY <2>1 DEF RepeatInv, CommandTimeIsElapsed
  <2>2. CASE at' = "due" /\ Again(x)
    <3>1. /\ step' = step /\ commandTime' = commandTime + Delay[step] + x
          /\ commandTime + Delay[step] + x + Delay[step] < Repeat[step]
      BY <1>2, <1>3, <2>2 DEF CommandTimeAfter, RequestTime, StepAfter, Again
    <3>2. started = began + commandTime + slips
      BY <1>1 DEF CommandTimeIsElapsed
    <3>3. now = started
      BY <1>1 DEF RepeatInv
    <3>4. now' + delay' = began + commandTime' + slips
      BY <1>2, <1>3, <3>1, <3>2, <3>3
    <3>5. commandTime' + Delay[step] < Repeat[step]
      BY <1>3, <3>1
    <3> QED
      BY <1>1, <1>2, <1>4, <2>2, <3>1, <3>4, <3>5 DEF RepeatInv, CommandTimeIsElapsed
  <2>3. CASE at' = "due" /\ ~Again(x)
    <3>1. step' = step + 1 /\ commandTime' = 0
      BY <1>2, <2>3 DEF CommandTimeAfter, StepAfter
    <3>2. last' # step'
      BY <1>1, <1>3, <1>4, <3>1 DEF Step
    <3> QED  BY <2>3, <3>1, <3>2 DEF RepeatInv, CommandTimeIsElapsed
  <2> QED  BY <1>2, <2>1, <2>2, <2>3
<1>9. DeadlineKept'
  BY <1>2 DEF DeadlineKept
<1>10. OwnValues'
  <2>1. sent > opened
    BY <1>1 DEF SentInv
  <2> QED  BY <1>1, <1>3, <1>6, <2>1 DEF OwnValues
<1>11. MustCaptured'
  <2> SUFFICES ASSUME at' = "due", NEW v \in Must[step] \cap Capture[step]
               PROVE  values'[v] = sent
    BY <1>1, <1>4 DEF MustCaptured
  <2>3. v \in Var
    BY <1>3, SessionAssumption
  <2>1. Continues(a)
    BY <1>2
  <2>2. v \in a.got
    BY <2>1 DEF Continues, Answer
  <2> QED  BY <1>6, <2>2, <2>3
<1>12. SentInv'
  BY <1>2 DEF SentInv
<1> QED  BY <1>7, <1>8, <1>9, <1>10, <1>11, <1>12

-----------------------------------------------------------------------------
LEMMA InvStep == Inv /\ [Next]_vars => Inv'
<1> SUFFICES ASSUME Inv, [Next]_vars PROVE Inv'
  OBVIOUS
<1>1. CASE UNCHANGED vars
  BY <1>1 DEF vars, Inv, TypeOK, RepeatInv, CommandTimeIsElapsed, DeadlineKept, OwnValues,
              MustCaptured, SentInv
<1> QED
  BY <1>1, TakeKeepsInv, CutShortKeepsInv, RequestKeepsInv, ReturnKeepsInv DEF Next, Done

LEMMA AllInvariants == Spec => []Inv
BY InvInit, InvStep, PTL DEF Spec

(* Every variable keeps its type; no delay is ever negative.               *)
THEOREM TypeCorrect == Spec => []TypeOK
<1>1. Inv => TypeOK
  BY DEF Inv
<1> QED  BY <1>1, AllInvariants, PTL

(* commandTime is the time since the command's first request began, but    *)
(* for what the sleeps took too long.                                      *)
THEOREM CommandTimeCorrect == Spec => []CommandTimeIsElapsed
<1>1. Inv => CommandTimeIsElapsed
  BY DEF Inv
<1> QED  BY <1>1, AllInvariants, PTL

(* A command is repeated exactly as long as MsecRepeat has room for a      *)
(* delay before the request and the one DoReq adds again.                  *)
THEOREM RepeatsCorrect == Spec => RepeatsUseBudget
<1>1. Inv /\ [Next]_vars =>
        [at = "asked" /\ at' = "due" =>
           (step' = step <=> now' - slips + 2 * Delay[step] < began + Repeat[step])]_vars
  <2> SUFFICES ASSUME Inv, Next, at = "asked", at' = "due"
               PROVE  step' = step <=> now' - slips + 2 * Delay[step] < began + Repeat[step]
    OBVIOUS
  <2>1. Return
    BY DEF Next, Take, CutShort, Request, Done, vars
  <2>2. PICK x \in 1 .. MaxLatency : now' = now + x /\ step' = StepAfter(x)
    BY <2>1, ReturnCases
  <2>3. /\ now \in Nat /\ began \in Nat /\ slips \in Nat /\ commandTime \in Nat
        /\ Delay[step] \in Nat /\ Repeat[step] \in Nat /\ x \in Nat /\ step \in Nat
    BY SessionAssumption DEF Inv, TypeOK, Step
  <2>4. step' = step <=> Again(x)
    BY <2>2, <2>3 DEF StepAfter
  <2>5. Again(x) <=> commandTime + x + 2 * Delay[step] < Repeat[step]
    BY <2>3 DEF Again, RequestTime
  <2>6. now = began + commandTime + slips
    BY DEF Inv, CommandTimeIsElapsed, RepeatInv
  <2> QED  BY <2>2, <2>3, <2>4, <2>5, <2>6
<1> QED  BY <1>1, AllInvariants, PTL DEF Spec, RepeatsUseBudget

(* No request begins after the deadline but for the slip of its own sleep. *)
THEOREM DeadlineCorrect == Spec => []DeadlineKept
<1>1. Inv => DeadlineKept
  BY DEF Inv
<1> QED  BY <1>1, AllInvariants, PTL

(* No session sends a value that another session captured.                 *)
THEOREM ValuesCorrect == Spec => []OwnValues
<1>1. Inv => OwnValues
  BY DEF Inv
<1> QED  BY <1>1, AllInvariants, PTL

(* A session goes on with its must-captures from the latest answer only.   *)
THEOREM MustCorrect == Spec => []MustCaptured
<1>1. Inv => MustCaptured
  BY DEF Inv
<1> QED  BY <1>1, AllInvariants, PTL

-----------------------------------------------------------------------------
(* What an answer does to the step and the times.                          *)
LEMMA ReturnTimes ==
  ASSUME Inv, Return
  PROVE  /\ at = "asked" /\ last = step /\ step \in Step
         /\ UNCHANGED <<sent, opened, last, begun, overslept>>
         /\ \E x \in 1 .. MaxLatency :
              /\ now' = now + x
              /\ delay' = Delay[step]
              /\ \/ /\ at' = "due" /\ step' = step
                    /\ commandTime' = commandTime + Delay[step] + x
                    /\ commandTime' + Delay[step] < Repeat[step]
                 \/ at' = "due" /\ step' = step + 1 /\ step' <= NSteps /\ commandTime' = 0
                 \/ at' = "range"
<1> USE DEF Inv
<1>1. at = "asked" /\ UNCHANGED <<sent, opened, last, begun, overslept>>
  BY DEF Return
<1>2. last = step /\ step \in Step
  BY <1>1 DEF RepeatInv, TypeOK
<1>3. PICK x \in 1 .. MaxLatency :
        /\ now' = now + x
        /\ delay' = Delay[step]
        /\ commandTime' = CommandTimeAfter(x)
        /\ \/ at' = "due" /\ step' = StepAfter(x) /\ StepAfter(x) <= NSteps
           \/ at' = "range"
  BY ReturnCases
<1>4. x \in Nat /\ commandTime \in Nat /\ Delay[step] \in Nat /\ Repeat[step] \in Nat
  BY <1>2, SessionAssumption DEF TypeOK
<1>5. CASE Again(x)
  BY <1>1, <1>2, <1>3, <1>4, <1>5 DEF CommandTimeAfter, RequestTime, StepAfter, Again
<1>6. CASE ~Again(x)
  BY <1>1, <1>2, <1>3, <1>4, <1>6 DEF CommandTimeAfter, StepAfter
<1> QED  BY <1>5, <1>6

(* The requests that the first k commands of a session make, at most.      *)
Requests == Sums([k \in Step |-> MostRequests(k)], NSteps)

LEMMA MostRequestsType ==
  ASSUME NEW k \in Step PROVE MostRequests(k) \in Nat \ {0}
<1>1. Delay[k] \in Nat /\ Repeat[k] \in Nat
  BY SessionAssumption
<1>2. CASE Repeat[k] > Delay[k]
  <2>1. Repeat[k] - Delay[k] - 1 \in Nat /\ Delay[k] + 1 \in Nat \ {0}
    BY <1>1, <1>2
  <2>2. (Repeat[k] - Delay[k] - 1) \div (Delay[k] + 1) \in Nat
    BY <2>1, Division
  <2> QED  BY <1>2, <2>2 DEF MostRequests
<1> QED  BY <1>1, <1>2 DEF MostRequests

LEMMA RequestsFacts ==
  /\ \A k \in 0 .. NSteps : Requests[k] \in Nat /\ Requests[k] <= Requests[NSteps]
  /\ \A k \in Step : Requests[k - 1] \in Nat /\ Requests[k] = Requests[k - 1] + MostRequests(k)
<1> DEFINE x == [k \in Step |-> MostRequests(k)]
<1>1. \A k \in 1 .. NSteps : x[k] \in Nat /\ x[k] = MostRequests(k)
  BY MostRequestsType DEF Step
<1>2. Requests = Sums(x, NSteps)
  BY DEF Requests
<1> HIDE DEF x
<1>3. NSteps \in Nat
  BY SessionAssumption
<1>4. \A k \in 0 .. NSteps : Requests[k] \in Nat /\ Requests[k] <= Requests[NSteps]
  BY <1>1, <1>2, <1>3, SumsType, SumsGrow
<1>5. \A k \in 1 .. NSteps : Requests[k] = Requests[k - 1] + x[k]
  BY <1>2, <1>3, SumsStep
<1> QED  BY <1>1, <1>3, <1>4, <1>5 DEF Step

(* r requests whose repeats began a delay and a millisecond apart, the     *)
(* last at time t of the command, are no more than MostRequests.           *)
LEMMA RequestsFit ==
  ASSUME NEW k \in Step, NEW r \in Int, NEW t \in Nat,
         (r - 1) * (Delay[k] + 1) <= t,
         t = 0 \/ t + Delay[k] < Repeat[k]
  PROVE  r <= MostRequests(k)
<1> DEFINE d == Delay[k] + 1
           rest == Repeat[k] - Delay[k] - 1
<1>1. /\ Delay[k] \in Nat /\ Repeat[k] \in Nat /\ d \in Nat \ {0} /\ rest \in Int
      /\ MostRequests(k) \in Nat \ {0}
  BY SessionAssumption, MostRequestsType
<1>2. CASE r <= 1
  BY <1>1, <1>2
<1>3. CASE r > 1
  <2>1. (r - 1) * d <= t /\ d <= (r - 1) * d
    BY <1>1, <1>3
  <2>2. t <= rest
    BY <1>1, <2>1
  <2>3. rest \in Nat /\ Repeat[k] > Delay[k]
    BY <1>1, <2>2
  <2>4. MostRequests(k) = 1 + rest \div d
    BY <2>3 DEF MostRequests
  <2> DEFINE q == rest \div d
  <2>5. q \in Nat /\ rest < (q + 1) * d
    BY <1>1, <2>3, Division
  <2> HIDE DEF q, d, rest
  <2>6. (r - 1) * d < (q + 1) * d
    BY <1>1, <2>1, <2>2, <2>3, <2>5
  <2>7. r - 1 < q + 1
    BY <1>1, <2>5, <2>6
  <2> QED  BY <2>4, <2>5, <2>7 DEF q
<1> QED  BY <1>2, <1>3

(* The requests of the command a session is at start a delay and a         *)
(* millisecond apart; those of the commands before it fit as well.         *)
Own == sent - opened - Requests[step - 1]

StackInv ==
  /\ at = "range" => sent - opened <= Requests[NSteps]
  /\ at = "due" /\ last # step => Own <= 0
  /\ at = "due" /\ last = step => Own * (Delay[step] + 1) <= commandTime
  /\ at = "asked" => (Own - 1) * (Delay[step] + 1) <= commandTime

LEMMA OwnFacts ==
  ASSUME Inv
  PROVE  /\ sent \in Nat /\ opened \in Nat /\ Own \in Int /\ step \in Step
         /\ Delay[step] \in Nat /\ Repeat[step] \in Nat /\ commandTime \in Nat
         /\ Requests[step - 1] \in Nat /\ Requests[step] \in Nat
         /\ Requests[step] <= Requests[NSteps] /\ Requests[NSteps] \in Nat
         /\ Own <= MostRequests(step) => sent - opened <= Requests[step]
<1>1. sent \in Nat /\ opened \in Nat /\ step \in Step /\ commandTime \in Nat
  BY DEF Inv, TypeOK
<1>2. step \in 0 .. NSteps /\ NSteps \in 0 .. NSteps
  BY <1>1, SessionAssumption DEF Step
<1>3. MostRequests(step) \in Nat
  BY <1>1, MostRequestsType
<1> QED  BY <1>1, <1>2, <1>3, RequestsFacts, SessionAssumption DEF Own

LEMMA StackFits ==
  ASSUME Inv, StackInv PROVE sent - opened <= Requests[NSteps]
<1>1. CASE at = "range"
  BY <1>1 DEF StackInv
<1>2. CASE at # "range"
  <2>1. Own <= MostRequests(step)
    <3>1. MostRequests(step) \in Nat \ {0} /\ 0 + 1 = 1
      BY OwnFacts, MostRequestsType
    <3>2. CASE at = "due" /\ last # step
      BY <3>1, <3>2, OwnFacts DEF StackInv
    <3>3. CASE at = "due" /\ last = step
      <4>1. Own * (Delay[step] + 1) <= commandTime /\ commandTime + Delay[step] < Repeat[step]
        BY <3>3 DEF StackInv, Inv, RepeatInv
      <4> HIDE DEF Own
      <4>2. (Own - 1) * (Delay[step] + 1) = Own * (Delay[step] + 1) - (Delay[step] + 1)
        BY OwnFacts
      <4>3. (Own - 1) * (Delay[step] + 1) <= commandTime
        BY <4>1, <4>2, OwnFacts
      <4> QED  BY <4>1, <4>3, OwnFacts, RequestsFit
    <3>4. CASE at = "asked"
      <4>1. (Own - 1) * (Delay[step] + 1) <= commandTime
        BY <3>4 DEF StackInv
      <4>2. commandTime = 0 \/ commandTime + Delay[step] < Repeat[step]
        BY <3>4 DEF Inv, RepeatInv
      <4> QED  BY <4>1, <4>2, OwnFacts, RequestsFit
    <3> QED  BY <1>2, <3>2, <3>3, <3>4 DEF Inv, TypeOK
  <2> QED  BY <2>1, OwnFacts
<1> QED  BY <1>1, <1>2

LEMMA StackStep == Inv /\ Inv' /\ StackInv /\ [Next]_vars => StackInv'
<1> SUFFICES ASSUME Inv, Inv', StackInv, [Next]_vars PROVE StackInv'
  OBVIOUS
<1>1. CASE UNCHANGED vars
  BY <1>1 DEF vars, StackInv, Own, Requests, MostRequests
<1>2. CASE Take
  <2>1. at' = "due" /\ step' = 1 /\ last' = 0 /\ sent' = sent /\ opened' = sent
    BY <1>2 DEF Take
  <2>2. Requests[0] \in Nat /\ 0 \in 0 .. NSteps
    BY RequestsFacts, SessionAssumption
  <2>3. Own' <= 0
    BY <2>1, <2>2, OwnFacts DEF Own
  <2> QED  BY <2>1, <2>3 DEF StackInv
<1>3. CASE CutShort
  <2>1. at' = "range" /\ UNCHANGED <<sent, opened>>
    BY <1>3 DEF CutShort, SessionOver
  <2> QED  BY <2>1, StackFits DEF StackInv
<1>4. CASE Request
  <2>1. /\ at = "due" /\ at' = "asked" /\ last' = step /\ sent' = sent + 1
        /\ UNCHANGED <<step, commandTime, opened>>
    BY <1>4 DEF Request
  <2>2. Own' = Own + 1 /\ Own' - 1 = Own
    BY <2>1, OwnFacts DEF Own
  <2>3. Own * (Delay[step] + 1) <= commandTime
    <3>1. CASE last = step
      BY <2>1, <3>1 DEF StackInv
    <3>2. CASE last # step
      <4>1. Own <= 0
        BY <2>1, <3>2 DEF StackInv
      <4> QED  BY <4>1, OwnFacts
    <3> QED  BY <3>1, <3>2
  <2> QED  BY <2>1, <2>2, <2>3 DEF StackInv
<1>5. CASE Return
  <2>1. /\ at = "asked" /\ last = step /\ UNCHANGED <<sent, opened, last>>
    BY <1>5, ReturnTimes
  <2>2. PICK x \in 1 .. MaxLatency :
          \/ /\ at' = "due" /\ step' = step
             /\ commandTime' = commandTime + Delay[step] + x
          \/ at' = "due" /\ step' = step + 1
          \/ at' = "range"
    BY <1>5, ReturnTimes
  <2>3. sent - opened <= Requests[NSteps]
    BY StackFits
  <2>4. CASE at' = "range"
    BY <2>1, <2>3, <2>4 DEF StackInv
  <2>5. CASE /\ at' = "due" /\ step' = step
             /\ commandTime' = commandTime + Delay[step] + x
    <3>1. (Own - 1) * (Delay[step] + 1) <= commandTime /\ x \in Nat /\ x >= 1
      BY <2>1, SessionAssumption DEF StackInv
    <3>2. Own' = Own
      BY <2>1, <2>5 DEF Own
    <3>3. Own * (Delay[step] + 1) = (Own - 1) * (Delay[step] + 1) + Delay[step] + 1
      <4> HIDE DEF Own
      <4> QED  BY OwnFacts
    <3>4. Own' * (Delay[step] + 1) <= commandTime'
      BY <2>5, <3>1, <3>2, <3>3, OwnFacts
    <3> QED  BY <2>1, <2>5, <3>4 DEF StackInv
  <2>6. CASE at' = "due" /\ step' = step + 1
    <3>1. (Own - 1) * (Delay[step] + 1) <= commandTime
          /\ (commandTime = 0 \/ commandTime + Delay[step] < Repeat[step])
      BY <2>1 DEF StackInv, Inv, RepeatInv
    <3>2. sent - opened <= Requests[step]
      BY <3>1, OwnFacts, RequestsFit
    <3>3. Own' <= 0
      <4>1. step' - 1 = step
        BY <2>6, OwnFacts DEF Step
      <4>2. Requests[step' - 1] = Requests[step]
        BY <4>1
      <4> QED  BY <2>1, <3>2, <4>2, OwnFacts DEF Own
    <3>4. last' # step'
      BY <2>1, <2>6, OwnFacts DEF Step
    <3> QED  BY <2>6, <3>3, <3>4 DEF StackInv
  <2> QED  BY <2>2, <2>4, <2>5, <2>6
<1>6. CASE Done
  BY <1>1, <1>6 DEF Done
<1> QED  BY <1>1, <1>2, <1>3, <1>4, <1>5, <1>6 DEF Next

(* For any queue, delays and repeats: the recursion of DoReq is as deep as *)
(* the requests that fit into every MsecRepeat, and no deeper.             *)
THEOREM StackCorrect == Spec => []StackBounded
<1>1. Inv /\ StackInv => StackBounded
  BY StackFits DEF StackBounded, Requests
<1>2. Init => StackInv
  <2> SUFFICES ASSUME Init PROVE StackInv
    OBVIOUS
  <2>1. Requests[NSteps] \in Nat
    BY RequestsFacts, SessionAssumption
  <2> QED  BY <2>1 DEF Init, StackInv
<1>3. Inv /\ [Next]_vars => Inv'
  BY InvStep
<1> QED  BY <1>1, <1>2, <1>3, StackStep, AllInvariants, PTL DEF Spec

-----------------------------------------------------------------------------
(* What EstimateSessionTime allows the first k commands of a session.      *)
Estimated == Sums([k \in DOMAIN Delay |-> CommandDuration(Delay, Repeat, k)], Len(Delay))

LEMMA EstimatedFacts ==
  /\ EstimateSessionTime(Delay, Repeat) = Estimated[NSteps]
  /\ \A k \in 0 .. NSteps : Estimated[k] \in Nat /\ Estimated[k] <= Estimated[NSteps]
  /\ \A k \in Step :
       /\ Estimated[k - 1] \in Nat
       /\ Estimated[k] = Estimated[k - 1] + CallTime
            + IF Repeat[k] > 0 THEN Repeat[k] ELSE IF k < NSteps THEN Delay[k] ELSE 0
<1> DEFINE x == [k \in DOMAIN Delay |-> CommandDuration(Delay, Repeat, k)]
<1>1. NSteps \in Nat /\ Delay \in [1 .. NSteps -> Nat] /\ Repeat \in [1 .. NSteps -> Nat]
  BY SessionAssumption DEF Step
<1>2. Delay = [k \in 1 .. NSteps |-> Delay[k]] /\ DOMAIN Delay = 1 .. NSteps
  BY <1>1
<1>3. Delay \in Seq(Nat)
  BY <1>1, <1>2, IsASeq
<1>4. Len(Delay) = NSteps
  BY <1>1, <1>2, <1>3, LenProperties
<1>5. ASSUME NEW k \in 1 .. NSteps
      PROVE  x[k] = CallTime + (IF Repeat[k] > 0 THEN Repeat[k]
                                ELSE IF k < NSteps THEN Delay[k] ELSE 0)
             /\ x[k] \in Nat
  BY <1>1, <1>2, <1>4, CallTimeAssumption DEF CommandDuration
<1>6. Estimated = Sums(x, NSteps) /\ EstimateSessionTime(Delay, Repeat) = Estimated[NSteps]
  BY <1>4 DEF Estimated, EstimateSessionTime
<1> HIDE DEF x
<1>7. \A k \in 0 .. NSteps : Estimated[k] \in Nat /\ Estimated[k] <= Estimated[NSteps]
  BY <1>1, <1>5, <1>6, SumsType, SumsGrow
<1>8. \A k \in 1 .. NSteps : Estimated[k] = Estimated[k - 1] + x[k]
  BY <1>1, <1>6, SumsStep
<1>9. ASSUME NEW k \in Step
      PROVE  /\ Estimated[k - 1] \in Nat
             /\ Estimated[k] = Estimated[k - 1] + CallTime
                  + IF Repeat[k] > 0 THEN Repeat[k] ELSE IF k < NSteps THEN Delay[k] ELSE 0
  <2>1. k \in 1 .. NSteps /\ k - 1 \in 0 .. NSteps
    BY <1>1 DEF Step
  <2>2. Delay[k] \in Nat /\ Repeat[k] \in Nat /\ CallTime \in Nat /\ Estimated[k - 1] \in Nat
    BY <1>1, <1>7, <2>1, CallTimeAssumption
  <2> QED  BY <1>5, <1>8, <2>1, <2>2
<1> QED  BY <1>6, <1>7, <1>9

(* What the estimate takes for granted.                                    *)
Estimable ==
  MaxLatency <= CallTime /\ \A k \in Step : Repeat[k] > 0 => Delay[k] <= Repeat[k]

(* A session is never further than the commands before, and commandTime.   *)
Elapsed == now - begun - overslept

EstimateInv ==
  last # 0 =>
    /\ at = "range" => Elapsed <= Estimated[NSteps]
    /\ at = "due" /\ last # step => Elapsed + delay <= Estimated[step - 1]
    /\ at = "due" /\ last = step => Elapsed + delay <= Estimated[step - 1] + commandTime
    /\ at = "asked" => Elapsed <= Estimated[step - 1] + commandTime

LEMMA TimeFacts ==
  ASSUME Inv
  PROVE  /\ now \in Nat /\ begun \in Nat /\ overslept \in Nat /\ delay \in Nat
         /\ commandTime \in Nat /\ step \in Step /\ Elapsed \in Int
         /\ Delay[step] \in Nat /\ Repeat[step] \in Nat /\ CallTime \in Nat
         /\ Estimated[step - 1] \in Nat /\ Estimated[step - 1] <= Estimated[NSteps]
         /\ Estimated[step] \in Nat /\ Estimated[step] <= Estimated[NSteps]
         /\ Estimated[step] = Estimated[step - 1] + CallTime
              + IF Repeat[step] > 0 THEN Repeat[step]
                ELSE IF step < NSteps THEN Delay[step] ELSE 0
<1>1. /\ now \in Nat /\ begun \in Nat /\ overslept \in Nat /\ delay \in Nat
      /\ commandTime \in Nat /\ step \in Step
  BY DEF Inv, TypeOK
<1>2. step \in 0 .. NSteps /\ step - 1 \in 0 .. NSteps
  BY <1>1, SessionAssumption DEF Step
<1> QED  BY <1>1, <1>2, EstimatedFacts, SessionAssumption, CallTimeAssumption DEF Elapsed

(* A sleep adds its delay to the time elapsed, its slip left out.          *)
LEMMA SlipLeftOut ==
  ASSUME NEW n \in Nat, NEW d \in Nat, NEW s \in Nat, NEW b \in Nat, NEW o \in Nat
  PROVE  (n + d + s) - b - (o + s) = (n - b - o) + d
OBVIOUS

LEMMA EstimateStep == Estimable /\ Inv /\ EstimateInv /\ [Next]_vars => EstimateInv'
<1> SUFFICES ASSUME Estimable, Inv, EstimateInv, [Next]_vars PROVE EstimateInv'
  OBVIOUS
<1>f. /\ now \in Nat /\ begun \in Nat /\ overslept \in Nat /\ delay \in Nat
      /\ commandTime \in Nat /\ Elapsed \in Int
      /\ Delay[step] \in Nat /\ Repeat[step] \in Nat /\ CallTime \in Nat
      /\ Estimated[step - 1] \in Nat /\ Estimated[step - 1] <= Estimated[NSteps]
      /\ Estimated[step] \in Nat /\ Estimated[step] <= Estimated[NSteps]
      /\ Estimated[NSteps] \in Nat
  BY TimeFacts, EstimatedFacts, SessionAssumption
<1>g. Estimated[step] = Estimated[step - 1] + CallTime
        + IF Repeat[step] > 0 THEN Repeat[step]
          ELSE IF step < NSteps THEN Delay[step] ELSE 0
  BY TimeFacts
<1>h. step \in Nat /\ NSteps \in Nat /\ step >= 1 /\ step <= NSteps
  BY TimeFacts, SessionAssumption DEF Step
<1> USE <1>f
<1>1. CASE UNCHANGED vars
  BY <1>1 DEF vars, EstimateInv, Elapsed, Estimated
<1>2. CASE Take
  BY <1>2 DEF Take, EstimateInv
<1>3. CASE CutShort
  <2>1. at = "due" /\ at' = "range" /\ UNCHANGED <<now, last, begun, overslept>>
    BY <1>3 DEF CutShort, SessionOver
  <2> SUFFICES ASSUME last # 0 PROVE Elapsed <= Estimated[NSteps]
    BY <2>1 DEF EstimateInv, Elapsed
  <2>2. CASE last # step
    BY <2>1, <2>2 DEF EstimateInv
  <2>3. CASE last = step
    <3>1. commandTime + Delay[step] < Repeat[step]
      BY <2>1, <2>3 DEF Inv, RepeatInv
    <3>2. Elapsed + delay <= Estimated[step - 1] + commandTime
      BY <2>1, <2>3 DEF EstimateInv
    <3>3. Estimated[step - 1] + commandTime <= Estimated[step]
      BY <1>g, <3>1
    <3> QED  BY <3>2, <3>3
  <2> QED  BY <2>2, <2>3
<1>4. CASE Request
  <2>1. /\ at = "due" /\ at' = "asked" /\ last' = step /\ UNCHANGED <<step, commandTime>>
        /\ begun' = (IF last = 0 THEN now' ELSE begun)
        /\ overslept' = (IF last = 0 THEN 0 ELSE overslept + slip')
    BY <1>4 DEF Request
  <2>2. now' = now + delay + slip' /\ slip' \in Nat /\ now' \in Nat
    BY <1>4, RequestFacts DEF Inv
  <2>3. Elapsed' <= Estimated[step - 1] + commandTime
    <3>1. CASE last = 0
      <4>1. PICK n \in Nat : now' = n
        BY <2>2
      <4>2. begun' = n /\ overslept' = 0
        BY <2>1, <3>1, <4>1
      <4>3. Elapsed' = n - n - 0
        BY <4>1, <4>2 DEF Elapsed
      <4>4. n - n - 0 = 0
        OBVIOUS
      <4> QED  BY <2>1, <4>3, <4>4
    <3>2. CASE last # 0
      <4>1. Elapsed' = Elapsed + delay
        <5>1. PICK s \in Nat : slip' = s
          BY <2>2
        <5>2. now' = now + delay + s /\ begun' = begun /\ overslept' = overslept + s
          BY <2>1, <2>2, <3>2, <5>1
        <5>3. Elapsed' = (now + delay + s) - begun - (overslept + s)
          BY <5>2 DEF Elapsed
        <5>4. Elapsed = now - begun - overslept
          BY DEF Elapsed
        <5> QED  BY <5>3, <5>4, SlipLeftOut
      <4>2. Elapsed + delay <= Estimated[step - 1] + commandTime
        BY <2>1, <3>2 DEF EstimateInv
      <4> QED  BY <4>1, <4>2
    <3> QED  BY <3>1, <3>2
  <2>4. Estimated[step' - 1] = Estimated[step - 1] /\ Estimated' = Estimated
    BY <2>1 DEF Estimated
  <2> QED  BY <2>1, <2>3, <2>4 DEF EstimateInv
<1>5. CASE Return
  <2>1. /\ at = "asked" /\ last = step /\ last # 0
        /\ UNCHANGED <<last, begun, overslept>> /\ Estimated' = Estimated
    BY <1>5, ReturnTimes, SessionAssumption DEF Step, Estimated
  <2>2. PICK x \in 1 .. MaxLatency :
          /\ now' = now + x
          /\ delay' = Delay[step]
          /\ \/ /\ at' = "due" /\ step' = step
                /\ commandTime' = commandTime + Delay[step] + x
             \/ at' = "due" /\ step' = step + 1 /\ step' <= NSteps
             \/ at' = "range"
    BY <1>5, ReturnTimes
  <2>3. x \in Nat /\ x <= CallTime
    BY <2>2, SessionAssumption DEF Estimable
  <2>4. Elapsed' = Elapsed + x
    BY <2>1, <2>2, <2>3 DEF Elapsed
  <2>5. Elapsed <= Estimated[step - 1] + commandTime
    BY <2>1 DEF EstimateInv
  <2>6. commandTime = 0 \/ commandTime + Delay[step] < Repeat[step]
    BY <2>1 DEF Inv, RepeatInv
  <2>7. Repeat[step] > 0 => Delay[step] <= Repeat[step]
    BY TimeFacts DEF Estimable
  <2>8. CASE at' = "range"
    <3>1. Elapsed' <= Estimated[step]
      BY <1>g, <2>3, <2>4, <2>5, <2>6
    <3>2. Elapsed' <= Estimated[NSteps]
      BY <2>3, <2>4, <3>1
    <3> QED  BY <2>1, <2>8, <3>2 DEF EstimateInv
  <2>9. CASE /\ at' = "due" /\ step' = step
             /\ commandTime' = commandTime + Delay[step] + x
    <3>1. Elapsed' + delay' <= Estimated[step - 1] + commandTime'
      BY <2>2, <2>3, <2>4, <2>5, <2>9
    <3>2. Estimated[step' - 1] = Estimated[step - 1]
      BY <2>9
    <3> QED  BY <2>1, <2>9, <3>1, <3>2 DEF EstimateInv
  <2>10. CASE at' = "due" /\ step' = step + 1 /\ step' <= NSteps
    <3>1. step < NSteps /\ step' - 1 = step /\ last' # step'
      BY <1>h, <2>1, <2>10
    <3>2. Elapsed' + delay' <= Estimated[step]
      BY <1>g, <2>2, <2>3, <2>4, <2>5, <2>6, <2>7, <3>1
    <3>3. Estimated[step' - 1] = Estimated[step]
      BY <3>1
    <3> QED  BY <2>1, <2>10, <3>1, <3>2, <3>3 DEF EstimateInv
  <2> QED  BY <2>2, <2>8, <2>9, <2>10
<1>6. CASE Done
  BY <1>1, <1>6 DEF Done
<1> QED  BY <1>1, <1>2, <1>3, <1>4, <1>5, <1>6 DEF Next

(* For any queue whose repeating commands have no delay above their        *)
(* MsecRepeat: no session of requests that last CallTime at most lasts     *)
(* longer, but for slips, than EstimateSessionTime says.                   *)
THEOREM EstimateCorrect == Spec => []SessionWithinEstimate
<1>1. CASE Estimable
  <2>1. EstimateInv => SessionWithinEstimate
    BY EstimatedFacts DEF EstimateInv, SessionWithinEstimate, Elapsed
  <2>2. Init => EstimateInv
    BY DEF Init, EstimateInv
  <2>3. Inv /\ EstimateInv /\ [Next]_vars => EstimateInv'
    BY <1>1, EstimateStep
  <2> QED  BY <2>1, <2>2, <2>3, AllInvariants, PTL DEF Spec
<1>2. CASE ~Estimable
  <2>1. TypeOK => SessionWithinEstimate
    BY <1>2 DEF Estimable, SessionWithinEstimate
  <2> QED  BY <2>1, TypeCorrect, PTL
<1> QED  BY <1>1, <1>2

-----------------------------------------------------------------------------
(* The promise of Steps.                                                   *)

LEMMA StepsInit == Init => Promise!Init
BY SessionAssumption DEF Init, Promise!Init

(* Time only goes on, so the deadline passes once at most.                 *)
LEMMA TimePasses ==
  ASSUME TypeOK, now' \in Nat, now <= now'
  PROVE  Promise!Ticks
<1>1. now \in Nat /\ StopTime \in Nat
  BY SessionAssumption DEF TypeOK
<1>2. CASE StopTime = 0
  BY <1>2 DEF Promise!Ticks
<1>3. CASE StopTime # 0 /\ now <= StopTime
  BY <1>1, <1>3 DEF Promise!Ticks
<1>4. CASE StopTime # 0 /\ ~(now <= StopTime)
  <2>1. ~(now' <= StopTime)
    BY <1>1, <1>4
  <2> QED  BY <1>4, <2>1 DEF Promise!Ticks
<1> QED  BY <1>2, <1>3, <1>4

(* A command is repeated only if it has an MsecRepeat.                     *)
LEMMA OnlyRepeatsRepeat ==
  ASSUME Inv, Return, at' = "due", step' = step
  PROVE  Repeat[step] > 0
<1>1. PICK x \in 1 .. MaxLatency :
        /\ delay' = Delay[step]
        /\ \/ /\ at' = "due" /\ step' = step
              /\ commandTime' = commandTime + Delay[step] + x
              /\ commandTime' + Delay[step] < Repeat[step]
           \/ at' = "due" /\ step' = step + 1 /\ step' <= NSteps /\ commandTime' = 0
           \/ at' = "range"
  BY ReturnTimes
<1>2. step \in Nat /\ x \in Nat /\ commandTime \in Nat /\ Delay[step] \in Nat /\ Repeat[step] \in Nat
  BY SessionAssumption DEF Inv, TypeOK, Step
<1> QED  BY <1>1, <1>2

LEMMA StepsStep ==
  Inv /\ [Next]_vars => [Promise!Next]_(Promise!vars)
<1> SUFFICES ASSUME Inv, [Next]_vars PROVE [Promise!Next]_(Promise!vars)
  OBVIOUS
<1>0. TypeOK /\ now \in Nat /\ delay \in Nat /\ step \in Step /\ StopTime \in Nat
  BY SessionAssumption DEF Inv, TypeOK
<1>1. CASE UNCHANGED vars
  BY <1>1 DEF vars, Promise!vars
<1>2. CASE Take
  <2>1. now' \in Nat /\ now <= now'
    BY <1>0, <1>2, SessionAssumption DEF Take
  <2>2. Promise!Ticks
    BY <1>0, <2>1, TimePasses
  <2>3. Promise!Open
    BY <1>2 DEF Take, Promise!Open
  <2> QED  BY <2>2, <2>3 DEF Promise!Next
<1>3. CASE CutShort
  <2>1. at = "due" /\ at' = "range" /\ StopTime # 0 /\ now' = now
    BY <1>3 DEF CutShort, SessionOver, PastDeadline
  <2>2. Promise!Ticks
    BY <1>0, <2>1, TimePasses
  <2>3. Promise!Finish
    BY <2>1 DEF Promise!Finish
  <2> QED  BY <2>2, <2>3 DEF Promise!Next
<1>4. CASE Request
  <2>1. now' \in Nat /\ now' = now + delay + slip' /\ slip' \in Nat
    BY <1>0, <1>4, RequestFacts
  <2>2. now <= now'
    <3>1. \A a, b, c \in Nat : a <= a + b + c
      OBVIOUS
    <3>2. now <= now + delay + slip'
      BY <1>0, <2>1, <3>1, Zenon
    <3> QED  BY <2>1, <3>2
  <2>3. Promise!Ticks
    BY <1>0, <2>1, <2>2, TimePasses
  <2>4. at = "due" /\ at' = "asked" /\ step' = step
    BY <1>4 DEF Request
  <2>5. StopTime = 0 \/ now <= StopTime
    BY <1>0, <1>4 DEF Request, PastDeadline
  <2>6. Promise!Ask
    BY <2>4, <2>5 DEF Promise!Ask
  <2> QED  BY <2>3, <2>6 DEF Promise!Next
<1>5. CASE Return
  <2>1. PICK x \in 1 .. MaxLatency :
          /\ now' = now + x
          /\ \/ at' = "due" /\ step' = step
             \/ at' = "due" /\ step' = step + 1 /\ step' <= NSteps
             \/ at' = "range"
    BY <1>5, ReturnTimes
  <2>2. now' \in Nat /\ now <= now'
    BY <1>0, <2>1, SessionAssumption
  <2>3. Promise!Ticks
    BY <1>0, <2>2, TimePasses
  <2>4. at = "asked"
    BY <1>5 DEF Return
  <2>5. CASE at' = "due" /\ step' = step
    <3>1. Repeat[step] > 0 /\ step <= NSteps
      BY <1>0, <1>5, <2>5, OnlyRepeatsRepeat, SessionAssumption DEF Step
    <3>2. Promise!GoOn
      BY <1>0, <2>4, <2>5, <3>1 DEF Promise!GoOn
    <3> QED  BY <2>3, <3>2 DEF Promise!Next
  <2>6. CASE at' = "due" /\ step' = step + 1 /\ step' <= NSteps
    <3>1. Promise!GoOn
      BY <2>4, <2>6 DEF Promise!GoOn
    <3> QED  BY <2>3, <3>1 DEF Promise!Next
  <2>7. CASE at' = "range"
    <3>1. Promise!Finish
      BY <2>4, <2>7 DEF Promise!Finish
    <3> QED  BY <2>3, <3>1 DEF Promise!Next
  <2> QED  BY <2>1, <2>5, <2>6, <2>7
<1>6. CASE Done
  BY <1>1, <1>6 DEF Done
<1> QED  BY <1>1, <1>2, <1>3, <1>4, <1>5, <1>6 DEF Next

(* A client on the clock implements Steps: it goes through its commands in *)
(* order, repeats only those with an MsecRepeat, and goes ahead with no    *)
(* request past the deadline.                                              *)
THEOREM StepsKept == Spec => StepsThrough
BY StepsInit, StepsStep, AllInvariants, PTL DEF Spec, StepsThrough, Promise!Spec
=============================================================================

---------------------------- MODULE DeliveryProofs ----------------------------
(* What holds of a delivery, and of the recall of what it has sent, for any *)
(* message, any number of attempts and any number of connections.           *)
EXTENDS Recall, TLAPS

-----------------------------------------------------------------------------
(* The inductive invariant: of all attempts only the present one may have   *)
(* anything on the platform, or ever come to have.                          *)

Untouched(a) == request[a] = "none" /\ told[a] = "none" /\ got[a] = {}
Refused(a) == request[a] = "answered" /\ got[a] = {} /\ told[a] \in {"FAILED", "RETRYABLE", "ERROR"}
Dead(a) == Untouched(a) \/ Refused(a)

\* What Koishi has said of an attempt is true of it.
Answers ==
  \A a \in Tries :
    /\ request[a] \in {"none", "sent"} => got[a] = {}
    /\ request[a] = "answered" <=> told[a] # "none"
    /\ told[a] \in {"FAILED", "RETRYABLE", "ERROR"} => got[a] = {}
    /\ told[a] = "OK" => got[a] = Parts
    /\ told[a] = "PARTIAL" => got[a] # {} /\ got[a] # Parts

\* Attempts come one after the other, each when the one before is dead.
Attempts ==
  /\ \A a \in Tries : a < try => Dead(a)
  /\ \A a \in Tries : a > try => Untouched(a)
  /\ pc # "idle" => try \in Tries
  /\ pc \in {"checking", "admitted", "calling"} => Untouched(try)
  /\ pc = "idle" /\ result = "RETRYABLE" => try \in Tries /\ Dead(try)
  /\ try = 0 => result = "none"

\* What the core was told of the last attempt is what Koishi said of it.
Heard ==
  pc = "idle" =>
    /\ result = "SENT" => try \in Tries /\ told[try] = "OK"
    /\ result = "PARTIAL" => try \in Tries /\ told[try] = "PARTIAL"

DInv == TypeOK /\ Answers /\ Attempts /\ Heard

-----------------------------------------------------------------------------
(* Type correctness                                                         *)

\* Closing a connection keeps the state of each a state.
LEMMA ClosedType ==
  ASSUME TypeOK, NEW c \in Connections, NEW reason \in {"closed", "silent"}
  PROVE  /\ Closed(c, reason) \in [Connections -> {"none", "fresh", "shook", "closed", "silent"}]
         /\ Closed(c, reason)[c] \in {"none", "fresh", "shook", "closed", "silent"}
BY DEF TypeOK, Closed

\* No error is reported as a success or as one more attempt to make.
LEMMA OutcomeTypes ==
  /\ \A error : ErrorOutcome(error) \in {"UNKNOWN", "FAILED"}
  /\ \A status \in Said \cup {"ERROR"} : ReplyOutcome(status) \in Results
BY DEF ErrorOutcome, ReplyOutcome, Said, Results

\* The initial states satisfy the invariant.
LEMMA InitInv == Init => DInv
<1>1. Init => TypeOK
  <2> SUFFICES ASSUME Init PROVE TypeOK
    OBVIOUS
  <2>1. try \in 0..MaxTries /\ result \in Results
    BY MaxAssumption DEF Init, Results
  <2>2. link \in [Connections -> {"none", "fresh", "shook", "closed", "silent"}]
    BY DEF Init
  <2>3. request \in [Tries -> {"none", "sent", "executing", "answered"}]
    BY DEF Init
  <2>4. got \in [Tries -> SUBSET Parts] /\ told \in [Tries -> Said \cup {"none", "ERROR"}]
    BY DEF Init
  <2>. QED BY <2>1, <2>2, <2>3, <2>4 DEF Init, TypeOK
<1>. QED
  BY <1>1, MaxAssumption DEF Init, DInv, Answers, Attempts, Heard, Untouched, Tries

\* Every step keeps the types.
LEMMA TypeStep == DInv /\ [Next]_vars => TypeOK'
<1> SUFFICES ASSUME DInv, [Next]_vars PROVE TypeOK'
  OBVIOUS
<1> USE DEF DInv, TypeOK, jvm, core, koishi
<1>1. CASE Attach
  BY <1>1, ClosedType DEF Attach
<1>2. ASSUME NEW c \in Connections, Shake(c) PROVE TypeOK'
  BY <1>2 DEF Shake
<1>3. ASSUME NEW c \in Connections, Lose(c) PROVE TypeOK'
  BY <1>3, ClosedType DEF Lose
<1>4. ASSUME NEW c \in Connections, FallSilent(c) PROVE TypeOK'
  BY <1>4, ClosedType DEF FallSilent
<1>5. CASE Readiness
  BY <1>5 DEF Readiness
<1>6. CASE StopPlugin
  BY <1>6 DEF StopPlugin
<1>7. CASE CloseGateway \/ StartPlugin
  BY <1>7, ClosedType DEF CloseGateway, StartPlugin
<1>8. CASE Try
  BY <1>8, MaxAssumption DEF Try, Goes, Report, Results
<1>9. CASE CheckAccount \/ Choose
  BY <1>9 DEF CheckAccount, Choose, Goes, Report, Results
<1>10. CASE Call
  BY <1>10, OutcomeTypes DEF Call, Goes, Report, Results
<1>11. CASE Reply
  BY <1>11, OutcomeTypes DEF Reply, Report, Attempts, Answers
<1>12. CASE Cut
  BY <1>12, OutcomeTypes DEF Cut, Report, Results
<1>13. CASE Timeout
  BY <1>13, OutcomeTypes DEF Timeout, Report, Results
<1>14. ASSUME NEW a \in Tries, TakeUp(a) PROVE TypeOK'
  BY <1>14 DEF TakeUp
<1>15. ASSUME NEW a \in Tries, Refuse(a) PROVE TypeOK'
  BY <1>15 DEF Refuse
<1>16. ASSUME NEW a \in Tries, Deliver(a) PROVE TypeOK'
  BY <1>16 DEF Deliver
<1>17. ASSUME NEW a \in Tries, Tell(a) PROVE TypeOK'
  BY <1>17 DEF Tell
<1>18. CASE UNCHANGED vars
  BY <1>18 DEF vars
<1>. QED
  BY <1>1, <1>2, <1>3, <1>4, <1>5, <1>6, <1>7, <1>8, <1>9, <1>10, <1>11, <1>12,
     <1>13, <1>14, <1>15, <1>16, <1>17, <1>18
  DEF Next, Connection, Koishi, Rests

-----------------------------------------------------------------------------
(* The attempts                                                             *)

\* What the connections and the plugin do leaves the attempts as they are.
LEMMA JvmSteps ==
  ASSUME [Next]_vars
  PROVE  \/ UNCHANGED <<core, koishi>>
         \/ Try \/ CheckAccount \/ Choose \/ Call \/ Reply \/ Cut \/ Timeout
         \/ \E a \in Tries : TakeUp(a) \/ Refuse(a) \/ Deliver(a) \/ Tell(a)
BY DEF Next, Connection, Koishi, Rests, Attach, Shake, Lose, FallSilent, Readiness,
       StopPlugin, CloseGateway, StartPlugin, vars, core, koishi

\* Every step keeps what the invariant says of answers, attempts and reports.
LEMMA AttemptsStep == DInv /\ [Next]_vars => (Answers /\ Attempts /\ Heard)'
<1> SUFFICES ASSUME DInv, [Next]_vars PROVE (Answers /\ Attempts /\ Heard)'
  OBVIOUS
<1> USE DEF DInv, TypeOK, Answers, Attempts, Heard, Dead, Untouched, Refused, core, koishi
<1>1. CASE UNCHANGED <<core, koishi>>
  BY <1>1
<1>2. CASE Try
  BY <1>2, MaxAssumption DEF Try, Goes, Report, Tries, TriesAgain
<1>3. CASE CheckAccount \/ Choose
  <2>1. /\ try \in Tries /\ try # 0 /\ Untouched(try)
        /\ UNCHANGED <<try, request, got, told>>
    BY <1>3, MaxAssumption DEF CheckAccount, Choose, Goes, Report, Tries
  <2>2. \/ pc' = "admitted" \/ pc' = "calling"
        \/ pc' = "idle" /\ result' \in {"UNKNOWN", "FAILED", "RETRYABLE"}
    BY <1>3 DEF CheckAccount, Choose, Goes, Report
  <2>. QED BY <2>1, <2>2
<1>4. CASE Call
  <2>1. pc = "calling" /\ UNCHANGED <<try, got, told>>
    BY <1>4 DEF Call, Goes, Report
  <2>2. try \in Tries /\ try # 0
    BY <2>1, MaxAssumption DEF Tries
  <2>3. CASE request' = [request EXCEPT ![try] = "sent"] /\ pc' = "waiting" /\ UNCHANGED result
    BY <2>1, <2>2, <2>3, MaxAssumption DEF Tries
  <2>4. CASE UNCHANGED request /\ pc' = "waiting" /\ UNCHANGED result
    BY <2>1, <2>2, <2>4
  <2>5. CASE UNCHANGED request /\ pc' = "idle" /\ result' \in {"UNKNOWN", "FAILED"}
    BY <2>1, <2>2, <2>5
  <2>. QED BY <1>4, <2>3, <2>4, <2>5 DEF Call, Goes, Report, ErrorOutcome
<1>5. CASE Reply
  <2>1. try \in Tries /\ told[try] \in Said \cup {"ERROR"}
    BY <1>5 DEF Reply
  <2>2. /\ result' = "SENT" => told[try] = "OK"
        /\ result' = "PARTIAL" => told[try] = "PARTIAL"
        /\ result' = "RETRYABLE" => told[try] = "RETRYABLE"
    BY <1>5, <2>1 DEF Reply, Report, ReplyOutcome, ErrorOutcome, Said
  <2>. QED BY <1>5, <2>1, <2>2 DEF Reply, Report, Tries
<1>6. CASE Cut
  BY <1>6, OutcomeTypes DEF Cut, Report, Tries
<1>7. CASE Timeout
  BY <1>7, OutcomeTypes DEF Timeout, Report, Tries
<1>8. ASSUME NEW a \in Tries, TakeUp(a) PROVE (Answers /\ Attempts /\ Heard)'
  BY <1>8 DEF TakeUp, Tries
<1>9. ASSUME NEW a \in Tries, Refuse(a) PROVE (Answers /\ Attempts /\ Heard)'
  BY <1>9 DEF Refuse, Tries
<1>10. ASSUME NEW a \in Tries, Deliver(a) PROVE (Answers /\ Attempts /\ Heard)'
  BY <1>10 DEF Deliver, Tries
<1>11. ASSUME NEW a \in Tries, Tell(a) PROVE (Answers /\ Attempts /\ Heard)'
  <2>1. PICK status \in Said :
          Execution(a)!Truthful(status) /\ told' = [told EXCEPT ![a] = status]
    BY <1>11 DEF Tell
  <2>2. CASE status = "OK"
    BY <1>11, <2>1, <2>2 DEF Tell, Execution!Truthful, Tries
  <2>3. CASE status = "PARTIAL"
    BY <1>11, <2>1, <2>3 DEF Tell, Execution!Truthful, Tries
  <2>4. CASE status \in {"FAILED", "RETRYABLE"}
    BY <1>11, <2>1, <2>4 DEF Tell, Execution!Truthful, Tries
  <2>5. CASE status = "UNKNOWN"
    BY <1>11, <2>1, <2>5 DEF Tell, Tries
  <2>. QED BY <2>2, <2>3, <2>4, <2>5 DEF Said
<1>. QED BY JvmSteps, <1>1, <1>2, <1>3, <1>4, <1>5, <1>6, <1>7, <1>8, <1>9, <1>10, <1>11

\* The invariant holds of every behaviour.
THEOREM DeliveryInductive == Spec => []DInv
<1>1. DInv /\ [Next]_vars => DInv'
  BY TypeStep, AttemptsStep DEF DInv
<1>. QED BY <1>1, InitInv, PTL DEF Spec

\* Every variable keeps its type.
THEOREM DeliveryTypeCorrect == Spec => []TypeOK
<1>1. DInv => TypeOK
  BY DEF DInv
<1>. QED BY <1>1, DeliveryInductive, PTL

\* Retries never show a part twice: an attempt is only followed by another
\* when it has delivered nothing and never will.
THEOREM NoPartTwice == Spec => []NeverTwice
<1>1. DInv => NeverTwice
  <2> SUFFICES ASSUME DInv, NEW a \in Tries, NEW b \in Tries, a # b
               PROVE  got[a] \cap got[b] = {}
    BY DEF NeverTwice
  <2>1. try \in Nat /\ a \in Nat /\ b \in Nat
    BY MaxAssumption DEF DInv, TypeOK, Tries
  <2>2. \A t \in Tries : t # try => got[t] = {}
    BY <2>1, MaxAssumption DEF DInv, Attempts, Dead, Untouched, Refused, Tries
  <2>. QED BY <2>2
<1>. QED BY <1>1, DeliveryInductive, PTL

-----------------------------------------------------------------------------
(* The contract, end to end                                                 *)

Shown == UNION {got[a] : a \in Tries}

\* What the platform has of the message, it has of the present attempt.
LEMMA ShownByTry ==
  ASSUME DInv
  PROVE  /\ \A a \in Tries : a # try => got[a] = {}
         /\ try \in Tries => Shown = got[try]
         /\ try = 0 => Shown = {}
<1>1. try \in Nat /\ Tries \subseteq Nat
  BY MaxAssumption DEF DInv, TypeOK, Tries
<1>2. \A a \in Tries : a # try => got[a] = {}
  BY <1>1, MaxAssumption DEF DInv, Attempts, Dead, Untouched, Refused, Tries
<1>3. ASSUME try \in Tries PROVE Shown = got[try]
  BY <1>2, <1>3 DEF Shown
<1>4. ASSUME try = 0 PROVE Shown = {}
  <2>1. \A a \in Tries : got[a] = {}
    BY <1>1, <1>2, <1>4 DEF Tries
  <2>. QED BY <2>1 DEF Shown
<1>. QED BY <1>2, <1>3, <1>4

\* A report that nothing is known tells the contract's UNKNOWN, or it tells
\* nothing yet because the core will try again.
LEMMA NothingKnown ==
  ASSUME Told = "none", Told' \in {"none", "UNKNOWN"}, UNCHANGED got
  PROVE  [Contract!Next]_Contract!vars
<1>1. UNCHANGED Shown
  BY DEF Shown
<1>2. CASE Told' = "none"
  BY <1>1, <1>2 DEF Contract!vars, Shown
<1>3. CASE Told' = "UNKNOWN"
  <2>1. Contract!Tell
    BY <1>1, <1>3 DEF Contract!Tell, Contract!Truthful, Shown
  <2>. QED BY <2>1 DEF Contract!Next
<1>. QED BY <1>2, <1>3

\* The initial states are initial states of the contract.
LEMMA ContractInit == Init => Contract!Init
BY DEF Init, Contract!Init, Told, Final

\* Every step is a step of the contract or changes nothing of it.
LEMMA ContractStep == DInv /\ [Next]_vars => [Contract!Next]_Contract!vars
<1> SUFFICES ASSUME DInv, [Next]_vars PROVE [Contract!Next]_Contract!vars
  OBVIOUS
<1>1. CASE UNCHANGED <<core, koishi>>
  BY <1>1 DEF core, koishi, Contract!vars, Told, Final
<1>2. CASE Try
  <2>1. Told = "none"
    BY <1>2 DEF Try, TriesAgain, Told, Final, DInv, Attempts
  <2>2. Told' \in {"none", "UNKNOWN"}
    BY <1>2 DEF Try, Goes, Report, Told, Final
  <2>. QED BY <1>2, <2>1, <2>2, NothingKnown DEF Try, koishi
<1>3. CASE CheckAccount \/ Choose \/ Call \/ Cut \/ Timeout
  <2>1. Told = "none"
    BY <1>3 DEF CheckAccount, Choose, Call, Cut, Timeout, Told, Final
  <2>2. Told' \in {"none", "UNKNOWN"}
    BY <1>3 DEF CheckAccount, Choose, Call, Cut, Timeout, Goes, Report, ErrorOutcome, Told, Final
  <2>. QED BY <1>3, <2>1, <2>2, NothingKnown
       DEF CheckAccount, Choose, Call, Cut, Timeout, koishi
<1>4. CASE Reply
  <2>1. /\ Told = "none" /\ UNCHANGED got /\ try \in Tries
        /\ told[try] \in Said \cup {"ERROR"}
    BY <1>4 DEF Reply, koishi, Told, Final, DInv, TypeOK, Attempts, Answers
  <2>2. Shown = got[try] /\ UNCHANGED Shown
    BY <2>1, ShownByTry DEF Shown
  <2>3. /\ told[try] \in {"OK", "PARTIAL"} => Told' = told[try]
        /\ told[try] \notin {"OK", "PARTIAL"} => Told' \in {"none", "UNKNOWN"}
    BY <1>4, <2>1 DEF Reply, Report, ReplyOutcome, ErrorOutcome, Told, Final, Said
  <2>4. CASE told[try] = "OK"
    <3>1. Shown = Parts
      BY <2>1, <2>2, <2>4 DEF DInv, Answers
    <3>2. Contract!Tell
      BY <2>1, <2>2, <2>3, <2>4, <3>1 DEF Contract!Tell, Contract!Truthful, Shown
    <3>. QED BY <3>2 DEF Contract!Next
  <2>5. CASE told[try] = "PARTIAL"
    <3>1. Shown # {} /\ Shown # Parts
      BY <2>1, <2>2, <2>5 DEF DInv, Answers
    <3>2. Contract!Tell
      BY <2>1, <2>2, <2>3, <2>5, <3>1 DEF Contract!Tell, Contract!Truthful, Shown
    <3>. QED BY <3>2 DEF Contract!Next
  <2>. QED BY <2>1, <2>3, <2>4, <2>5, NothingKnown
<1>5. ASSUME NEW a \in Tries, TakeUp(a) \/ Refuse(a) \/ Tell(a)
      PROVE  [Contract!Next]_Contract!vars
  BY <1>5 DEF TakeUp, Refuse, Tell, core, Contract!vars, Told, Final
<1>6. ASSUME NEW a \in Tries, Deliver(a) PROVE [Contract!Next]_Contract!vars
  <2>1. PICK p \in Parts \ got[a] : got' = [got EXCEPT ![a] = @ \cup {p}]
    BY <1>6 DEF Deliver
  <2>2. a = try
    BY <1>6, MaxAssumption
    DEF Deliver, DInv, TypeOK, Attempts, Dead, Untouched, Refused, Tries
  <2>3. Shown = got[a]
    BY <2>2, ShownByTry
  <2>4. Shown' = Shown \cup {p}
    <3>1. \A b \in Tries : got'[b] = IF b = a THEN got[a] \cup {p} ELSE got[b]
      BY <2>1 DEF DInv, TypeOK
    <3>2. \A b \in Tries : b # a => got[b] = {}
      BY <2>2, ShownByTry
    <3>. QED BY <2>3, <3>1, <3>2 DEF Shown
  <2>5. Told \in {"none", "UNKNOWN"} /\ UNCHANGED Told
    <3>1. told[try] \in {"none", "UNKNOWN"} /\ UNCHANGED <<pc, result>>
      BY <1>6, <2>2 DEF Deliver, core
    <3>2. result \in Results
      BY DEF DInv, TypeOK
    <3>. QED BY <3>1, <3>2 DEF DInv, Heard, Told, Final, Results
  <2>6. Contract!Deliver
    BY <2>1, <2>3, <2>4, <2>5 DEF Contract!Deliver, Shown
  <2>. QED BY <2>6 DEF Contract!Next
<1>. QED BY JvmSteps, <1>1, <1>2, <1>3, <1>4, <1>5, <1>6

\* What the core is told of a message is true of the platform: SENT and
\* PARTIAL for good, over all retries and lost connections.
THEOREM DeliveryKeepsContract == Spec => EndToEnd
<1>1. Spec => Contract!Init /\ [][Contract!Next]_Contract!vars
  BY ContractInit, ContractStep, DeliveryInductive, PTL DEF Spec
<1>. QED BY <1>1 DEF EndToEnd, Contract!Spec

-----------------------------------------------------------------------------
(* Where Delivery and SendMessage meet                                       *)

\* An attempt by itself, from the platform to what Koishi says of it: an RPC
\* error says what a failure says.
Attempt(a) == INSTANCE SendContract WITH
  parts <- Parts, delivered <- got[a],
  told <- IF told[a] = "ERROR" THEN "FAILED" ELSE told[a]

\* An attempt begins as the contract begins.
LEMMA AttemptInit == ASSUME NEW a \in Tries PROVE Init => Attempt(a)!Init
BY DEF Init, Attempt!Init

\* A step of the whole is one of the attempt's contract, or nothing of it.
LEMMA AttemptStep ==
  ASSUME NEW a \in Tries
  PROVE  DInv /\ [Next]_vars => [Attempt(a)!Next]_(Attempt(a)!vars)
<1> SUFFICES ASSUME DInv, [Next]_vars PROVE [Attempt(a)!Next]_(Attempt(a)!vars)
  OBVIOUS
<1> USE DEF Attempt!vars
<1>a. TypeOK /\ Answers
  BY DEF DInv
<1>1. CASE UNCHANGED <<got, told>>
  BY <1>1
<1>2. ASSUME NEW b \in Tries, b # a, TakeUp(b) \/ Refuse(b) \/ Deliver(b) \/ Tell(b)
      PROVE  [Attempt(a)!Next]_(Attempt(a)!vars)
  BY <1>a, <1>2 DEF TypeOK, TakeUp, Refuse, Deliver, Tell
<1>3. CASE TakeUp(a)
  BY <1>3 DEF TakeUp
<1>4. CASE Refuse(a)
  <2>1. got[a] = {} /\ told[a] = "none" /\ got' = got /\ told'[a] = "ERROR"
    BY <1>a, <1>4 DEF Refuse, Answers, TypeOK
  <2>2. Attempt(a)!Truthful("FAILED")
    BY <2>1 DEF Attempt!Truthful
  <2>3. Attempt(a)!Tell
    BY <2>1, <2>2 DEF Attempt!Tell
  <2>. QED BY <2>3 DEF Attempt!Next
<1>5. CASE Deliver(a)
  <2>1. PICK p \in Parts \ got[a] : got' = [got EXCEPT ![a] = @ \cup {p}]
    BY <1>5 DEF Deliver
  <2>2. got'[a] = got[a] \cup {p} /\ told' = told /\ told[a] \in {"none", "UNKNOWN"}
    BY <1>a, <1>5, <2>1 DEF Deliver, TypeOK
  <2>3. Attempt(a)!Deliver
    BY <2>1, <2>2 DEF Attempt!Deliver
  <2>. QED BY <2>3 DEF Attempt!Next
<1>6. CASE Tell(a)
  <2>1. PICK status \in Said :
          Execution(a)!Truthful(status) /\ told' = [told EXCEPT ![a] = status]
    BY <1>6 DEF Tell
  <2>2. told[a] = "none" /\ told'[a] = status /\ got' = got /\ status # "ERROR"
    BY <1>a, <1>6, <2>1 DEF Tell, TypeOK, Answers, Said
  <2>3. Attempt(a)!Truthful(status)
    BY <2>1 DEF Attempt!Truthful, Execution!Truthful
  <2>4. Attempt(a)!Tell
    BY <2>2, <2>3 DEF Attempt!Tell, Said
  <2>. QED BY <2>4 DEF Attempt!Next
<1>7. \/ UNCHANGED <<got, told>>
      \/ \E b \in Tries : TakeUp(b) \/ Refuse(b) \/ Deliver(b) \/ Tell(b)
  BY JvmSteps DEF Try, CheckAccount, Choose, Call, Reply, Cut, Timeout, koishi
<1>. QED BY <1>1, <1>2, <1>3, <1>4, <1>5, <1>6, <1>7

\* What Delivery assumes of Koishi is no more than what SendMessage is shown to
\* keep: every attempt by itself is a run of SendContract.
THEOREM AttemptsKeepContract == ASSUME NEW a \in Tries PROVE Spec => Attempt(a)!Spec
<1>1. Spec => Attempt(a)!Init /\ [][Attempt(a)!Next]_(Attempt(a)!vars)
  BY AttemptInit, AttemptStep, DeliveryInductive, PTL DEF Spec
<1>. QED BY <1>1 DEF Attempt!Spec

\* And it leaves nothing of it out: whatever the contract allows an execution to
\* do, it may do here at any moment, with the connection open or lost.
THEOREM ExecutionsAreFree ==
  ASSUME DInv, NEW a \in Tries, request[a] \in {"executing", "answered"},
         Execution(a)!Next,
         got' = [got EXCEPT ![a] = got'[a]],
         told' = [told EXCEPT ![a] = told'[a]],
         request' = [request EXCEPT ![a] = IF told'[a] = told[a] THEN @ ELSE "answered"],
         UNCHANGED <<jvm, core>>
  PROVE  Koishi
<1>a. TypeOK /\ Answers
  BY DEF DInv
<1>1. CASE Execution(a)!Deliver
  <2>1. PICK p \in Parts \ got[a] : got'[a] = got[a] \cup {p}
    BY <1>1 DEF Execution!Deliver
  <2>2. told[a] \in {"none", "UNKNOWN"} /\ told'[a] = told[a]
    BY <1>1 DEF Execution!Deliver
  <2>3. told' = told /\ request' = request
    BY <1>a, <2>2 DEF TypeOK
  <2>4. Deliver(a)
    BY <2>1, <2>2, <2>3 DEF Deliver
  <2>. QED BY <2>4 DEF Koishi
<1>2. CASE Execution(a)!Tell
  <2>1. PICK status \in Said : Execution(a)!Truthful(status) /\ told'[a] = status
    BY <1>2 DEF Execution!Tell, Said
  <2>2. told[a] = "none" /\ got'[a] = got[a]
    BY <1>2 DEF Execution!Tell
  <2>3. request[a] = "executing"
    BY <1>a, <2>2 DEF Answers
  <2>a. got' = got
    <3>1. got \in [Tries -> SUBSET Parts]
      BY <1>a DEF TypeOK
    <3>2. \A b \in Tries : got'[b] = got[b]
      BY <2>2, <3>1
    <3>3. got' \in [Tries -> SUBSET Parts]
      BY <2>2, <3>1
    <3>. QED BY <3>1, <3>2, <3>3
  <2>4. request' = [request EXCEPT ![a] = "answered"]
    BY <1>a, <2>1, <2>2 DEF TypeOK, Said
  <2>5. Tell(a)
    BY <2>1, <2>3, <2>a, <2>4 DEF Tell
  <2>. QED BY <2>5 DEF Koishi
<1>. QED BY <1>1, <1>2 DEF Execution!Next

-----------------------------------------------------------------------------
(* What a failure means                                                      *)

\* Koishi has one request of the message to work on at most, whatever was lost,
\* retried or has come late: the present attempt's.
OneUnderWay ==
  \A a, b \in Tries :
    request[a] \in {"sent", "executing"} /\ request[b] \in {"sent", "executing"} => a = b

\* At no time are two attempts of a message with Koishi.
THEOREM OneAttemptUnderWay == Spec => []OneUnderWay
<1>1. DInv => OneUnderWay
  <2> SUFFICES ASSUME DInv, NEW a \in Tries, request[a] \in {"sent", "executing"}
               PROVE  a = try
    BY DEF OneUnderWay
  <2>1. try \in Nat /\ a \in Nat
    BY MaxAssumption DEF DInv, TypeOK, Tries
  <2>. QED BY <2>1 DEF DInv, Attempts, Dead, Untouched, Refused
<1>. QED BY <1>1, DeliveryInductive, PTL

\* The call under way is on a session that has shaken hands, be it closed by now.
OnOnce == pc \in {"calling", "waiting"} =>
  on \in Connections /\ link[on] \in {"shook", "closed", "silent"}

\* A message that is not to be sent again has been reported, and nothing is under
\* way of it.
Resting == result \notin {"none", "RETRYABLE"} => pc = "idle"

\* As long as no connection has been closed, neither by the peer nor for another
\* that took its place: a failure leaves nothing behind.
NoneClosed == \A c \in Connections : link[c] # "closed"
DeadIfFailed == result = "FAILED" /\ NoneClosed => try \in Tries /\ Dead(try)

FInv == DInv /\ OnOnce /\ Resting /\ DeadIfFailed

\* A closed connection stays closed, a silent one too; one that shook hands does
\* not go back.
LEMMA LinksGoOn ==
  ASSUME TypeOK, [Next]_vars, NEW c \in Connections
  PROVE  /\ link[c] = "closed" => link'[c] = "closed"
         /\ link[c] \in {"shook", "closed", "silent"} => link'[c] \in {"shook", "closed", "silent"}
<1>. USE DEF TypeOK
<1>1. CASE Attach
  BY <1>1 DEF Attach, Closed
<1>2. ASSUME NEW d \in Connections, Shake(d) \/ Lose(d) \/ FallSilent(d)
      PROVE  /\ link[c] = "closed" => link'[c] = "closed"
             /\ link[c] \in {"shook", "closed", "silent"}
                  => link'[c] \in {"shook", "closed", "silent"}
  BY <1>2 DEF Shake, Lose, FallSilent, Closed
<1>3. CASE CloseGateway
  BY <1>3 DEF CloseGateway, Closed
<1>4. CASE UNCHANGED link
  BY <1>4
<1>. QED BY <1>1, <1>2, <1>3, <1>4
  DEF Next, Connection, Koishi, Rests, Readiness, StopPlugin, StartPlugin, Try, CheckAccount,
      Choose, Call, Reply, Cut, Timeout, TakeUp, Refuse, Deliver, Tell, vars, jvm

\* The three parts are kept.
LEMMA FailedStep == FInv /\ [Next]_vars => (OnOnce /\ Resting /\ DeadIfFailed)'
<1> SUFFICES ASSUME FInv, [Next]_vars PROVE (OnOnce /\ Resting /\ DeadIfFailed)'
  OBVIOUS
<1>a. /\ TypeOK /\ Answers /\ Attempts /\ OnOnce /\ Resting /\ DeadIfFailed
      /\ try \in Nat
  BY MaxAssumption DEF FInv, DInv, TypeOK
<1>b. /\ \A c \in Connections : link[c] = "closed" => link'[c] = "closed"
      /\ \A c \in Connections :
           link[c] \in {"shook", "closed", "silent"} => link'[c] \in {"shook", "closed", "silent"}
  BY <1>a, LinksGoOn
<1>c. NoneClosed' => NoneClosed
  BY <1>b DEF NoneClosed
<1>1. CASE UNCHANGED <<core, koishi>>
  BY <1>a, <1>b, <1>c, <1>1
  DEF OnOnce, Resting, DeadIfFailed, Dead, Untouched, Refused, core, koishi
<1>2. CASE Try
  <2>1. result \in {"none", "RETRYABLE"}
    BY <1>a, <1>2 DEF Try, TriesAgain, Attempts
  <2>2. try' = try + 1 /\ try' \in Tries /\ Untouched(try') /\ UNCHANGED <<request, got, told>>
    BY <1>a, <1>2, MaxAssumption DEF Try, Attempts, Tries, koishi
  <2>3. Untouched(try)'
    BY <2>2 DEF Untouched
  <2>4. OnOnce' /\ Resting'
    BY <1>2, <2>1 DEF Try, Goes, Report, OnOnce, Resting
  <2>. QED BY <2>2, <2>3, <2>4 DEF DeadIfFailed, Dead
<1>3. CASE CheckAccount \/ Choose
  <2>1. try \in Tries /\ Untouched(try) /\ UNCHANGED <<try, request, got, told>>
        /\ result \in {"none", "RETRYABLE"}
    BY <1>a, <1>3 DEF CheckAccount, Choose, Attempts, Resting, koishi
  <2>2. Untouched(try)'
    BY <2>1 DEF Untouched
  <2>3. OnOnce'
    <3>1. CASE CheckAccount
      BY <3>1 DEF CheckAccount, Goes, Report, OnOnce
    <3>2. CASE Choose
      BY <1>a, <3>2, MaxAssumption
      DEF Choose, Report, RequireSession, OnOnce, TypeOK, jvm
    <3>. QED BY <1>3, <3>1, <3>2
  <2>4. Resting'
    BY <1>3, <2>1 DEF CheckAccount, Choose, Goes, Report, Resting
  <2>. QED BY <2>1, <2>2, <2>3, <2>4 DEF DeadIfFailed, Dead
<1>4. CASE Call
  <2>1. try \in Tries /\ Untouched(try) /\ UNCHANGED <<try, got, told, link>>
        /\ result \in {"none", "RETRYABLE"}
    BY <1>a, <1>4 DEF Call, Attempts, Resting, jvm
  <2>2. OnOnce' /\ Resting'
    BY <1>a, <1>4, <2>1 DEF Call, Goes, Report, OnOnce, Resting
  <2>3. result' = "FAILED" => UNCHANGED request
    BY <1>4, <2>1 DEF Call, Goes, Report
  <2>4. result' = "FAILED" => Untouched(try)'
    BY <2>1, <2>3 DEF Untouched
  <2>. QED BY <2>1, <2>2, <2>4 DEF DeadIfFailed, Dead
<1>5. CASE Reply \/ Cut \/ Timeout
  <2>1. try \in Tries /\ UNCHANGED <<try, request, got, told, link>> /\ pc' = "idle"
    BY <1>a, <1>5 DEF Reply, Cut, Timeout, Report, Attempts, koishi, jvm
  <2>2. result' = "FAILED" /\ NoneClosed => Refused(try)
    <3>1. CASE Reply
      <4>1. request[try] = "answered"
        BY <3>1 DEF Reply
      <4>2. told[try] \in Said \cup {"ERROR"}
        BY <1>a, <2>1, <4>1 DEF TypeOK, Answers
      <4>3. result' = "FAILED" => told[try] \in {"FAILED", "ERROR"}
        BY <3>1, <4>2 DEF Reply, Report, ReplyOutcome, Said
      <4>. QED BY <1>a, <2>1, <4>1, <4>3 DEF Refused, Answers
    <3>2. CASE Cut
      <4>1. pc = "waiting" /\ link[on] # "shook" /\ result' = ErrorOutcome(link[on])
        BY <3>2 DEF Cut, Report
      <4>2. link[on] \in {"closed", "silent"} /\ on \in Connections
        BY <1>a, <4>1 DEF OnOnce
      <4>. QED BY <4>1, <4>2 DEF ErrorOutcome, NoneClosed
    <3>3. CASE Timeout
      BY <3>3 DEF Timeout, Report, ErrorOutcome
    <3>. QED BY <1>5, <3>1, <3>2, <3>3
  <2>3. Refused(try) => Refused(try)'
    BY <2>1 DEF Refused
  <2>. QED BY <1>c, <2>1, <2>2, <2>3 DEF OnOnce, Resting, DeadIfFailed, Dead
<1>6. ASSUME NEW a \in Tries, TakeUp(a) \/ Refuse(a) \/ Deliver(a) \/ Tell(a)
      PROVE  (OnOnce /\ Resting /\ DeadIfFailed)'
  <2>1. UNCHANGED <<pc, try, on, result, link>>
    BY <1>6 DEF TakeUp, Refuse, Deliver, Tell, core, jvm
  <2>2. try \in Tries /\ Dead(try) => Dead(try)'
    BY <1>a, <1>6, <2>1 DEF TakeUp, Refuse, Deliver, Tell, Dead, Untouched, Refused, TypeOK
  <2>. QED BY <1>a, <1>c, <2>1, <2>2 DEF OnOnce, Resting, DeadIfFailed
<1>. QED BY JvmSteps, <1>1, <1>2, <1>3, <1>4, <1>5, <1>6

\* Where FailedIsCertain breaks (README, finding 1) and where it does not: unless a
\* connection has been closed, a message that is reported as FAILED is not on
\* the platform, and nothing that is under way can still bring it there.
FailedIsDead == result = "FAILED" /\ NoneClosed => \A a \in Tries : Dead(a)

\* A failure is certain as long as no connection has been closed.
THEOREM FailureIsFinal == Spec => []FailedIsDead
<1>1. Init => OnOnce /\ Resting /\ DeadIfFailed
  BY DEF Init, OnOnce, Resting, DeadIfFailed
<1>2. DInv /\ OnOnce /\ Resting /\ DeadIfFailed /\ [Next]_vars
        => OnOnce' /\ Resting' /\ DeadIfFailed'
  BY FailedStep DEF FInv
<1>3. DInv /\ DeadIfFailed => FailedIsDead
  <2> SUFFICES ASSUME DInv, DeadIfFailed, result = "FAILED", NoneClosed, NEW a \in Tries
               PROVE  Dead(a)
    BY DEF FailedIsDead
  <2>1. try \in Tries /\ Dead(try)
    BY DEF DeadIfFailed
  <2>2. a < try \/ a = try \/ a > try
    BY <2>1, MaxAssumption DEF Tries
  <2>. QED BY <2>1, <2>2 DEF DInv, Attempts, Dead
<1>. QED BY <1>1, <1>2, <1>3, DeliveryInductive, PTL DEF Spec

-----------------------------------------------------------------------------
(* A recall changes nothing of the delivery, nor a delivery of the recall.   *)

\* Every step of the two is one of the delivery or leaves it alone.
LEMMA RecallSteps ==
  /\ RecallInit => Init
  /\ [RecallNext]_<<vars, recall>> => [Next]_vars
BY DEF RecallInit, RecallNext, Caller, Answerer, Ask, CheckRecall, ChooseRecall, CallRecall,
       HearRecall, GiveUpRecall, TakeUpRecall, RecallTimer, Delete, Deleted

\* What has been shown of Delivery holds when its messages are recalled, too.
THEOREM RecallIsDelivery == RecallSpec => Spec
<1>. QED BY RecallSteps, PTL DEF RecallSpec, Spec

-----------------------------------------------------------------------------
(* The inductive invariant                                                   *)

\* What Koishi says of a recall is true of the platform.
Honest == answer = "OK" => gone

\* A recall under way has no outcome yet, and the request leaves in its turn.
InTurn ==
  /\ step # "idle" => outcome = "none"
  /\ step \in {"checking", "admitted", "calling"} => ask = "none"
  /\ step = "idle" /\ outcome = "none" => ask = "none"
  /\ ask = "none" => ~open

RInv == RecallTypeOK /\ Honest /\ InTurn

\* The initial states satisfy the invariant.
LEMMA RecallInitInv == RecallInit /\ TypeOK => RInv
BY DEF RecallInit, RInv, RecallTypeOK, Honest, InTurn

\* The core's side of a recall keeps the invariant.
LEMMA CallerStep == RInv /\ TypeOK' /\ Caller => RInv'
<1> SUFFICES ASSUME RInv, TypeOK', Caller PROVE RInv'
  OBVIOUS
<1> USE DEF RInv, RecallTypeOK, Honest, InTurn, Moves, Ends, handler, platform
<1>1. CASE Ask
  BY <1>1 DEF Ask
<1>2. CASE CheckRecall
  BY <1>2 DEF CheckRecall
<1>3. CASE ChooseRecall
  <2>1. session \in Connections \cup {None}
    BY DEF TypeOK
  <2>. QED BY <1>3, <2>1 DEF ChooseRecall
<1>4. CASE CallRecall
  BY <1>4 DEF CallRecall
<1>5. CASE HearRecall
  BY <1>5 DEF HearRecall, RecallOutcome
<1>6. CASE GiveUpRecall
  BY <1>6 DEF GiveUpRecall
<1>. QED BY <1>1, <1>2, <1>3, <1>4, <1>5, <1>6 DEF Caller

\* Koishi's side keeps it: a success is told when the message is gone, and what
\* is gone stays so.
LEMMA AnswererStep == RInv /\ TypeOK' /\ Answerer => RInv'
<1> SUFFICES ASSUME RInv, TypeOK', Answerer PROVE RInv'
  OBVIOUS
<1> USE DEF RInv, RecallTypeOK, Honest, InTurn, Says, caller, handler, platform
<1>1. CASE TakeUpRecall
  BY <1>1 DEF TakeUpRecall
<1>2. CASE RecallTimer
  BY <1>2 DEF RecallTimer, TimerStands
<1>3. CASE Delete
  BY <1>3 DEF Delete
<1>4. ASSUME NEW how \in {"ok", "timeout", "broken", "refused"}, Deleted(how) PROVE RInv'
  BY <1>4 DEF Deleted, Classified
<1>. QED BY <1>1, <1>2, <1>3, <1>4 DEF Answerer

\* The invariant holds of every behaviour.
THEOREM RecallInductive == RecallSpec => []RInv
<1>1. RInv /\ TypeOK' /\ [RecallNext]_<<vars, recall>> => RInv'
  <2> SUFFICES ASSUME RInv, TypeOK', [RecallNext]_<<vars, recall>> PROVE RInv'
    OBVIOUS
  <2>1. CASE UNCHANGED recall
    BY <2>1 DEF RInv, RecallTypeOK, Honest, InTurn, recall
  <2>. QED BY <2>1, CallerStep, AnswererStep DEF RecallNext
<1>2. RecallSpec => []TypeOK
  BY RecallIsDelivery, DeliveryTypeCorrect, PTL
<1>. QED BY <1>1, <1>2, RecallInitInv, PTL DEF RecallSpec

\* Every variable keeps its type.
THEOREM RecallTypeCorrect == RecallSpec => []RecallTypeOK
<1>1. RInv => RecallTypeOK
  BY DEF RInv
<1>. QED BY <1>1, RecallInductive, PTL

\* With any number of attempts, connections, stops and starts, the core is told
\* RECALLED of a message that is gone, but for the one answer of a gateway that a
\* stop has put in place under the recall, and then Koishi was not even asked.
THEOREM OnlyTheStoppedFakeIt == RecallSpec => RecalledTruly
<1>1. RInv /\ [RecallNext]_<<vars, recall>> => [ToldTruly]_<<vars, recall>>
  <2> SUFFICES ASSUME RInv, RecallNext,
                      outcome' = "RECALLED", outcome # "RECALLED"
               PROVE  gone \/ (closing /\ ask = "none")
    BY DEF ToldTruly
  <2>1. Caller
    BY DEF RecallNext, Answerer, TakeUpRecall, RecallTimer, Delete, Deleted, caller, recall
  <2>2. CASE ChooseRecall
    BY <2>2 DEF ChooseRecall, Ends, RInv, InTurn
  <2>3. CASE HearRecall
    BY <2>3 DEF HearRecall, Ends, RecallOutcome, RInv, Honest
  <2>4. CASE Ask \/ CheckRecall \/ CallRecall \/ GiveUpRecall
    BY <2>4 DEF Ask, CheckRecall, CallRecall, GiveUpRecall, Moves, Ends
  <2>. QED BY <2>1, <2>2, <2>3, <2>4 DEF Caller
<1>. QED BY <1>1, RecallInductive, PTL DEF RecallSpec, RecalledTruly

\* A message that is recalled has been sent with the contract of one send, and
\* no part of it twice.
THEOREM RecalledWasSentOnce == RecallSpec => []NeverTwice /\ EndToEnd
<1>. QED BY RecallIsDelivery, NoPartTwice, DeliveryKeepsContract, PTL

-----------------------------------------------------------------------------
(* When a recall runs, and how long                                          *)

\* A message is recalled, and deleted, only after its delivery has been reported
\* as SENT or PARTIAL, and from then on the core sends nothing more of it: a
\* recall never races with an attempt that is still to come.
Begun == step # "idle" \/ outcome # "none" \/ ask # "none" \/ open \/ gone
RecalledWasReported == Begun => pc = "idle" /\ result \in {"SENT", "PARTIAL"}

\* A delivery that is reported as a success is at rest on the JVM's side.
LEMMA SuccessRests ==
  ASSUME DInv, [Next]_vars, pc = "idle", result \in {"SENT", "PARTIAL"}
  PROVE  pc' = "idle" /\ result' = result
<1>1. try # 0
  BY DEF DInv, Attempts
<1>2. ~Try
  BY <1>1 DEF Try, TriesAgain
<1>. QED BY <1>2, JvmSteps
  DEF CheckAccount, Choose, Call, Reply, Cut, Timeout, TakeUp, Refuse, Deliver, Tell, core

\* The recall begins where the delivery has ended well.
LEMMA ReportedStep ==
  DInv /\ RecalledWasReported /\ [RecallNext]_<<vars, recall>> => RecalledWasReported'
<1> SUFFICES ASSUME DInv, RecalledWasReported, [RecallNext]_<<vars, recall>>
             PROVE  RecalledWasReported'
  OBVIOUS
<1>1. CASE Next /\ UNCHANGED recall
  BY <1>1, SuccessRests DEF RecalledWasReported, Begun, recall
<1>2. CASE UNCHANGED <<vars, recall>>
  BY <1>2 DEF RecalledWasReported, Begun, recall, vars
<1>3. CASE Caller \/ Answerer
  <2>1. pc' = pc /\ result' = result
    BY <1>3 DEF Caller, Answerer, Ask, CheckRecall, ChooseRecall, CallRecall, HearRecall,
       GiveUpRecall, TakeUpRecall, RecallTimer, Delete, Deleted, vars
  <2>2. pc = "idle" /\ result \in {"SENT", "PARTIAL"}
    BY <1>3 DEF RecalledWasReported, Begun, Caller, Answerer, Ask, CheckRecall, ChooseRecall,
       CallRecall, HearRecall, GiveUpRecall, TakeUpRecall, RecallTimer, TimerStands, Delete,
       Deleted
  <2>. QED BY <2>1, <2>2 DEF RecalledWasReported
<1>. QED BY <1>1, <1>2, <1>3 DEF RecallNext

\* No message is deleted that the core has not been told is sent.
THEOREM RecallFollowsReport == RecallSpec => []RecalledWasReported
<1>1. RecallInit => RecalledWasReported
  BY DEF RecallInit, RecalledWasReported, Begun
<1>2. RecallSpec => []DInv
  BY RecallIsDelivery, DeliveryInductive, PTL
<1>. QED BY <1>1, <1>2, ReportedStep, PTL DEF RecallSpec

\* What the two ends of a recall have still to do.
CallerLeft ==
  CASE step = "idle" /\ outcome = "none" -> 5
    [] step = "checking" -> 4 [] step = "admitted" -> 3
    [] step = "calling" -> 2 [] step = "waiting" -> 1
    [] OTHER -> 0
AnswererLeft ==
  (CASE ask = "none" -> 6 [] ask = "sent" -> 4 [] ask = "deleting" -> 2 [] OTHER -> 0)
    + (IF open THEN 1 ELSE 0)
RecallLeft == CallerLeft + AnswererLeft

\* The safety half of RecallEnds: the core recalls a message once, Koishi answers
\* once, and whatever order the timers, the platform and the adapter come in,
\* every step of a recall leaves less of it to do, from eleven steps on down;
\* a delivery's steps leave it alone.  What TLC adds is that the steps are taken.
GetsDone ==
  \/ UNCHANGED recall
  \/ RecallLeft' < RecallLeft
RecallIsBounded == [][GetsDone]_<<vars, recall>>

\* A recall takes at most eleven steps of its own.
THEOREM RecallTakesElevenSteps ==
  RecallSpec => [](RecallLeft \in 0..11) /\ RecallIsBounded
<1>1. RInv => RecallLeft \in 0..11
  <2> SUFFICES ASSUME RInv PROVE RecallLeft \in 0..11
    OBVIOUS
  <2>1. CallerLeft \in 0..5
    BY DEF CallerLeft
  <2>2. AnswererLeft \in 0..6
    BY DEF AnswererLeft, InTurn, RInv, RecallTypeOK
  <2>. QED BY <2>1, <2>2 DEF RecallLeft
<1>2. ASSUME RInv, RecallNext PROVE GetsDone
  <2>1. CASE UNCHANGED recall
    BY <2>1 DEF GetsDone
  <2>2. CASE Caller
    <3>1. CASE Ask \/ CheckRecall \/ ChooseRecall \/ HearRecall \/ GiveUpRecall
      <4>1. CallerLeft' < CallerLeft
        BY <1>2, <3>1 DEF Ask, CheckRecall, ChooseRecall, HearRecall, GiveUpRecall, Moves, Ends,
           CallerLeft, RInv, InTurn, RecallOutcome
      <4>2. UNCHANGED AnswererLeft
        BY <3>1 DEF Ask, CheckRecall, ChooseRecall, HearRecall, GiveUpRecall, AnswererLeft,
           handler, platform
      <4>. QED BY <4>1, <4>2 DEF GetsDone, RecallLeft, CallerLeft, AnswererLeft
    <3>2. CASE CallRecall
      <4>1. CallerLeft' < CallerLeft
        BY <1>2, <3>2 DEF CallRecall, Moves, Ends, CallerLeft, RInv, InTurn
      <4>2. AnswererLeft' <= AnswererLeft
        BY <1>2, <3>2 DEF CallRecall, AnswererLeft, RInv, InTurn, platform
      <4>. QED BY <4>1, <4>2 DEF GetsDone, RecallLeft, CallerLeft, AnswererLeft
    <3>. QED BY <2>2, <3>1, <3>2 DEF Caller
  <2>3. CASE Answerer
    <3>1. UNCHANGED CallerLeft
      BY <2>3 DEF Answerer, TakeUpRecall, RecallTimer, Delete, Deleted, caller, CallerLeft
    <3>2. AnswererLeft' < AnswererLeft
      BY <2>3 DEF Answerer, TakeUpRecall, RecallTimer, Delete, Deleted, Says, TimerStands,
         AnswererLeft, handler, platform
    <3>. QED BY <3>1, <3>2 DEF GetsDone, RecallLeft, CallerLeft, AnswererLeft
  <2>. QED BY <1>2, <2>1, <2>2, <2>3 DEF RecallNext
<1>3. RInv /\ [RecallNext]_<<vars, recall>> => [GetsDone]_<<vars, recall>>
  BY <1>2
<1>. QED BY <1>1, <1>3, RecallInductive, PTL DEF RecallSpec, RecallIsBounded
=============================================================================

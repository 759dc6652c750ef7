-------------------------- MODULE DbkGatewayProofs ---------------------------
(* What holds of the Koishi gateway for any number of sockets and CALLs.    *)
EXTENDS DbkGateway, FiniteSetTheorems, TLAPS

-----------------------------------------------------------------------------
(* The inductive invariant                                                  *)

Live == {"fresh", "shook"}
Lively == {"connecting", "open", "closing"}

\* The two fields of the gateway go together; a stopped gateway dials nothing.
Fields ==
  /\ socket = session
  /\ closing => \A s \in Sockets : sock[s] # "connecting"

\* The timer runs only where nothing else is under way and a dial may follow.
TimerAlone ==
  /\ timer => mode = "reverse" /\ reconnect /\ ~closing /\ ~suspended
  /\ mode = "reverse" /\ reconnect /\ ~closing /\ ~suspended =>
       \/ timer /\ \A s \in Sockets : sock[s] \notin Lively
       \/ /\ ~timer
          /\ \E s \in Sockets : \A t \in Sockets : sock[t] \in Lively <=> t = s

GInv == TypeOK /\ Fields /\ LiveIsCurrent /\ AnsweredOnce /\ TimerAlone

\* The steps that leave the gateway's fields alone: those of a session, and a
\* connection that breaks.
SessionStep(s) ==
  \/ HelloAccepted(s) \/ HelloMismatch(s) \/ HelloUnauthorized(s) \/ Dies(s) \/ Breaks(s)
  \/ \E id \in CallIds : Call(s, id) \/ Finish(s, id)

\* The initial states satisfy the invariant.
LEMMA InitInv == Init => GInv
<1> SUFFICES ASSUME Init PROVE GInv
  OBVIOUS
<1>1. 1 \in Sockets /\ None \notin Sockets
  BY BoundsAssumption DEF Sockets, None
<1>2. TypeOK
  <2>1. 0 \in 0..MaxAttempts /\ 1 \in 1..Backoffs
    BY BoundsAssumption
  <2>2. sock \in [Sockets -> {"none", "connecting", "open", "closing", "closed"}]
    BY DEF Init
  <2>3. answers \in [Sockets -> [CallIds -> Nat]]
    BY DEF Init
  <2>. QED BY <1>1, <2>1, <2>2, <2>3 DEF Init, TypeOK
<1>3. Fields /\ LiveIsCurrent /\ AnsweredOnce
  BY <1>1 DEF Init, Fields, LiveIsCurrent, AnsweredOnce
<1>4. TimerAlone
  BY <1>1 DEF Init, TimerAlone, Lively
<1>. QED BY <1>2, <1>3, <1>4 DEF GInv

\* What such a step does: it opens no connection and brings no session to life.
Quiet(s) ==
  /\ UNCHANGED <<config, socket, session, closing, dialing>>
  /\ suspended' = suspended \/ (suspended' = TRUE /\ sock[s] \in Lively)
  /\ sock' \in [Sockets -> {"none", "connecting", "open", "closing", "closed"}]
  /\ sess' \in [Sockets -> {"none", "fresh", "shook", "closed"}]
  /\ \A t \in Sockets :
       /\ sock'[t] = sock[t] \/ (sock[t] \in {"connecting", "open"} /\ sock'[t] = "closing")
       /\ sess'[t] \in Live => sess[t] \in Live

\* Every session step is quiet.
LEMMA SessionSteps ==
  ASSUME TypeOK, NEW s \in Sockets, SessionStep(s) \/ (Emit /\ s = session)
  PROVE  Quiet(s)
<1>. USE DEF Quiet
<1>1. CASE HelloAccepted(s) \/ HelloMismatch(s) \/ (Emit /\ s = session)
  BY <1>1 DEF HelloAccepted, HelloMismatch, Emit, Hears, Writes, Fail, ClosedSock, TypeOK, Live
<1>2. CASE HelloUnauthorized(s) \/ Dies(s)
  BY <1>2 DEF HelloUnauthorized, Dies, Hears, Fail, ClosedSock, TypeOK, Live, Lively
<1>3. CASE Breaks(s)
  BY <1>3 DEF Breaks, TypeOK
<1>4. ASSUME NEW id \in CallIds, Call(s, id) PROVE Quiet(s)
  BY <1>4 DEF Call, Hears, Writes, Fail, ClosedSock, TypeOK, Live
<1>5. ASSUME NEW id \in CallIds, Finish(s, id) PROVE Quiet(s)
  BY <1>5 DEF Finish, Writes, Fail, ClosedSock, TypeOK, Live
<1>. QED BY <1>1, <1>2, <1>3, <1>4, <1>5 DEF SessionStep

\* attach keeps the types, takes nothing up but the new socket, and leaves no
\* other session alive.
LEMMA Attached ==
  ASSUME TypeOK, Fields, LiveIsCurrent, NEW s \in Sockets, Attach(s)
  PROVE  /\ sock' \in [Sockets -> {"none", "connecting", "open", "closing", "closed"}]
         /\ sess' \in [Sockets -> {"none", "fresh", "shook", "closed"}]
         /\ socket' = s /\ session' = s /\ sock'[s] = "open"
         /\ \A t \in Sockets \ {s} :
              /\ sock'[t] = sock[t] \/ (sock[t] \in {"connecting", "open"} /\ sock'[t] = "closing")
              /\ sess'[t] \notin Live
<1>1. /\ sock' \in [Sockets -> {"none", "connecting", "open", "closing", "closed"}]
      /\ sess' \in [Sockets -> {"none", "fresh", "shook", "closed"}]
  BY DEF Attach, ClosedSock, ClosedSess, TypeOK
<1>2. socket' = s /\ session' = s /\ sock'[s] = "open"
  BY DEF Attach
<1>3. ASSUME NEW t \in Sockets, t # s
      PROVE  sock'[t] = sock[t] \/ (sock[t] \in {"connecting", "open"} /\ sock'[t] = "closing")
  BY <1>3 DEF Attach, ClosedSock, TypeOK
<1>4. ASSUME NEW t \in Sockets, t # s PROVE sess'[t] \notin Live
  <2>1. CASE sess[t] \in Live
    <3>1. session = t /\ socket = t /\ t # None
      BY <2>1, BoundsAssumption DEF LiveIsCurrent, Live, Fields, Sockets, None
    <3>2. Replaced(s) # {}
      BY <1>4, <3>1 DEF Replaced
    <3>. QED BY <1>4, <3>1, <3>2 DEF Attach, ClosedSess, Live
  <2>2. CASE sess[t] \notin Live
    BY <1>4, <2>2 DEF Attach, ClosedSess, Live, TypeOK
  <2>. QED BY <2>1, <2>2
<1>. QED BY <1>1, <1>2, <1>3, <1>4

\* The ways the gateway moves on.
LEMMA Moves ==
  ASSUME GInv, Next
  PROVE  \/ \E s \in Sockets : SessionStep(s) \/ (Emit /\ s = session)
         \/ \E s \in Sockets : Accept(s) \/ Dial(s) \/ Opened(s) \/ Closed(s)
         \/ Stop
<1>1. Emit => session \in Sockets
  BY DEF Emit, GInv, TypeOK
<1>. QED BY <1>1 DEF Next, SessionStep

\* The delay chosen is one of the table, and attempts end at their bound.
LEMMA Scheduled ==
  ASSUME TypeOK, attempts < MaxAttempts, ScheduleReconnect
  PROVE  /\ timer' \in BOOLEAN /\ attempts' \in 0..MaxAttempts /\ delay' \in 1..Backoffs
         /\ timer' = IF GivesUp THEN timer ELSE TRUE
<1>1. Backoff(attempts + 1) \in 1..Backoffs
  BY BoundsAssumption DEF Backoff, TypeOK
<1>2. CASE GivesUp
  BY <1>2 DEF ScheduleReconnect, dialing, TypeOK
<1>3. CASE ~GivesUp
  BY <1>1, <1>3, BoundsAssumption DEF ScheduleReconnect, TypeOK
<1>. QED BY <1>2, <1>3

\* The type of every variable is kept.
LEMMA TypeStep == GInv /\ Next => TypeOK'
<1> SUFFICES ASSUME GInv, Next PROVE TypeOK'
  OBVIOUS
<1>a. TypeOK /\ Fields /\ LiveIsCurrent
  BY DEF GInv
<1>1. ASSUME NEW s \in Sockets, SessionStep(s) \/ (Emit /\ s = session) PROVE TypeOK'
  <2>1. Quiet(s)
    BY <1>a, <1>1, SessionSteps
  <2>2. running' \in [Sockets -> SUBSET CallIds]
    BY <1>a, <1>1 DEF SessionStep, HelloAccepted, HelloMismatch, HelloUnauthorized, Dies,
       Breaks, Call, Finish, Emit, TypeOK
  <2>3. answers' \in [Sockets -> [CallIds -> Nat]]
    BY <1>a, <1>1 DEF SessionStep, HelloAccepted, HelloMismatch, HelloUnauthorized, Dies,
       Breaks, Call, Finish, Emit, Answer, TypeOK
  <2>. QED BY <1>a, <2>1, <2>2, <2>3 DEF Quiet, TypeOK, config, dialing
<1>2. ASSUME NEW s \in Sockets, Accept(s) PROVE TypeOK'
  <2>1. Attach(s)
    BY <1>2 DEF Accept
  <2>. QED BY <1>a, <1>2, <2>1, Attached DEF Accept, TypeOK, config, dialing
<1>3. ASSUME NEW s \in Sockets, Dial(s) PROVE TypeOK'
  BY <1>a, <1>3 DEF Dial, TypeOK, config
<1>4. ASSUME NEW s \in Sockets, Opened(s) PROVE TypeOK'
  <2>1. Attach(s) /\ attempts' \in 0..MaxAttempts
    BY <1>4, BoundsAssumption DEF Opened
  <2>. QED BY <1>a, <1>4, <2>1, Attached DEF Opened, TypeOK, config
<1>5. ASSUME NEW s \in Sockets, Closed(s) PROVE TypeOK'
  <2>1. timer' \in BOOLEAN /\ attempts' \in 0..MaxAttempts /\ delay' \in 1..Backoffs
    BY <1>a, <1>5, Scheduled DEF Closed, TypeOK, dialing
  <2>2. sess' \in [Sockets -> {"none", "fresh", "shook", "closed"}]
    BY <1>a, <1>5 DEF Closed, ClosedSess, TypeOK
  <2>. QED BY <1>a, <1>5, <2>1, <2>2 DEF Closed, TypeOK, config
<1>6. CASE Stop
  BY <1>a, <1>6 DEF Stop, ClosedSess, ClosedSock, TypeOK, config
<1>. QED BY <1>1, <1>2, <1>3, <1>4, <1>5, <1>6, Moves

\* One session is served, the gateway's own.
LEMMA LiveStep == GInv /\ Next => LiveIsCurrent' /\ Fields'
<1> SUFFICES ASSUME GInv, Next PROVE LiveIsCurrent' /\ Fields'
  OBVIOUS
<1>a. TypeOK /\ Fields /\ LiveIsCurrent
  BY DEF GInv
<1>1. ASSUME NEW s \in Sockets, SessionStep(s) \/ (Emit /\ s = session)
      PROVE  LiveIsCurrent' /\ Fields'
  <2>1. Quiet(s)
    BY <1>a, <1>1, SessionSteps
  <2>. QED BY <1>a, <2>1 DEF Quiet, LiveIsCurrent, Fields, Live
<1>2. ASSUME NEW s \in Sockets, Accept(s) \/ Opened(s) PROVE LiveIsCurrent' /\ Fields'
  <2>1. Attach(s) /\ ~closing /\ UNCHANGED closing
    BY <1>a, <1>2 DEF Accept, Opened, Fields
  <2>. QED BY <1>a, <2>1, Attached DEF LiveIsCurrent, Fields, Live
<1>3. ASSUME NEW s \in Sockets, Dial(s) PROVE LiveIsCurrent' /\ Fields'
  BY <1>a, <1>3 DEF Dial, LiveIsCurrent, Fields
<1>4. ASSUME NEW s \in Sockets, Closed(s) PROVE LiveIsCurrent' /\ Fields'
  <2>1. Fields'
    BY <1>a, <1>4 DEF Closed, Fields, TypeOK
  <2>2. LiveIsCurrent'
    BY <1>a, <1>4 DEF Closed, ClosedSess, LiveIsCurrent, TypeOK
  <2>. QED BY <2>1, <2>2
<1>5. CASE Stop
  <2>1. Fields'
    BY <1>a, <1>5 DEF Stop, ClosedSock, Fields, TypeOK
  <2>2. LiveIsCurrent'
    BY <1>a, <1>5 DEF Stop, ClosedSess, LiveIsCurrent, TypeOK
  <2>. QED BY <2>1, <2>2
<1>. QED BY <1>1, <1>2, <1>3, <1>4, <1>5, Moves

\* An answer is written once, by the handler that was under way.
LEMMA AnsweredStep == GInv /\ Next => AnsweredOnce'
<1> SUFFICES ASSUME GInv, Next PROVE AnsweredOnce'
  OBVIOUS
<1>a. TypeOK /\ AnsweredOnce
  BY DEF GInv
<1>1. CASE UNCHANGED <<running, answers>>
  BY <1>a, <1>1 DEF AnsweredOnce
<1>2. ASSUME NEW s \in Sockets, NEW id \in CallIds, Call(s, id) PROVE AnsweredOnce'
  <2>1. answers[s][id] = 0 /\ id \notin running[s]
    BY <1>2 DEF Call
  <2>2. CASE UNCHANGED running /\ Answer(s, id)
    BY <1>a, <2>1, <2>2 DEF Answer, AnsweredOnce, TypeOK
  <2>3. CASE running' = [running EXCEPT ![s] = @ \cup {id}] /\ UNCHANGED answers
    BY <1>a, <2>1, <2>3 DEF AnsweredOnce, TypeOK
  <2>. QED BY <1>2, <2>2, <2>3 DEF Call
<1>3. ASSUME NEW s \in Sockets, NEW id \in CallIds, Finish(s, id) PROVE AnsweredOnce'
  <2>1. id \in running[s] /\ running' = [running EXCEPT ![s] = @ \ {id}] /\ answers[s][id] = 0
    BY <1>a, <1>3 DEF Finish, AnsweredOnce, TypeOK
  <2>2. CASE UNCHANGED answers
    BY <1>a, <2>1, <2>2 DEF AnsweredOnce, TypeOK
  <2>3. CASE answers' = [answers EXCEPT ![s][id] = @ + 1]
    BY <1>a, <2>1, <2>3 DEF AnsweredOnce, TypeOK
  <2>. QED BY <1>3, <2>2, <2>3 DEF Finish, Answer
<1>. QED BY <1>1, <1>2, <1>3
         DEF Next, HelloAccepted, HelloMismatch, HelloUnauthorized, Dies, Breaks, Emit,
             Accept, Dial, Opened, Closed, Stop
\* In reverse mode one thing is under way, a socket or the timer.
LEMMA TimerStep == GInv /\ Next => TimerAlone'
<1> SUFFICES ASSUME GInv, Next PROVE TimerAlone'
  OBVIOUS
<1>a. TypeOK /\ Fields /\ LiveIsCurrent /\ TimerAlone
  BY DEF GInv
<1>1. ASSUME NEW s \in Sockets, SessionStep(s) \/ (Emit /\ s = session) PROVE TimerAlone'
  <2>1. Quiet(s)
    BY <1>a, <1>1, SessionSteps
  <2>2. \A t \in Sockets : sock'[t] \in Lively <=> sock[t] \in Lively
    BY <2>1 DEF Quiet, Lively
  <2>3. timer => suspended' = suspended
    BY <1>a, <2>1 DEF Quiet, TimerAlone, TypeOK
  <2>. QED BY <1>a, <2>1, <2>2, <2>3 DEF Quiet, TimerAlone, config, dialing, TypeOK
<1>2. ASSUME NEW s \in Sockets, Accept(s) PROVE TimerAlone'
  BY <1>a, <1>2 DEF Accept, TimerAlone, config, dialing
<1>3. ASSUME NEW s \in Sockets, Dial(s) PROVE TimerAlone'
  <2>1. ~timer' /\ \A t \in Sockets : sock'[t] \in Lively <=> t = s
    BY <1>a, <1>3 DEF Dial, TimerAlone, Lively, TypeOK
  <2>. QED BY <1>3, <2>1 DEF TimerAlone
<1>4. ASSUME NEW s \in Sockets, Opened(s) PROVE TimerAlone'
  <2>1. Attach(s) /\ UNCHANGED <<config, closing, suspended, timer>> /\ sock[s] \in Lively
    BY <1>4 DEF Opened, Lively
  <2>2. \A t \in Sockets : sock'[t] \in Lively <=> sock[t] \in Lively
    BY <1>a, <2>1, Attached DEF Lively
  <2>. QED BY <1>a, <2>1, <2>2 DEF TimerAlone, config
<1>5. ASSUME NEW s \in Sockets, Closed(s) PROVE TimerAlone'
  <2>1. /\ sock[s] \in Lively /\ sock'[s] \notin Lively
        /\ \A t \in Sockets \ {s} : sock'[t] = sock[t]
        /\ UNCHANGED <<mode, reconnect, closing, suspended>>
    BY <1>a, <1>5 DEF Closed, Lively, TypeOK, config
  <2>2. ~timer
    BY <1>a, <2>1 DEF TimerAlone
  <2>3. timer' = (mode = "reverse" /\ ~GivesUp)
    BY <1>a, <1>5, <2>2, Scheduled DEF Closed, dialing, TypeOK
  <2>4. mode = "reverse" /\ ~GivesUp => \A t \in Sockets : sock'[t] \notin Lively
    BY <1>a, <2>1, <2>2 DEF TimerAlone, GivesUp
  <2>. QED BY <2>1, <2>3, <2>4 DEF TimerAlone, GivesUp
<1>6. CASE Stop
  BY <1>6 DEF Stop, TimerAlone
<1>. QED BY <1>1, <1>2, <1>3, <1>4, <1>5, <1>6, Moves

\* A step that changes nothing keeps the invariant.
LEMMA Stuttering == GInv /\ UNCHANGED vars => GInv'
<1> SUFFICES ASSUME GInv, UNCHANGED vars PROVE GInv'
  OBVIOUS
<1>1. TypeOK' /\ Fields' /\ TimerAlone'
  BY DEF GInv, TypeOK, Fields, TimerAlone, vars
<1>2. LiveIsCurrent' /\ AnsweredOnce'
  BY DEF GInv, LiveIsCurrent, AnsweredOnce, vars
<1>. QED BY <1>1, <1>2 DEF GInv

\* The invariant holds in every reachable state.
LEMMA GatewayInductive == Spec => []GInv
<1>1. GInv /\ [Next]_vars => GInv'
  <2>1. GInv /\ Next => GInv'
    BY TypeStep, LiveStep, AnsweredStep, TimerStep DEF GInv
  <2>. QED BY <2>1, Stuttering
<1>. QED BY InitInv, <1>1, PTL DEF Spec

-----------------------------------------------------------------------------
(* What follows                                                             *)

\* Every variable of the gateway, its sessions and its sockets keeps its type.
THEOREM GatewayTypeCorrect == Spec => []TypeOK
<1>1. GInv => TypeOK
  BY DEF GInv
<1>. QED BY <1>1, GatewayInductive, PTL

\* However many sockets come in or are dialled, one connection is served, the
\* one that emit() writes to, and a stopped gateway serves none.
THEOREM OneServedAlways == Spec => []LiveIsCurrent
<1>1. GInv => LiveIsCurrent
  BY DEF GInv
<1>. QED BY <1>1, GatewayInductive, PTL

\* handleCall answers a CALL at most once, for any set of ids.
THEOREM AnsweredAtMostOnce == Spec => []AnsweredOnce
<1>1. GInv => AnsweredOnce
  BY DEF GInv
<1>. QED BY <1>1, GatewayInductive, PTL

\* A gateway that dials has one socket or its reconnect timer under way, never
\* both and never neither.
THEOREM OneDialAlways == Spec => []OneDialUnderWay
<1>1. ASSUME GInv, mode = "reverse" /\ reconnect /\ ~closing /\ ~suspended
      PROVE  Cardinality(Alive) + (IF timer THEN 1 ELSE 0) = 1
  <2>1. CASE timer
    <3>1. Alive = {}
      BY <1>1, <2>1 DEF GInv, TimerAlone, Alive, Lively
    <3>. QED BY <2>1, <3>1, FS_EmptySet
  <2>2. CASE ~timer
    <3>1. PICK s \in Sockets : \A t \in Sockets : sock[t] \in Lively <=> t = s
      BY <1>1, <2>2 DEF GInv, TimerAlone
    <3>2. Alive = {s}
      BY <3>1 DEF Alive, Lively
    <3>3. Cardinality(Alive) = 1
      BY <3>2, FS_Singleton
    <3>. QED BY <2>2, <3>3
  <2>. QED BY <2>1, <2>2
<1>2. GInv => OneDialUnderWay
  BY <1>1 DEF OneDialUnderWay
<1>. QED BY <1>2, GatewayInductive, PTL

\* After an ERROR that says unauthorized the gateway never dials again.
THEOREM SuspendedStaysQuiet == Spec => SuspendedNeverDials
<1>1. ASSUME GInv, [Next]_vars, suspended, NEW s \in Sockets, sock[s] = "none"
      PROVE  sock'[s] # "connecting"
  <2>a. TypeOK /\ Fields /\ LiveIsCurrent /\ TimerAlone
    BY <1>1 DEF GInv
  <2>b. ~timer
    BY <1>1, <2>a DEF TimerAlone
  <2>1. ASSUME NEW t \in Sockets, SessionStep(t) \/ (Emit /\ t = session)
        PROVE  sock'[s] # "connecting"
    BY <1>1, <2>a, <2>1, SessionSteps DEF Quiet
  <2>2. ASSUME NEW t \in Sockets, Accept(t) \/ Opened(t) PROVE sock'[s] # "connecting"
    BY <1>1, <2>a, <2>2, Attached DEF Accept, Opened
  <2>3. ASSUME NEW t \in Sockets, Dial(t) PROVE sock'[s] # "connecting"
    BY <2>b, <2>3 DEF Dial
  <2>4. ASSUME NEW t \in Sockets, Closed(t) PROVE sock'[s] # "connecting"
    BY <1>1, <2>a, <2>4 DEF Closed, TypeOK
  <2>5. CASE Stop
    BY <1>1, <2>5, <2>a DEF Stop, ClosedSock, TypeOK
  <2>6. CASE UNCHANGED vars
    BY <1>1, <2>6 DEF vars
  <2>. QED BY <1>1, <2>1, <2>2, <2>3, <2>4, <2>5, <2>6, Moves
<1>2. GInv /\ [Next]_vars => (suspended => \A s \in Sockets : sock[s] = "none" => sock'[s] # "connecting")
  BY <1>1
<1>3. GInv /\ [Next]_vars
        => [suspended => \A s \in Sockets : sock[s] = "none" => sock'[s] # "connecting"]_vars
  BY <1>2
<1>. QED BY <1>3, GatewayInductive, PTL DEF Spec, SuspendedNeverDials

-----------------------------------------------------------------------------
(* Who serves what is open, and what is left behind                         *)

Opening == {"connecting", "open"}

\* A socket that is open has a session that serves it.
OpenIsServed == \A s \in Sockets : sock[s] = "open" => sess[s] \in Live

\* A socket has neither a session nor a handler under way before it opens.
UnopenedIsBare ==
  \A s \in Sockets : sock[s] \in {"none", "connecting"} => sess[s] = "none" /\ running[s] = {}

\* Only a gateway that dials has sockets that connect, and it has one socket.
ReverseAlone ==
  /\ mode = "forward" => \A s \in Sockets : sock[s] # "connecting"
  /\ mode = "reverse" => \A s, t \in Sockets : sock[s] \in Lively /\ sock[t] \in Lively => s = t

EndInv == GInv /\ OpenIsServed /\ UnopenedIsBare /\ ReverseAlone

\* The initial states satisfy the longer invariant.
LEMMA EndInit == Init => EndInv
<1> SUFFICES ASSUME Init PROVE EndInv
  OBVIOUS
<1>1. GInv
  BY InitInv
<1>2. OpenIsServed /\ UnopenedIsBare
  BY DEF Init, OpenIsServed, UnopenedIsBare
<1>3. ReverseAlone
  BY DEF Init, ReverseAlone, Lively
<1>. QED BY <1>1, <1>2, <1>3 DEF EndInv

\* A session that stops being served in a session step closes its socket, and
\* none is begun.
LEMMA SessionStepsServe ==
  ASSUME TypeOK, OpenIsServed, UnopenedIsBare, NEW s \in Sockets,
         SessionStep(s) \/ (Emit /\ s = session)
  PROVE  OpenIsServed' /\ UnopenedIsBare'
<1>. USE DEF OpenIsServed, UnopenedIsBare
<1>1. CASE HelloAccepted(s) \/ HelloMismatch(s) \/ (Emit /\ s = session)
  BY <1>1 DEF HelloAccepted, HelloMismatch, Emit, Hears, Writes, Fail, ClosedSock, TypeOK, Live
<1>2. CASE HelloUnauthorized(s) \/ Dies(s)
  BY <1>2 DEF HelloUnauthorized, Dies, Hears, Fail, ClosedSock, TypeOK, Live
<1>3. CASE Breaks(s)
  BY <1>3 DEF Breaks, TypeOK, Live
<1>4. ASSUME NEW id \in CallIds, Call(s, id) PROVE OpenIsServed' /\ UnopenedIsBare'
  BY <1>4 DEF Call, Hears, Writes, Fail, ClosedSock, TypeOK, Live
<1>5. ASSUME NEW id \in CallIds, Finish(s, id) PROVE OpenIsServed' /\ UnopenedIsBare'
  BY <1>5 DEF Finish, Writes, Fail, ClosedSock, TypeOK, Live
<1>. QED BY <1>1, <1>2, <1>3, <1>4, <1>5 DEF SessionStep

\* An open socket is served, whatever step is taken.
LEMMA ServedStep == EndInv /\ Next => OpenIsServed' /\ UnopenedIsBare'
<1> SUFFICES ASSUME EndInv, Next PROVE OpenIsServed' /\ UnopenedIsBare'
  OBVIOUS
<1>a. /\ GInv /\ TypeOK /\ Fields /\ LiveIsCurrent
      /\ OpenIsServed /\ UnopenedIsBare /\ ReverseAlone
  BY DEF EndInv, GInv
<1>1. ASSUME NEW s \in Sockets, SessionStep(s) \/ (Emit /\ s = session)
      PROVE  OpenIsServed' /\ UnopenedIsBare'
  BY <1>a, <1>1, SessionStepsServe
<1>2. ASSUME NEW s \in Sockets, Accept(s) \/ Opened(s) PROVE OpenIsServed' /\ UnopenedIsBare'
  <2>1. Attach(s) /\ UNCHANGED running
    BY <1>2 DEF Accept, Opened
  <2>2. sess'[s] = "fresh" /\ sock'[s] = "open"
    BY <1>a, <2>1 DEF Attach, TypeOK
  <2>3. ASSUME NEW t \in Sockets, t # s PROVE sock'[t] # "open"
    <3>1. CASE sock[t] # "open"
      BY <1>a, <2>1, <2>3, <3>1, Attached
    <3>2. CASE sock[t] = "open"
      <4>1. session = t /\ socket = t /\ t # None
        BY <1>a, <3>2, BoundsAssumption
           DEF OpenIsServed, LiveIsCurrent, Live, Fields, Sockets, None
      <4>. QED BY <2>1, <2>3, <3>2, <4>1 DEF Attach, Replaced, ClosedSock
    <3>. QED BY <3>1, <3>2
  <2>4. ASSUME NEW t \in Sockets, t # s, sock'[t] \in {"none", "connecting"}
        PROVE  sess'[t] = "none" /\ running'[t] = {}
    <3>1. sock[t] \in {"none", "connecting"}
      BY <1>a, <2>1, <2>4, Attached
    <3>2. sess[t] = "none" /\ running[t] = {}
      BY <1>a, <3>1 DEF UnopenedIsBare
    <3>. QED BY <2>1, <2>4, <3>2 DEF Attach, ClosedSess
  <2>. QED BY <2>2, <2>3, <2>4 DEF OpenIsServed, UnopenedIsBare, Live
<1>3. ASSUME NEW s \in Sockets, Dial(s) PROVE OpenIsServed' /\ UnopenedIsBare'
  BY <1>a, <1>3 DEF Dial, Fresh, OpenIsServed, UnopenedIsBare, TypeOK
<1>4. ASSUME NEW s \in Sockets, Closed(s) PROVE OpenIsServed' /\ UnopenedIsBare'
  <2>1. /\ sock[s] \in Lively /\ sock'[s] = "closed"
        /\ \A t \in Sockets \ {s} : sock'[t] = sock[t]
        /\ UNCHANGED running
    BY <1>a, <1>4 DEF Closed, Lively, TypeOK
  <2>2. CASE mode = "forward"
    BY <1>a, <1>4, <2>1, <2>2 DEF Closed, OpenIsServed, UnopenedIsBare, TypeOK
  <2>3. CASE mode # "forward"
    <3>1. \A t \in Sockets \ {s} : sock[t] # "open"
      BY <1>a, <2>1, <2>3 DEF ReverseAlone, Lively, TypeOK
    <3>2. \A t \in Sockets : sess[t] = "none" => sess'[t] = "none"
      BY <1>a, <1>4, <2>3 DEF Closed, ClosedSess, TypeOK
    <3>. QED BY <1>a, <2>1, <3>1, <3>2 DEF OpenIsServed, UnopenedIsBare
  <2>. QED BY <2>2, <2>3
<1>5. CASE Stop
  <2>1. UNCHANGED running /\ socket = session
    BY <1>a, <1>5 DEF Stop, Fields
  <2>2. \A t \in Sockets : sock'[t] # "open"
    BY <1>a, <1>5, <2>1 DEF Stop, ClosedSock, OpenIsServed, LiveIsCurrent, Live, TypeOK
  <2>3. ASSUME NEW t \in Sockets, sock'[t] \in {"none", "connecting"}
        PROVE  sess'[t] = "none" /\ running'[t] = {}
    <3>1. sock[t] \in {"none", "connecting"}
      BY <1>a, <1>5, <2>3 DEF Stop, ClosedSock, TypeOK
    <3>. QED BY <1>a, <1>5, <3>1 DEF Stop, ClosedSess, UnopenedIsBare, TypeOK
  <2>. QED BY <2>2, <2>3 DEF OpenIsServed, UnopenedIsBare
<1>. QED BY <1>a, <1>1, <1>2, <1>3, <1>4, <1>5, Moves

\* A gateway that dials has one socket at a time, refused or not.
LEMMA AloneStep == EndInv /\ Next => ReverseAlone'
<1> SUFFICES ASSUME EndInv, Next PROVE ReverseAlone'
  OBVIOUS
<1>a. GInv /\ TypeOK /\ Fields /\ LiveIsCurrent /\ TimerAlone /\ ReverseAlone
  BY DEF EndInv, GInv
<1>b. ASSUME mode' = mode,
             \A t \in Sockets : sock'[t] \in Lively => sock[t] \in Lively,
             \A t \in Sockets : sock'[t] = "connecting" => sock[t] = "connecting"
      PROVE  ReverseAlone'
  BY <1>a, <1>b DEF ReverseAlone
<1>1. ASSUME NEW s \in Sockets, SessionStep(s) \/ (Emit /\ s = session) PROVE ReverseAlone'
  <2>1. Quiet(s)
    BY <1>a, <1>1, SessionSteps
  <2>. QED BY <1>b, <2>1 DEF Quiet, config, Lively
<1>2. ASSUME NEW s \in Sockets, Accept(s) PROVE ReverseAlone'
  <2>1. mode = "forward" /\ mode' = mode /\ Attach(s)
    BY <1>2 DEF Accept, config
  <2>2. \A t \in Sockets : sock'[t] # "connecting"
    BY <1>a, <2>1, Attached DEF ReverseAlone
  <2>. QED BY <2>1, <2>2 DEF ReverseAlone
<1>3. ASSUME NEW s \in Sockets, Dial(s) PROVE ReverseAlone'
  <2>1. mode = "reverse" /\ mode' = mode /\ \A t \in Sockets : sock[t] \notin Lively
    BY <1>a, <1>3 DEF Dial, TimerAlone, config
  <2>2. \A t \in Sockets : sock'[t] \in Lively => t = s
    BY <1>a, <1>3, <2>1 DEF Dial, TypeOK
  <2>. QED BY <2>1, <2>2 DEF ReverseAlone
<1>4. ASSUME NEW s \in Sockets, Opened(s) PROVE ReverseAlone'
  <2>1. Attach(s) /\ mode' = mode /\ sock[s] = "connecting"
    BY <1>4 DEF Opened, config
  <2>. QED BY <1>a, <1>b, <2>1, Attached DEF Lively
<1>5. ASSUME NEW s \in Sockets, Closed(s) PROVE ReverseAlone'
  BY <1>a, <1>b, <1>5 DEF Closed, config, Lively, TypeOK
<1>6. CASE Stop
  BY <1>a, <1>b, <1>6 DEF Stop, ClosedSock, config, Lively, TypeOK
<1>. QED BY <1>a, <1>1, <1>2, <1>3, <1>4, <1>5, <1>6, Moves

\* The longer invariant holds in every reachable state.
LEMMA EndInductive == Spec => []EndInv
<1>1. EndInv /\ [Next]_vars => EndInv'
  <2>1. EndInv /\ Next => EndInv'
    <3>1. EndInv /\ Next => GInv'
      BY TypeStep, LiveStep, AnsweredStep, TimerStep DEF EndInv, GInv
    <3>. QED BY <3>1, ServedStep, AloneStep DEF EndInv
  <2>2. EndInv /\ UNCHANGED vars => EndInv'
    <3> SUFFICES ASSUME EndInv, UNCHANGED vars PROVE EndInv'
      OBVIOUS
    <3>1. GInv'
      BY Stuttering DEF EndInv
    <3>2. OpenIsServed' /\ UnopenedIsBare' /\ ReverseAlone'
      BY DEF EndInv, OpenIsServed, UnopenedIsBare, ReverseAlone, vars
    <3>. QED BY <3>1, <3>2 DEF EndInv
  <2>. QED BY <2>1, <2>2
<1>. QED BY EndInit, <1>1, PTL DEF Spec

\* The gateway holds one connection: what is being opened or is open is one
\* socket, in forward mode too, where every peer that comes in replaces the one
\* before it.  An open socket is the gateway's, its session listens, and emit()
\* reaches it.
OneConnection ==
  /\ \A s, t \in Sockets : sock[s] \in Opening /\ sock[t] \in Opening => s = t
  /\ \A s \in Sockets :
       sock[s] = "open" => socket = s /\ session = s /\ sess[s] \in Live

\* With any number of sockets one at most is connecting or open, and an open one
\* is the socket of a gateway that serves it.
THEOREM OneConnectionAlways == Spec => []OneConnection
<1>1. ASSUME EndInv PROVE OneConnection
  <2>1. ASSUME NEW s \in Sockets, sock[s] = "open"
        PROVE  socket = s /\ session = s /\ sess[s] \in Live
    BY <1>1, <2>1 DEF EndInv, GInv, Fields, OpenIsServed, LiveIsCurrent, Live
  <2>2. ASSUME NEW s \in Sockets, NEW t \in Sockets, sock[s] \in Opening, sock[t] \in Opening
        PROVE  s = t
    <3>1. CASE mode = "reverse"
      BY <1>1, <2>2, <3>1 DEF EndInv, ReverseAlone, Opening, Lively
    <3>2. CASE mode = "forward"
      <4>1. sock[s] = "open" /\ sock[t] = "open"
        BY <1>1, <2>2, <3>2 DEF EndInv, ReverseAlone, Opening
      <4>. QED BY <2>1, <4>1
    <3>. QED BY <1>1, <3>1, <3>2 DEF EndInv, GInv, TypeOK
  <2>. QED BY <2>1, <2>2 DEF OneConnection
<1>. QED BY <1>1, EndInductive, PTL

\* stop() leaves nothing behind: no socket is open or can still open, and no
\* timer is left to dial one.  (The JVM's transport may leave one: README, finding 3.)
StopLeavesNone == closing => ~timer /\ \A s \in Sockets : sock[s] \notin Opening

\* No socket and no timer outlives stop().
THEOREM StopLeavesNothing == Spec => []StopLeavesNone
<1>1. EndInv => StopLeavesNone
  BY DEF EndInv, GInv, Fields, TimerAlone, OpenIsServed, LiveIsCurrent, Live, StopLeavesNone,
         Opening
<1>. QED BY <1>1, EndInductive, PTL

\* A session that has ended is never served again and its socket never opens
\* again: what comes next is another socket with a session of its own.
EndedForGood ==
  [][\A s \in Sockets :
       sess[s] = "closed" => sess'[s] = "closed" /\ sock'[s] \notin Opening]_vars

\* A session that has ended never comes back, nor does its socket.
THEOREM SessionsEndForGood == Spec => EndedForGood
<1>1. ASSUME EndInv, EndInv', [Next]_vars, NEW s \in Sockets, sess[s] = "closed"
      PROVE  sess'[s] = "closed" /\ sock'[s] \notin Opening
  <2>a. /\ GInv /\ TypeOK /\ Fields /\ LiveIsCurrent /\ OpenIsServed' /\ UnopenedIsBare
        /\ UnopenedIsBare'
    BY <1>1 DEF EndInv, GInv
  <2>b. sock[s] \notin {"none", "connecting"}
    BY <1>1, <2>a DEF UnopenedIsBare
  <2>1. sess'[s] = "closed"
    <3>1. ASSUME NEW t \in Sockets, SessionStep(t) \/ (Emit /\ t = session)
          PROVE  sess'[s] = "closed"
      BY <1>1, <2>a, <3>1
         DEF SessionStep, HelloAccepted, HelloMismatch, HelloUnauthorized, Dies, Breaks, Call,
             Finish, Emit, Hears, Writes, Fail, TypeOK
    <3>2. ASSUME NEW t \in Sockets, Accept(t) \/ Opened(t) PROVE sess'[s] = "closed"
      <4>1. Attach(t) /\ t # s
        BY <2>b, <3>2 DEF Accept, Opened, Fresh
      <4>. QED BY <1>1, <4>1 DEF Attach, ClosedSess
    <3>3. ASSUME NEW t \in Sockets, Dial(t) \/ Closed(t) PROVE sess'[s] = "closed"
      BY <1>1, <2>a, <3>3 DEF Dial, Closed, ClosedSess, TypeOK
    <3>4. CASE Stop
      BY <1>1, <2>a, <3>4 DEF Stop, ClosedSess, TypeOK
    <3>5. CASE UNCHANGED vars
      BY <1>1, <3>5 DEF vars
    <3>. QED BY <1>1, <2>a, <3>1, <3>2, <3>3, <3>4, <3>5, Moves
  <2>2. sock'[s] \notin Opening
    BY <2>a, <2>1 DEF OpenIsServed, UnopenedIsBare, Live, Opening
  <2>. QED BY <2>1, <2>2
<1>2. EndInv /\ EndInv' /\ [Next]_vars
        => [\A s \in Sockets :
              sess[s] = "closed" => sess'[s] = "closed" /\ sock'[s] \notin Opening]_vars
  BY <1>1
<1>. QED BY <1>2, EndInductive, PTL DEF Spec, EndedForGood

\* The safety half of CallsAreAnswered: a handler that ends has its one answer
\* written, or the session it would have answered is closed.  What TLC adds is
\* that handlers do end.
NoSilentEnd ==
  [][\A s \in Sockets, id \in CallIds :
       id \in running[s] /\ id \notin running'[s]
         => answers'[s][id] = 1 \/ sess'[s] = "closed"]_vars

\* A handler ends with its answer sent, or with the session it was for.
THEOREM HandlersEndAnswered == Spec => NoSilentEnd
<1>1. ASSUME GInv, [Next]_vars, NEW s \in Sockets, NEW id \in CallIds,
             id \in running[s], id \notin running'[s]
      PROVE  answers'[s][id] = 1 \/ sess'[s] = "closed"
  <2>a. TypeOK /\ answers[s][id] = 0
    BY <1>1 DEF GInv, AnsweredOnce, TypeOK
  <2>1. running' # running
    BY <1>1
  <2>2. ASSUME NEW t \in Sockets, NEW i \in CallIds, Call(t, i) PROVE FALSE
    BY <1>1, <2>a, <2>2 DEF Call, TypeOK
  <2>3. ASSUME NEW t \in Sockets, NEW i \in CallIds, Finish(t, i)
        PROVE  answers'[s][id] = 1 \/ sess'[s] = "closed"
    <3>1. t = s /\ i = id
      BY <1>1, <2>a, <2>3 DEF Finish, TypeOK
    <3>. QED BY <1>1, <2>a, <2>3, <3>1 DEF Finish, Writes, Answer, Fail, TypeOK
  <2>. QED BY <1>1, <2>1, <2>2, <2>3
       DEF Next, HelloAccepted, HelloMismatch, HelloUnauthorized, Dies, Breaks, Emit, Accept,
           Dial, Opened, Closed, Stop, vars
<1>2. GInv /\ [Next]_vars
        => [\A s \in Sockets, id \in CallIds :
              id \in running[s] /\ id \notin running'[s]
                => answers'[s][id] = 1 \/ sess'[s] = "closed"]_vars
  BY <1>1
<1>. QED BY <1>2, GatewayInductive, PTL DEF Spec, NoSilentEnd
=============================================================================

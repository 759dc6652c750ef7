-------------------------- MODULE WsTransportProofs --------------------------
(* What holds of the JVM's transports for any number of connections.        *)
EXTENDS WsTransport, FiniteSetTheorems, TLAPS

-----------------------------------------------------------------------------
(* The inductive invariant                                                  *)

Live == {"fresh", "shook"}
Lively == {"connecting", "open", "closing"}
Busy == {"delayed", "opening", "dropped"}

\* A connection that does not exist yet has no coroutine.
Unborn == \A c \in Conns : socket[c] = "none" => greet[c] = "none"

\* What dials: a connection that is the current one, or one redial.
Dials == mode = "forward" /\ reconnect /\ ~Closing /\ ~suspended
Connected ==
  \E c \in Conns :
    /\ current = c
    /\ \A d \in Conns : (socket[d] \in Lively <=> d = c) /\ redial[d] \notin Busy
Redialling ==
  /\ \A d \in Conns : socket[d] \notin Lively
  /\ \E c \in Conns : \A d \in Conns : redial[d] \in Busy <=> d = c
OneUnderWay == Dials => Connected \/ Redialling

WInv == TypeOK /\ Unborn /\ OneServed /\ OneUnderWay

\* The initial states satisfy the invariant.
LEMMA InitInv == Init => WInv
<1> SUFFICES ASSUME Init PROVE WInv
  OBVIOUS
<1>1. 1 \in Conns /\ None \notin Conns
  BY BoundsAssumption DEF Conns, None
<1>2. TypeOK
  <2>1. 0 \in 0..MaxAttempts /\ 1 \in 1..Backoffs
    BY BoundsAssumption
  <2>. QED BY <1>1, <2>1 DEF Init, TypeOK
<1>3. Unborn /\ OneServed
  BY DEF Init, Unborn, OneServed
<1>4. OneUnderWay
  BY <1>1 DEF Init, OneUnderWay, Dials, Connected, Lively, Busy
<1>. QED BY <1>2, <1>3, <1>4 DEF WInv

-----------------------------------------------------------------------------
(* What the helpers do                                                      *)

\* WebSocket.close() makes no connection and ends none.
LEMMA ShutEffect ==
  ASSUME TypeOK, NEW cs
  PROVE  /\ Shut(cs) \in [Conns -> {"none", "connecting", "open", "closing", "closed"}]
         /\ \A c \in Conns : /\ Shut(cs)[c] \in Lively <=> socket[c] \in Lively
                             /\ Shut(cs)[c] = "none" <=> socket[c] = "none"
                             /\ Shut(cs)[c] # socket[c] => socket[c] \in Lively
BY DEF Shut, TypeOK, Lively

\* DbkSession.close() brings no session to life and ends the ones it is for.
LEMMA EndedEffect ==
  ASSUME TypeOK, NEW cs
  PROVE  /\ Ended(cs) \in [Conns -> {"none", "fresh", "shook", "closed"}]
         /\ \A c \in Conns : Ended(cs)[c] \in Live => Ended(cs)[c] = sess[c] /\ c \notin cs
BY DEF Ended, TypeOK, Live

\* The delay chosen is one of the table, and attempts end at their bound.
LEMMA Scheduled ==
  ASSUME TypeOK, attempts < MaxAttempts, NEW c \in Conns, ScheduleReconnect(c)
  PROVE  /\ attempts' \in 0..MaxAttempts /\ delay' \in 1..Backoffs
         /\ redial' = IF GivesUp THEN redial ELSE [redial EXCEPT ![c] = "delayed"]
<1>0. attempts \in Nat /\ MaxAttempts \in Nat /\ Backoffs \in Nat \ {0}
  <2>1. attempts \in 0..MaxAttempts
    BY DEF TypeOK
  <2>. QED BY <2>1, BoundsAssumption
<1>1. Backoff(attempts + 1) \in 1..Backoffs
  BY <1>0 DEF Backoff
<1>2. CASE GivesUp
  BY <1>2 DEF ScheduleReconnect, dialing, TypeOK
<1>3. CASE ~GivesUp
  BY <1>0, <1>1, <1>3 DEF ScheduleReconnect
<1>. QED BY <1>2, <1>3

-----------------------------------------------------------------------------
(* The steps                                                                *)

\* The type of every variable is kept.
LEMMA TypeStep == TypeOK /\ Next => TypeOK'
<1> SUFFICES ASSUME TypeOK, Next PROVE TypeOK'
  OBVIOUS
<1>1. ASSUME NEW c \in Conns, Opened(c) PROVE TypeOK'
  <2>1. 0 \in 0..MaxAttempts
    BY BoundsAssumption
  <2>2. greet' \in [Conns -> {"none", "launched", "attached", "done"}]
    BY <1>1 DEF Opened, Launch, TypeOK
  <2>. QED BY <1>1, <2>1, <2>2 DEF Opened, TypeOK, config
<1>2. ASSUME NEW c \in Conns, Accepted(c) PROVE TypeOK'
  BY <1>2, ShutEffect DEF Accepted, Launch, TypeOK, config, dialing
<1>3. ASSUME NEW c \in Conns, Attach(c) PROVE TypeOK'
  BY <1>3, EndedEffect DEF Attach, TypeOK, config, dialing
<1>4. ASSUME NEW c \in Conns, NeverBegins(c) \/ PeerGreeted(c) \/ HelloReturns(c) PROVE TypeOK'
  BY <1>4 DEF NeverBegins, PeerGreeted, HelloReturns, TypeOK, config, dialing
<1>5. ASSUME NEW c \in Conns, HelloFails(c) PROVE TypeOK'
  BY <1>5, ShutEffect DEF HelloFails, TypeOK, config, dialing
<1>6. ASSUME NEW c \in Conns, Dies(c) \/ Breaks(c) PROVE TypeOK'
  <2>1. socket' \in [Conns -> {"none", "connecting", "open", "closing", "closed"}]
    BY <1>6, ShutEffect DEF Dies, Breaks
  <2>2. sess' \in [Conns -> {"none", "fresh", "shook", "closed"}]
    <3>1. sess' = Ended({c}) \/ UNCHANGED sess
      BY <1>6 DEF Dies, Breaks
    <3>2. sess \in [Conns -> {"none", "fresh", "shook", "closed"}]
      BY DEF TypeOK
    <3>. QED BY <3>1, <3>2, EndedEffect
  <2>. QED BY <1>6, <2>1, <2>2 DEF Dies, Breaks, TypeOK, config, dialing
<1>7. ASSUME NEW c \in Conns, Closed(c) PROVE TypeOK'
  <2>1. /\ attempts' \in 0..MaxAttempts /\ delay' \in 1..Backoffs
        /\ redial' \in [Conns -> {"none", "delayed", "opening", "dropped", "done"}]
    <3>1. CASE mode = "forward" /\ current = c
      BY <1>7, <3>1, Scheduled DEF Closed, TypeOK
    <3>2. CASE ~(mode = "forward" /\ current = c)
      BY <1>7, <3>2 DEF Closed, dialing, TypeOK
    <3>. QED BY <3>1, <3>2
  <2>2. current' \in Conns \cup {None}
    BY <1>7 DEF Closed, TypeOK
  <2>. QED BY <1>7, <2>1, <2>2, EndedEffect DEF Closed, TypeOK, config
<1>8. ASSUME NEW c \in Conns, Wake(c) PROVE TypeOK'
  BY <1>8 DEF Wake, TypeOK, config
<1>9. ASSUME NEW c \in Conns, Drop(c) PROVE TypeOK'
  <2>1. socket' \in [Conns -> {"none", "connecting", "open", "closing", "closed"}]
    <3>1. CASE Closing
      BY <1>9, <3>1 DEF Drop, TypeOK
    <3>2. CASE ~Closing
      BY <1>9, <3>2, ShutEffect DEF Drop
    <3>. QED BY <3>1, <3>2
  <2>2. redial' \in [Conns -> {"none", "delayed", "opening", "dropped", "done"}]
    <3>1. \E to \in {"done", "dropped"} : redial' = [redial EXCEPT ![c] = to]
      BY <1>9 DEF Drop
    <3>. QED BY <3>1 DEF TypeOK
  <2>. QED BY <1>9, <2>1, <2>2 DEF Drop, TypeOK, config
<1>10. ASSUME NEW c \in Conns, NEW next \in Conns, Dial(c, next) PROVE TypeOK'
  BY <1>10 DEF Dial, TypeOK, config
<1>11. CASE BeginStop \/ CancelScope
  BY <1>11 DEF BeginStop, CancelScope, TypeOK, config, dialing
<1>12. CASE CloseSession \/ StopTransport
  <2>1. socket' \in [Conns -> {"none", "connecting", "open", "closing", "closed"}]
    <3>1. (\E cs : socket' = Shut(cs)) \/ UNCHANGED socket
      BY <1>12 DEF CloseSession, StopTransport
    <3>. QED BY <3>1, ShutEffect DEF TypeOK
  <2>2. sess' \in [Conns -> {"none", "fresh", "shook", "closed"}]
    <3>1. sess' = Ended({session} \ {None}) \/ UNCHANGED sess
      BY <1>12 DEF CloseSession, StopTransport
    <3>2. sess \in [Conns -> {"none", "fresh", "shook", "closed"}]
      BY DEF TypeOK
    <3>. QED BY <3>1, <3>2, EndedEffect
  <2>. QED BY <1>12, <2>1, <2>2 DEF CloseSession, StopTransport, TypeOK, config, dialing
<1>. QED
  BY <1>1, <1>2, <1>3, <1>4, <1>5, <1>6, <1>7, <1>8, <1>9, <1>10, <1>11, <1>12
  DEF Next, Greet, Redial, PeerGivesUp

\* attachSession ends the session before, under the lock that sets the next.
LEMMA ServedStep == WInv /\ Next => Unborn' /\ OneServed'
<1> SUFFICES ASSUME WInv, Next PROVE Unborn' /\ OneServed'
  OBVIOUS
<1>a. TypeOK /\ Unborn /\ OneServed
  BY DEF WInv
<1>1. ASSUME NEW c \in Conns, Opened(c) PROVE Unborn' /\ OneServed'
  BY <1>a, <1>1 DEF Opened, Launch, Unborn, OneServed, TypeOK
<1>2. ASSUME NEW c \in Conns, Accepted(c) PROVE Unborn' /\ OneServed'
  <2>1. Unborn'
    BY <1>a, <1>2, ShutEffect DEF Accepted, Launch, Unborn, TypeOK
  <2>2. OneServed'
    BY <1>a, <1>2 DEF Accepted, Launch, OneServed, TypeOK
  <2>. QED BY <2>1, <2>2
<1>3. ASSUME NEW c \in Conns, Attach(c) PROVE Unborn' /\ OneServed'
  <2>1. Unborn'
    BY <1>a, <1>3 DEF Attach, Unborn, TypeOK
  <2>2. ASSUME NEW d \in Conns, d # c, sess'[d] \in Live, greet'[d] = "attached" \/ sess'[d] = "shook"
        PROVE  FALSE
    <3>a. greet[d] = greet'[d]
      BY <1>a, <1>3, <2>2 DEF Attach, TypeOK
    <3>b. sess' = Ended(Ousted)
      BY <1>3 DEF Attach
    <3>1. sess[d] = sess'[d] /\ greet[d] = greet'[d] /\ d \notin Ousted
      BY <1>a, <2>2, <3>a, <3>b, EndedEffect
    <3>2. session = d /\ d # None
      BY <1>a, <2>2, <3>1, BoundsAssumption DEF OneServed, Live, Conns, None
    <3>. QED BY <3>1, <3>2 DEF Ousted
  <2>. QED BY <1>3, <2>1, <2>2 DEF Attach, OneServed, Live
<1>4. ASSUME NEW c \in Conns, NeverBegins(c) \/ PeerGreeted(c) \/ HelloReturns(c)
      PROVE  Unborn' /\ OneServed'
  <2>1. CASE NeverBegins(c)
    BY <1>a, <2>1 DEF NeverBegins, Unborn, OneServed, TypeOK
  <2>2. CASE PeerGreeted(c)
    BY <1>a, <2>2 DEF PeerGreeted, Unborn, OneServed
  <2>3. CASE HelloReturns(c)
    <3>1. \A d \in Conns : sess'[d] = sess[d] \/ (d = c /\ greet[c] = "attached" /\ sess[c] = "fresh")
      BY <1>a, <2>3 DEF HelloReturns, TypeOK
    <3>2. \A d \in Conns : greet'[d] = greet[d] \/ (d = c /\ greet'[d] = "done")
      BY <1>a, <2>3 DEF HelloReturns, TypeOK
    <3>3. session' = session /\ socket' = socket /\ greet[c] = "attached"
      BY <2>3 DEF HelloReturns
    <3>4. Unborn'
      BY <1>a, <3>2, <3>3 DEF Unborn
    <3>5. OneServed'
      BY <1>a, <3>1, <3>2, <3>3 DEF OneServed
    <3>. QED BY <3>4, <3>5
  <2>. QED BY <1>4, <2>1, <2>2, <2>3
<1>5. ASSUME NEW c \in Conns, HelloFails(c) PROVE Unborn' /\ OneServed'
  <2>1. Unborn'
    BY <1>a, <1>5, ShutEffect DEF HelloFails, Unborn, TypeOK
  <2>2. OneServed'
    BY <1>a, <1>5 DEF HelloFails, OneServed, TypeOK
  <2>. QED BY <2>1, <2>2
<1>6. ASSUME NEW c \in Conns, Dies(c) \/ Breaks(c) PROVE Unborn' /\ OneServed'
  <2>1. Unborn'
    BY <1>a, <1>6, ShutEffect DEF Dies, Breaks, Unborn
  <2>2. OneServed'
    BY <1>a, <1>6, EndedEffect DEF Dies, Breaks, OneServed, Live
  <2>. QED BY <2>1, <2>2
<1>7. ASSUME NEW c \in Conns, Closed(c) PROVE Unborn' /\ OneServed'
  <2>1. Unborn'
    BY <1>a, <1>7 DEF Closed, Unborn, TypeOK
  <2>2. OneServed'
    BY <1>a, <1>7, EndedEffect DEF Closed, OneServed, Live
  <2>. QED BY <2>1, <2>2
<1>8. ASSUME NEW c \in Conns, Wake(c) PROVE Unborn' /\ OneServed'
  BY <1>a, <1>8 DEF Wake, Unborn, OneServed
<1>9. ASSUME NEW c \in Conns, Drop(c) PROVE Unborn' /\ OneServed'
  BY <1>a, <1>9, ShutEffect DEF Drop, Unborn, OneServed
<1>10. ASSUME NEW c \in Conns, NEW next \in Conns, Dial(c, next) PROVE Unborn' /\ OneServed'
  <2>1. greet[next] = "none"
    BY <1>a, <1>10 DEF Dial, Fresh, Unborn
  <2>2. Unborn'
    BY <1>a, <1>10 DEF Dial, Unborn, TypeOK
  <2>3. OneServed'
    BY <1>a, <1>10, <2>1 DEF Dial, OneServed, TypeOK
  <2>. QED BY <2>2, <2>3
<1>11. CASE BeginStop \/ CancelScope
  BY <1>a, <1>11 DEF BeginStop, CancelScope, Unborn, OneServed
<1>12. CASE CloseSession
  <2>1. Unborn'
    BY <1>a, <1>12 DEF CloseSession, Unborn
  <2>2. ASSUME NEW d \in Conns, sess'[d] \in Live, greet'[d] = "attached" \/ sess'[d] = "shook"
        PROVE  FALSE
    <3>1. sess[d] = sess'[d] /\ greet[d] = greet'[d] /\ d \notin {session} \ {None}
      BY <1>a, <1>12, <2>2, EndedEffect DEF CloseSession
    <3>2. session = d /\ d # None
      BY <1>a, <2>2, <3>1, BoundsAssumption DEF OneServed, Live, Conns, None
    <3>. QED BY <3>1, <3>2
  <2>. QED BY <2>1, <2>2 DEF OneServed, Live
<1>13. CASE StopTransport
  BY <1>a, <1>13, ShutEffect DEF StopTransport, Unborn, OneServed
<1>. QED
  BY <1>1, <1>2, <1>3, <1>4, <1>5, <1>6, <1>7, <1>8, <1>9, <1>10, <1>11, <1>12, <1>13
  DEF Next, Greet, Redial, PeerGivesUp

\* A step that leaves alone what dials.
LEMMA DialsOn ==
  ASSUME OneUnderWay, UNCHANGED <<config, current, redial>>, Dials' => Dials,
         \A c \in Conns : socket'[c] \in Lively <=> socket[c] \in Lively
  PROVE  OneUnderWay'
BY DEF OneUnderWay, Connected, Redialling, config

\* Only the closing of the current connection begins a redial, and only the
\* redial makes the next one.
LEMMA DialStep == WInv /\ Next => OneUnderWay'
<1> SUFFICES ASSUME WInv, Next PROVE OneUnderWay'
  OBVIOUS
<1>a. TypeOK /\ OneUnderWay
  BY DEF WInv
<1>1. ASSUME NEW c \in Conns, Opened(c) PROVE OneUnderWay'
  <2>1. \A d \in Conns : socket'[d] \in Lively <=> socket[d] \in Lively
    BY <1>a, <1>1 DEF Opened, Lively, TypeOK
  <2>. QED BY <1>a, <1>1, <2>1, DialsOn DEF Opened, Dials, Closing, config
<1>2. ASSUME NEW c \in Conns, Accepted(c) PROVE OneUnderWay'
  BY <1>2 DEF Accepted, OneUnderWay, Dials, config
<1>3. ASSUME NEW c \in Conns, Attach(c) \/ NeverBegins(c) \/ PeerGreeted(c) \/ HelloReturns(c)
      PROVE  OneUnderWay'
  BY <1>a, <1>3, DialsOn
  DEF Attach, NeverBegins, PeerGreeted, HelloReturns, Dials, Closing, config, dialing
<1>4. ASSUME NEW c \in Conns, HelloFails(c) \/ Dies(c) \/ Breaks(c) PROVE OneUnderWay'
  <2>1. \A d \in Conns : socket'[d] \in Lively <=> socket[d] \in Lively
    BY <1>a, <1>4, ShutEffect DEF HelloFails, Dies, Breaks
  <2>2. (Dials' => Dials) /\ UNCHANGED <<config, current, redial>>
    <3>1. CASE HelloFails(c)
      BY <1>a, <3>1 DEF HelloFails, Dials, Closing, config, dialing, TypeOK
    <3>2. CASE Dies(c) \/ Breaks(c)
      BY <3>2 DEF Dies, Breaks, Dials, Closing, config, dialing
    <3>. QED BY <1>4, <3>1, <3>2
  <2>. QED BY <1>a, <2>1, <2>2, DialsOn
<1>5. ASSUME NEW c \in Conns, Closed(c) PROVE OneUnderWay'
  <2> SUFFICES ASSUME Dials' PROVE Redialling'
    BY DEF OneUnderWay
  <2>1. Dials /\ ~GivesUp /\ mode = "forward"
    BY <1>5 DEF Closed, Dials, GivesUp, Closing, config
  <2>2. /\ socket[c] \in Lively
        /\ \A d \in Conns : socket'[d] = IF d = c THEN "closed" ELSE socket[d]
    BY <1>a, <1>5 DEF Closed, Lively, TypeOK
  <2>3. current = c /\ \A d \in Conns : (socket[d] \in Lively <=> d = c) /\ redial[d] \notin Busy
    BY <1>a, <2>1, <2>2 DEF OneUnderWay, Connected, Redialling
  <2>4. redial' = [redial EXCEPT ![c] = "delayed"]
    BY <1>a, <1>5, <2>1, <2>3, Scheduled DEF Closed
  <2>5. \A d \in Conns : redial'[d] \in Busy <=> d = c
    BY <1>a, <2>3, <2>4 DEF Busy, TypeOK
  <2>. QED BY <2>2, <2>3, <2>5 DEF Redialling, Lively
<1>6. ASSUME NEW c \in Conns, Wake(c) \/ Drop(c) \/ \E next \in Conns : Dial(c, next)
      PROVE  OneUnderWay'
  <2> SUFFICES ASSUME Dials' PROVE (Connected \/ Redialling)'
    BY DEF OneUnderWay
  <2>a. UNCHANGED <<mode, reconnect, stop, suspended>>
    BY <1>6 DEF Wake, Drop, Dial, config
  <2>1. Dials /\ ~Closing /\ ~suspended /\ Scope
    BY <2>a DEF Dials, Closing, Scope
  <2>2. redial[c] \in Busy
    BY <1>6 DEF Wake, Drop, Dial, Busy
  <2>3. \A d \in Conns : socket[d] \notin Lively /\ (redial[d] \in Busy <=> d = c)
    BY <1>a, <2>1, <2>2 DEF OneUnderWay, Connected, Redialling
  <2>4. CASE Wake(c)
    <3>1. \A d \in Conns : redial'[d] \in Busy <=> d = c
      BY <1>a, <2>1, <2>3, <2>4 DEF Wake, Busy, TypeOK
    <3>. QED BY <2>3, <2>4, <3>1 DEF Wake, Redialling
  <2>5. CASE Drop(c)
    <3>1. \A d \in Conns : redial'[d] \in Busy <=> d = c
      BY <1>a, <2>1, <2>3, <2>5 DEF Drop, Busy, TypeOK
    <3>2. \A d \in Conns : socket'[d] \notin Lively
      BY <1>a, <2>1, <2>3, <2>5, ShutEffect DEF Drop
    <3>. QED BY <3>1, <3>2 DEF Redialling
  <2>6. ASSUME NEW next \in Conns, Dial(c, next) PROVE Connected'
    <3>1. current' = next
      BY <2>1, <2>6 DEF Dial
    <3>2. \A d \in Conns : socket'[d] \in Lively <=> d = next
      BY <1>a, <2>1, <2>3, <2>6 DEF Dial, Lively, TypeOK
    <3>3. \A d \in Conns : redial'[d] \notin Busy
      BY <1>a, <2>3, <2>6 DEF Dial, Busy, TypeOK
    <3>. QED BY <3>1, <3>2, <3>3 DEF Connected
  <2>. QED BY <1>6, <2>4, <2>5, <2>6
<1>7. CASE BeginStop \/ CloseSession \/ StopTransport \/ CancelScope
  BY <1>7 DEF BeginStop, CloseSession, StopTransport, CancelScope, OneUnderWay, Dials, Closing
<1>. QED
  BY <1>1, <1>2, <1>3, <1>4, <1>5, <1>6, <1>7 DEF Next, Greet, Redial, PeerGivesUp

\* A step that changes nothing keeps the invariant.
LEMMA Stuttering == WInv /\ UNCHANGED vars => WInv'
<1> SUFFICES ASSUME WInv, UNCHANGED vars PROVE WInv'
  OBVIOUS
<1>1. TypeOK' /\ Unborn' /\ OneServed'
  BY DEF WInv, TypeOK, Unborn, OneServed, vars
<1>2. OneUnderWay'
  BY DEF WInv, OneUnderWay, Dials, Closing, Connected, Redialling, vars
<1>. QED BY <1>1, <1>2 DEF WInv

\* The invariant holds in every reachable state.
LEMMA TransportInductive == Spec => []WInv
<1>1. WInv /\ [Next]_vars => WInv'
  <2>1. WInv /\ Next => WInv'
    BY TypeStep, ServedStep, DialStep DEF WInv
  <2>. QED BY <2>1, Stuttering
<1>. QED BY InitInv, <1>1, PTL DEF Spec

-----------------------------------------------------------------------------
(* What follows                                                             *)

\* Every variable of the transports keeps its type, and the delay of a redial
\* is one of the table's.
THEOREM TransportTypeCorrect == Spec => []TypeOK
<1>1. WInv => TypeOK
  BY DEF WInv
<1>. QED BY <1>1, TransportInductive, PTL

\* However many connections open, and in whatever order their coroutines come
\* to attachSession, one session that passed it is alive, the one in use.
THEOREM OneSessionAlways == Spec => []OneServed
<1>1. WInv => OneServed
  BY DEF WInv
<1>. QED BY <1>1, TransportInductive, PTL

\* The forward gateway never stops redialling and never dials twice.
THEOREM OneRedialAlways == Spec => []OneDialUnderWay
<1>1. ASSUME WInv, Dials PROVE Cardinality(UnderWay) = 1
  <2>1. PICK c \in Conns : \A d \in Conns : (socket[d] \in Lively \/ redial[d] \in Busy) <=> d = c
    BY <1>1 DEF WInv, OneUnderWay, Connected, Redialling
  <2>2. UnderWay = {c}
    BY <2>1 DEF UnderWay, Lively, Busy
  <2>. QED BY <2>2, FS_Singleton
<1>2. WInv => OneDialUnderWay
  BY <1>1 DEF OneDialUnderWay, Dials
<1>. QED BY <1>2, TransportInductive, PTL

-----------------------------------------------------------------------------
(* Who closes what is open.  NoZombie, and StopClosesAll as far as the code  *)
(* keeps it, rest on these invariants; that the one who is to close a        *)
(* connection comes to it is fairness, and stays with TLC.                   *)

Opening == {"connecting", "open"}

\* No connection but the transport's current one is open, or about to be: one
\* that is replaced, dropped by a redial or stopped is closed in the same step.
CurrentOnly == \A c \in Conns : socket[c] \in Opening => current = c

\* A redial is alone, and begins where the current connection has ended.
RedialAlone ==
  /\ \A c \in Conns : redial[c] \in Busy =>
       /\ mode = "forward"
       /\ current \in Conns => socket[current] = "closed"
  /\ \A c, d \in Conns : redial[c] \in Busy /\ redial[d] \in Busy => c = d

\* A session is not in use, and Koishi has not answered it, before attachSession.
Unattached ==
  \A c \in Conns : greet[c] \in {"none", "launched"} =>
    /\ session # c /\ peer[c] = "none"
    /\ socket[c] \in Opening => sess[c] = "fresh"

\* The coroutine of a connection closes it if the hello fails; a Koishi that has
\* accepted the hello closes it if nobody answers its pings.
Watched(c) == greet[c] \in {"launched", "attached"} \/ peer[c] = "ok"

\* What nobody watches came after the scope was gone and was never greeted.
Leaked(c) ==
  stop = "done" /\ greet[c] = "done" /\ session # c /\ peer[c] = "none" /\ sess[c] = "fresh"
Watch ==
  \A c \in Conns :
    /\ socket[c] = "open" => Watched(c) \/ Leaked(c)
    /\ socket[c] = "connecting" => greet[c] = "none"

\* Once the transport is stopped it has a connection only where it dials.
StoppedDials == stop \in {"transport gone", "done"} /\ mode = "reverse" => current = None

EndInv == CurrentOnly /\ RedialAlone /\ Unattached /\ Watch /\ StoppedDials

\* The initial states satisfy it.
LEMMA EndInit == Init => EndInv
<1>1. 1 \in Conns /\ None \notin Conns
  BY BoundsAssumption DEF Conns, None
<1>. QED
  BY <1>1 DEF Init, EndInv, CurrentOnly, RedialAlone, Unattached, Watch, StoppedDials, Opening, Busy

\* WebSocket.close() opens nothing, and leaves nothing open that it is for.
LEMMA ShutOpening ==
  ASSUME NEW cs, NEW c \in Conns
  PROVE  /\ Shut(cs)[c] \in Opening => c \notin cs /\ Shut(cs)[c] = socket[c]
         /\ Shut(cs)[c] = "closed" <=> socket[c] = "closed"
BY DEF Shut, Opening

\* Only what was open and current before a step, or is made current, is open after.
LEMMA CurrentStep == TypeOK /\ EndInv /\ Next => CurrentOnly'
<1> SUFFICES ASSUME TypeOK, EndInv, Next, NEW d \in Conns, socket'[d] \in Opening
             PROVE  current' = d
  BY DEF CurrentOnly
<1>a. /\ socket[d] \in Opening => current = d
      /\ \A c \in Conns : redial[c] \in Busy => (current \in Conns => socket[current] = "closed")
  BY DEF EndInv, CurrentOnly, RedialAlone
<1>1. ASSUME NEW c \in Conns, Opened(c) \/ Greet(c) \/ PeerGreeted(c) \/ Dies(c) \/ Breaks(c) \/ PeerGivesUp(c)
      PROVE  socket[d] \in Opening /\ current' = current
  <2>1. CASE Opened(c)
    BY <2>1 DEF Opened, TypeOK, Opening
  <2>2. CASE Greet(c)
    BY <2>2, ShutOpening DEF Greet, Attach, NeverBegins, HelloReturns, HelloFails
  <2>3. CASE PeerGreeted(c) \/ Dies(c) \/ Breaks(c)
    BY <2>3, ShutOpening DEF PeerGreeted, Dies, Breaks
  <2>. QED BY <1>1, <2>1, <2>2, <2>3 DEF PeerGivesUp
<1>2. ASSUME NEW c \in Conns, Accepted(c) PROVE current' = d
  <2>1. socket' = [Shut({current} \ {None}) EXCEPT ![c] = "open"] /\ current' = c
    BY <1>2 DEF Accepted
  <2>2. CASE d # c
    <3>1. Shut({current} \ {None})[d] \in Opening
      BY <2>1, <2>2 DEF Shut
    <3>2. d \notin {current} \ {None} /\ socket[d] \in Opening
      BY <3>1, ShutOpening
    <3>. QED BY <1>a, <3>2, BoundsAssumption DEF Conns, None
  <2>. QED BY <2>1, <2>2
<1>3. ASSUME NEW c \in Conns, Closed(c) PROVE current' = d
  <2>1. socket[d] \in Opening /\ d # c
    BY <1>3 DEF Closed, TypeOK, Opening
  <2>. QED BY <1>a, <1>3, <2>1 DEF Closed
<1>4. ASSUME NEW c \in Conns, Wake(c) PROVE current' = d
  BY <1>a, <1>4 DEF Wake
<1>5. ASSUME NEW c \in Conns, Drop(c) PROVE current' = d
  <2>1. redial[c] \in Busy
    BY <1>5 DEF Drop, Busy
  <2>2. socket[d] \in Opening
    BY <1>5, ShutOpening DEF Drop
  <2>. QED BY <1>a, <2>1, <2>2 DEF Opening
<1>6. ASSUME NEW c \in Conns, NEW next \in Conns, Dial(c, next) PROVE current' = d
  <2>1. redial[c] \in Busy
    BY <1>6 DEF Dial, Busy
  <2>2. socket[d] \notin Opening
    BY <1>a, <2>1 DEF Opening
  <2>. QED BY <1>6, <2>2 DEF Dial, TypeOK
<1>7. CASE BeginStop \/ CloseSession \/ CancelScope
  BY <1>a, <1>7 DEF BeginStop, CloseSession, CancelScope
<1>8. CASE StopTransport
  <2>1. socket[d] \in Opening /\ d \notin (IF mode = "forward" THEN {current} \ {None} ELSE Conns)
    BY <1>8, ShutOpening DEF StopTransport
  <2>. QED BY <1>a, <2>1, BoundsAssumption DEF Conns, None
<1>. QED
  BY <1>a, <1>1, <1>2, <1>3, <1>4, <1>5, <1>6, <1>7, <1>8 DEF Next, Redial

\* A redial begins only where the current connection closes, and ends by making
\* the next one.
LEMMA RedialAloneStep == TypeOK /\ EndInv /\ Next => RedialAlone'
<1> SUFFICES ASSUME TypeOK, EndInv, Next PROVE RedialAlone'
  OBVIOUS
<1>a. RedialAlone
  BY DEF EndInv
<1>b. None \notin Conns
  BY DEF Conns, None
\* Most steps begin no redial and keep closed what is closed.
<1>c. ASSUME UNCHANGED mode, current' = current \/ current' = None,
             \A c \in Conns : redial'[c] \in Busy => redial[c] \in Busy,
             \A c \in Conns : socket[c] = "closed" => socket'[c] = "closed"
      PROVE  RedialAlone'
  BY <1>a, <1>b, <1>c DEF RedialAlone
<1>1. ASSUME NEW c \in Conns, Opened(c) \/ Greet(c) \/ PeerGreeted(c) \/ Dies(c) \/ Breaks(c) \/ PeerGivesUp(c)
      PROVE  RedialAlone'
  <2>1. UNCHANGED <<mode, current, redial>>
    BY <1>1 DEF Opened, Greet, Attach, NeverBegins, HelloReturns, HelloFails, PeerGreeted, Dies, Breaks,
                PeerGivesUp, config, dialing
  <2>2. \A d \in Conns : socket[d] = "closed" => socket'[d] = "closed"
    <3>1. CASE Opened(c)
      BY <3>1 DEF Opened, TypeOK
    <3>2. CASE ~Opened(c)
      <4>1. UNCHANGED socket \/ \E cs : socket' = Shut(cs)
        BY <1>1, <3>2 DEF Greet, Attach, NeverBegins, HelloReturns, HelloFails, PeerGreeted, Dies, Breaks,
                          PeerGivesUp
      <4>. QED BY <4>1, ShutOpening
    <3>. QED BY <3>1, <3>2
  <2>. QED BY <1>c, <2>1, <2>2
<1>2. ASSUME NEW c \in Conns, Accepted(c) PROVE RedialAlone'
  <2>1. UNCHANGED <<mode, redial>> /\ mode = "reverse"
    BY <1>2 DEF Accepted, config, dialing
  <2>. QED BY <1>a, <2>1 DEF RedialAlone
<1>3. ASSUME NEW c \in Conns, Closed(c) PROVE RedialAlone'
  <2>1. /\ socket[c] # "closed" /\ socket'[c] = "closed" /\ UNCHANGED mode
        /\ \A d \in Conns : socket[d] = "closed" => socket'[d] = "closed"
    BY <1>3 DEF Closed, TypeOK, config
  <2>2. CASE UNCHANGED redial
    <3>1. current' = current \/ current' = None
      BY <1>3 DEF Closed
    <3>. QED BY <1>c, <2>1, <2>2, <3>1
  <2>3. CASE ~UNCHANGED redial
    <3>1. mode = "forward" /\ current = c /\ ScheduleReconnect(c) /\ UNCHANGED current
      BY <1>3, <2>3 DEF Closed, dialing
    <3>2. redial' = [redial EXCEPT ![c] = "delayed"]
      BY <2>3, <3>1 DEF ScheduleReconnect, dialing
    <3>3. \A d \in Conns : redial[d] \notin Busy
      BY <1>a, <2>1, <3>1 DEF RedialAlone
    <3>4. \A d \in Conns : redial'[d] \in Busy => d = c
      BY <3>2, <3>3 DEF TypeOK
    <3>. QED BY <2>1, <3>1, <3>4 DEF RedialAlone
  <2>. QED BY <2>2, <2>3
<1>4. ASSUME NEW c \in Conns, Wake(c) \/ Drop(c) PROVE RedialAlone'
  <2>1. /\ redial[c] \in Busy /\ UNCHANGED mode
        /\ \A d \in Conns : redial'[d] # redial[d] => d = c
    BY <1>4 DEF Wake, Drop, TypeOK, Busy, config
  <2>2. current' = current \/ current' = None
    BY <1>4 DEF Wake, Drop
  <2>3. \A d \in Conns : socket[d] = "closed" => socket'[d] = "closed"
    BY <1>4, ShutOpening DEF Wake, Drop
  <2>. QED BY <1>c, <2>1, <2>2, <2>3
<1>5. ASSUME NEW c \in Conns, NEW next \in Conns, Dial(c, next) PROVE RedialAlone'
  <2>1. redial[c] \in Busy /\ redial' = [redial EXCEPT ![c] = "done"]
    BY <1>5 DEF Dial, Busy
  <2>2. \A d \in Conns : redial'[d] \notin Busy
    BY <1>a, <2>1 DEF RedialAlone, TypeOK, Busy
  <2>. QED BY <2>2 DEF RedialAlone
<1>6. CASE BeginStop \/ CloseSession \/ StopTransport
  <2>1. UNCHANGED <<mode, redial>> /\ (current' = current \/ current' = None)
    BY <1>6 DEF BeginStop, CloseSession, StopTransport, config, dialing
  <2>2. UNCHANGED socket \/ \E cs : socket' = Shut(cs)
    BY <1>6 DEF BeginStop, CloseSession, StopTransport
  <2>3. \A d \in Conns : socket[d] = "closed" => socket'[d] = "closed"
    BY <2>2, ShutOpening
  <2>. QED BY <1>c, <2>1, <2>3
<1>7. CASE CancelScope
  BY <1>c, <1>7 DEF CancelScope, Busy, config
<1>. QED
  BY <1>1, <1>2, <1>3, <1>4, <1>5, <1>6, <1>7 DEF Next, Redial

\* A transport that is stopped makes no more connections, but for a redial.
LEMMA StoppedDialsStep == TypeOK /\ EndInv /\ Next => StoppedDials'
<1> SUFFICES ASSUME TypeOK, EndInv, Next PROVE StoppedDials'
  OBVIOUS
<1>a. StoppedDials /\ \A c \in Conns : redial[c] \in Busy => mode = "forward"
  BY DEF EndInv, RedialAlone
<1>1. ASSUME NEW c \in Conns, Opened(c) \/ Greet(c) \/ PeerGreeted(c) \/ Dies(c) \/ Breaks(c) \/ PeerGivesUp(c)
      PROVE  UNCHANGED <<mode, current, stop>>
  BY <1>1 DEF Opened, Greet, Attach, NeverBegins, HelloReturns, HelloFails, PeerGreeted, Dies, Breaks,
              PeerGivesUp, config
<1>2. ASSUME NEW c \in Conns, Accepted(c) \/ Closed(c) PROVE StoppedDials'
  BY <1>a, <1>2 DEF Accepted, Closed, StoppedDials, config
<1>3. ASSUME NEW c \in Conns, Wake(c) PROVE UNCHANGED <<mode, current, stop>>
  BY <1>3 DEF Wake, config
<1>4. ASSUME NEW c \in Conns, Drop(c) \/ \E next \in Conns : Dial(c, next) PROVE StoppedDials'
  <2>1. redial[c] \in Busy /\ UNCHANGED <<mode, stop>>
    BY <1>4 DEF Drop, Dial, Busy, config
  <2>. QED BY <1>a, <2>1 DEF StoppedDials
<1>5. CASE BeginStop \/ CloseSession \/ StopTransport \/ CancelScope
  BY <1>a, <1>5 DEF BeginStop, CloseSession, StopTransport, CancelScope, StoppedDials, config
<1>. QED
  BY <1>a, <1>1, <1>2, <1>3, <1>4, <1>5 DEF Next, Redial, StoppedDials

\* A connection that attachSession has not come to keeps its fresh session.
LEMMA UnattachedStep == TypeOK /\ Unborn /\ EndInv /\ Next => Unattached'
<1> DEFINE Good(d) == /\ session # d /\ peer[d] = "none"
                      /\ socket[d] \in Opening => sess[d] = "fresh"
<1> SUFFICES ASSUME TypeOK, Unborn, EndInv, Next, NEW d \in Conns, greet'[d] \in {"none", "launched"}
             PROVE  Good(d)'
  BY DEF Unattached
<1>a. greet[d] \in {"none", "launched"} => Good(d)
  BY DEF EndInv, Unattached
<1>b. None # d
  BY DEF Conns, None
<1>c. (socket[d] = "none" => greet[d] = "none") /\ (socket[d] = "connecting" => greet[d] = "none")
  BY DEF Unborn, EndInv, Watch
\* Most steps leave this connection alone, or close it.
<1>d. ASSUME greet[d] \in {"none", "launched"}, session' = session \/ session' # d,
             peer'[d] = peer[d], socket'[d] \in Opening => socket[d] \in Opening /\ sess'[d] = sess[d]
      PROVE  Good(d)'
  BY <1>a, <1>d
<1>1. ASSUME NEW c \in Conns, Opened(c) PROVE Good(d)'
  <2>1. greet[d] \in {"none", "launched"}
    BY <1>c, <1>1 DEF Opened, Launch, TypeOK
  <2>2. socket'[d] \in Opening => socket[d] \in Opening
    BY <1>1 DEF Opened, Opening, TypeOK
  <2>. QED BY <1>1, <1>d, <2>1, <2>2 DEF Opened
<1>2. ASSUME NEW c \in Conns, Accepted(c) PROVE Good(d)'
  <2>1. CASE d = c
    <3>1. socket[d] = "none" /\ sess'[d] = "fresh" /\ UNCHANGED <<session, peer>>
      BY <1>2, <2>1 DEF Accepted, Fresh, TypeOK
    <3>. QED BY <1>a, <1>c, <3>1
  <2>2. CASE d # c
    <3>1. greet[d] \in {"none", "launched"} /\ sess'[d] = sess[d] /\ UNCHANGED <<session, peer>>
      BY <1>2, <2>2 DEF Accepted, Launch, TypeOK
    <3>2. socket'[d] = Shut({current} \ {None})[d]
      BY <1>2, <2>2 DEF Accepted, Shut
    <3>. QED BY <1>d, <3>1, <3>2, ShutOpening
  <2>. QED BY <2>1, <2>2
<1>3. ASSUME NEW c \in Conns, Attach(c) PROVE Good(d)'
  <2>1. d # c /\ greet[d] \in {"none", "launched"} /\ session' = c /\ UNCHANGED <<socket, peer>>
    BY <1>3 DEF Attach, TypeOK
  <2>2. sess'[d] = sess[d]
    BY <1>3, <1>a, <2>1 DEF Attach, Ended, Ousted
  <2>. QED BY <1>d, <2>1, <2>2
<1>4. ASSUME NEW c \in Conns, NeverBegins(c) \/ PeerGreeted(c) \/ HelloReturns(c) \/ HelloFails(c)
      PROVE  Good(d)'
  <2>1. d # c \/ PeerGreeted(c)
    BY <1>4 DEF NeverBegins, HelloReturns, HelloFails, TypeOK
  <2>2. d # c /\ greet[d] \in {"none", "launched"}
    BY <1>4, <2>1 DEF NeverBegins, PeerGreeted, HelloReturns, HelloFails, TypeOK
  <2>3. sess'[d] = sess[d] /\ peer'[d] = peer[d] /\ UNCHANGED session
    BY <1>4, <2>2 DEF NeverBegins, PeerGreeted, HelloReturns, HelloFails, TypeOK
  <2>4. UNCHANGED socket \/ \E cs : socket' = Shut(cs)
    BY <1>4 DEF NeverBegins, PeerGreeted, HelloReturns, HelloFails
  <2>. QED BY <1>d, <2>2, <2>3, <2>4, ShutOpening
<1>5. ASSUME NEW c \in Conns, Dies(c) \/ Breaks(c) PROVE Good(d)'
  <2>1. UNCHANGED <<greet, peer, session>> /\ socket' = Shut({c})
        /\ (sess' = Ended({c}) \/ UNCHANGED sess)
    BY <1>5 DEF Dies, Breaks
  <2>2. socket'[d] \in Opening => d # c /\ socket[d] \in Opening
    BY <2>1, ShutOpening
  <2>. QED BY <1>d, <2>1, <2>2 DEF Ended
<1>6. ASSUME NEW c \in Conns, Closed(c) PROVE Good(d)'
  <2>1. socket'[d] \in Opening => d # c /\ socket[d] \in Opening
    BY <1>6 DEF Closed, Opening, TypeOK
  <2>. QED BY <1>6, <1>d, <2>1 DEF Closed, Ended
<1>7. ASSUME NEW c \in Conns, Wake(c) \/ Drop(c) PROVE Good(d)'
  <2>1. UNCHANGED <<greet, peer, session, sess>> /\ (UNCHANGED socket \/ \E cs : socket' = Shut(cs))
    BY <1>7 DEF Wake, Drop
  <2>. QED BY <1>d, <2>1, ShutOpening
<1>8. ASSUME NEW c \in Conns, NEW next \in Conns, Dial(c, next) PROVE Good(d)'
  <2>1. CASE d = next
    <3>1. socket[d] = "none" /\ UNCHANGED <<session, peer>>
      BY <1>8, <2>1 DEF Dial, Fresh
    <3>2. socket'[d] \in Opening => sess'[d] = "fresh"
      BY <1>8, <2>1, <3>1 DEF Dial, Opening, TypeOK
    <3>. QED BY <1>a, <1>c, <3>1, <3>2
  <2>2. CASE d # next
    BY <1>8, <1>d, <2>2 DEF Dial, TypeOK
  <2>. QED BY <2>1, <2>2
<1>9. CASE BeginStop \/ CancelScope
  BY <1>9, <1>d DEF BeginStop, CancelScope
<1>10. CASE CloseSession
  BY <1>10, <1>a, <1>b, <1>d DEF CloseSession, Ended
<1>11. CASE StopTransport
  BY <1>11, <1>d, ShutOpening DEF StopTransport
<1>. QED
  BY <1>1, <1>2, <1>3, <1>4, <1>5, <1>6, <1>7, <1>8, <1>9, <1>10, <1>11
  DEF Next, Greet, Redial, PeerGivesUp

\* What is open is watched, or it came when the scope was gone and stays as it came.
LEMMA WatchStep == TypeOK /\ Unborn /\ EndInv /\ Next => Watch'
<1> DEFINE Safe(d) == /\ socket[d] = "open" => Watched(d) \/ Leaked(d)
                      /\ socket[d] = "connecting" => greet[d] = "none"
<1> SUFFICES ASSUME TypeOK, Unborn, EndInv, Next, NEW d \in Conns PROVE Safe(d)'
  BY DEF Watch
<1>a. Safe(d)
  BY DEF EndInv, Watch
<1>b. greet[d] \in {"none", "launched"} =>
        session # d /\ peer[d] = "none" /\ (socket[d] \in Opening => sess[d] = "fresh")
  BY DEF EndInv, Unattached
<1>c. socket[d] = "none" => greet[d] = "none"
  BY DEF Unborn
\* Most steps leave alone who watches this connection and open nothing.
<1>d. ASSUME socket'[d] \in Opening => socket'[d] = socket[d] /\ sess'[d] = sess[d],
             session' = session \/ session' # d,
             greet'[d] = greet[d], peer'[d] = peer[d], stop' = stop \/ stop # "done"
      PROVE  Safe(d)'
  BY <1>a, <1>d DEF Opening, Watched, Leaked
<1>1. ASSUME NEW c \in Conns, Opened(c) PROVE Safe(d)'
  <2>1. CASE d = c
    <3>1. socket[d] = "connecting" /\ socket'[d] = "open" /\ greet[d] = "none"
      BY <1>a, <1>1, <2>1 DEF Opened, TypeOK
    <3>2. session # d /\ peer[d] = "none" /\ sess[d] = "fresh"
      BY <1>b, <3>1 DEF Opening
    <3>3. greet'[d] = "launched" \/ (greet'[d] = "done" /\ stop = "done")
      <4>1. greet'[c] = IF Scope THEN "launched" ELSE "done"
        BY <1>1 DEF Opened, Launch, TypeOK
      <4>. QED BY <2>1, <4>1 DEF Scope
    <3>. QED BY <1>1, <3>1, <3>2, <3>3 DEF Opened, Watched, Leaked
  <2>2. CASE d # c
    BY <1>1, <1>d, <2>2 DEF Opened, Launch, TypeOK
  <2>. QED BY <2>1, <2>2
<1>2. ASSUME NEW c \in Conns, Accepted(c) PROVE Safe(d)'
  <2>1. CASE d = c
    <3>1. socket'[d] = "open" /\ greet'[d] = "launched"
      BY <1>2, <2>1, ShutEffect DEF Accepted, Launch, Scope, TypeOK
    <3>. QED BY <3>1 DEF Watched
  <2>2. CASE d # c
    <3>1. socket'[d] = Shut({current} \ {None})[d]
      BY <1>2, <2>2 DEF Accepted, Shut
    <3>2. socket'[d] \in Opening => socket'[d] = socket[d]
      BY <3>1, ShutOpening
    <3>. QED BY <1>2, <1>d, <2>2, <3>2 DEF Accepted, Launch, TypeOK
  <2>. QED BY <2>1, <2>2
<1>3. ASSUME NEW c \in Conns, Attach(c) PROVE Safe(d)'
  <2>1. CASE d = c
    BY <1>3, <1>a, <2>1 DEF Attach, TypeOK, Watched
  <2>2. CASE d # c
    <3>1. /\ UNCHANGED <<socket, peer, stop>> /\ session' = c
          /\ greet'[d] = greet[d] /\ (session # d => sess'[d] = sess[d])
      BY <1>3, <2>2 DEF Attach, Ended, Ousted
    <3>. QED BY <1>a, <2>2, <3>1 DEF Watched, Leaked
  <2>. QED BY <2>1, <2>2
<1>4. ASSUME NEW c \in Conns, NeverBegins(c) \/ PeerGreeted(c) \/ HelloReturns(c) PROVE Safe(d)'
  <2>1. UNCHANGED <<socket, session, stop>>
    BY <1>4 DEF NeverBegins, PeerGreeted, HelloReturns
  <2>2. CASE d = c
    <3>1. greet[d] \in {"launched", "attached"}
      BY <1>4, <2>2 DEF NeverBegins, PeerGreeted, HelloReturns
    <3>2. socket[d] # "connecting"
      BY <1>a, <3>1
    <3>3. CASE NeverBegins(c)
      <4>1. stop = "done" /\ greet'[d] = "done" /\ UNCHANGED <<sess, peer>> /\ greet[d] = "launched"
        BY <2>2, <3>3 DEF NeverBegins, Scope, TypeOK
      <4>. QED BY <1>b, <2>1, <3>2, <4>1 DEF Leaked, Opening
    <3>4. CASE PeerGreeted(c)
      BY <2>1, <2>2, <3>2, <3>4 DEF PeerGreeted, Watched
    <3>5. CASE HelloReturns(c)
      BY <2>1, <2>2, <3>2, <3>5 DEF HelloReturns, Watched
    <3>. QED BY <1>4, <3>3, <3>4, <3>5
  <2>3. CASE d # c
    <3>1. greet'[d] = greet[d] /\ sess'[d] = sess[d] /\ peer'[d] = peer[d]
      BY <1>4, <2>3 DEF NeverBegins, PeerGreeted, HelloReturns, TypeOK
    <3>. QED BY <1>d, <2>1, <3>1
  <2>. QED BY <2>2, <2>3
<1>5. ASSUME NEW c \in Conns, HelloFails(c) PROVE Safe(d)'
  <2>1. socket' = Shut({c})
    BY <1>5 DEF HelloFails, ClosedOnFailure
  <2>2. CASE d = c
    <3>1. socket'[d] \notin Opening
      BY <2>1, <2>2, ShutOpening
    <3>. QED BY <3>1 DEF Opening
  <2>3. CASE d # c
    BY <1>5, <1>d, <2>1, <2>3, ShutOpening DEF HelloFails
  <2>. QED BY <2>2, <2>3
<1>6. ASSUME NEW c \in Conns, Dies(c) \/ Breaks(c) PROVE Safe(d)'
  <2>1. UNCHANGED <<greet, peer, session, stop>> /\ socket' = Shut({c})
        /\ (sess' = Ended({c}) \/ UNCHANGED sess)
    BY <1>6 DEF Dies, Breaks
  <2>2. socket'[d] \in Opening => d # c /\ socket'[d] = socket[d]
    BY <2>1, ShutOpening
  <2>. QED BY <1>d, <2>1, <2>2 DEF Ended
<1>7. ASSUME NEW c \in Conns, Closed(c) PROVE Safe(d)'
  <2>1. socket'[d] \in Opening => d # c /\ socket'[d] = socket[d]
    BY <1>7 DEF Closed, Opening, TypeOK
  <2>. QED BY <1>7, <1>d, <2>1 DEF Closed, Ended
<1>8. ASSUME NEW c \in Conns, Wake(c) \/ Drop(c) PROVE Safe(d)'
  <2>1. UNCHANGED <<greet, peer, session, sess, stop>> /\ (UNCHANGED socket \/ \E cs : socket' = Shut(cs))
    BY <1>8 DEF Wake, Drop
  <2>. QED BY <1>d, <2>1, ShutOpening
<1>9. ASSUME NEW c \in Conns, NEW next \in Conns, Dial(c, next) PROVE Safe(d)'
  <2>1. CASE d = next
    <3>1. socket[d] = "none" /\ UNCHANGED greet /\ socket'[d] \in {"none", "connecting"}
      BY <1>9, <2>1 DEF Dial, Fresh, TypeOK
    <3>. QED BY <1>c, <3>1
  <2>2. CASE d # next
    BY <1>9, <1>d, <2>2 DEF Dial, TypeOK
  <2>. QED BY <2>1, <2>2
<1>10. CASE BeginStop \/ CancelScope
  BY <1>10, <1>d DEF BeginStop, CancelScope
<1>11. CASE CloseSession
  BY <1>11, <1>a DEF CloseSession, Watched, Leaked
<1>12. CASE StopTransport
  BY <1>12, <1>d, ShutOpening DEF StopTransport
<1>. QED
  BY <1>1, <1>2, <1>3, <1>4, <1>5, <1>6, <1>7, <1>8, <1>9, <1>10, <1>11, <1>12
  DEF Next, Greet, Redial, PeerGivesUp

\* These invariants hold in every reachable state.
LEMMA EndInductive == Spec => []EndInv
<1>1. TypeOK /\ Unborn /\ EndInv /\ [Next]_vars => EndInv'
  <2>1. TypeOK /\ Unborn /\ EndInv /\ Next => EndInv'
    BY CurrentStep, RedialAloneStep, UnattachedStep, WatchStep, StoppedDialsStep DEF EndInv
  <2>2. EndInv /\ UNCHANGED vars => EndInv'
    BY DEF EndInv, CurrentOnly, RedialAlone, Unattached, Watch, Watched, Leaked, StoppedDials, vars
  <2>. QED BY <2>1, <2>2
<1>2. WInv => TypeOK /\ Unborn
  BY DEF WInv
<1>. QED BY <1>1, <1>2, EndInit, TransportInductive, PTL DEF Spec

\* A transport never has two connections open, in either mode: what replaces a
\* connection closes it in the step that makes it the current one.
THEOREM OneConnectionOpen == Spec => []CurrentOnly
<1>1. EndInv => CurrentOnly
  BY DEF EndInv
<1>. QED BY <1>1, EndInductive, PTL

\* The server that is stopped has no connection left; a stopped client has at
\* most the one a redial made that was past its check.
StopLeavesOnlyARedial ==
  stop \in {"transport gone", "done"} =>
    \A c \in Conns : socket[c] \in Opening => mode = "forward" /\ current = c

\* stopTransport leaves no connection but one that a redial has made.
THEOREM StopClosesTheRest == Spec => []StopLeavesOnlyARedial
<1>0. None \notin Conns
  BY DEF Conns, None
<1>1. EndInv /\ TypeOK => StopLeavesOnlyARedial
  <2> SUFFICES ASSUME EndInv, TypeOK, stop \in {"transport gone", "done"},
                      NEW c \in Conns, socket[c] \in Opening
               PROVE  mode = "forward" /\ current = c
    BY DEF StopLeavesOnlyARedial
  <2>1. current = c /\ None # c
    <3>1. current = c
      BY DEF EndInv, CurrentOnly
    <3>. QED BY <3>1, <1>0
  <2>2. mode # "reverse"
    BY <2>1 DEF EndInv, StoppedDials
  <2>. QED BY <2>1, <2>2 DEF TypeOK
<1>. QED BY <1>1, EndInductive, TransportTypeCorrect, PTL

\* An open connection has someone to close it when it is of no use any more: the
\* coroutine of its hello, or a Koishi that pings.  The one exception is that
\* redial, once the scope is gone, and no hello was ever sent on it.
OpenIsWatched ==
  \A c \in Conns :
    socket[c] = "open" /\ ~Watched(c) =>
      /\ stop = "done" /\ mode = "forward" /\ current = c
      /\ sess[c] = "fresh" /\ peer[c] = "none"

\* Every open connection is watched by somebody who will close it, but the one of
\* README, finding 3.
THEOREM NobodyElseLeaks == Spec => []OpenIsWatched
<1>1. EndInv /\ StopLeavesOnlyARedial => OpenIsWatched
  BY DEF EndInv, Watch, Leaked, StopLeavesOnlyARedial, OpenIsWatched, Opening
<1>. QED BY <1>1, EndInductive, StopClosesTheRest, PTL
=============================================================================

----------------------------- MODULE WsTransport -----------------------------
(***************************************************************************)
(* The JVM's two transports, ForwardWsKoishiGateway and                     *)
(* ReverseWsKoishiGateway, on top of DbkKoishiGateway's attachSession,      *)
(* handshake and close.  In forward mode the plugin dials and dials again;  *)
(* in reverse mode it listens.  WebSocket callbacks, the coroutine each     *)
(* onOpen launches, the coroutine that redials and close() are threads of   *)
(* their own: only attachSession and close() share a lock, and a coroutine  *)
(* may come late.                                                           *)
(* A definition directly above the one it resembles is a slip that the     *)
(* runs have to catch; nothing uses it.                                    *)
(***************************************************************************)
EXTENDS Naturals, FiniteSets

CONSTANTS
  MaxConns,    \* bound: connections that ever exist
  MaxAttempts, \* bound: failed dials in a row
  Backoffs     \* entries of RECONNECT_BACKOFF_MILLIS

ASSUME BoundsAssumption ==
  MaxConns \in Nat \ {0} /\ MaxAttempts \in Nat /\ Backoffs \in Nat \ {0}

Conns == 1..MaxConns
None == 0

VARIABLES
  mode, reconnect,   \* forward or reverse, and the setting; fixed
  socket, sess,      \* of each connection: the WebSocket, and its DbkSession
  greet,             \* the coroutine of its onOpen
  peer,              \* what Koishi made of its session.hello
  session,           \* DbkKoishiGateway.session: whose session is used
  current,           \* client of the forward, active of the reverse gateway
  redial,            \* the coroutine that the closing of a connection launched
  suspended,         \* reconnectSuspendedReason is set
  attempts, delay,   \* reconnectAttempts, and the delay chosen last
  stop               \* how far close() has come

config == <<mode, reconnect>>
dialing == <<redial, attempts, delay>>
vars == <<mode, reconnect, socket, sess, greet, peer, session, current,
          redial, suspended, attempts, delay, stop>>

Init ==
  /\ mode \in {"forward", "reverse"} /\ reconnect \in BOOLEAN
  /\ socket = [c \in Conns |-> IF mode = "forward" /\ c = 1 THEN "connecting" ELSE "none"]
  /\ sess = [c \in Conns |-> IF mode = "forward" /\ c = 1 THEN "fresh" ELSE "none"]
  /\ greet = [c \in Conns |-> "none"] /\ peer = [c \in Conns |-> "none"]
  /\ session = None /\ current = IF mode = "forward" THEN 1 ELSE None
  /\ redial = [c \in Conns |-> "none"]
  /\ suspended = FALSE /\ attempts = 0 /\ delay = 1
  /\ stop = "no"

Closing == stop # "no"
Scope == stop # "done"
Fresh(c) == socket[c] = "none" /\ \A d \in Conns : d < c => socket[d] # "none"

\* WebSocket.close() of the library, which is taken to close a client that still
\* connects, too, and DbkSession.close(); both do nothing to what is closed.
Shut(cs) == [c \in Conns |-> IF c \in cs /\ socket[c] \in {"connecting", "open"}
                             THEN "closing" ELSE socket[c]]
Ended(cs) == [c \in Conns |-> IF c \in cs /\ sess[c] # "none" THEN "closed" ELSE sess[c]]

-----------------------------------------------------------------------------
(* A connection opens                                                       *)

\* scope.launch, unless the scope is gone
Launch(c) == greet' = [greet EXCEPT ![c] = IF Scope THEN "launched" ELSE "done"]

\* DbkForwardClient.onOpen
Opened(c) ==
  /\ mode = "forward" /\ socket[c] = "connecting"
  /\ socket' = [socket EXCEPT ![c] = "open"]
  /\ attempts' = 0
  /\ Launch(c)
  /\ UNCHANGED <<config, sess, peer, session, current, redial, suspended, delay, stop>>

\* DbkReverseServer.onOpen: the connection before this one is closed
Accepted(c) ==
  /\ mode = "reverse" /\ stop \in {"no", "begun", "session gone"} /\ Fresh(c)
  /\ socket' = [Shut({current} \ {None}) EXCEPT ![c] = "open"]
  /\ sess' = [sess EXCEPT ![c] = "fresh"]
  /\ current' = c
  /\ Launch(c)
  /\ UNCHANGED <<config, peer, session, dialing, suspended, stop>>

OustedNever == {}
Ousted == {session} \ {None}

\* attachSession: whose turn it is with sessionLock, not whose connection is newest
Attach(c) ==
  /\ greet[c] = "launched"
  /\ greet' = [greet EXCEPT ![c] = "attached"]
  /\ sess' = Ended(Ousted)
  /\ session' = c
  /\ UNCHANGED <<config, socket, peer, current, dialing, suspended, stop>>

\* A coroutine that has not begun when the scope is cancelled never does.
NeverBegins(c) ==
  /\ greet[c] = "launched" /\ ~Scope
  /\ greet' = [greet EXCEPT ![c] = "done"]
  /\ UNCHANGED <<config, socket, sess, peer, session, current, dialing, suspended, stop>>

\* Koishi gets the hello and answers it.
PeerGreeted(c) ==
  /\ greet[c] = "attached" /\ peer[c] = "none" /\ socket[c] = "open" /\ sess[c] = "fresh"
  /\ \E answer \in {"ok", "unauthorized"} : peer' = [peer EXCEPT ![c] = answer]
  /\ UNCHANGED <<config, socket, sess, greet, session, current, dialing, suspended, stop>>

\* hello() returns.  The session may have been closed since its answer came.
HelloReturns(c) ==
  /\ greet[c] = "attached" /\ peer[c] = "ok"
  /\ greet' = [greet EXCEPT ![c] = "done"]
  /\ sess' = [sess EXCEPT ![c] = IF @ = "fresh" THEN "shook" ELSE @]
  /\ UNCHANGED <<config, socket, peer, session, current, dialing, suspended, stop>>

ClosedUnlessEnded(c) == IF sess[c] = "closed" THEN {} ELSE {c}
ClosedOnFailure(c) == {c}

\* onFailure: refused, timed out, another version, closed meanwhile or cancelled
HelloFails(c) ==
  /\ greet[c] = "attached"
  /\ greet' = [greet EXCEPT ![c] = "done"]
  /\ socket' = Shut(ClosedOnFailure(c))
  /\ suspended' = (suspended \/ (mode = "forward" /\ peer[c] = "unauthorized"))
  /\ UNCHANGED <<config, sess, peer, session, current, dialing, stop>>

-----------------------------------------------------------------------------
(* A connection ends                                                        *)

\* fail(): a frame that is none, or the peer is silent
Dies(c) ==
  /\ socket[c] = "open" /\ sess[c] \in {"fresh", "shook"}
  /\ socket' = Shut({c}) /\ sess' = Ended({c})
  /\ UNCHANGED <<config, greet, peer, session, current, dialing, suspended, stop>>

\* Koishi or the network closes it.
Breaks(c) ==
  /\ socket[c] = "open" /\ socket' = Shut({c})
  /\ UNCHANGED <<config, sess, greet, peer, session, current, dialing, suspended, stop>>

\* Once greeted, Koishi pings; a session that is closed, or that has no scope
\* left to run its answers in, does not answer.
PeerGivesUp(c) ==
  /\ peer[c] = "ok" /\ (sess[c] = "closed" \/ ~Scope)
  /\ Breaks(c)

GivesUpAtLast == Closing \/ ~reconnect \/ suspended \/ attempts >= Backoffs
GivesUp == Closing \/ ~reconnect \/ suspended

BackoffUnclamped(attempt) == attempt
Backoff(attempt) == IF attempt < Backoffs THEN attempt ELSE Backoffs

ScheduleReconnect(c) ==
  IF GivesUp THEN UNCHANGED dialing
  ELSE /\ redial' = [redial EXCEPT ![c] = "delayed"]
       /\ attempts' = attempts + 1 /\ delay' = Backoff(attempts + 1)

\* onClose.  Accounts are marked unavailable: see BotDirectory.
Closed(c) ==
  /\ socket[c] \in {"connecting", "open", "closing"}
  /\ attempts < MaxAttempts
  /\ socket' = [socket EXCEPT ![c] = "closed"]
  /\ sess' = Ended({c})
  /\ IF mode = "forward"
     THEN /\ IF current = c THEN ScheduleReconnect(c) ELSE UNCHANGED dialing
          /\ UNCHANGED current
     ELSE current' = (IF current = c THEN None ELSE current) /\ UNCHANGED dialing
  /\ UNCHANGED <<config, greet, peer, session, suspended, stop>>

\* The delay is over; a cancelled coroutine does not wake.
Wake(c) ==
  /\ redial[c] = "delayed"
  /\ redial' = [redial EXCEPT ![c] = IF Closing \/ suspended THEN "done" ELSE "opening"]
  /\ UNCHANGED <<config, socket, sess, greet, peer, session, current, suspended, attempts, delay, stop>>

\* openClient: the check, and the client before is dropped and closed
Drop(c) ==
  /\ redial[c] = "opening"
  /\ IF Closing
     THEN redial' = [redial EXCEPT ![c] = "done"] /\ UNCHANGED <<socket, current>>
     ELSE /\ redial' = [redial EXCEPT ![c] = "dropped"]
          /\ socket' = Shut({current} \ {None})
          /\ current' = None
  /\ UNCHANGED <<config, sess, greet, peer, session, suspended, attempts, delay, stop>>

\* ... and the next one is made and connects, which needs the scope.  close()
\* may have run since the check.
Dial(c, next) ==
  /\ redial[c] = "dropped" /\ Fresh(next)
  /\ redial' = [redial EXCEPT ![c] = "done"]
  /\ IF Scope
     THEN /\ socket' = [socket EXCEPT ![next] = "connecting"]
          /\ sess' = [sess EXCEPT ![next] = "fresh"]
          /\ current' = next
     ELSE UNCHANGED <<socket, sess, current>>
  /\ UNCHANGED <<config, greet, peer, session, suspended, attempts, delay, stop>>

-----------------------------------------------------------------------------
(* close() of DbkKoishiGateway                                              *)

BeginStop ==
  /\ stop = "no" /\ stop' = "begun"
  /\ UNCHANGED <<config, socket, sess, greet, peer, session, current, dialing, suspended>>

CloseSession ==
  /\ stop = "begun" /\ stop' = "session gone"
  /\ sess' = Ended({session} \ {None}) /\ session' = None
  /\ UNCHANGED <<config, socket, greet, peer, current, dialing, suspended>>

\* stopTransport: the forward client is closed, or the server with all connections
StopTransport ==
  /\ stop = "session gone" /\ stop' = "transport gone"
  /\ suspended' = (suspended \/ mode = "forward")
  /\ socket' = Shut(IF mode = "forward" THEN {current} \ {None} ELSE Conns)
  /\ current' = None
  /\ UNCHANGED <<config, sess, greet, peer, session, dialing>>

\* scope.cancel(), scope = null.  What closes may take longer than this waits.
CancelScope ==
  /\ stop = "transport gone" /\ stop' = "done"
  /\ redial' = [c \in Conns |-> IF redial[c] = "delayed" THEN "done" ELSE redial[c]]
  /\ UNCHANGED <<config, socket, sess, greet, peer, session, current, suspended, attempts, delay>>

-----------------------------------------------------------------------------
Greet(c) == Attach(c) \/ NeverBegins(c) \/ HelloReturns(c) \/ HelloFails(c)
Redial(c) == Wake(c) \/ Drop(c) \/ \E next \in Conns : Dial(c, next)

Next ==
  \/ \E c \in Conns :
       \/ Opened(c) \/ Accepted(c) \/ Greet(c) \/ PeerGreeted(c)
       \/ Dies(c) \/ Breaks(c) \/ PeerGivesUp(c) \/ Closed(c) \/ Redial(c)
  \/ BeginStop \/ CloseSession \/ StopTransport \/ CancelScope

Spec == Init /\ [][Next]_vars

\* Coroutines go on, a hello ends (it has a timeout of 15 s), Koishi's
\* heartbeat runs, and what is closing is closed.
FairSpec ==
  /\ Spec
  /\ \A c \in Conns :
       /\ WF_vars(Greet(c)) /\ WF_vars(PeerGivesUp(c))
       /\ WF_vars(socket[c] = "closing" /\ Closed(c))
       /\ WF_vars(socket[c] = "connecting" /\ (Opened(c) \/ Closed(c)))
  /\ WF_vars(CloseSession) /\ WF_vars(StopTransport) /\ WF_vars(CancelScope)

-----------------------------------------------------------------------------
\* Every variable keeps its type; the delay is one of the table's.
TypeOK ==
  /\ mode \in {"forward", "reverse"} /\ reconnect \in BOOLEAN
  /\ socket \in [Conns -> {"none", "connecting", "open", "closing", "closed"}]
  /\ sess \in [Conns -> {"none", "fresh", "shook", "closed"}]
  /\ greet \in [Conns -> {"none", "launched", "attached", "done"}]
  /\ peer \in [Conns -> {"none", "ok", "unauthorized"}]
  /\ session \in Conns \cup {None} /\ current \in Conns \cup {None}
  /\ redial \in [Conns -> {"none", "delayed", "opening", "dropped", "done"}]
  /\ suspended \in BOOLEAN
  /\ attempts \in 0..MaxAttempts /\ delay \in 1..Backoffs
  /\ stop \in {"no", "begun", "session gone", "transport gone", "done"}

\* However late the coroutines of several connections come to attachSession,
\* at most one session that passed it is alive, and it is the one in use: no
\* two connections deliver events, and close() ends the one there is.
OneServed ==
  \A c \in Conns :
    sess[c] \in {"fresh", "shook"} /\ (greet[c] = "attached" \/ sess[c] = "shook") => session = c

\* In forward mode exactly one thing is under way until the plugin stops or is
\* refused: a connection, or the one coroutine that will dial the next.
UnderWay ==
  {c \in Conns : socket[c] \in {"connecting", "open", "closing"}}
    \cup {c \in Conns : redial[c] \in {"delayed", "opening", "dropped"}}
OneDialUnderWay ==
  mode = "forward" /\ reconnect /\ ~Closing /\ ~suspended => Cardinality(UnderWay) = 1

\* A connection whose session was closed under it does not stay open: its own
\* coroutine closes it, or Koishi does, and then dials again.
NoZombie ==
  \A c \in Conns : (socket[c] = "open" /\ sess[c] = "closed") ~> (socket[c] # "open")

\* After close() no connection stays open.
StopClosesAll ==
  \A c \in Conns : (stop = "done" /\ socket[c] = "open") ~> (socket[c] # "open")
=============================================================================

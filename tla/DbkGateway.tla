----------------------------- MODULE DbkGateway -----------------------------
(***************************************************************************)
(* The Koishi side: DbkGateway (gateway.ts), which owns the connection, and *)
(* one DbkGatewaySession (session.ts) per attached socket.  In forward mode *)
(* sockets come in through the HTTP server; in reverse mode the gateway     *)
(* dials and dials again.                                                   *)
(*                                                                          *)
(* An action is what runs between two turns of the event loop: the hello    *)
(* and bots.list handlers are synchronous and sendQueue is drained within   *)
(* the turn, so only the targets and message handlers span turns.           *)
(* A definition directly above the one it resembles is a slip that the     *)
(* runs have to catch; nothing uses it.                                    *)
(***************************************************************************)
EXTENDS Naturals, FiniteSets

CONSTANTS
  MaxSockets,  \* bound: sockets that ever exist
  MaxAttempts, \* bound: failed dials in a row
  CallIds,     \* ids of the CALLs that may come in on one socket
  Backoffs     \* entries of RECONNECT_BACKOFF_MS

ASSUME BoundsAssumption ==
  MaxSockets \in Nat \ {0} /\ MaxAttempts \in Nat /\ Backoffs \in Nat \ {0}

Sockets == 1..MaxSockets
None == 0

VARIABLES
  mode, reconnect,           \* forward or reverse, and the setting; fixed
  sock,                      \* readyState of each socket
  sess,                      \* its session: none, fresh, shook or closed
  socket, session,           \* the gateway's fields: a socket, and whose session
  closing, suspended,        \* the gateway is stopped; was refused by the peer
  timer, attempts, delay,    \* the reconnect timer, reconnectAttempts, the delay chosen
  running, answers           \* per socket: handlers under way, answers written per id

config == <<mode, reconnect>>
dialing == <<timer, attempts, delay>>
vars == <<mode, reconnect, sock, sess, socket, session, closing, suspended,
          timer, attempts, delay, running, answers>>

Init ==
  /\ mode \in {"forward", "reverse"} /\ reconnect \in BOOLEAN
  /\ sock = [s \in Sockets |-> IF mode = "reverse" /\ s = 1 THEN "connecting" ELSE "none"]
  /\ sess = [s \in Sockets |-> "none"]
  /\ socket = None /\ session = None
  /\ closing = FALSE /\ suspended = FALSE
  /\ timer = FALSE /\ attempts = 0 /\ delay = 1
  /\ running = [s \in Sockets |-> {}]
  /\ answers = [s \in Sockets |-> [id \in CallIds |-> 0]]

Fresh(s) == sock[s] = "none" /\ \A t \in Sockets : t < s => sock[t] # "none"

-----------------------------------------------------------------------------
(* The session                                                              *)

\* session.close() and socket.close() as functions of the present state: they
\* do nothing to what is closed already.
ClosedSess(s) == IF sess[s] = "none" THEN "none" ELSE "closed"
ClosedSock(s) == IF sock[s] \in {"connecting", "open"} THEN "closing" ELSE sock[s]

\* fail(): onDead closes the socket, close() the session.
Fail(s) ==
  /\ sess' = [sess EXCEPT ![s] = "closed"]
  /\ sock' = [sock EXCEPT ![s] = ClosedSock(s)]

Hears(s) == sock[s] \in {"open", "closing"} /\ sess[s] \in {"fresh", "shook"}

\* enqueueFrame: a socket that is not OPEN makes send throw, and the session fails.
Writes(s, state) ==
  IF sock[s] = "open" THEN sess' = [sess EXCEPT ![s] = state] /\ UNCHANGED sock
  ELSE Fail(s)

Answer(s, id) ==
  answers' = IF sock[s] = "open" THEN [answers EXCEPT ![s][id] = @ + 1] ELSE answers

HelloAccepted(s) ==
  /\ Hears(s) /\ Writes(s, "shook")
  /\ UNCHANGED <<config, socket, session, closing, suspended, dialing, running, answers>>

\* Another protocol version: the session stays as it is.
HelloMismatch(s) ==
  /\ Hears(s) /\ Writes(s, sess[s])
  /\ UNCHANGED <<config, socket, session, closing, suspended, dialing, running, answers>>

\* A wrong token: ERROR is written, onUnauthorized, and the session fails.
HelloUnauthorized(s) ==
  /\ Hears(s) /\ Fail(s)
  /\ suspended' = TRUE
  /\ UNCHANGED <<config, socket, session, closing, dialing, running, answers>>

\* replyError before the handshake, without the return that follows it
CallGoesOn(s, id) ==
  /\ Hears(s) /\ answers[s][id] = 0 /\ id \notin running[s]
  /\ Writes(s, sess[s]) /\ Answer(s, id)
  /\ running' = [running EXCEPT ![s] = @ \cup {id}]
  /\ UNCHANGED <<config, socket, session, closing, suspended, dialing>>

\* handleCall up to the handler's first await, or to its ERROR: before the
\* handshake, for a method nobody knows, for a payload that does not decode.
Call(s, id) ==
  /\ Hears(s) /\ answers[s][id] = 0 /\ id \notin running[s]
  /\ \/ /\ Writes(s, sess[s]) /\ Answer(s, id)
        /\ UNCHANGED running
     \/ /\ sess[s] = "shook"
        /\ running' = [running EXCEPT ![s] = @ \cup {id}]
        /\ UNCHANGED <<sess, sock, answers>>
  /\ UNCHANGED <<config, socket, session, closing, suspended, dialing>>

\* a handler that throws is not answered
FinishSilently(s, id) ==
  /\ id \in running[s]
  /\ running' = [running EXCEPT ![s] = @ \ {id}]
  /\ IF sess[s] = "closed" THEN UNCHANGED <<sess, sock, answers>>
     ELSE \/ Writes(s, sess[s]) /\ Answer(s, id)
          \/ UNCHANGED <<sess, sock, answers>>
  /\ UNCHANGED <<config, socket, session, closing, suspended, dialing>>

\* The handler returns or throws; either way one answer is written, to the
\* socket the CALL came from, unless the session has been closed meanwhile.
Finish(s, id) ==
  /\ id \in running[s]
  /\ running' = [running EXCEPT ![s] = @ \ {id}]
  /\ IF sess[s] = "closed" THEN UNCHANGED <<sess, sock, answers>>
     ELSE Writes(s, sess[s]) /\ Answer(s, id)
  /\ UNCHANGED <<config, socket, session, closing, suspended, dialing>>

\* A text frame, bytes that do not decode, a silent peer at a heartbeat.
Dies(s) ==
  /\ Hears(s) /\ Fail(s)
  /\ UNCHANGED <<config, socket, session, closing, suspended, dialing, running, answers>>

\* DbkGateway.emit: the event goes to the gateway's own session, if it is shook.
Emit ==
  /\ session # None /\ sess[session] = "shook"
  /\ Writes(session, "shook")
  /\ UNCHANGED <<config, socket, session, closing, suspended, dialing, running, answers>>

-----------------------------------------------------------------------------
(* The connection                                                           *)

ReplacedWhenShook(s) == {t \in {socket} \ {None, s} : sess[t] = "shook"}
Replaced(s) == {socket} \ {None, s}

\* attach(s), the socket having just opened
Attach(s) ==
  /\ sess' = [t \in Sockets |-> IF t = s THEN "fresh"
                                ELSE IF t = session /\ Replaced(s) # {} THEN ClosedSess(t)
                                ELSE sess[t]]
  /\ sock' = [t \in Sockets |-> IF t = s THEN "open"
                                ELSE IF t \in Replaced(s) THEN ClosedSock(t)
                                ELSE sock[t]]
  /\ socket' = s /\ session' = s

\* startForward: the server's route takes a socket, for as long as the plugin lives.
Accept(s) ==
  /\ mode = "forward" /\ ~closing /\ Fresh(s)
  /\ Attach(s)
  /\ UNCHANGED <<config, closing, suspended, dialing, running, answers>>

\* connectReverse by the timer
Dial(s) ==
  /\ timer /\ ~closing /\ Fresh(s)
  /\ timer' = FALSE
  /\ sock' = [sock EXCEPT ![s] = "connecting"]
  /\ UNCHANGED <<config, sess, socket, session, closing, suspended, attempts, delay, running, answers>>

\* onOpen
Opened(s) ==
  /\ sock[s] = "connecting"
  /\ attempts' = 0
  /\ Attach(s)
  /\ UNCHANGED <<config, closing, suspended, timer, delay, running, answers>>

\* The peer or the network ends the connection: sends throw from here on.
Breaks(s) ==
  /\ sock[s] = "open"
  /\ sock' = [sock EXCEPT ![s] = "closing"]
  /\ UNCHANGED <<config, sess, socket, session, closing, suspended, dialing, running, answers>>

GivesUpAtLast == closing \/ ~reconnect \/ suspended \/ attempts >= Backoffs
GivesUpOnlyByConfig == closing \/ ~reconnect
GivesUp == closing \/ ~reconnect \/ suspended

BackoffUnclamped(attempt) == attempt
Backoff(attempt) == IF attempt < Backoffs THEN attempt ELSE Backoffs

ScheduleReconnect ==
  IF GivesUp THEN UNCHANGED dialing
  ELSE timer' = TRUE /\ attempts' = attempts + 1 /\ delay' = Backoff(attempts + 1)

\* The close event: the socket's own session closes; in reverse mode
\* onReverseClosed also drops the gateway's and schedules the next dial.
Closed(s) ==
  /\ sock[s] \in {"connecting", "open", "closing"}
  /\ attempts < MaxAttempts
  /\ sock' = [sock EXCEPT ![s] = "closed"]
  /\ IF mode = "forward"
     THEN /\ sess' = [sess EXCEPT ![s] = ClosedSess(s)]
          /\ UNCHANGED <<socket, session, dialing>>
     ELSE /\ sess' = [t \in Sockets |-> IF t \in {s, session} THEN ClosedSess(t) ELSE sess[t]]
          /\ socket' = None /\ session' = None
          /\ ScheduleReconnect
  /\ UNCHANGED <<config, closing, suspended, running, answers>>

\* stop(), run as the plugin's context is disposed: the context also closes a
\* socket that is still connecting and clears the timer.
Stop ==
  /\ ~closing
  /\ closing' = TRUE /\ timer' = FALSE
  /\ sess' = [s \in Sockets |-> IF s = session THEN ClosedSess(s) ELSE sess[s]]
  /\ sock' = [s \in Sockets |-> IF s = socket \/ sock[s] = "connecting" THEN ClosedSock(s) ELSE sock[s]]
  /\ socket' = None /\ session' = None
  /\ UNCHANGED <<config, suspended, attempts, delay, running, answers>>

-----------------------------------------------------------------------------
Next ==
  \/ \E s \in Sockets :
       \/ HelloAccepted(s) \/ HelloMismatch(s) \/ HelloUnauthorized(s) \/ Dies(s)
       \/ \E id \in CallIds : Call(s, id) \/ Finish(s, id)
       \/ Accept(s) \/ Dial(s) \/ Opened(s) \/ Breaks(s) \/ Closed(s)
  \/ Emit
  \/ Stop

Spec == Init /\ [][Next]_vars

\* Handlers end (a send has its own timer), sockets that close are closed, a
\* dial fails or succeeds, and timers fire.
FairSpec ==
  /\ Spec
  /\ \A s \in Sockets :
       /\ \A id \in CallIds : WF_vars(Finish(s, id))
       /\ WF_vars(sock[s] = "closing" /\ Closed(s))
       /\ WF_vars(sock[s] = "connecting" /\ (Opened(s) \/ Closed(s)))
       /\ WF_vars(Dial(s))

-----------------------------------------------------------------------------
\* Every variable keeps its type.
TypeOK ==
  /\ mode \in {"forward", "reverse"} /\ reconnect \in BOOLEAN
  /\ sock \in [Sockets -> {"none", "connecting", "open", "closing", "closed"}]
  /\ sess \in [Sockets -> {"none", "fresh", "shook", "closed"}]
  /\ socket \in Sockets \cup {None} /\ session \in Sockets \cup {None}
  /\ closing \in BOOLEAN /\ suspended \in BOOLEAN
  /\ timer \in BOOLEAN /\ attempts \in 0..MaxAttempts /\ delay \in 1..Backoffs
  /\ running \in [Sockets -> SUBSET CallIds]
  /\ answers \in [Sockets -> [CallIds -> Nat]]

\* At most one connection is served, and it is the one emit() writes to: a
\* connection that replaces another ends the other's session at once, and a
\* late close event of the old socket takes nothing from the new one.  A
\* stopped gateway serves none.
LiveIsCurrent ==
  \A s \in Sockets : sess[s] \in {"fresh", "shook"} => session = s /\ ~closing

\* A CALL is answered at most once, and never by a session that had rejected it.
AnsweredOnce ==
  \A s \in Sockets, id \in CallIds :
    answers[s][id] + (IF id \in running[s] THEN 1 ELSE 0) <= 1

\* In reverse mode exactly one thing is under way until the gateway stops or
\* is refused: a socket, or the timer that will dial one.  It never gives up
\* and never dials twice.
Alive == {s \in Sockets : sock[s] \in {"connecting", "open", "closing"}}
OneDialUnderWay ==
  mode = "reverse" /\ reconnect /\ ~closing /\ ~suspended
    => Cardinality(Alive) + (IF timer THEN 1 ELSE 0) = 1

\* A gateway refused by its peer dials no more.
SuspendedNeverDials == [][suspended => \A s \in Sockets : sock[s] = "none" => sock'[s] # "connecting"]_vars

\* A CALL taken up is answered, unless its session closes first.
CallsAreAnswered ==
  \A s \in Sockets, id \in CallIds :
    id \in running[s] ~> (answers[s][id] = 1 \/ sess[s] = "closed")
=============================================================================

----------------------------- MODULE DbkSession -----------------------------
(***************************************************************************)
(* One DbkSession of the JVM plugin (DbkSession.kt): the RPC calls its     *)
(* coroutines make, the WebSocket thread that handles the answers, and     *)
(* close(), which any thread may run at any moment.  One action is one     *)
(* atomic step of one thread: close() takes no lock that call() or         *)
(* handle() takes, so every interleaving of these steps is possible.       *)
(* Time is left out: a timeout may fire whenever a call waits, and the     *)
(* heartbeat may find the peer silent whenever it runs.                    *)
(* A definition directly above the one it resembles is a slip that the     *)
(* runs have to catch; nothing uses it.                                    *)
(***************************************************************************)
EXTENDS Naturals

CONSTANTS
  Calls,   \* the invocations of call(); each runs in a coroutine of its own
  Hello    \* the one hello() makes, with method session.hello

ASSUME HelloAssumption == Hello \in Calls

VARIABLES
  closed, handshook, \* the two AtomicBooleans
  heartbeat,         \* heartbeatJob is running
  nextId,            \* the AtomicLong ids are drawn from
  pending,           \* the map: a set of [id, call], one per id
  closing,           \* how far the one close() that won the CAS has come
  sweeping,          \* the entries close() found and has not completed yet
  pc, rid, outcome,  \* of each call: its next step, its id, how it ended
  deferred,          \* of each call: the state of its CompletableDeferred
  wire, inbox,       \* CALL frames on their way to the peer, answers on their way back
  handling, taken,   \* the answer the WebSocket thread is working on (at most one)
  sent, answer       \* history: whose frame reached the socket, what the peer answered

callerVars == <<pc, rid, outcome>>
closeVars  == <<closed, closing, sweeping>>
peerVars   == <<wire, inbox, handling, taken, sent, answer>>
vars == <<closed, handshook, heartbeat, nextId, pending, closing, sweeping,
          pc, rid, outcome, deferred, wire, inbox, handling, taken, sent, answer>>

-----------------------------------------------------------------------------
Ids == Nat \ {0}  \* what AtomicLong(1) counts through
\* A frame remembers the call it belongs to, which the code cannot see: a
\* reply is the right one when its "for" is the call that gets it.
CallFrame  == [id : Nat, for : Calls]
ReplyFrame == [id : Nat, for : Calls, op : {"ok", "error"}]
Entry      == [id : Nat, call : Calls]
Taken      == [call : Calls, for : Calls, op : {"ok", "error"}]
Deferred   == [state : {"open", "ok", "error", "closed"}, for : Calls]

\* The steps of call(), in order.
Steps == {"idle", "admitted", "numbered", "registered", "sending", "awaiting",
          "leaving", "helloed", "done"}
Outcomes == {"none", "refused", "threw", "ok", "error", "closed", "timeout", "mismatch"}

FirstIdZero == 0
FirstId == 1

Init ==
  /\ closed = FALSE /\ handshook = FALSE /\ heartbeat = FALSE
  /\ nextId = FirstId /\ pending = {}
  /\ closing = "no" /\ sweeping = {}
  /\ pc = [c \in Calls |-> "idle"]
  /\ rid = [c \in Calls |-> 0]
  /\ outcome = [c \in Calls |-> "none"]
  /\ deferred = [c \in Calls |-> [state |-> "open", for |-> c]]
  /\ wire = {} /\ inbox = {} /\ handling = {} /\ taken = {} /\ sent = {}
  /\ answer = [c \in Calls |-> "none"]

-----------------------------------------------------------------------------
(* call(), hello()                                                         *)

Goto(c, step) == pc' = [pc EXCEPT ![c] = step]
End(c, step, how) == Goto(c, step) /\ outcome' = [outcome EXCEPT ![c] = how]

\* if (closed.get()) throw
Enter(c) ==
  /\ pc[c] = "idle"
  /\ \/ closed /\ End(c, "done", "refused")
     \/ ~closed /\ Goto(c, "admitted") /\ UNCHANGED outcome
  /\ UNCHANGED <<rid, closeVars, peerVars, handshook, heartbeat, nextId, pending, deferred>>

MayCallEarly(c) == ~closed
MayCall(c) == c = Hello \/ handshook

\* if (method != SESSION_HELLO && !handshook.get()) throw
RefuseUnshaken(c) ==
  /\ pc[c] = "admitted" /\ ~MayCall(c)
  /\ End(c, "done", "refused")
  /\ UNCHANGED <<rid, closeVars, peerVars, handshook, heartbeat, nextId, pending, deferred>>

DrawIdUnsynchronised(c) ==
  /\ rid' = [rid EXCEPT ![c] = nextId]
  /\ nextId' \in {nextId, nextId + 1}
DrawId(c) ==
  /\ rid' = [rid EXCEPT ![c] = nextId]
  /\ nextId' = nextId + 1

\* ... and otherwise nextId.getAndIncrement()
TakeId(c) ==
  /\ pc[c] = "admitted" /\ MayCall(c)
  /\ DrawId(c)
  /\ Goto(c, "numbered")
  /\ UNCHANGED <<outcome, closeVars, peerVars, handshook, heartbeat, pending, deferred>>

Without(id) == {p \in pending : p.id # id}

\* pending[id] = deferred
Register(c) ==
  /\ pc[c] = "numbered"
  /\ pending' = Without(rid[c]) \cup {[id |-> rid[c], call |-> c]}
  /\ Goto(c, "registered")
  /\ UNCHANGED <<rid, outcome, closeVars, peerVars, handshook, heartbeat, nextId, deferred>>

AfterLockUnchecked(c) == "sending"
AfterLock(c) == IF closed THEN "awaiting" ELSE "sending"

\* sendFrame: take sendMutex; a closed session drops the frame without a word
BeginSend(c) ==
  /\ pc[c] = "registered"
  /\ \A d \in Calls : pc[d] # "sending"
  /\ Goto(c, AfterLock(c))
  /\ UNCHANGED <<rid, outcome, closeVars, peerVars, handshook, heartbeat, nextId, pending, deferred>>

\* sendBytes under the mutex: the socket takes the frame, or throws when it is not open
FinishSend(c) ==
  /\ pc[c] = "sending"
  /\ \/ /\ Goto(c, "awaiting")
        /\ wire' = wire \cup {[id |-> rid[c], for |-> c]}
        /\ sent' = sent \cup {c}
        /\ UNCHANGED outcome
     \/ End(c, "leaving", "threw") /\ UNCHANGED <<wire, sent>>
  /\ UNCHANGED <<rid, closeVars, inbox, handling, taken, answer, handshook, heartbeat, nextId, pending, deferred>>

\* deferred.await() returns
Resume(c) ==
  /\ pc[c] = "awaiting" /\ deferred[c].state # "open"
  /\ End(c, "leaving", deferred[c].state)
  /\ UNCHANGED <<rid, closeVars, peerVars, handshook, heartbeat, nextId, pending, deferred>>

TimesOutOnceSent(c) == pc[c] = "awaiting" /\ c \in sent
TimesOut(c) == pc[c] = "awaiting"

\* withTimeout cancels the wait, also when a result has arrived and not been taken
Timeout(c) ==
  /\ TimesOut(c)
  /\ End(c, "leaving", "timeout")
  /\ UNCHANGED <<rid, closeVars, peerVars, handshook, heartbeat, nextId, pending, deferred>>

ForgetAnswered(c) == pending' = IF outcome[c] = "timeout" THEN pending ELSE Without(rid[c])
Forget(c) == pending' = Without(rid[c])

\* finally { pending.remove(id) }
Leave(c) ==
  /\ pc[c] = "leaving"
  /\ Forget(c)
  /\ Goto(c, IF c = Hello /\ outcome[c] = "ok" THEN "helloed" ELSE "done")
  /\ UNCHANGED <<rid, outcome, closeVars, peerVars, handshook, heartbeat, nextId, deferred>>

\* hello() after its call: the peer's version is another one, or the handshake is done
FinishHello ==
  /\ pc[Hello] = "helloed"
  /\ \/ End(Hello, "done", "mismatch") /\ UNCHANGED <<handshook, heartbeat>>
     \/ /\ Goto(Hello, "done") /\ UNCHANGED outcome
        /\ handshook' = TRUE /\ heartbeat' = TRUE
  /\ UNCHANGED <<rid, closeVars, peerVars, nextId, pending, deferred>>

-----------------------------------------------------------------------------
(* The peer, and the WebSocket thread: onBinary, handle                     *)

\* The gateway answers a CALL at most once, in any order, or never.
PeerAnswers ==
  /\ \E f \in wire, op \in {"ok", "error"} :
       /\ wire' = wire \ {f}
       /\ inbox' = inbox \cup {[id |-> f.id, for |-> f.for, op |-> op]}
       /\ answer' = [answer EXCEPT ![f.for] = op]
  /\ UNCHANGED <<callerVars, closeVars, handling, taken, sent, handshook, heartbeat, nextId, pending, deferred>>

\* onBinary: a closed session ignores the frame
Receive ==
  /\ ~closed /\ handling = {} /\ taken = {}
  /\ \E f \in inbox : inbox' = inbox \ {f} /\ handling' = {f}
  /\ UNCHANGED <<callerVars, closeVars, wire, taken, sent, answer, handshook, heartbeat, nextId, pending, deferred>>

Complete(c, state, for) ==
  deferred' = IF deferred[c].state = "open"
              THEN [deferred EXCEPT ![c] = [state |-> state, for |-> for]]
              ELSE deferred

\* pending.remove(frame.id); an id nobody waits for is ignored
TakeEntry ==
  /\ \E f \in handling :
       /\ pending' = Without(f.id)
       /\ taken' = {[call |-> p.call, for |-> f.for, op |-> f.op] :
                      p \in {q \in pending : q.id = f.id}}
  /\ handling' = {}
  /\ UNCHANGED <<callerVars, closeVars, wire, inbox, sent, answer, handshook, heartbeat, nextId, deferred>>

\* deferred.complete(frame)
CompleteReply ==
  /\ \E t \in taken : Complete(t.call, t.op, t.for)
  /\ taken' = {}
  /\ UNCHANGED <<callerVars, closeVars, wire, inbox, handling, sent, answer, handshook, heartbeat, nextId, pending>>

-----------------------------------------------------------------------------
(* close(), which the socket's onClose, a replacing session, stop and       *)
(* fail() run; the first one to swap "closed" goes on                       *)

BeginClose ==
  /\ ~closed
  /\ closed' = TRUE /\ closing' = "begun"
  /\ UNCHANGED <<callerVars, peerVars, sweeping, handshook, heartbeat, nextId, pending, deferred>>

EntriesOnceCleared == {}
EntriesToSweep == pending

\* handshook.set(false), heartbeatJob?.cancel(), and forEach begins
ResetHandshake ==
  /\ closing = "begun"
  /\ closing' = "sweeping" /\ sweeping' = EntriesToSweep
  /\ handshook' = FALSE /\ heartbeat' = FALSE
  /\ UNCHANGED <<callerVars, peerVars, closed, nextId, pending, deferred>>

\* The iterator of a ConcurrentHashMap visits every entry that stays; one
\* removed or added meanwhile it may visit or not.
Sweep ==
  /\ closing = "sweeping"
  /\ \/ \E p \in sweeping \cup pending :
          Complete(p.call, "closed", p.call) /\ sweeping' = sweeping \ {p}
     \/ \E p \in sweeping \ pending :
          sweeping' = sweeping \ {p} /\ UNCHANGED deferred
  /\ UNCHANGED <<callerVars, peerVars, closed, closing, handshook, heartbeat, nextId, pending>>

\* pending.clear()
ClearPending ==
  /\ closing = "sweeping" /\ sweeping = {}
  /\ closing' = "done" /\ pending' = {}
  /\ UNCHANGED <<callerVars, peerVars, closed, sweeping, handshook, heartbeat, nextId, deferred>>

HeartbeatSeesNothing == FALSE
HeartbeatSeesClose == closed

\* The heartbeat's loop sees that the session is closed.  (Finding the peer
\* silent it runs fail(), which is BeginClose.)
HeartbeatEnds ==
  /\ heartbeat /\ HeartbeatSeesClose
  /\ heartbeat' = FALSE
  /\ UNCHANGED <<callerVars, closeVars, peerVars, handshook, nextId, pending, deferred>>

-----------------------------------------------------------------------------
CallStep(c) ==
  \/ Enter(c) \/ RefuseUnshaken(c) \/ TakeId(c) \/ Register(c)
  \/ BeginSend(c) \/ FinishSend(c) \/ Resume(c) \/ Leave(c)

SocketThread == Receive \/ TakeEntry \/ CompleteReply
Closer == ResetHandshake \/ Sweep \/ ClearPending

Next ==
  \/ \E c \in Calls : CallStep(c) \/ Timeout(c)
  \/ FinishHello
  \/ PeerAnswers
  \/ SocketThread
  \/ BeginClose
  \/ Closer
  \/ HeartbeatEnds

Spec == Init /\ [][Next]_vars

\* A coroutine that can run is resumed, and a thread that has begun goes on.
\* Nothing makes the peer answer, the session close or a new call begin.
Fairness ==
  /\ \A c \in Calls : WF_vars(CallStep(c) /\ pc[c] # "idle")
  /\ WF_vars(FinishHello)
  /\ WF_vars(TakeEntry \/ CompleteReply)
  /\ WF_vars(Closer)
  /\ WF_vars(HeartbeatEnds)

FairSpec == Spec /\ Fairness

-----------------------------------------------------------------------------
\* Every variable keeps its type.
TypeOK ==
  /\ closed \in BOOLEAN /\ handshook \in BOOLEAN /\ heartbeat \in BOOLEAN
  /\ nextId \in Ids
  /\ pending \subseteq Entry /\ sweeping \subseteq Entry
  /\ closing \in {"no", "begun", "sweeping", "done"}
  /\ pc \in [Calls -> Steps]
  /\ rid \in [Calls -> Nat]
  /\ outcome \in [Calls -> Outcomes]
  /\ deferred \in [Calls -> Deferred]
  /\ wire \subseteq CallFrame
  /\ inbox \subseteq ReplyFrame /\ handling \subseteq ReplyFrame
  /\ taken \subseteq Taken
  /\ sent \subseteq Calls
  /\ answer \in [Calls -> {"none", "ok", "error"}]

\* A call is completed only with the answer to its own request, however
\* calls, answers, timeouts and close() interleave (ids are drawn by
\* getAndIncrement and looked up in "pending").
RepliesMatch == \A c \in Calls : deferred[c].for = c

\* A call that has ended leaves no entry behind in "pending".
NoEntryLeaks ==
  \A p \in pending : pc[p.call] \in {"registered", "sending", "awaiting", "leaving"}

\* Only after an accepted session.hello does another CALL reach the socket.
HandshakeFirst ==
  sent \subseteq {Hello} \/ (pc[Hello] = "done" /\ outcome[Hello] = "ok")

\* close() may miss a call that registers behind its sweep; that call has to
\* wait for its timeout.  No call is missed whose frame went out: what such a
\* call reports at its timeout as "unknown" never left this process.
Missed(c) ==
  /\ closing = "done" /\ handling = {} /\ taken = {}
  /\ pc[c] = "awaiting" /\ deferred[c].state = "open"
MissedNeverSent == \A c \in sent : ~Missed(c)

\* A call that sent its frame ends soon after the session closes: it does
\* not have to wait for its timeout (FairSpec has none).
CloseWakesSentCalls ==
  \A c \in Calls : (closed /\ c \in sent) ~> (pc[c] = "done")

\* Every call that begins comes back, at the latest with its timeout, when
\* timers fire.
TimersFire == \A c \in Calls : WF_vars(Timeout(c))
EveryCallEnds == TimersFire => \A c \in Calls : (pc[c] # "idle") ~> (pc[c] = "done")

\* A closed session runs no heartbeat for ever, though hello() may start one
\* after close() has cancelled it.
HeartbeatStops == closed ~> [](~heartbeat)

\* The session keeps the contract of Rpc: every outcome it reports is true of
\* the request ("refused" and "threw" of one that never left).
Stage == [c \in Calls |-> IF pc[c] \in {"idle", "done"} THEN pc[c] ELSE "active"]
Reported(how) ==
  CASE how \in {"refused", "threw"} -> "refused"
    [] how \in {"closed", "timeout", "mismatch"} -> "unknown"
    [] OTHER -> how
Result == [c \in Calls |-> IF pc[c] = "done" THEN Reported(outcome[c]) ELSE "none"]

Contract == INSTANCE Rpc WITH
  stage <- Stage, requested <- sent, answer <- answer, result <- Result
KeepsContract == Contract!Spec
=============================================================================

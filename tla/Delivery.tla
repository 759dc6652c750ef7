------------------------------- MODULE Delivery -------------------------------
(***************************************************************************)
(* One message on its way through both plugins: the core asks the Koishi    *)
(* plugin of the JVM to send it (KoishiGatewayPlugin, DbkKoishiGateway,     *)
(* DbkSession), and asks again when the result is a retryable failure; the  *)
(* Koishi gateway carries out every request that reaches it, whether or not *)
(* the connection lasts.  Of the two ends of a connection this module knows *)
(* what their own modules establish: an answer belongs to its request       *)
(* (DbkSession), and a status is true of the platform (SendContract, which  *)
(* SendMessage implements).                                                 *)
(* A definition directly above the one it resembles is a slip that the     *)
(* runs have to catch; nothing uses it.                                    *)
(***************************************************************************)
EXTENDS Naturals, FiniteSets

CONSTANTS
  Parts,          \* the parts of the message
  MaxTries,       \* bound: attempts of the core
  MaxConnections  \* bound: connections that ever exist

ASSUME MaxAssumption == MaxTries \in Nat /\ MaxConnections \in Nat

Tries == 1..MaxTries
Connections == 1..MaxConnections
None == 0

VARIABLES
  running, closing,  \* the plugin's flag and the gateway's
  fits, ready,       \* the target is one of this gateway's; the account is READY
  session, link,     \* the gateway's session, and the state of each connection's
  pc, try, on,       \* the core's attempt: its step, its number, the session it holds
  result,            \* what the last attempt to end reported
  request,           \* per attempt, the request: none, sent, executing or answered
  got, told          \* per attempt, what the platform has taken and what Koishi said

jvm == <<running, closing, fits, ready, session, link>>
core == <<pc, try, on, result>>
koishi == <<request, got, told>>
vars == <<running, closing, fits, ready, session, link, pc, try, on, result, request, got, told>>

Results == {"none", "SENT", "PARTIAL", "UNKNOWN", "FAILED", "RETRYABLE"}
Said == {"OK", "PARTIAL", "FAILED", "RETRYABLE", "UNKNOWN"}

Init ==
  /\ running = TRUE /\ closing = FALSE
  /\ fits \in BOOLEAN /\ ready \in BOOLEAN
  /\ session = None /\ link = [c \in Connections |-> "none"]
  /\ pc = "idle" /\ try = 0 /\ on = None /\ result = "none"
  /\ request = [a \in Tries |-> "none"]
  /\ got = [a \in Tries |-> {}] /\ told = [a \in Tries |-> "none"]

-----------------------------------------------------------------------------
(* The connections, as the attempts see them                                *)

Closed(c, reason) == IF link[c] \in {"fresh", "shook"} THEN [link EXCEPT ![c] = reason] ELSE link

\* attachSession: the session before it is closed, "replaced".  A coroutine of
\* the transport may still get here while the gateway closes.
Attach ==
  /\ \E c \in Connections :
       /\ link[c] = "none" /\ \A d \in Connections : d < c => link[d] # "none"
       /\ link' = [d \in Connections |->
                     IF d = c THEN "fresh"
                     ELSE IF d = session THEN Closed(d, "closed")[d] ELSE link[d]]
       /\ session' = c
  /\ UNCHANGED <<running, closing, fits, ready, core, koishi>>

Shake(c) ==
  /\ link[c] = "fresh"
  /\ link' = [link EXCEPT ![c] = "shook"]
  /\ UNCHANGED <<running, closing, fits, ready, session, core, koishi>>

\* The WebSocket closes, or brings what is no frame: "ws close code=...".
Lose(c) ==
  /\ link[c] \in {"fresh", "shook"}
  /\ link' = Closed(c, "closed")
  /\ UNCHANGED <<running, closing, fits, ready, session, core, koishi>>

\* The heartbeat finds the peer silent; its reason has the word for timeout in it.
FallSilent(c) ==
  /\ link[c] = "shook"
  /\ link' = Closed(c, "silent")
  /\ UNCHANGED <<running, closing, fits, ready, session, core, koishi>>

\* The account cache, as hello, bots.list, bot.changed and closed sockets leave it
Readiness ==
  /\ ready' = ~ready
  /\ UNCHANGED <<running, closing, fits, session, link, core, koishi>>

\* onStop, and then the gateway's close()
StopPlugin ==
  /\ running /\ running' = FALSE
  /\ UNCHANGED <<closing, fits, ready, session, link, core, koishi>>

CloseGateway ==
  /\ ~running /\ ~closing
  /\ closing' = TRUE /\ session' = None
  /\ link' = IF session = None THEN link ELSE Closed(session, "closed")
  /\ UNCHANGED <<running, fits, ready, core, koishi>>

\* onStart makes a new gateway, with no session and no accounts.  What is left
\* of the old one is out of reach.  That onStop has ended is the core's part.
StartPlugin ==
  /\ ~running /\ closing
  /\ running' = TRUE /\ closing' = FALSE
  /\ session' = None /\ ready' = FALSE
  /\ UNCHANGED <<fits, link, core, koishi>>

-----------------------------------------------------------------------------
(* An attempt                                                               *)

Goes(to) == pc' = to /\ UNCHANGED <<on, result>>
Report(r) == pc' = "idle" /\ on' = None /\ result' = r

\* The core tries once more only after a failure that is marked retryable.
TriesAgain == try = 0 \/ result = "RETRYABLE"

\* sendMessage of the plugin, up to isAccountReady.  MessageSendResult.failed
\* belongs to the core: whether it is retryable when nothing is said of it is
\* open here.
Try ==
  /\ pc = "idle" /\ TriesAgain /\ try < MaxTries
  /\ try' = try + 1
  /\ \/ ~running /\ \E r \in {"FAILED", "RETRYABLE"} : Report(r)
     \/ running /\ ~fits /\ Report("FAILED")
     \/ running /\ fits /\ Goes("checking")
  /\ UNCHANGED <<jvm, koishi>>

\* isAccountReady looks at the cache when its bots.list has come back, or not.
\* What Try has seen may be over by then.
CheckAccount ==
  /\ pc = "checking"
  /\ \/ ready /\ Goes("admitted")
     \/ ~ready /\ \E r \in {"FAILED", "RETRYABLE"} : Report(r)
  /\ UNCHANGED <<jvm, try, koishi>>

RequireSession == session # None /\ link[session] = "shook" /\ ~closing

\* sendMessage of the gateway: with no session the outcome is Uncertain
Choose ==
  /\ pc = "admitted"
  /\ IF RequireSession THEN on' = session /\ pc' = "calling" /\ UNCHANGED result
     ELSE Report("UNKNOWN")
  /\ UNCHANGED <<jvm, try, koishi>>

\* toSendOutcome: what is thrown, by kind
RetryableUnlessTimeout(error) ==
  IF error \in {"timeout", "silent", "unshaken"} THEN "UNKNOWN" ELSE "RETRYABLE"
ErrorOutcome(error) ==
  IF error \in {"timeout", "silent", "unshaken"} THEN "UNKNOWN" ELSE "FAILED"

\* call() up to its wait.  A session that closes under it refuses the call at
\* one of its two checks or drops the frame; a socket that is not open throws.
Call ==
  /\ pc = "calling"
  /\ \/ /\ link[on] = "shook"
        /\ request' = [request EXCEPT ![try] = "sent"]
        /\ Goes("waiting")
     \/ link[on] # "shook" /\ Goes("waiting") /\ UNCHANGED request
     \/ /\ link[on] # "shook"
        /\ \E error \in {"refused", "unshaken"} : Report(ErrorOutcome(error))
        /\ UNCHANGED request
     \/ Report(ErrorOutcome("not open")) /\ UNCHANGED request
  /\ UNCHANGED <<jvm, try, got, told>>

\* toOutcome: what is answered, by status; "ERROR" is an RPC error
StatusAsItIs(status) == status
AnyReceiptIsSent(status) ==
  IF status \in {"OK", "PARTIAL"} THEN "SENT"
  ELSE IF status = "ERROR" THEN ErrorOutcome("error")
  ELSE status
ReplyOutcome(status) ==
  IF status = "OK" THEN "SENT"
  ELSE IF status = "ERROR" THEN ErrorOutcome("error")
  ELSE status

Reply ==
  /\ pc = "waiting" /\ request[try] = "answered" /\ link[on] = "shook"
  /\ Report(ReplyOutcome(told[try]))
  /\ UNCHANGED <<jvm, try, koishi>>

\* close() completes the call with its reason
Cut ==
  /\ pc = "waiting" /\ link[on] # "shook"
  /\ Report(ErrorOutcome(link[on]))
  /\ UNCHANGED <<jvm, try, koishi>>

Timeout ==
  /\ pc = "waiting"
  /\ Report(ErrorOutcome("timeout"))
  /\ UNCHANGED <<jvm, try, koishi>>

-----------------------------------------------------------------------------
(* The Koishi gateway: a request on its way may still be taken up when the  *)
(* JVM has closed the connection, and is then carried out to its end        *)

Execution(a) == INSTANCE SendContract WITH parts <- Parts, delivered <- got[a], told <- told[a]

TakeUp(a) ==
  /\ request[a] = "sent"
  /\ request' = [request EXCEPT ![a] = "executing"]
  /\ UNCHANGED <<jvm, core, got, told>>

\* An RPC error, in the place of any result: nothing has been sent.
Refuse(a) ==
  /\ request[a] = "sent"
  /\ request' = [request EXCEPT ![a] = "answered"]
  /\ told' = [told EXCEPT ![a] = "ERROR"]
  /\ UNCHANGED <<jvm, core, got>>

Deliver(a) ==
  /\ request[a] \in {"executing", "answered"} /\ told[a] \in {"none", "UNKNOWN"}
  /\ \E p \in Parts \ got[a] : got' = [got EXCEPT ![a] = @ \cup {p}]
  /\ UNCHANGED <<jvm, core, request, told>>

Tell(a) ==
  /\ request[a] = "executing"
  /\ \E status \in Said :
       Execution(a)!Truthful(status) /\ told' = [told EXCEPT ![a] = status]
  /\ request' = [request EXCEPT ![a] = "answered"]
  /\ UNCHANGED <<jvm, core, got>>

-----------------------------------------------------------------------------
Connection == Attach \/ \E c \in Connections : Shake(c) \/ Lose(c) \/ FallSilent(c)
Koishi == \E a \in Tries : TakeUp(a) \/ Refuse(a) \/ Deliver(a) \/ Tell(a)

\* The message may be done with, and nothing of it under way any more.
Rests == pc = "idle" /\ UNCHANGED vars

Next ==
  \/ Connection \/ Readiness \/ StopPlugin \/ CloseGateway \/ StartPlugin
  \/ Try \/ CheckAccount \/ Choose \/ Call \/ Reply \/ Cut \/ Timeout
  \/ Koishi
  \/ Rests

Spec == Init /\ [][Next]_vars

-----------------------------------------------------------------------------
\* Every variable keeps its type.
TypeOK ==
  /\ running \in BOOLEAN /\ closing \in BOOLEAN
  /\ fits \in BOOLEAN /\ ready \in BOOLEAN
  /\ session \in Connections \cup {None}
  /\ link \in [Connections -> {"none", "fresh", "shook", "closed", "silent"}]
  /\ pc \in {"idle", "checking", "admitted", "calling", "waiting"}
  /\ try \in 0..MaxTries /\ on \in Connections \cup {None}
  /\ result \in Results
  /\ request \in [Tries -> {"none", "sent", "executing", "answered"}]
  /\ got \in [Tries -> SUBSET Parts]
  /\ told \in [Tries -> Said \cup {"none", "ERROR"}]

\* No part is shown twice, however many times the core tries, connections are
\* lost or replaced under a request, and requests arrive late.
NeverTwice == \A a, b \in Tries : a # b => got[a] \cap got[b] = {}

\* End to end the message keeps the contract of one send: SENT means that all
\* of it is there, PARTIAL that some of it is, for good.  A FAILED counts as
\* UNKNOWN here: see FailedIsCertain.
Final == pc = "idle" /\ result \notin {"none", "RETRYABLE"}
Told ==
  IF ~Final THEN "none"
  ELSE IF result = "SENT" THEN "OK"
  ELSE IF result = "FAILED" THEN "UNKNOWN"
  ELSE result
Contract == INSTANCE SendContract WITH
  parts <- Parts, delivered <- UNION {got[a] : a \in Tries}, told <- Told
EndToEnd == Contract!Spec

\* A message whose failure is reported is not on the platform, and a result
\* nobody knows is reported as UNKNOWN and not as a failure.
FailedIsCertain == result = "FAILED" => \A a \in Tries : got[a] = {}
=============================================================================

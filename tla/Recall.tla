-------------------------------- MODULE Recall --------------------------------
(***************************************************************************)
(* A message that is sent, and then recalled by a receipt the core got for   *)
(* it: recallMessage of the JVM plugin and of its gateway, on the connections *)
(* and through the stops and starts of Delivery, and recallMessage of the     *)
(* Koishi gateway (recall.ts), one adapter call against a timer of 25 s.      *)
(* A definition directly above the one it resembles is a slip that the      *)
(* runs have to catch; nothing uses it.                                     *)
(***************************************************************************)
EXTENDS Delivery

VARIABLES
  step, over,    \* recallMessage of the JVM, and the session it holds
  outcome,       \* what the core is told: RECALLED or FAILED
  ask, answer,   \* the request, and what Koishi says to it
  open, gone     \* the platform may yet delete the message; it has

caller == <<step, over, outcome>>
handler == <<ask, answer>>
platform == <<open, gone>>
recall == <<step, over, outcome, ask, answer, open, gone>>

RecallInit ==
  /\ Init
  /\ step = "idle" /\ over = None /\ outcome = "none"
  /\ ask = "none" /\ answer = "none"
  /\ open = FALSE /\ gone = FALSE

-----------------------------------------------------------------------------
(* The JVM                                                                  *)

Moves(to) == step' = to /\ UNCHANGED <<over, outcome>>
Ends(how) == step' = "idle" /\ over' = None /\ outcome' = how

\* The plugin is stopped, or by now the accounts have no such kind of target.
Ask ==
  /\ pc = "idle" /\ result \in {"SENT", "PARTIAL"} /\ outcome = "none" /\ step = "idle"
  /\ \/ running /\ Moves("checking")
     \/ Ends("FAILED")
  /\ UNCHANGED <<handler, platform, vars>>

CheckRecall ==
  /\ step = "checking"
  /\ \/ ready /\ Moves("admitted")
     \/ ~ready /\ Ends("FAILED")
  /\ UNCHANGED <<handler, platform, vars>>

\* requireSession; or, when onStop has been faster, the gateway it puts behind
\* close(): that one does nothing and returns, and the plugin says recalled().
ChooseRecall ==
  /\ step = "admitted"
  /\ \/ RequireSession /\ over' = session /\ step' = "calling" /\ UNCHANGED outcome
     \/ ~RequireSession /\ Ends("FAILED")
     \/ closing /\ Ends("RECALLED")
  /\ UNCHANGED <<handler, platform, vars>>

\* call() up to its wait, as Call of Delivery
CallRecall ==
  /\ step = "calling"
  /\ \/ link[over] = "shook" /\ ask' = "sent" /\ Moves("waiting")
     \/ link[over] # "shook" /\ Moves("waiting") /\ UNCHANGED ask
     \/ Ends("FAILED") /\ UNCHANGED ask
  /\ UNCHANGED <<answer, platform, vars>>

AnyAnswerButFailed(status) == IF status \in {"FAILED", "ERROR"} THEN "FAILED" ELSE "RECALLED"
\* Every status but OK, and every error, is thrown; the plugin says failed().
RecallOutcome(status) == IF status = "OK" THEN "RECALLED" ELSE "FAILED"

HearRecall ==
  /\ step = "waiting" /\ ask = "answered" /\ link[over] = "shook"
  /\ Ends(RecallOutcome(answer))
  /\ UNCHANGED <<handler, platform, vars>>

\* close() completes the call with its reason, or the timer of call() fires.
GiveUpRecall ==
  /\ step = "waiting"
  /\ Ends("FAILED")
  /\ UNCHANGED <<handler, platform, vars>>

-----------------------------------------------------------------------------
(* Koishi                                                                   *)

Says(status) == ask' = "answered" /\ answer' = status

\* The early returns: there is no such bot, or it cannot recall or is not
\* online, or an id is empty.
TakeUpRecall ==
  /\ ask = "sent"
  /\ \/ ask' = "deleting" /\ open' = TRUE /\ UNCHANGED answer
     \/ \E status \in {"ERROR", "FAILED"} : Says(status) /\ UNCHANGED open
  /\ UNCHANGED <<caller, gone, vars>>

\* The platform deletes the message, at any time after it was asked to, also
\* when nobody waits any more.
Delete ==
  /\ open /\ open' = FALSE /\ gone' = TRUE
  /\ UNCHANGED <<caller, handler, vars>>

\* classifyRecallError: a timeout is the only error that is UNKNOWN.
Classified(how) == IF how = "timeout" THEN "UNKNOWN" ELSE "FAILED"

\* "await bot.deleteMessage" returns, or throws.  A refusal is for good; what is
\* broken or has timed out on the way may still be done.
Deleted(how) ==
  /\ ask = "deleting"
  /\ \/ how = "ok" /\ gone /\ Says("OK") /\ UNCHANGED open
     \/ how \in {"timeout", "broken"} /\ Says(Classified(how)) /\ UNCHANGED open
     \/ how = "refused" /\ ~gone /\ open' = FALSE /\ Says(Classified(how))
  /\ UNCHANGED <<caller, gone, vars>>

StopsWithTheSession == ask = "deleting" /\ over # None /\ link[over] = "shook"
TimerStands == ask = "deleting"

\* withTimeout rejects first.
RecallTimer ==
  /\ TimerStands /\ Says("UNKNOWN")
  /\ UNCHANGED <<caller, platform, vars>>

-----------------------------------------------------------------------------
Caller == Ask \/ CheckRecall \/ ChooseRecall \/ CallRecall \/ HearRecall \/ GiveUpRecall
Answerer ==
  \/ TakeUpRecall \/ RecallTimer \/ Delete
  \/ \E how \in {"ok", "timeout", "broken", "refused"} : Deleted(how)

RecallNext ==
  \/ Next /\ UNCHANGED recall
  \/ Caller \/ Answerer

RecallSpec == RecallInit /\ [][RecallNext]_<<vars, recall>>

\* The JVM's coroutine goes on, its timer and Koishi's fire, and nothing else
\* need happen: neither an answer nor the end of deleteMessage.
FairRecallSpec ==
  /\ RecallSpec
  /\ WF_<<vars, recall>>(CheckRecall \/ ChooseRecall \/ CallRecall \/ GiveUpRecall)
  /\ WF_<<vars, recall>>(RecallTimer)

-----------------------------------------------------------------------------
\* Every variable keeps its type.
RecallTypeOK ==
  /\ TypeOK
  /\ step \in {"idle", "checking", "admitted", "calling", "waiting"}
  /\ over \in Connections \cup {None}
  /\ outcome \in {"none", "RECALLED", "FAILED"}
  /\ ask \in {"none", "sent", "deleting", "answered"}
  /\ answer \in {"none", "OK", "UNKNOWN", "FAILED", "ERROR"}
  /\ open \in BOOLEAN /\ gone \in BOOLEAN

\* "Do not fake success" (protocol.md, of message.recall): a message the core is
\* told is recalled is not on the platform any more.  A plugin that is stopped
\* under the recall breaks this (finding 4 of the README).
RecalledIsGone == outcome = "RECALLED" => gone

\* Nothing else does: whatever timed out, closed or was restarted in between, the
\* step that tells the core RECALLED finds the message gone, or belongs to the
\* gateway of a stopped plugin, and then Koishi was never asked.
ToldTruly ==
  outcome' = "RECALLED" /\ outcome # "RECALLED" => gone \/ (closing /\ ask = "none")
RecalledTruly == [][ToldTruly]_<<vars, recall>>

\* A recall ends at both ends though deleteMessage hangs: for the core, whatever
\* becomes of the connection, and for the handler in Koishi.
RecallEnds ==
  /\ step # "idle" ~> step = "idle"
  /\ ask = "deleting" ~> ask = "answered"
=============================================================================

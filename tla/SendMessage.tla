---------------------------- MODULE SendMessage -----------------------------
(***************************************************************************)
(* sendMessage of the Koishi gateway (send.ts): one message.send request,   *)
(* carried out part by part with one bot.sendMessage each, against a 25 s   *)
(* timer that races every await.  A part is a normal unit or one node of a  *)
(* forward; a "quoted" one brings the quote with it, as a segment; "void"   *)
(* is a unit that holds nothing to send.  JavaScript runs from await to     *)
(* await undisturbed, so an action is one such stretch.                     *)
(* A definition directly above the one it resembles is a slip that the     *)
(* runs have to catch; nothing uses it.                                    *)
(***************************************************************************)
EXTENDS Naturals, Sequences

CONSTANT
  Requests  \* the requests considered: their jobs and whether they reply

ASSUME RequestsAssumption ==
  Requests \subseteq [jobs : Seq({"part", "quoted", "void"}), reply : BOOLEAN]

VARIABLES
  jobs, bot, target, reply,   \* the request and the bot it finds, fixed
  ambiguous,                  \* fixed: the bot's adapter may deliver a part and then fail
                              \* with ECONNRESET or a 5xx
  pc, i,                      \* work(): the await it is at, and the job
  receipts, unknown, failed,  \* receipts, unknownReasons, failures: is there any
  failuresRetryable, quoteUsed, aborted,
  result,                     \* what the caller got; retryable FAILED is "RETRYABLE"
  open, delivered, carrying   \* the parts handed to the adapter: not settled by the
                              \* platform yet, delivered, and sent with the quote

request == <<jobs, bot, target, reply, ambiguous>>
books == <<receipts, unknown, failed, failuresRetryable>>
platform == <<open, delivered, carrying>>
vars == <<jobs, bot, target, reply, ambiguous, pc, i, receipts, unknown, failed, failuresRetryable,
          quoteUsed, aborted, result, open, delivered, carrying>>

Statuses == {"OK", "PARTIAL", "FAILED", "RETRYABLE", "UNKNOWN"}

Init ==
  /\ \E r \in Requests : jobs = r.jobs /\ reply = r.reply
  /\ bot \in {"missing", "connecting", "unavailable", "ready"}
  /\ target \in BOOLEAN /\ ambiguous \in BOOLEAN
  /\ pc = "begin" /\ i = 1
  /\ receipts = FALSE /\ unknown = FALSE /\ failed = FALSE /\ failuresRetryable = TRUE
  /\ quoteUsed = FALSE /\ aborted = FALSE
  /\ result = "none"
  /\ open = {} /\ delivered = {} /\ carrying = {}

-----------------------------------------------------------------------------
\* The early returns, in their order.
Refusal ==
  CASE bot = "missing"     -> "NOT_FOUND"
    [] bot = "connecting"  -> "RETRYABLE"
    [] bot = "unavailable" -> "FAILED"
    [] ~target             -> "FAILED"
    [] jobs = <<>>         -> "FAILED"
    [] OTHER               -> "none"

Begin ==
  /\ pc = "begin"
  /\ result' = Refusal
  /\ pc' = IF Refusal = "none" THEN "working" ELSE "done"
  /\ UNCHANGED <<request, i, books, quoteUsed, aborted, platform>>

FinalizeSlip ==
  CASE ~failed              -> "OK"
    [] unknown              -> "UNKNOWN"
    [] failed /\ receipts   -> "PARTIAL"
    [] failuresRetryable    -> "RETRYABLE"
    [] OTHER                -> "FAILED"
Finalize ==
  IF unknown THEN "UNKNOWN"
  ELSE IF ~failed THEN "OK"
  ELSE IF receipts THEN "PARTIAL"
  ELSE IF failuresRetryable THEN "RETRYABLE"
  ELSE "FAILED"

\* The head of the loop.  After an abort nobody looks at what finalize returns.
Loop ==
  /\ pc = "working"
  /\ IF aborted \/ i > Len(jobs)
     THEN /\ pc' = "done"
          /\ result' = IF aborted THEN result ELSE Finalize
          /\ UNCHANGED <<i, books>>
     ELSE IF jobs[i] # "void"
     THEN pc' = "rendering" /\ UNCHANGED <<i, books, result>>
     ELSE /\ failed' = TRUE /\ failuresRetryable' = FALSE
          /\ i' = i + 1
          /\ UNCHANGED <<pc, receipts, unknown, result>>
  /\ UNCHANGED <<request, quoteUsed, aborted, platform>>

Fail(retryable) ==
  /\ failed' = TRUE
  /\ failuresRetryable' = (failuresRetryable /\ retryable)
  /\ UNCHANGED <<receipts, unknown>>

DontKnow == unknown' = TRUE /\ UNCHANGED <<receipts, failed, failuresRetryable>>

NextJobTwice == pc' = "working" /\ i' = i + 2
NextJob == pc' = "working" /\ i' = i + 1

GoesOnRegardless == TRUE
GoesOn == ~aborted

\* "await render" returns: sendRendered, and sendElements up to its await.
\* Fetching media may time out or fail; what is left may be no element at all.
Rendered ==
  /\ pc = "rendering"
  /\ \/ /\ GoesOn
        /\ pc' = "sending" /\ open' = open \cup {i}
        /\ carrying' = IF jobs[i] = "quoted" \/ (reply /\ ~quoteUsed)
                       THEN carrying \cup {i} ELSE carrying
        /\ UNCHANGED <<i, books>>
     \/ /\ GoesOn /\ NextJob
        /\ \/ Fail(FALSE)
           \/ DontKnow
           \/ \E retryable \in BOOLEAN : Fail(retryable)
        /\ UNCHANGED <<carrying, open>>
     \/ /\ ~GoesOn /\ NextJob
        /\ UNCHANGED <<books, carrying, open>>
  /\ UNCHANGED <<request, quoteUsed, aborted, result, delivered>>

\* The platform takes a part, at any time after the adapter has got it and
\* also when the adapter has stopped waiting.
Deliver(p) ==
  /\ p \in open
  /\ open' = open \ {p}
  /\ delivered' = delivered \cup {p}
  /\ UNCHANGED <<request, pc, i, books, quoteUsed, aborted, result, carrying>>

\* How bot.sendMessage ends.  An error is a refusal: the platform has not got
\* the part and will not; a broken connection may leave that open.
Settles(how) ==
  CASE how = "ids"    -> i \in delivered /\ UNCHANGED open
    [] how \in {"no ids", "timeout"} -> UNCHANGED open
    [] how = "broken" -> IF ambiguous THEN UNCHANGED open
                         ELSE i \notin delivered /\ open' = open \ {i}
    [] how = "refused" -> i \notin delivered /\ open' = open \ {i}

SpendsQuoteSlip(how) == how \in {"ids", "no ids"}
SpendsQuote(how) == how \in {"ids", "no ids", "timeout"}

\* "await bot.sendMessage" returns or throws; an aborted request takes no note.
Sent(how) ==
  /\ pc = "sending"
  /\ Settles(how)
  /\ NextJob
  /\ IF aborted THEN UNCHANGED <<books, quoteUsed>>
     ELSE /\ quoteUsed' = (quoteUsed \/ SpendsQuote(how))
          /\ CASE how = "ids" -> receipts' = TRUE /\ UNCHANGED <<unknown, failed, failuresRetryable>>
               [] how \in {"no ids", "timeout"} -> DontKnow
               [] how = "broken" -> Fail(TRUE)
               [] how = "refused" -> \E retryable \in BOOLEAN : Fail(retryable)
  /\ UNCHANGED <<request, aborted, result, delivered, carrying>>

TimerRunsSlip == pc = "sending"
TimerRuns == pc \in {"rendering", "sending"}

\* withTimeout rejects first: the answer is UNKNOWN whatever work() still does.
TimerFires ==
  /\ TimerRuns /\ ~aborted
  /\ aborted' = TRUE /\ result' = "UNKNOWN"
  /\ UNCHANGED <<request, pc, i, books, quoteUsed, platform>>

Adapter == \E how \in {"ids", "no ids", "timeout", "broken", "refused"} : Sent(how)

Next ==
  \/ Begin \/ Loop \/ Rendered \/ Adapter \/ TimerFires
  \/ \E p \in open : Deliver(p)
  \/ pc = "done" /\ UNCHANGED vars

Spec == Init /\ [][Next]_vars

\* The event loop runs what it can and timers fire; media and adapters may hang.
FairSpec == Spec /\ WF_vars(Begin) /\ WF_vars(Loop) /\ WF_vars(TimerFires)

-----------------------------------------------------------------------------
\* Every variable keeps its type; i never runs past the jobs by more than one.
TypeOK ==
  /\ jobs \in Seq({"part", "quoted", "void"}) /\ reply \in BOOLEAN
  /\ bot \in {"missing", "connecting", "unavailable", "ready"}
  /\ target \in BOOLEAN /\ ambiguous \in BOOLEAN
  /\ pc \in {"begin", "working", "rendering", "sending", "done"}
  /\ i \in 1..Len(jobs) + 1
  /\ receipts \in BOOLEAN /\ unknown \in BOOLEAN /\ failed \in BOOLEAN
  /\ failuresRetryable \in BOOLEAN /\ quoteUsed \in BOOLEAN /\ aborted \in BOOLEAN
  /\ result \in Statuses \cup {"none", "NOT_FOUND"}
  /\ open \subseteq 1..Len(jobs) /\ delivered \subseteq 1..Len(jobs)
  /\ carrying \subseteq 1..Len(jobs)

\* The status sendMessage reports is true of the platform and stays true,
\* through deliveries that come after a timeout and after the abort: the
\* abstract contract.  ("NOT_FOUND" is thrown, before anything is sent.)  Of an
\* ambiguous adapter no status can be that true: see RetryIsSafe.
Told ==
  IF result = "NOT_FOUND" THEN "FAILED"
  ELSE IF ambiguous /\ result # "none" THEN "UNKNOWN"
  ELSE result
Contract == INSTANCE SendContract WITH parts <- 1..Len(jobs), told <- Told
KeepsSendContract == Contract!Spec

\* Once the timer has reported UNKNOWN, work() hands nothing more to the
\* adapter, wherever it was when the timer fired.
NothingBeginsAfterTimeout == [][aborted /\ pc # "sending" => pc' # "sending"]_vars

\* The platform shows the message that is replied to a second time only where the
\* JVM has put it into the request again (KoishiOutgoingMapper's withReply), though
\* a part that failed passes the quote on to the next; and a reply that is reported
\* as OK shows it.
QuotedOnce ==
  /\ ~ambiguous =>
       \A p, q \in carrying \cap delivered : p < q => \E k \in p + 1..q : jobs[k] = "quoted"
  /\ result = "OK" /\ reply => carrying \cap delivered # {}

\* A result marked retryable means that nothing was, or ever will be,
\* delivered: sending again cannot send twice.
RetryIsSafe == result = "RETRYABLE" => delivered = {}

\* The caller gets a result though media and adapters hang.
AlwaysAResult == <>(result # "none")
=============================================================================

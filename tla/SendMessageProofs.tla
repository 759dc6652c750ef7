-------------------------- MODULE SendMessageProofs --------------------------
(* What holds of message.send for any requests, of any number of parts.     *)
EXTENDS SendMessage, TLAPS

-----------------------------------------------------------------------------
(* The inductive invariant                                                  *)

\* Where work() is, and which parts the platform may have.
Place ==
  /\ pc = "begin" => i = 1 /\ open = {} /\ delivered = {} /\ carrying = {}
  /\ pc \notin {"begin", "done"} => Len(jobs) > 0
  /\ pc \in {"rendering", "sending"} => i <= Len(jobs)
  /\ \A p \in open \cup delivered \cup carrying : p < i \/ (p = i /\ pc = "sending")
  /\ pc = "sending" => i \in open \cup delivered
  /\ open \cap delivered = {}

Reported ==
  /\ aborted => result = "UNKNOWN" /\ pc # "begin"
  /\ ~aborted => (result = "none" <=> pc # "done")

\* As long as they are kept, the books say of the parts behind work() what the
\* platform has of them.
Booked ==
  ~ambiguous /\ ~aborted =>
    /\ \A p \in open : p < i => unknown
    /\ \A p \in 1..i - 1 : p \notin delivered => failed \/ unknown
    /\ \A p \in delivered : p < i => receipts \/ unknown
    /\ failed /\ ~unknown => \E p \in 1..i - 1 : p \notin delivered
    /\ receipts => \E p \in 1..i - 1 : p \in delivered

\* A result that is certain is true and stays true: nothing is open any more.
Certain ==
  /\ result = "NOT_FOUND" => open = {} /\ delivered = {}
  /\ ~ambiguous =>
       /\ result \notin {"none", "UNKNOWN"} => open = {}
       /\ result = "OK" => delivered = 1..Len(jobs)
       /\ result = "PARTIAL" => delivered # {} /\ delivered # 1..Len(jobs)
       /\ result \in {"FAILED", "RETRYABLE"} => delivered = {}

\* The parts that show the quote, or may come to.
Shows == carrying \cap (delivered \cup open)

\* While the quote is not used up none of the parts behind work() shows it.
QuoteOnce ==
  ~ambiguous =>
    /\ \A p, q \in Shows : p < q => \E k \in p + 1..q : jobs[k] = "quoted"
    /\ ~aborted /\ ~quoteUsed => \A p \in Shows : p = i /\ pc = "sending"

\* The first part of a reply shows the quote.
QuoteShown ==
  /\ i = 1 => ~quoteUsed
  /\ pc = "sending" /\ i = 1 /\ reply => i \in carrying
  /\ ~aborted /\ ~failed /\ ~unknown /\ reply /\ i > 1 => carrying \cap delivered # {}
  /\ result = "OK" /\ reply => carrying \cap delivered # {}

SInv == TypeOK /\ Place /\ Reported /\ Booked /\ Certain /\ QuoteOnce /\ QuoteShown

\* The initial states satisfy the invariant.
LEMMA InitInv == Init => SInv
<1> SUFFICES ASSUME Init PROVE SInv
  OBVIOUS
<1>1. TypeOK
  <2>1. PICK r \in Requests : jobs = r.jobs /\ reply = r.reply
    BY DEF Init
  <2>2. jobs \in Seq({"part", "quoted", "void"}) /\ reply \in BOOLEAN
    BY <2>1, RequestsAssumption
  <2>3. i \in 1..Len(jobs) + 1
    BY <2>2 DEF Init
  <2>. QED BY <2>2, <2>3 DEF Init, TypeOK
<1>2. Place /\ Reported /\ Booked /\ Certain
  BY DEF Init, Place, Reported, Booked, Certain
<1>3. QuoteOnce /\ QuoteShown
  BY DEF Init, QuoteOnce, QuoteShown, Shows
<1>. QED BY <1>1, <1>2, <1>3 DEF SInv

-----------------------------------------------------------------------------
(* The steps                                                                *)

\* What the end of an adapter call does, case by case.
LEMMA SentCases ==
  ASSUME TypeOK, Adapter
  PROVE  /\ pc = "sending" /\ pc' = "working" /\ i' = i + 1
         /\ UNCHANGED <<request, aborted, result, delivered, carrying>>
         /\ \/ UNCHANGED open
            \/ ~ambiguous /\ i \notin delivered /\ open' = open \ {i}
            \/ ambiguous /\ open' = open \ {i}
         /\ \/ aborted /\ UNCHANGED <<books, quoteUsed>>
            \/ /\ ~aborted /\ i \in delivered /\ quoteUsed' = TRUE /\ receipts' = TRUE
               /\ UNCHANGED <<unknown, failed, failuresRetryable, open>>
            \/ ~aborted /\ quoteUsed' = TRUE /\ DontKnow /\ UNCHANGED open
            \/ /\ ~aborted /\ quoteUsed' = quoteUsed
               /\ \E retryable \in BOOLEAN : Fail(retryable)
               /\ ambiguous \/ (i \notin delivered /\ open' = open \ {i})
<1>1. PICK how \in {"ids", "no ids", "timeout", "broken", "refused"} : Sent(how)
  BY DEF Adapter
<1>. USE DEF TypeOK
<1>2. CASE how = "ids"
  BY <1>1, <1>2 DEF Sent, Settles, SpendsQuote, NextJob
<1>3. CASE how \in {"no ids", "timeout"}
  BY <1>1, <1>3 DEF Sent, Settles, SpendsQuote, NextJob
<1>4. CASE how = "broken"
  BY <1>1, <1>4 DEF Sent, Settles, SpendsQuote, NextJob
<1>5. CASE how = "refused"
  BY <1>1, <1>5 DEF Sent, Settles, SpendsQuote, NextJob
<1>. QED BY <1>1, <1>2, <1>3, <1>4, <1>5
\* The head of the loop, case by case.
LEMMA LoopCases ==
  ASSUME TypeOK, Loop
  PROVE  /\ pc = "working" /\ UNCHANGED <<request, quoteUsed, aborted, platform>>
         /\ \/ pc' = "done" /\ aborted /\ UNCHANGED <<i, books, result>>
            \/ /\ pc' = "done" /\ ~aborted /\ i > Len(jobs) /\ result' = Finalize
               /\ UNCHANGED <<i, books>>
            \/ /\ pc' = "rendering" /\ ~aborted /\ i <= Len(jobs)
               /\ UNCHANGED <<i, books, result>>
            \/ /\ pc' = "working" /\ ~aborted /\ i <= Len(jobs) /\ i' = i + 1
               /\ failed' = TRUE /\ failuresRetryable' = FALSE
               /\ UNCHANGED <<receipts, unknown, result>>
<1>1. Len(jobs) \in Nat /\ i \in Nat
  BY DEF TypeOK
<1>. QED BY <1>1 DEF Loop

\* The end of rendering, case by case.
LEMMA RenderedCases ==
  ASSUME TypeOK, Rendered
  PROVE  /\ pc = "rendering" /\ UNCHANGED <<request, quoteUsed, aborted, result, delivered>>
         /\ \/ /\ ~aborted /\ pc' = "sending" /\ open' = open \cup {i}
               /\ carrying' = IF jobs[i] = "quoted" \/ (reply /\ ~quoteUsed)
                              THEN carrying \cup {i} ELSE carrying
               /\ UNCHANGED <<i, books>>
            \/ /\ ~aborted /\ pc' = "working" /\ i' = i + 1 /\ UNCHANGED <<carrying, open>>
               /\ DontKnow \/ \E retryable \in BOOLEAN : Fail(retryable)
            \/ /\ aborted /\ pc' = "working" /\ i' = i + 1
               /\ UNCHANGED <<carrying, open, books>>
BY DEF Rendered, GoesOn, NextJob

\* What the invariant says of the numbers.
LEMMA Numbers ==
  ASSUME SInv
  PROVE  /\ Len(jobs) \in Nat /\ i \in Nat \ {0}
         /\ i <= Len(jobs) + 1
         /\ open \subseteq Nat \ {0} /\ delivered \subseteq Nat \ {0} /\ carrying \subseteq Nat \ {0}
         /\ pc \in {"rendering", "sending"} => i \in 1..Len(jobs)
         /\ pc # "sending" => i \notin open \cup delivered \cup carrying
         /\ \A p \in open \cup delivered \cup carrying : p <= i
<1>1. /\ Len(jobs) \in Nat /\ i \in 1..Len(jobs) + 1
      /\ open \subseteq 1..Len(jobs) /\ delivered \subseteq 1..Len(jobs)
      /\ carrying \subseteq 1..Len(jobs)
  BY DEF SInv, TypeOK
<1>2. /\ pc \in {"rendering", "sending"} => i <= Len(jobs)
      /\ \A p \in open \cup delivered \cup carrying : p < i \/ (p = i /\ pc = "sending")
  BY DEF SInv, Place
<1>. QED BY <1>1, <1>2

\* The type of every variable is kept.
LEMMA TypeStep == SInv /\ Next => TypeOK'
<1> SUFFICES ASSUME SInv, Next PROVE TypeOK'
  OBVIOUS
<1>a. TypeOK
  BY DEF SInv
<1>1. CASE Begin
  BY <1>a, <1>1 DEF Begin, Refusal, Statuses, TypeOK, request, books, platform
<1>2. CASE Loop
  <2>0. UNCHANGED jobs /\ (UNCHANGED i \/ (i' = i + 1 /\ i <= Len(jobs)))
    BY <1>a, <1>2, LoopCases DEF request
  <2>1. UNCHANGED jobs /\ i' \in 1..Len(jobs) + 1
    BY <2>0, Numbers
  <2>2. result' \in Statuses \cup {"none", "NOT_FOUND"}
    BY <1>a, <1>2, LoopCases DEF Finalize, Statuses, TypeOK
  <2>3. /\ pc' \in {"done", "rendering", "working"}
        /\ failed' \in BOOLEAN /\ failuresRetryable' \in BOOLEAN /\ UNCHANGED <<receipts, unknown>>
    BY <1>a, <1>2, LoopCases DEF TypeOK, books
  <2>4. UNCHANGED <<request, quoteUsed, aborted, platform>>
    BY <1>a, <1>2, LoopCases
  <2>. QED BY <1>a, <2>1, <2>2, <2>3, <2>4 DEF TypeOK, request, platform
<1>3. CASE Rendered
  <2>1. UNCHANGED jobs /\ i' \in 1..Len(jobs) + 1 /\ i \in 1..Len(jobs)
    BY <1>a, <1>3, Numbers, RenderedCases DEF request, books
  <2>2. /\ receipts' \in BOOLEAN /\ unknown' \in BOOLEAN /\ failed' \in BOOLEAN
        /\ failuresRetryable' \in BOOLEAN /\ pc' \in {"sending", "working"}
    BY <1>a, <1>3, RenderedCases DEF Fail, DontKnow, books, TypeOK
  <2>3. open' \subseteq 1..Len(jobs) /\ carrying' \subseteq 1..Len(jobs)
    BY <1>a, <1>3, <2>1, RenderedCases DEF TypeOK
  <2>4. UNCHANGED <<request, quoteUsed, aborted, result, delivered>>
    BY <1>a, <1>3, RenderedCases
  <2>. QED BY <1>a, <2>1, <2>2, <2>3, <2>4 DEF TypeOK, request
<1>4. CASE Adapter
  <2>1. open' \subseteq open /\ UNCHANGED jobs /\ i' \in 1..Len(jobs) + 1
    BY <1>a, <1>4, Numbers, SentCases DEF request
  <2>2. /\ receipts' \in BOOLEAN /\ unknown' \in BOOLEAN /\ failed' \in BOOLEAN
        /\ failuresRetryable' \in BOOLEAN /\ quoteUsed' \in BOOLEAN /\ pc' = "working"
    BY <1>a, <1>4, SentCases DEF Fail, DontKnow, books, TypeOK
  <2>3. UNCHANGED <<request, aborted, result, delivered, carrying>>
    BY <1>a, <1>4, SentCases
  <2>. QED BY <1>a, <2>1, <2>2, <2>3 DEF TypeOK, request
<1>5. CASE TimerFires
  BY <1>a, <1>5 DEF TimerFires, Statuses, TypeOK, request, books, platform
<1>6. ASSUME NEW p \in open, Deliver(p) PROVE TypeOK'
  BY <1>a, <1>6 DEF Deliver, TypeOK, request, books
<1>7. CASE UNCHANGED vars
  BY <1>a, <1>7 DEF vars, TypeOK
<1>. QED BY <1>1, <1>2, <1>3, <1>4, <1>5, <1>6, <1>7 DEF Next

\* Parts are handed over one by one.
LEMMA PlaceStep == SInv /\ Next => Place'
<1> SUFFICES ASSUME SInv, Next PROVE Place'
  OBVIOUS
<1>a. TypeOK /\ Place
  BY DEF SInv
<1>1. CASE Begin
  <2>1. pc' # "done" => pc' = "working" /\ jobs # <<>>
    BY <1>1 DEF Begin, Refusal
  <2>2. jobs # <<>> => Len(jobs) > 0
    BY <1>a DEF TypeOK
  <2>. QED BY <1>a, <1>1, <2>1, <2>2, Numbers DEF Begin, Place, request, platform
<1>2. CASE Loop
  <2>1. /\ pc = "working" /\ UNCHANGED <<jobs, open, delivered, carrying>>
        /\ \/ pc' = "done" /\ UNCHANGED i
           \/ pc' = "rendering" /\ i <= Len(jobs) /\ UNCHANGED i
           \/ pc' = "working" /\ i' = i + 1
    BY <1>a, <1>2, LoopCases DEF request, platform
  <2>. QED BY <1>a, <2>1, Numbers DEF Place
<1>3. CASE Rendered
  <2>1. /\ pc = "rendering" /\ UNCHANGED <<jobs, delivered>>
        /\ \/ /\ pc' = "sending" /\ open' = open \cup {i} /\ UNCHANGED i
              /\ carrying' \subseteq carrying \cup {i}
           \/ pc' = "working" /\ i' = i + 1 /\ UNCHANGED <<open, carrying>>
    BY <1>a, <1>3, RenderedCases DEF request, books
  <2>. QED BY <1>a, <2>1, Numbers DEF Place
<1>4. CASE Adapter
  <2>1. /\ pc = "sending" /\ pc' = "working" /\ i' = i + 1
        /\ UNCHANGED <<jobs, delivered, carrying>>
        /\ open' \subseteq open
    BY <1>a, <1>4, SentCases DEF request
  <2>. QED BY <1>a, <2>1, Numbers DEF Place
<1>5. CASE TimerFires
  BY <1>a, <1>5 DEF TimerFires, TimerRuns, Place, request, platform
<1>6. ASSUME NEW p \in open, Deliver(p) PROVE Place'
  BY <1>a, <1>6 DEF Deliver, Place, request
<1>7. CASE UNCHANGED vars
  BY <1>a, <1>7 DEF vars, Place
<1>. QED BY <1>1, <1>2, <1>3, <1>4, <1>5, <1>6, <1>7 DEF Next

\* Results are told once.
LEMMA ReportedStep == SInv /\ Next => Reported'
<1> SUFFICES ASSUME SInv, Next PROVE Reported'
  OBVIOUS
<1>a. TypeOK /\ Reported
  BY DEF SInv
<1>1. CASE Begin
  BY <1>a, <1>1 DEF Begin, Refusal, Reported
<1>2. CASE Loop
  <2>1. Finalize # "none"
    BY DEF Finalize
  <2>2. UNCHANGED aborted
    BY <1>a, <1>2, LoopCases
  <2>. QED BY <1>a, <1>2, <2>1, <2>2, LoopCases DEF Reported
<1>3. CASE Rendered
  BY <1>a, <1>3, RenderedCases DEF Reported
<1>4. CASE Adapter
  BY <1>a, <1>4, SentCases DEF Reported
<1>5. CASE TimerFires
  BY <1>a, <1>5 DEF TimerFires, TimerRuns, Reported
<1>6. ASSUME NEW p \in open, Deliver(p) PROVE Reported'
  BY <1>a, <1>6 DEF Deliver, Reported
<1>7. CASE UNCHANGED vars
  BY <1>a, <1>7 DEF vars, Reported
<1>. QED BY <1>1, <1>2, <1>3, <1>4, <1>5, <1>6, <1>7 DEF Next

\* The books are kept.
LEMMA BookedStep == SInv /\ Next => Booked'
<1> SUFFICES ASSUME SInv, Next, ~ambiguous', ~aborted' PROVE Booked'
  BY DEF Booked
<1>a. TypeOK /\ Booked
  BY DEF SInv
<1>b. ~ambiguous /\ ~aborted
  <2>1. Next => UNCHANGED ambiguous /\ (aborted => aborted')
    BY <1>a, LoopCases, RenderedCases, SentCases
    DEF Next, Begin, TimerFires, Deliver, vars, request
  <2>. QED BY <2>1
<1>1. CASE Begin
  BY <1>1 DEF Begin, SInv, Booked, request, books, platform
<1>2. CASE Loop
  <2>1. UNCHANGED <<open, delivered>> /\ i \notin delivered
    BY <1>a, <1>2, Numbers, LoopCases DEF platform
  <2>2. CASE UNCHANGED <<i, books>>
    BY <1>a, <1>b, <2>1, <2>2 DEF Booked, books
  <2>3. CASE failed' = TRUE /\ i' = i + 1 /\ UNCHANGED <<receipts, unknown>>
    <3>1. i \notin open /\ i \in 1..i' - 1 /\ 1..i - 1 \subseteq 1..i' - 1
      BY <1>a, <1>2, <2>3, Numbers, LoopCases
    <3>2. \A p \in open \cup delivered : p < i' <=> p < i
      BY <1>a, <1>2, <2>1, <2>3, <3>1, Numbers
    <3>. QED BY <1>a, <1>b, <2>1, <2>3, <3>1, <3>2 DEF Booked
  <2>. QED BY <1>a, <1>2, <2>2, <2>3, LoopCases
<1>3. CASE Rendered
  <2>1. UNCHANGED delivered /\ i \notin delivered /\ i \notin open
    BY <1>a, <1>3, Numbers, RenderedCases
  <2>2. CASE open' = open \cup {i} /\ UNCHANGED <<i, books>>
    BY <1>a, <1>b, <2>1, <2>2, Numbers DEF Booked, books
  <2>3. CASE i' = i + 1 /\ UNCHANGED open /\ DontKnow
    BY <1>a, <1>b, <2>1, <2>3, Numbers DEF Booked, DontKnow
  <2>4. CASE i' = i + 1 /\ UNCHANGED open /\ \E retryable \in BOOLEAN : Fail(retryable)
    BY <1>a, <1>b, <2>1, <2>4, Numbers DEF Booked, Fail
  <2>. QED BY <1>a, <1>b, <1>3, <2>2, <2>3, <2>4, RenderedCases
<1>4. CASE Adapter
  <2>1. i' = i + 1 /\ UNCHANGED delivered
    BY <1>a, <1>4, SentCases
  <2>2. CASE i \in delivered /\ receipts' = TRUE /\ UNCHANGED <<unknown, failed, open>>
    <3>1. i \notin open
      BY <2>2 DEF SInv, Place
    <3>. QED BY <1>a, <1>b, <2>1, <2>2, <3>1, Numbers DEF Booked
  <2>3. CASE DontKnow /\ UNCHANGED open
    BY <1>a, <1>b, <2>1, <2>3, Numbers DEF Booked, DontKnow
  <2>4. CASE /\ \E retryable \in BOOLEAN : Fail(retryable)
             /\ i \notin delivered /\ open' = open \ {i}
    BY <1>a, <1>b, <2>1, <2>4, Numbers DEF Booked, Fail
  <2>. QED BY <1>a, <1>b, <1>4, <2>2, <2>3, <2>4, SentCases
<1>5. CASE TimerFires
  BY <1>5 DEF TimerFires
<1>6. ASSUME NEW p \in open, Deliver(p) PROVE Booked'
  BY <1>a, <1>b, <1>6, Numbers DEF Deliver, Booked, books
<1>7. CASE UNCHANGED vars
  BY <1>a, <1>7 DEF vars, Booked
<1>. QED BY <1>1, <1>2, <1>3, <1>4, <1>5, <1>6, <1>7 DEF Next

\* What finalize returns is true.
LEMMA CertainStep == SInv /\ Next => Certain'
<1> SUFFICES ASSUME SInv, Next PROVE Certain'
  OBVIOUS
<1>. USE DEF SInv, TypeOK, request, books, platform, Place, Reported, Certain
<1>1. CASE Begin
  BY <1>1 DEF Begin, Refusal
<1>2. CASE Loop
  <2>1. CASE UNCHANGED result
    BY <1>2, <2>1 DEF Loop
  <2>2. CASE ~aborted /\ i > Len(jobs) /\ result' = Finalize
    <3>1. UNCHANGED <<jobs, ambiguous, open, delivered>> /\ Finalize # "NOT_FOUND"
      BY <1>2 DEF Loop, Finalize
    <3>2. /\ \A p \in open \cup delivered : p < i /\ p \in 1..Len(jobs)
          /\ i - 1 = Len(jobs) /\ 1..i - 1 = 1..Len(jobs)
      BY <1>2, <2>2 DEF Loop
    <3>3. CASE ~ambiguous /\ ~unknown
      <4>1. open = {}
        BY <2>2, <3>2, <3>3 DEF Booked
      <4>2. ~failed => delivered = 1..Len(jobs)
        BY <2>2, <3>2, <3>3 DEF Booked
      <4>3. failed => delivered # 1..Len(jobs)
        BY <2>2, <3>2, <3>3 DEF Booked
      <4>4. receipts <=> delivered # {}
        BY <2>2, <3>2, <3>3 DEF Booked
      <4>. QED BY <2>2, <3>1, <3>3, <4>1, <4>2, <4>3, <4>4 DEF Finalize
    <3>4. CASE ambiguous \/ unknown
      BY <2>2, <3>1, <3>4 DEF Finalize
    <3>. QED BY <3>3, <3>4
  <2>. QED BY <1>2, <2>1, <2>2 DEF Loop
<1>3. CASE Rendered
  BY <1>3 DEF Rendered, GoesOn
<1>4. CASE Adapter
  BY <1>4, SentCases
<1>5. CASE TimerFires
  BY <1>5 DEF TimerFires
<1>6. ASSUME NEW p \in open, Deliver(p) PROVE Certain'
  BY <1>6 DEF Deliver
<1>. QED BY <1>1, <1>2, <1>3, <1>4, <1>5, <1>6 DEF Next, vars
\* The quote passes from a part that failed to the next, and no further.
LEMMA QuoteOnceStep == SInv /\ Next => QuoteOnce'
<1> SUFFICES ASSUME SInv, Next, ~ambiguous' PROVE QuoteOnce'
  BY DEF QuoteOnce
<1>a. TypeOK /\ QuoteOnce
  BY DEF SInv
<1>b. ~ambiguous
  <2>1. Next => UNCHANGED ambiguous
    BY <1>a, LoopCases, RenderedCases, SentCases
    DEF Next, Begin, TimerFires, Deliver, vars, request
  <2>. QED BY <2>1
<1>1. CASE Begin
  BY <1>1 DEF Begin, SInv, Place, QuoteOnce, Shows, platform
<1>2. CASE Loop
  <2>1. pc = "working" /\ UNCHANGED <<jobs, quoteUsed, aborted, open, delivered, carrying>>
    BY <1>a, <1>2, LoopCases DEF request, platform
  <2>. QED BY <1>a, <1>b, <2>1 DEF QuoteOnce, Shows
<1>3. CASE Rendered
  <2>1. pc = "rendering" /\ UNCHANGED <<jobs, quoteUsed, aborted, delivered>>
    BY <1>a, <1>3, RenderedCases DEF request
  <2>2. CASE UNCHANGED <<carrying, open>>
    BY <1>a, <1>b, <2>1, <2>2 DEF QuoteOnce, Shows
  <2>3. CASE /\ ~aborted /\ pc' = "sending" /\ open' = open \cup {i} /\ UNCHANGED i
             /\ carrying' = IF jobs[i] = "quoted" \/ (reply /\ ~quoteUsed)
                            THEN carrying \cup {i} ELSE carrying
    <3>1. i \in Nat /\ \A p \in Shows : p \in Nat /\ p < i
      BY <2>1, Numbers DEF Shows
    <3>2. CASE jobs[i] = "quoted"
      <4>1. Shows' = Shows \cup {i}
        BY <2>1, <2>3, <3>2, Numbers DEF Shows
      <4>2. \A p \in Shows : i \in p + 1..i
        BY <3>1, <4>1, Numbers DEF Shows
      <4>3. ASSUME NEW p \in Shows', NEW q \in Shows', p < q
            PROVE  \E k \in p + 1..q : jobs[k] = "quoted"
        <5>1. p \in Shows
          BY <3>1, <4>1, <4>3
        <5>2. CASE q = i
          BY <3>2, <4>2, <5>1, <5>2
        <5>3. CASE q \in Shows
          BY <1>a, <1>b, <4>3, <5>1, <5>3 DEF QuoteOnce
        <5>. QED BY <4>1, <5>2, <5>3
      <4>4. ~quoteUsed => Shows' = {i}
        BY <1>a, <1>b, <2>1, <2>3, <4>1 DEF QuoteOnce
      <4>. QED BY <2>1, <2>3, <4>3, <4>4 DEF QuoteOnce
    <3>3. CASE jobs[i] # "quoted" /\ ~quoteUsed
      <4>1. Shows = {}
        BY <1>a, <1>b, <2>1, <2>3, <3>3 DEF QuoteOnce
      <4>2. Shows' \subseteq {i}
        BY <2>1, <2>3, <4>1, Numbers DEF Shows
      <4>. QED BY <2>1, <2>3, <4>2, Numbers DEF QuoteOnce
    <3>4. CASE jobs[i] # "quoted" /\ quoteUsed
      <4>1. Shows' = Shows
        BY <2>1, <2>3, <3>4, Numbers DEF Shows
      <4>. QED BY <1>a, <1>b, <2>1, <3>4, <4>1 DEF QuoteOnce
    <3>. QED BY <3>2, <3>3, <3>4
  <2>. QED BY <1>a, <1>3, <2>2, <2>3, RenderedCases
<1>4. CASE Adapter
  <2>1. /\ UNCHANGED <<jobs, aborted, delivered, carrying>> /\ open' \subseteq open
        /\ ~aborted => quoteUsed' = TRUE \/ (quoteUsed' = quoteUsed /\ i \notin delivered /\ i \notin open')
    BY <1>a, <1>b, <1>4, SentCases DEF request
  <2>2. Shows' \subseteq Shows
    BY <2>1 DEF Shows
  <2>3. ~aborted /\ ~quoteUsed' => Shows' = {}
    BY <1>a, <1>b, <2>1, <2>2 DEF QuoteOnce, Shows
  <2>. QED BY <1>a, <1>b, <2>1, <2>2, <2>3 DEF QuoteOnce
<1>5. CASE TimerFires
  BY <1>a, <1>b, <1>5 DEF TimerFires, QuoteOnce, Shows, request, platform
<1>6. ASSUME NEW p \in open, Deliver(p) PROVE QuoteOnce'
  <2>1. Shows' = Shows
    BY <1>6 DEF Deliver, Shows
  <2>. QED BY <1>a, <1>b, <1>6, <2>1 DEF Deliver, QuoteOnce, request
<1>7. CASE UNCHANGED vars
  BY <1>a, <1>7 DEF vars, QuoteOnce, Shows
<1>. QED BY <1>1, <1>2, <1>3, <1>4, <1>5, <1>6, <1>7 DEF Next

\* A reply that goes well has shown the quote with its first part.
LEMMA QuoteShownStep == SInv /\ Next => QuoteShown'
<1> SUFFICES ASSUME SInv, Next PROVE QuoteShown'
  OBVIOUS
<1>a. TypeOK /\ QuoteShown /\ Place /\ Reported
  BY DEF SInv
<1>1. CASE Begin
  BY <1>a, <1>1 DEF Begin, Refusal, Place, QuoteShown, request, books, platform
<1>2. CASE Loop
  <2>1. /\ UNCHANGED <<reply, quoteUsed, aborted, open, delivered, carrying>>
        /\ pc = "working" /\ pc' # "sending" /\ Len(jobs) > 0
    BY <1>a, <1>2, LoopCases DEF request, platform, Place
  <2>2. CASE UNCHANGED <<i, books, result>>
    BY <1>a, <2>1, <2>2 DEF QuoteShown, books
  <2>3. CASE ~aborted /\ i > Len(jobs) /\ result' = Finalize /\ UNCHANGED <<i, books>>
    <3>1. i > 1 /\ (Finalize = "OK" => ~failed /\ ~unknown)
      BY <2>1, <2>3, Numbers DEF Finalize
    <3>. QED BY <1>a, <2>1, <2>3, <3>1 DEF QuoteShown, books
  <2>4. CASE i' = i + 1 /\ failed' = TRUE /\ UNCHANGED result
    BY <1>a, <2>1, <2>4, Numbers DEF QuoteShown
  <2>. QED BY <1>a, <1>2, <2>2, <2>3, <2>4, LoopCases
<1>3. CASE Rendered
  <2>1. pc = "rendering" /\ UNCHANGED <<reply, quoteUsed, aborted, result, delivered>>
    BY <1>a, <1>3, RenderedCases DEF request
  <2>2. CASE /\ ~aborted /\ pc' = "sending" /\ UNCHANGED <<i, books>>
             /\ carrying' = IF jobs[i] = "quoted" \/ (reply /\ ~quoteUsed)
                            THEN carrying \cup {i} ELSE carrying
    <3>1. carrying \subseteq carrying' /\ (reply /\ ~quoteUsed => i \in carrying')
      BY <2>2
    <3>. QED BY <1>a, <2>1, <2>2, <3>1 DEF QuoteShown, books
  <2>3. CASE /\ ~aborted /\ pc' = "working" /\ i' = i + 1 /\ UNCHANGED carrying
             /\ DontKnow \/ \E retryable \in BOOLEAN : Fail(retryable)
    BY <1>a, <2>1, <2>3, Numbers DEF QuoteShown, DontKnow, Fail
  <2>4. CASE aborted /\ pc' = "working" /\ i' = i + 1 /\ UNCHANGED <<carrying, books>>
    BY <1>a, <2>1, <2>4, Numbers DEF QuoteShown
  <2>. QED BY <1>a, <1>3, <2>2, <2>3, <2>4, RenderedCases
<1>4. CASE Adapter
  <2>1. /\ pc = "sending" /\ pc' = "working" /\ i' = i + 1
        /\ UNCHANGED <<reply, aborted, result, delivered, carrying>>
    BY <1>a, <1>4, SentCases DEF request
  <2>2. i' # 1
    BY <2>1, Numbers
  <2>3. CASE aborted
    BY <1>a, <2>1, <2>2, <2>3 DEF QuoteShown
  <2>4. CASE i \in delivered /\ UNCHANGED <<unknown, failed>>
    BY <1>a, <2>1, <2>2, <2>4, Numbers DEF QuoteShown
  <2>5. CASE DontKnow \/ \E retryable \in BOOLEAN : Fail(retryable)
    BY <1>a, <2>1, <2>2, <2>5 DEF QuoteShown, DontKnow, Fail
  <2>. QED BY <1>a, <1>4, <2>3, <2>4, <2>5, SentCases
<1>5. CASE TimerFires
  BY <1>a, <1>5 DEF TimerFires, QuoteShown, request, books, platform
<1>6. ASSUME NEW p \in open, Deliver(p) PROVE QuoteShown'
  BY <1>a, <1>6 DEF Deliver, QuoteShown, request, books
<1>7. CASE UNCHANGED vars
  BY <1>a, <1>7 DEF vars, QuoteShown
<1>. QED BY <1>1, <1>2, <1>3, <1>4, <1>5, <1>6, <1>7 DEF Next

\* A step that changes nothing keeps the invariant.
LEMMA Stuttering == SInv /\ UNCHANGED vars => SInv'
<1> SUFFICES ASSUME SInv, UNCHANGED vars PROVE SInv'
  OBVIOUS
<1>1. TypeOK' /\ Place' /\ Reported' /\ Booked'
  BY DEF vars, SInv, TypeOK, Place, Reported, Booked
<1>2. Certain' /\ QuoteOnce' /\ QuoteShown'
  BY DEF vars, SInv, Certain, QuoteOnce, QuoteShown, Shows
<1>. QED BY <1>1, <1>2 DEF SInv

\* The invariant holds in every reachable state.
LEMMA SendInductive == Spec => []SInv
<1>1. SInv /\ [Next]_vars => SInv'
  BY TypeStep, PlaceStep, ReportedStep, BookedStep, CertainStep, QuoteOnceStep, QuoteShownStep,
     Stuttering DEF SInv
<1>. QED BY <1>1, InitInv, PTL DEF Spec

-----------------------------------------------------------------------------
(* The theorems                                                             *)

\* Every variable keeps its type.
THEOREM SendTypeCorrect == Spec => []TypeOK
<1>1. SInv => TypeOK
  BY DEF SInv
<1>. QED BY <1>1, SendInductive, PTL

\* The quote is shown again only where the JVM put it in again, and a reply that
\* went well has shown it.
THEOREM QuoteAsAsked == Spec => []QuotedOnce
<1>1. SInv => QuotedOnce
  <2> SUFFICES ASSUME SInv PROVE QuotedOnce
    OBVIOUS
  <2>1. carrying \cap delivered \subseteq Shows
    BY DEF Shows
  <2>2. ~ambiguous => \A p, q \in carrying \cap delivered :
                        p < q => \E k \in p + 1..q : jobs[k] = "quoted"
    BY <2>1 DEF SInv, QuoteOnce
  <2>. QED BY <2>2 DEF QuotedOnce, SInv, QuoteShown
<1>. QED BY <1>1, SendInductive, PTL

\* Once the timer has reported, work() hands nothing more to the adapter.
THEOREM SilentAfterTimeout == Spec => NothingBeginsAfterTimeout
<1>1. SInv /\ [Next]_vars => [aborted /\ pc # "sending" => pc' # "sending"]_vars
  <2> SUFFICES ASSUME SInv, Next, aborted, pc # "sending" PROVE pc' # "sending"
    OBVIOUS
  <2>1. TypeOK
    BY DEF SInv
  <2>. QED BY <2>1, LoopCases, RenderedCases, SentCases DEF Next, Begin, TimerFires, Deliver, vars
<1>2. Spec => [][Next]_vars
  BY DEF Spec
<1>. QED BY <1>1, <1>2, SendInductive, PTL DEF NothingBeginsAfterTimeout

-----------------------------------------------------------------------------
(* The contract                                                             *)

\* The initial states are initial states of the contract.
LEMMA ContractInit == Init => Contract!Init
BY DEF Init, Contract!Init, Told

\* Every step is a step of the contract or changes nothing of it.
LEMMA ContractStep == SInv /\ [Next]_vars => [Contract!Next]_Contract!vars
<1> SUFFICES ASSUME SInv, [Next]_vars PROVE [Contract!Next]_Contract!vars
  OBVIOUS
<1>a. TypeOK /\ Certain /\ Reported
  BY DEF SInv
<1>1. CASE UNCHANGED <<jobs, ambiguous, result, delivered>>
  BY <1>1 DEF Contract!vars, Told
<1>2. CASE UNCHANGED <<jobs, ambiguous, delivered>> /\ result = "none" /\ Next
  <2>1. Certain' /\ TypeOK'
    BY <1>2, CertainStep, TypeStep
  <2>2. Told = "none" /\ UNCHANGED <<delivered, 1..Len(jobs)>>
    BY <1>2 DEF Told
  <2>3. CASE Told' = "none"
    BY <2>2, <2>3 DEF Contract!vars
  <2>4. CASE Told' # "none"
    <3>1. Told' \in Statuses
      BY <2>1, <2>4 DEF Told, TypeOK, Statuses
    <3>2. Contract!Truthful(Told')
      BY <1>2, <2>1 DEF Certain, Told, Contract!Truthful
    <3>. QED BY <2>2, <3>1, <3>2 DEF Statuses, Contract!Tell, Contract!Next
  <2>. QED BY <2>3, <2>4
<1>3. ASSUME NEW p \in open, Deliver(p) PROVE [Contract!Next]_Contract!vars
  <2>1. UNCHANGED <<jobs, ambiguous, result>> /\ delivered' = delivered \cup {p}
    BY <1>3 DEF Deliver, request
  <2>2. p \in 1..Len(jobs) \ delivered
    BY DEF SInv, TypeOK, Place
  <2>3. Told \in {"none", "UNKNOWN"} /\ UNCHANGED Told
    BY <1>a, <2>1 DEF Certain, Told
  <2>4. Contract!Deliver
    BY <2>1, <2>2, <2>3 DEF Contract!Deliver
  <2>. QED BY <2>4 DEF Contract!Next
<1>4. CASE Begin
  <2>1. result = "none" /\ UNCHANGED <<jobs, ambiguous, delivered>>
    BY <1>a, <1>4 DEF Begin, Reported, request, platform
  <2>. QED BY <1>2, <1>4, <2>1 DEF Next
<1>5. CASE Loop
  <2>1. UNCHANGED <<jobs, ambiguous, delivered>> /\ (UNCHANGED result \/ result = "none")
    BY <1>a, <1>5, LoopCases DEF Reported, request, platform
  <2>. QED BY <1>1, <1>2, <1>5, <2>1 DEF Next
<1>6. CASE Rendered
  BY <1>1, <1>6, <1>a, RenderedCases DEF request
<1>7. CASE Adapter
  BY <1>1, <1>7, <1>a, SentCases DEF request
<1>8. CASE TimerFires
  <2>1. result = "none" /\ UNCHANGED <<jobs, ambiguous, delivered>>
    BY <1>a, <1>8 DEF TimerFires, TimerRuns, Reported, request, platform
  <2>. QED BY <1>2, <1>8, <2>1 DEF Next
<1>9. CASE UNCHANGED vars
  BY <1>1, <1>9 DEF vars
<1>. QED BY <1>3, <1>4, <1>5, <1>6, <1>7, <1>8, <1>9 DEF Next

\* The status message.send reports is true of the platform and stays true, for
\* every request and every adapter that does not fail after it delivered.
THEOREM SendKeepsContract == Spec => KeepsSendContract
<1>. QED BY ContractInit, ContractStep, SendInductive, PTL
         DEF Spec, KeepsSendContract, Contract!Spec

-----------------------------------------------------------------------------
(* Ambiguous adapters                                                       *)

\* What the books say whatever the adapter: a part that is not noted as failed
\* or unknown is delivered, and a receipt is of a delivered part.
BookedAnyway ==
  ~aborted =>
    /\ \A p \in 1..i - 1 : p \notin delivered => failed \/ unknown
    /\ receipts => delivered # {}

\* A good status is true of every adapter, one that delivers and then fails too:
\* OK says that every part has been delivered and that nothing is still to come,
\* PARTIAL that some part has been.  A RETRYABLE is true only of an adapter that
\* does not do that (RetryIsSafe, README, finding 2).
GoodStatusIsTrue ==
  /\ result = "OK" => delivered = 1..Len(jobs) /\ open = {}
  /\ result = "PARTIAL" => delivered # {}
  /\ result = "RETRYABLE" /\ ~ambiguous => delivered = {} /\ open = {}

\* What the books say is kept.
LEMMA AnywayStep == SInv /\ BookedAnyway /\ Next => BookedAnyway'
<1> SUFFICES ASSUME SInv, BookedAnyway, Next, ~aborted' PROVE BookedAnyway'
  BY DEF BookedAnyway
<1>a. TypeOK
  BY DEF SInv
<1>b. ~aborted
  <2>1. Next => (aborted => aborted')
    BY <1>a, LoopCases, RenderedCases, SentCases DEF Next, Begin, TimerFires, Deliver, vars
  <2>. QED BY <2>1
<1>1. CASE Begin
  BY <1>b, <1>1 DEF Begin, BookedAnyway, books, platform
<1>2. CASE Loop
  <2>1. UNCHANGED delivered
    BY <1>a, <1>2, LoopCases DEF platform
  <2>2. CASE UNCHANGED <<i, books>>
    BY <1>b, <2>1, <2>2 DEF BookedAnyway, books
  <2>3. CASE failed' = TRUE /\ i' = i + 1 /\ UNCHANGED receipts
    BY <1>b, <2>1, <2>3 DEF BookedAnyway
  <2>. QED BY <1>a, <1>2, <2>2, <2>3, LoopCases
<1>3. CASE Rendered
  <2>1. UNCHANGED delivered
    BY <1>a, <1>3, RenderedCases
  <2>2. CASE UNCHANGED <<i, books>>
    BY <1>b, <2>1, <2>2 DEF BookedAnyway, books
  <2>3. CASE DontKnow \/ \E retryable \in BOOLEAN : Fail(retryable)
    BY <1>b, <2>1, <2>3 DEF BookedAnyway, DontKnow, Fail
  <2>. QED BY <1>a, <1>b, <1>3, <2>2, <2>3, RenderedCases
<1>4. CASE Adapter
  <2>1. UNCHANGED delivered /\ i' = i + 1
    BY <1>a, <1>4, SentCases
  <2>2. CASE i \in delivered /\ receipts' = TRUE /\ UNCHANGED <<unknown, failed>>
    <3>1. \A p \in 1..i' - 1 : p = i \/ p \in 1..i - 1
      BY <2>1, Numbers
    <3>. QED BY <1>b, <2>1, <2>2, <3>1 DEF BookedAnyway
  <2>3. CASE DontKnow \/ \E retryable \in BOOLEAN : Fail(retryable)
    BY <1>b, <2>1, <2>3 DEF BookedAnyway, DontKnow, Fail
  <2>. QED BY <1>a, <1>b, <1>4, <2>2, <2>3, SentCases
<1>5. CASE TimerFires
  BY <1>5 DEF TimerFires
<1>6. ASSUME NEW p \in open, Deliver(p) PROVE BookedAnyway'
  BY <1>b, <1>6 DEF Deliver, BookedAnyway, books
<1>7. CASE UNCHANGED vars
  BY <1>7 DEF vars, BookedAnyway
<1>. QED BY <1>1, <1>2, <1>3, <1>4, <1>5, <1>6, <1>7 DEF Next

\* What finalize returns from such books is true of the platform.
LEMMA GoodStep == SInv /\ BookedAnyway /\ GoodStatusIsTrue /\ Next => GoodStatusIsTrue'
<1> SUFFICES ASSUME SInv, BookedAnyway, GoodStatusIsTrue, Next PROVE GoodStatusIsTrue'
  OBVIOUS
<1>a. TypeOK /\ Reported /\ Place
  BY DEF SInv
<1>b. delivered' \subseteq 1..Len(jobs') /\ Certain'
  BY TypeStep, CertainStep DEF TypeOK
<1>c. ASSUME UNCHANGED <<jobs, ambiguous, open, delivered, result>> PROVE GoodStatusIsTrue'
  BY <1>c DEF GoodStatusIsTrue
<1>1. CASE Begin
  BY <1>1 DEF Begin, Refusal, SInv, Place, GoodStatusIsTrue, request, platform
<1>2. CASE Loop
  <2>1. UNCHANGED <<jobs, ambiguous, open, delivered>>
    BY <1>a, <1>2, LoopCases DEF request, platform
  <2>2. CASE UNCHANGED result
    BY <1>c, <2>1, <2>2
  <2>3. CASE ~aborted /\ i > Len(jobs) /\ result' = Finalize
    <3>1. 1..i - 1 = 1..Len(jobs)
      BY <2>3, Numbers
    <3>2. ~failed /\ ~unknown => 1..Len(jobs) \subseteq delivered
      BY <2>3, <3>1 DEF BookedAnyway
    <3>3. Finalize = "OK" => delivered = 1..Len(jobs) /\ open = {}
      BY <1>a, <3>2 DEF Finalize, TypeOK, Place
    <3>4. Finalize = "PARTIAL" => delivered # {}
      BY <2>3 DEF Finalize, BookedAnyway
    <3>. QED BY <1>b, <2>1, <2>3, <3>3, <3>4 DEF GoodStatusIsTrue, Certain
  <2>. QED BY <1>a, <1>2, <2>2, <2>3, LoopCases
<1>3. CASE Rendered
  <2>1. ~aborted => result = "none"
    BY <1>a, <1>3 DEF Reported, Rendered
  <2>2. aborted => result = "UNKNOWN"
    BY <1>a DEF Reported
  <2>3. UNCHANGED result
    BY <1>a, <1>3, RenderedCases
  <2>. QED BY <2>1, <2>2, <2>3 DEF GoodStatusIsTrue
<1>4. CASE Adapter
  <2>1. result \in {"none", "UNKNOWN"} /\ UNCHANGED result
    BY <1>a, <1>4, SentCases DEF Reported
  <2>. QED BY <2>1 DEF GoodStatusIsTrue
<1>5. CASE TimerFires
  BY <1>5 DEF TimerFires, GoodStatusIsTrue
<1>6. ASSUME NEW p \in open, Deliver(p) PROVE GoodStatusIsTrue'
  <2>1. UNCHANGED <<jobs, ambiguous, result>> /\ delivered \subseteq delivered' /\ open # {}
    BY <1>6 DEF Deliver, request
  <2>. QED BY <2>1 DEF GoodStatusIsTrue
<1>7. CASE UNCHANGED vars
  BY <1>c, <1>7 DEF vars
<1>. QED BY <1>1, <1>2, <1>3, <1>4, <1>5, <1>6, <1>7 DEF Next

\* With any adapter, ambiguous or not, OK means that all parts are there and
\* PARTIAL that some are; and they stay.
THEOREM GoodStatusAlwaysTrue == Spec => []GoodStatusIsTrue
<1>1. Init => BookedAnyway /\ GoodStatusIsTrue
  BY DEF Init, BookedAnyway, GoodStatusIsTrue
<1>2. SInv /\ BookedAnyway /\ GoodStatusIsTrue /\ [Next]_vars
        => BookedAnyway' /\ GoodStatusIsTrue'
  <2>1. UNCHANGED vars /\ BookedAnyway /\ GoodStatusIsTrue => BookedAnyway' /\ GoodStatusIsTrue'
    BY DEF vars, BookedAnyway, GoodStatusIsTrue
  <2>. QED BY <2>1, AnywayStep, GoodStep
<1>. QED BY <1>1, <1>2, SendInductive, PTL DEF Spec

-----------------------------------------------------------------------------
(* Order and progress                                                       *)

\* Parts are handed to the adapter in the order of the request and none of them
\* twice: what is handed over comes after everything that has been.
InOrderAndOnce ==
  [][\A p \in open' \ open : p = i /\ \A q \in open \cup delivered : q < p]_vars

\* The parts of a request are handed over in their order, each at most once.
THEOREM PartsInOrder == Spec => InOrderAndOnce
<1>1. ASSUME SInv, Next, NEW p \in open', p \notin open
      PROVE  p = i /\ \A q \in open \cup delivered : q < p
  <2>a. TypeOK
    BY <1>1 DEF SInv
  <2>1. Rendered /\ open' = open \cup {i}
    <3>1. ~Rendered => open' \subseteq open
      BY <1>1, <2>a, LoopCases, SentCases DEF Next, Begin, TimerFires, Deliver, vars, platform
    <3>. QED BY <1>1, <2>a, <3>1, RenderedCases
  <2>2. pc = "rendering"
    BY <2>1 DEF Rendered
  <2>. QED BY <1>1, <2>1, <2>2 DEF SInv, Place
<1>2. SInv /\ [Next]_vars
        => [\A p \in open' \ open : p = i /\ \A q \in open \cup delivered : q < p]_vars
  BY <1>1
<1>. QED BY <1>2, SendInductive, PTL DEF Spec, InOrderAndOnce

\* The caller has one answer: what work() does after the timer has reported
\* UNKNOWN, and what finalize would return then, changes nothing of it.
FirstAnswerStands == [][result # "none" => result' = result]_vars

\* The result the caller got is the only one.
THEOREM AnswerIsFinal == Spec => FirstAnswerStands
<1>1. ASSUME SInv, Next, result # "none" PROVE result' = result
  <2>a. TypeOK /\ Reported
    BY <1>1 DEF SInv
  <2>1. CASE Begin
    BY <1>1, <2>a, <2>1 DEF Begin, Reported
  <2>2. CASE Loop
    BY <1>1, <2>a, <2>2, LoopCases DEF Reported
  <2>3. CASE TimerFires
    BY <1>1, <2>a, <2>3 DEF TimerFires, TimerRuns, Reported
  <2>. QED BY <1>1, <2>a, <2>1, <2>2, <2>3, RenderedCases, SentCases DEF Next, Deliver, vars
<1>2. SInv /\ [Next]_vars => [result # "none" => result' = result]_vars
  BY <1>1
<1>. QED BY <1>2, SendInductive, PTL DEF Spec, FirstAnswerStands

\* The stretches work() has still to run, and the timer.
Turns ==
  CASE pc = "begin" -> 4 [] pc = "working" -> 3 [] pc = "rendering" -> 2
    [] pc = "sending" -> 1 [] OTHER -> 0
WorkLeft == 3 * (Len(jobs) + 1 - i) + Turns + (IF aborted THEN 0 ELSE 1)

\* The safety half of AlwaysAResult: a request without a result has work() or the
\* timer to bring one; and every step leaves less of work() to run, or one part
\* fewer for the platform to take.  What TLC adds is that the steps are taken.
ResultIsOnItsWay == result = "none" => pc \in {"begin", "working"} \/ (TimerRuns /\ ~aborted)
ComesNearer ==
  \/ WorkLeft' < WorkLeft
  \/ WorkLeft' = WorkLeft /\ open' \subseteq open /\ open' # open
WorkIsBounded == [][ComesNearer]_vars

\* What work() has left is a number.
LEMMA WorkLeftTyped == TypeOK => WorkLeft \in Nat
<1> SUFFICES ASSUME TypeOK PROVE WorkLeft \in Nat
  OBVIOUS
<1>1. Len(jobs) \in Nat /\ i \in 1..Len(jobs) + 1
  BY DEF TypeOK
<1>2. Turns \in Nat
  BY DEF Turns
<1>. QED BY <1>1, <1>2 DEF WorkLeft

\* A request has a bounded number of steps, and one without a result has
\* something that will bring it, whatever media and adapters do.
THEOREM WorkComesToAnEnd ==
  Spec => [](WorkLeft \in Nat /\ ResultIsOnItsWay) /\ WorkIsBounded
<1>1. SInv => WorkLeft \in Nat /\ ResultIsOnItsWay
  BY WorkLeftTyped DEF SInv, TypeOK, Reported, ResultIsOnItsWay, TimerRuns
<1>2. ASSUME SInv, Next, ~UNCHANGED vars PROVE ComesNearer
  <2>a. TypeOK /\ Len(jobs) \in Nat /\ i \in Nat
    BY <1>2, Numbers DEF SInv
  <2>1. CASE Begin
    BY <2>a, <2>1 DEF Begin, WorkLeft, Turns, ComesNearer, request
  <2>2. CASE Loop
    <3>1. /\ pc = "working" /\ UNCHANGED <<jobs, aborted>>
          /\ \/ pc' \in {"done", "rendering"} /\ UNCHANGED i
             \/ pc' = "working" /\ i' = i + 1
      BY <2>a, <2>2, LoopCases DEF request
    <3>. QED BY <2>a, <3>1 DEF WorkLeft, Turns, ComesNearer
  <2>3. CASE Rendered
    <3>1. /\ pc = "rendering" /\ UNCHANGED <<jobs, aborted>>
          /\ \/ pc' = "sending" /\ UNCHANGED i
             \/ pc' = "working" /\ i' = i + 1
      BY <2>a, <2>3, RenderedCases DEF request
    <3>. QED BY <2>a, <3>1 DEF WorkLeft, Turns, ComesNearer
  <2>4. CASE Adapter
    <3>1. pc = "sending" /\ pc' = "working" /\ i' = i + 1 /\ UNCHANGED <<jobs, aborted>>
      BY <2>a, <2>4, SentCases DEF request
    <3>. QED BY <2>a, <3>1 DEF WorkLeft, Turns, ComesNearer
  <2>5. CASE TimerFires
    BY <2>a, <2>5 DEF TimerFires, WorkLeft, Turns, ComesNearer, request
  <2>6. ASSUME NEW p \in open, Deliver(p) PROVE ComesNearer
    <3>1. UNCHANGED <<jobs, i, pc, aborted>> /\ open' \subseteq open /\ open' # open
      BY <2>6 DEF Deliver, request
    <3>. QED BY <3>1 DEF WorkLeft, Turns, ComesNearer
  <2>. QED BY <1>2, <2>1, <2>2, <2>3, <2>4, <2>5, <2>6 DEF Next
<1>3. SInv /\ [Next]_vars => [ComesNearer]_vars
  BY <1>2
<1>. QED BY <1>1, <1>3, SendInductive, PTL DEF Spec, WorkIsBounded
=============================================================================

-------------------------- MODULE DbkSessionProofs --------------------------
(* What holds of a DbkSession with any number of calls, and that it         *)
(* implements Rpc.                                                          *)
EXTENDS DbkSession, TLAPS

-----------------------------------------------------------------------------
(* What a step of close()'s forEach does: only open deferreds change, each   *)
(* to "closed" and for its own call; an entry passed over has left the map.  *)

LEMMA SweepEffect ==
  ASSUME TypeOK, Sweep
  PROVE  /\ deferred' \in [Calls -> Deferred]
         /\ sweeping' \subseteq sweeping
         /\ \A c \in Calls : deferred'[c] # deferred[c] =>
              deferred[c].state = "open" /\ deferred'[c] = [state |-> "closed", for |-> c]
         /\ \A p \in sweeping \ sweeping' :
              p \in pending => deferred'[p.call].state # "open"
<1> USE DEF TypeOK, Entry, Deferred
<1>1. CASE \E p \in sweeping \cup pending :
             Complete(p.call, "closed", p.call) /\ sweeping' = sweeping \ {p}
  <2>1. PICK p \in sweeping \cup pending :
          Complete(p.call, "closed", p.call) /\ sweeping' = sweeping \ {p}
    BY <1>1
  <2>2. p.call \in Calls
    OBVIOUS
  <2>3. CASE deferred[p.call].state = "open"
    <3>1. deferred' = [deferred EXCEPT ![p.call] = [state |-> "closed", for |-> p.call]]
      BY <2>1, <2>3 DEF Complete
    <3>. QED BY <2>1, <2>2, <2>3, <3>1
  <2>4. CASE deferred[p.call].state # "open"
    <3>1. deferred' = deferred
      BY <2>1, <2>4 DEF Complete
    <3>. QED BY <2>1, <2>2, <2>4, <3>1
  <2>. QED BY <2>3, <2>4
<1>2. CASE \E p \in sweeping \ pending : sweeping' = sweeping \ {p} /\ UNCHANGED deferred
  BY <1>2
<1>. QED BY <1>1, <1>2 DEF Sweep

-----------------------------------------------------------------------------
(* Type correctness                                                         *)

\* The initial state is well typed.
LEMMA TypeInit == Init => TypeOK
<1> SUFFICES ASSUME Init PROVE TypeOK
  OBVIOUS
<1>1. deferred \in [Calls -> Deferred]
  BY DEF Init, Deferred
<1>2. /\ pc \in [Calls -> Steps] /\ rid \in [Calls -> Nat]
      /\ outcome \in [Calls -> Outcomes] /\ answer \in [Calls -> {"none", "ok", "error"}]
  BY DEF Init, Steps, Outcomes
<1>3. nextId \in Ids
  BY DEF Init, FirstId, Ids
<1>. QED BY <1>1, <1>2, <1>3 DEF Init, TypeOK

\* Every step keeps the types: one case per action.
LEMMA TypeStep == TypeOK /\ [Next]_vars => TypeOK'
<1> SUFFICES ASSUME TypeOK, [Next]_vars PROVE TypeOK'
  OBVIOUS
<1> USE DEF TypeOK, callerVars, closeVars, peerVars, Goto, End, Steps, Outcomes
<1>1. ASSUME NEW c \in Calls, Enter(c) PROVE TypeOK'
  BY <1>1 DEF Enter
<1>2. ASSUME NEW c \in Calls, RefuseUnshaken(c) PROVE TypeOK'
  BY <1>2 DEF RefuseUnshaken
<1>3. ASSUME NEW c \in Calls, TakeId(c) PROVE TypeOK'
  BY <1>3 DEF TakeId, DrawId, Ids
<1>4. ASSUME NEW c \in Calls, Register(c) PROVE TypeOK'
  BY <1>4 DEF Register, Without, Entry
<1>5. ASSUME NEW c \in Calls, BeginSend(c) PROVE TypeOK'
  BY <1>5 DEF BeginSend, AfterLock
<1>6. ASSUME NEW c \in Calls, FinishSend(c) PROVE TypeOK'
  BY <1>6 DEF FinishSend, CallFrame
<1>7. ASSUME NEW c \in Calls, Resume(c) PROVE TypeOK'
  <2>1. deferred[c].state \in Outcomes
    BY <1>7 DEF Resume, Deferred
  <2>. QED BY <1>7, <2>1 DEF Resume
<1>8. ASSUME NEW c \in Calls, Timeout(c) PROVE TypeOK'
  BY <1>8 DEF Timeout, TimesOut
<1>9. ASSUME NEW c \in Calls, Leave(c) PROVE TypeOK'
  BY <1>9 DEF Leave, Forget, Without
<1>10. CASE FinishHello
  BY <1>10, HelloAssumption DEF FinishHello
<1>11. CASE PeerAnswers
  BY <1>11 DEF PeerAnswers, CallFrame, ReplyFrame
<1>12. CASE Receive
  BY <1>12 DEF Receive
<1>13. CASE TakeEntry
  BY <1>13 DEF TakeEntry, Without, Entry, ReplyFrame, Taken
<1>14. CASE CompleteReply
  BY <1>14 DEF CompleteReply, Complete, Taken, Deferred
<1>15. CASE BeginClose
  BY <1>15 DEF BeginClose
<1>16. CASE ResetHandshake
  BY <1>16 DEF ResetHandshake, EntriesToSweep
<1>17. CASE Sweep
  BY <1>17, SweepEffect DEF Sweep
<1>18. CASE ClearPending
  BY <1>18 DEF ClearPending
<1>19. CASE HeartbeatEnds
  BY <1>19 DEF HeartbeatEnds
<1>20. CASE UNCHANGED vars
  BY <1>20 DEF vars
<1>. QED
  BY <1>1, <1>2, <1>3, <1>4, <1>5, <1>6, <1>7, <1>8, <1>9, <1>10, <1>11, <1>12,
     <1>13, <1>14, <1>15, <1>16, <1>17, <1>18, <1>19, <1>20
  DEF Next, CallStep, SocketThread, Closer

\* Every variable keeps its type, whatever the calls, the peer and close() do.
THEOREM TypeCorrect == Spec => []TypeOK
BY TypeInit, TypeStep, PTL DEF Spec

-----------------------------------------------------------------------------
(* The inductive invariant                                                  *)

\* Ids are handed out once: two calls never share one.
IdsDistinct ==
  /\ \A c \in Calls : rid[c] < nextId
  /\ \A c, d \in Calls : rid[c] = rid[d] /\ rid[c] # 0 => c = d
  /\ \A c \in Calls : pc[c] \notin {"idle", "admitted", "done"} => rid[c] # 0
  /\ \A c \in Calls : pc[c] \in {"idle", "admitted"} => rid[c] = 0

\* Whatever carries an id carries that of the call it is for.
Ownership ==
  /\ \A p \in pending \cup sweeping : p.id = rid[p.call] /\ p.id # 0
  /\ \A f \in wire \cup inbox \cup handling : f.id = rid[f.for] /\ f.for \in sent
  /\ \A t \in taken : t.call = t.for
  /\ \A c \in sent : pc[c] \in {"awaiting", "leaving", "helloed", "done"} /\ rid[c] # 0

IdInv == IdsDistinct /\ Ownership /\ RepliesMatch /\ NoEntryLeaks

\* hello() has returned: the only way "handshook" is set.
Shaken == pc[Hello] = "done" /\ outcome[Hello] = "ok"
ShakeInv ==
  /\ pc[Hello] = "helloed" => outcome[Hello] = "ok"
  /\ handshook => Shaken
  /\ \A c \in Calls \ {Hello} : rid[c] # 0 => Shaken

\* A call whose frame is out, or going out, and that nothing has completed
\* yet is still within reach of the thread that will complete it.
InFlight(c) ==
  /\ pc[c] = "sending" \/ (pc[c] = "awaiting" /\ c \in sent)
  /\ deferred[c].state = "open"
InReach(c) ==
  \/ \E t \in taken : t.call = c
  \/ /\ [id |-> rid[c], call |-> c] \in pending
     /\ closing # "done"
     /\ closing = "sweeping" => [id |-> rid[c], call |-> c] \in sweeping
TrackInv ==
  /\ closed <=> closing # "no"
  /\ \A f, g \in handling : f = g
  /\ \A t, u \in taken : t = u
  /\ handling = {} \/ taken = {}
  /\ \A c \in Calls : pc[c] = "registered" /\ ~closed => [id |-> rid[c], call |-> c] \in pending
  /\ \A c \in Calls : InFlight(c) => InReach(c)

IInv == TypeOK /\ IdInv /\ ShakeInv /\ TrackInv

-----------------------------------------------------------------------------
(* Ids and what carries them                                                *)

\* At first no id is in use.
LEMMA IdInit == Init => IdInv
BY DEF Init, IdInv, IdsDistinct, Ownership, RepliesMatch, NoEntryLeaks, FirstId

\* Every step keeps the ids distinct, and everything that carries an id with
\* the call that drew it.
LEMMA IdStep == TypeOK /\ IdInv /\ [Next]_vars => IdInv'
<1> SUFFICES ASSUME TypeOK, IdInv, [Next]_vars PROVE IdInv'
  OBVIOUS
<1> USE DEF TypeOK, callerVars, closeVars, peerVars, Goto, End, Steps,
            IdInv, IdsDistinct, Ownership, RepliesMatch, NoEntryLeaks
<1>1. ASSUME NEW c \in Calls, Enter(c) PROVE IdInv'
  BY <1>1 DEF Enter, Entry
<1>2. ASSUME NEW c \in Calls, RefuseUnshaken(c) PROVE IdInv'
  BY <1>2 DEF RefuseUnshaken, Entry
<1>3. ASSUME NEW c \in Calls, TakeId(c) PROVE IdInv'
  <2>1. IdsDistinct'
    BY <1>3 DEF TakeId, DrawId, Ids
  <2>2. Ownership'
    BY <1>3 DEF TakeId, DrawId, Entry, CallFrame, ReplyFrame
  <2>3. (RepliesMatch /\ NoEntryLeaks)'
    BY <1>3 DEF TakeId, DrawId, Entry
  <2>. QED BY <2>1, <2>2, <2>3
<1>4. ASSUME NEW c \in Calls, Register(c) PROVE IdInv'
  BY <1>4 DEF Register, Without, Entry
<1>5. ASSUME NEW c \in Calls, BeginSend(c) PROVE IdInv'
  BY <1>5 DEF BeginSend, AfterLock, Entry
<1>6. ASSUME NEW c \in Calls, FinishSend(c) PROVE IdInv'
  BY <1>6 DEF FinishSend, Entry, CallFrame
<1>7. ASSUME NEW c \in Calls, Resume(c) PROVE IdInv'
  BY <1>7 DEF Resume, Entry
<1>8. ASSUME NEW c \in Calls, Timeout(c) PROVE IdInv'
  BY <1>8 DEF Timeout, TimesOut, Entry
<1>9. ASSUME NEW c \in Calls, Leave(c) PROVE IdInv'
  BY <1>9 DEF Leave, Forget, Without, Entry
<1>10. CASE FinishHello
  BY <1>10, HelloAssumption DEF FinishHello, Entry
<1>11. CASE PeerAnswers
  BY <1>11 DEF PeerAnswers, CallFrame
<1>12. CASE Receive
  BY <1>12 DEF Receive
<1>13. CASE TakeEntry
  BY <1>13 DEF TakeEntry, Without, Entry, ReplyFrame
<1>14. CASE CompleteReply
  BY <1>14 DEF CompleteReply, Complete, Taken, Deferred
<1>15. CASE BeginClose
  BY <1>15 DEF BeginClose
<1>16. CASE ResetHandshake
  BY <1>16 DEF ResetHandshake, EntriesToSweep
<1>17. CASE Sweep
  <2>1. RepliesMatch'
    <3>1. ASSUME NEW c \in Calls PROVE deferred'[c].for = c
      <4>1. CASE deferred'[c] = deferred[c]
        BY <4>1
      <4>2. CASE deferred'[c] # deferred[c]
        <5>1. deferred'[c] = [state |-> "closed", for |-> c]
          BY <1>17, <4>2, SweepEffect
        <5>. QED BY <5>1
      <4>. QED BY <4>1, <4>2
    <3>. QED BY <3>1
  <2>2. sweeping' \subseteq sweeping
    BY <1>17, SweepEffect
  <2>. QED BY <1>17, <2>1, <2>2 DEF Sweep
<1>18. CASE ClearPending
  BY <1>18 DEF ClearPending
<1>19. CASE HeartbeatEnds
  BY <1>19 DEF HeartbeatEnds
<1>20. CASE UNCHANGED vars
  BY <1>20 DEF vars
<1>. QED
  BY <1>1, <1>2, <1>3, <1>4, <1>5, <1>6, <1>7, <1>8, <1>9, <1>10, <1>11, <1>12,
     <1>13, <1>14, <1>15, <1>16, <1>17, <1>18, <1>19, <1>20
  DEF Next, CallStep, SocketThread, Closer

-----------------------------------------------------------------------------
(* The handshake                                                            *)

\* At first nothing is shaken or on the wire.
LEMMA ShakeInit == Init => ShakeInv
BY HelloAssumption DEF Init, ShakeInv

\* Only hello comes before the handshake, whatever the step.
LEMMA ShakeStep == TypeOK /\ IdInv /\ ShakeInv /\ [Next]_vars => ShakeInv'
<1> SUFFICES ASSUME TypeOK, IdInv, ShakeInv, [Next]_vars PROVE ShakeInv'
  OBVIOUS
<1> USE HelloAssumption DEF TypeOK, callerVars, closeVars, peerVars, Goto, End, Steps,
            IdInv, IdsDistinct, ShakeInv, Shaken
<1>1. ASSUME NEW c \in Calls, Enter(c) \/ RefuseUnshaken(c) PROVE ShakeInv'
  BY <1>1 DEF Enter, RefuseUnshaken
<1>2. ASSUME NEW c \in Calls, TakeId(c) PROVE ShakeInv'
  BY <1>2 DEF TakeId, DrawId, MayCall
<1>3. ASSUME NEW c \in Calls, Register(c) \/ BeginSend(c) \/ FinishSend(c) PROVE ShakeInv'
  BY <1>3 DEF Register, BeginSend, AfterLock, FinishSend
<1>4. ASSUME NEW c \in Calls, Resume(c) \/ Timeout(c) \/ Leave(c) PROVE ShakeInv'
  BY <1>4 DEF Resume, Timeout, TimesOut, Leave, Forget
<1>5. CASE FinishHello
  BY <1>5 DEF FinishHello
<1>6. CASE PeerAnswers \/ Receive \/ TakeEntry \/ CompleteReply
  BY <1>6 DEF PeerAnswers, Receive, TakeEntry, CompleteReply
<1>7. CASE BeginClose \/ ResetHandshake \/ Sweep \/ ClearPending \/ HeartbeatEnds
  BY <1>7 DEF BeginClose, ResetHandshake, Sweep, ClearPending, HeartbeatEnds
<1>8. CASE UNCHANGED vars
  BY <1>8 DEF vars
<1>. QED
  BY <1>1, <1>2, <1>3, <1>4, <1>5, <1>6, <1>7, <1>8
  DEF Next, CallStep, SocketThread, Closer

-----------------------------------------------------------------------------
(* Calls in flight and the threads that will complete them                  *)

\* At first no call is in flight.
LEMMA TrackInit == Init => TrackInv
BY DEF Init, TrackInv, InFlight

\* Every step keeps, of each call in flight, someone who will complete it.
LEMMA TrackStep == TypeOK /\ IdInv /\ TrackInv /\ [Next]_vars => TrackInv'
<1> SUFFICES ASSUME TypeOK, IdInv, TrackInv, [Next]_vars PROVE TrackInv'
  OBVIOUS
<1> USE DEF TypeOK, callerVars, closeVars, peerVars, Goto, End, Steps,
            TrackInv, InFlight, InReach
<1>1. ASSUME NEW c \in Calls, Enter(c) \/ RefuseUnshaken(c) PROVE TrackInv'
  BY <1>1 DEF Enter, RefuseUnshaken
<1>2. ASSUME NEW c \in Calls, TakeId(c) PROVE TrackInv'
  BY <1>2 DEF TakeId, DrawId, IdInv, Ownership
<1>3. ASSUME NEW c \in Calls, Register(c) PROVE TrackInv'
  BY <1>3 DEF Register, Without, IdInv, IdsDistinct, Ownership
<1>4. ASSUME NEW c \in Calls, BeginSend(c) PROVE TrackInv'
  BY <1>4 DEF BeginSend, AfterLock, IdInv, Ownership
<1>5. ASSUME NEW c \in Calls, FinishSend(c) PROVE TrackInv'
  BY <1>5 DEF FinishSend
<1>6. ASSUME NEW c \in Calls, Resume(c) \/ Timeout(c) PROVE TrackInv'
  BY <1>6 DEF Resume, Timeout, TimesOut, Deferred
<1>7. ASSUME NEW c \in Calls, Leave(c) PROVE TrackInv'
  BY <1>7 DEF Leave, Forget, Without, IdInv, IdsDistinct
<1>8. CASE FinishHello
  BY <1>8, HelloAssumption DEF FinishHello
<1>9. CASE PeerAnswers \/ Receive
  BY <1>9 DEF PeerAnswers, Receive
<1>10. CASE TakeEntry
  <2>1. PICK f \in handling :
          /\ pending' = Without(f.id)
          /\ taken' = {[call |-> p.call, for |-> f.for, op |-> f.op] :
                         p \in {q \in pending : q.id = f.id}}
    BY <1>10 DEF TakeEntry
  <2>2. \A p, q \in pending : p.id = q.id => p = q
    BY DEF IdInv, IdsDistinct, Ownership, Entry
  <2>3. \A t, u \in taken' : t = u
    BY <2>1, <2>2
  <2>4. ASSUME NEW c \in Calls, pc[c] = "registered", ~closed
        PROVE  [id |-> rid[c], call |-> c] \in pending'
    <3>1. f.for \in sent /\ f.for # c /\ f.id = rid[f.for] /\ f.id # 0 /\ f.for \in Calls
      BY <2>4 DEF IdInv, Ownership, ReplyFrame
    <3>2. f.id # rid[c]
      BY <3>1 DEF IdInv, IdsDistinct
    <3>. QED BY <2>1, <2>4, <3>2 DEF Without
  <2>5. ASSUME NEW c \in Calls, InFlight(c) PROVE InReach(c)'
    <3>1. taken = {}
      BY <2>1
    <3>2. /\ [id |-> rid[c], call |-> c] \in pending
          /\ closing # "done"
          /\ closing = "sweeping" => [id |-> rid[c], call |-> c] \in sweeping
      BY <2>5, <3>1
    <3>3. CASE f.id = rid[c]
      <4>1. [call |-> c, for |-> f.for, op |-> f.op] \in taken'
        BY <2>1, <3>2, <3>3
      <4>. QED BY <4>1
    <3>4. CASE f.id # rid[c]
      BY <1>10, <2>1, <3>2, <3>4 DEF TakeEntry, Without
    <3>. QED BY <3>3, <3>4
  <2>. QED BY <1>10, <2>3, <2>4, <2>5 DEF TakeEntry
<1>11. CASE CompleteReply
  BY <1>11 DEF CompleteReply, Complete, Taken, Deferred
<1>12. CASE BeginClose \/ ResetHandshake
  BY <1>12 DEF BeginClose, ResetHandshake, EntriesToSweep
<1>13. CASE Sweep
  <2>1. \A c \in Calls : InFlight(c)' => InFlight(c)
    BY <1>13, SweepEffect DEF Sweep
  <2>2. ASSUME NEW c \in Calls, InFlight(c)' PROVE InReach(c)'
    <3>1. InReach(c) /\ ~(deferred'[c].state # "open")
      BY <2>1, <2>2
    <3>2. [id |-> rid[c], call |-> c].call = c
      OBVIOUS
    <3>. QED BY <1>13, <3>1, <3>2, SweepEffect DEF Sweep
  <2>. QED BY <1>13, <2>2 DEF Sweep
<1>14. CASE ClearPending
  BY <1>14 DEF ClearPending
<1>15. CASE HeartbeatEnds
  BY <1>15 DEF HeartbeatEnds
<1>16. CASE UNCHANGED vars
  BY <1>16 DEF vars
<1>. QED
  BY <1>1, <1>2, <1>3, <1>4, <1>5, <1>6, <1>7, <1>8, <1>9, <1>10, <1>11, <1>12,
     <1>13, <1>14, <1>15, <1>16
  DEF Next, CallStep, SocketThread, Closer

-----------------------------------------------------------------------------
(* The theorems                                                             *)

\* The invariant holds of every behaviour.
LEMMA Inductive == Spec => []IInv
<1>1. Init => IInv
  BY TypeInit, IdInit, ShakeInit, TrackInit DEF IInv
<1>2. IInv /\ [Next]_vars => IInv'
  BY TypeStep, IdStep, ShakeStep, TrackStep DEF IInv
<1>. QED BY <1>1, <1>2, PTL DEF Spec

\* However many calls run, a call is only ever completed with the answer to
\* its own request (getAndIncrement, pending.remove, complete).
THEOREM RepliesAlwaysMatch == Spec => []RepliesMatch
<1>1. IInv => RepliesMatch
  BY DEF IInv, IdInv
<1>. QED BY <1>1, Inductive, PTL

\* No call leaves its entry behind in "pending" (the finally of call()).
THEOREM EntriesNeverLeak == Spec => []NoEntryLeaks
<1>1. IInv => NoEntryLeaks
  BY DEF IInv, IdInv
<1>. QED BY <1>1, Inductive, PTL

\* No CALL but session.hello is sent before the handshake is done.
THEOREM HandshakeAlwaysFirst == Spec => []HandshakeFirst
<1>1. IInv => HandshakeFirst
  BY DEF IInv, TypeOK, IdInv, Ownership, ShakeInv, Shaken, HandshakeFirst
<1>. QED BY <1>1, Inductive, PTL

\* A call that close() missed never sent its frame, with any number of calls
\* registering while close() sweeps.
THEOREM MissedAreNeverSent == Spec => []MissedNeverSent
<1>1. IInv => MissedNeverSent
  BY DEF IInv, TypeOK, TrackInv, InFlight, InReach, MissedNeverSent, Missed
<1>. QED BY <1>1, Inductive, PTL


-----------------------------------------------------------------------------
(* What the peer answered, wherever the answer has got to                   *)

AnswerInv ==
  /\ \A f \in wire : answer[f.for] = "none"
  /\ \A f \in inbox \cup handling : answer[f.for] = f.op
  /\ \A t \in taken : answer[t.for] = t.op
  /\ \A c \in Calls : answer[c] # "none" => c \in sent
  /\ \A c \in Calls : deferred[c].state \in {"ok", "error"} => answer[c] = deferred[c].state
  /\ \A c \in Calls : outcome[c] \in {"ok", "error"} => answer[c] = outcome[c]

\* What a call has been told, and how far it then is.
OutcomeInv ==
  \A c \in Calls :
    /\ outcome[c] = "refused" => pc[c] = "done" /\ c \notin sent
    /\ outcome[c] = "threw" => pc[c] \in {"leaving", "done"} /\ c \notin sent
    /\ pc[c] \in {"idle", "admitted", "numbered", "registered", "sending", "awaiting"}
         <=> outcome[c] = "none"
    /\ pc[c] = "helloed" => c = Hello /\ outcome[c] = "ok"

\* The initial states satisfy both invariants.
LEMMA AnswerInit == Init => AnswerInv /\ OutcomeInv
BY DEF Init, AnswerInv, OutcomeInv

\* Every step keeps each outcome that of its deferred or of its failure.
LEMMA OutcomeStep == TypeOK /\ IdInv /\ OutcomeInv /\ [Next]_vars => OutcomeInv'
<1> SUFFICES ASSUME TypeOK, IdInv, OutcomeInv, [Next]_vars PROVE OutcomeInv'
  OBVIOUS
<1> USE HelloAssumption DEF TypeOK, callerVars, closeVars, peerVars, Goto, End, Steps,
            OutcomeInv
<1>1. ASSUME NEW c \in Calls, Enter(c) \/ RefuseUnshaken(c) PROVE OutcomeInv'
  BY <1>1 DEF Enter, RefuseUnshaken, IdInv, Ownership
<1>2. ASSUME NEW c \in Calls, TakeId(c) \/ Register(c) \/ BeginSend(c) PROVE OutcomeInv'
  BY <1>2 DEF TakeId, Register, BeginSend, AfterLock
<1>3. ASSUME NEW c \in Calls, FinishSend(c) PROVE OutcomeInv'
  BY <1>3 DEF FinishSend, IdInv, Ownership
<1>4. ASSUME NEW c \in Calls, Resume(c) PROVE OutcomeInv'
  BY <1>4 DEF Resume, Deferred
<1>5. ASSUME NEW c \in Calls, Timeout(c) PROVE OutcomeInv'
  BY <1>5 DEF Timeout, TimesOut
<1>6. ASSUME NEW c \in Calls, Leave(c) PROVE OutcomeInv'
  BY <1>6 DEF Leave
<1>7. CASE FinishHello
  BY <1>7 DEF FinishHello
<1>8. CASE PeerAnswers \/ Receive \/ TakeEntry \/ CompleteReply
  BY <1>8 DEF PeerAnswers, Receive, TakeEntry, CompleteReply
<1>9. CASE BeginClose \/ ResetHandshake \/ Sweep \/ ClearPending \/ HeartbeatEnds
  BY <1>9 DEF BeginClose, ResetHandshake, Sweep, ClearPending, HeartbeatEnds
<1>10. CASE UNCHANGED vars
  BY <1>10 DEF vars
<1>. QED
  BY <1>1, <1>2, <1>3, <1>4, <1>5, <1>6, <1>7, <1>8, <1>9, <1>10
  DEF Next, CallStep, SocketThread, Closer

\* Every step keeps each answer what the peer answered.
LEMMA AnswerStep == TypeOK /\ IdInv /\ AnswerInv /\ [Next]_vars => AnswerInv'
<1> SUFFICES ASSUME TypeOK, IdInv, AnswerInv, [Next]_vars PROVE AnswerInv'
  OBVIOUS
<1> USE DEF TypeOK, callerVars, closeVars, peerVars, Goto, End, Steps, AnswerInv
<1>1. ASSUME NEW c \in Calls, Enter(c) \/ RefuseUnshaken(c) PROVE AnswerInv'
  BY <1>1 DEF Enter, RefuseUnshaken
<1>2. ASSUME NEW c \in Calls, TakeId(c) \/ Register(c) \/ BeginSend(c) PROVE AnswerInv'
  BY <1>2 DEF TakeId, Register, BeginSend
<1>3. ASSUME NEW c \in Calls, FinishSend(c) PROVE AnswerInv'
  BY <1>3 DEF FinishSend, IdInv, Ownership
<1>4. ASSUME NEW c \in Calls, Resume(c) PROVE AnswerInv'
  BY <1>4 DEF Resume
<1>5. ASSUME NEW c \in Calls, Timeout(c) \/ Leave(c) PROVE AnswerInv'
  BY <1>5 DEF Timeout, Leave
<1>6. CASE FinishHello
  BY <1>6, HelloAssumption DEF FinishHello
<1>7. CASE PeerAnswers
  <2>1. PICK f \in wire, op \in {"ok", "error"} :
          /\ wire' = wire \ {f}
          /\ inbox' = inbox \cup {[id |-> f.id, for |-> f.for, op |-> op]}
          /\ answer' = [answer EXCEPT ![f.for] = op]
    BY <1>7 DEF PeerAnswers
  <2>2. f.for \in Calls /\ answer[f.for] = "none"
    BY DEF CallFrame
  <2>3. \A g \in wire : g.for = f.for => g = f
    BY DEF IdInv, Ownership, CallFrame
  <2>4. \A g \in inbox \cup handling : g.for # f.for
    BY <2>2 DEF ReplyFrame
  <2>5. \A t \in taken : t.for # f.for
    BY <2>2 DEF Taken
  <2>6. \A c \in Calls : answer'[c] = IF c = f.for THEN op ELSE answer[c]
    BY <2>1
  <2>7. \A g \in inbox' \cup handling' : answer'[g.for] = g.op
    BY <1>7, <2>1, <2>2, <2>4, <2>6 DEF PeerAnswers, ReplyFrame
  <2>8. \A g \in wire' : answer'[g.for] = "none"
    BY <2>1, <2>3, <2>6 DEF CallFrame
  <2>9. \A t \in taken' : answer'[t.for] = t.op
    BY <1>7, <2>5, <2>6 DEF PeerAnswers, Taken
  <2>10. \A c \in Calls : answer'[c] # "none" => c \in sent'
    BY <1>7, <2>6 DEF PeerAnswers, IdInv, Ownership
  <2>11. \A c \in Calls : /\ deferred'[c].state \in {"ok", "error"} => answer'[c] = deferred'[c].state
                          /\ outcome'[c] \in {"ok", "error"} => answer'[c] = outcome'[c]
    BY <1>7, <2>2, <2>6 DEF PeerAnswers
  <2>. QED BY <2>7, <2>8, <2>9, <2>10, <2>11
<1>8. CASE Receive
  BY <1>8 DEF Receive
<1>9. CASE TakeEntry
  BY <1>9 DEF TakeEntry
<1>10. CASE CompleteReply
  <2>1. PICK t \in taken : Complete(t.call, t.op, t.for)
    BY <1>10 DEF CompleteReply
  <2>2. t.call \in Calls /\ t.for = t.call /\ answer[t.call] = t.op
    BY DEF IdInv, Ownership, Taken
  <2>3. \A c \in Calls : deferred'[c].state \in {"ok", "error"} => answer[c] = deferred'[c].state
    BY <2>1, <2>2 DEF Complete, Deferred
  <2>. QED BY <1>10, <2>3 DEF CompleteReply
<1>11. CASE Sweep
  <2>1. \A c \in Calls : deferred'[c].state \in {"ok", "error"} => answer[c] = deferred'[c].state
    <3>1. ASSUME NEW c \in Calls, deferred'[c].state \in {"ok", "error"}
          PROVE  deferred'[c] = deferred[c]
      <4>1. SUFFICES ASSUME deferred'[c] # deferred[c] PROVE FALSE
        OBVIOUS
      <4>2. deferred'[c] = [state |-> "closed", for |-> c]
        BY <1>11, <4>1, SweepEffect
      <4>. QED BY <3>1, <4>2
    <3>. QED BY <3>1
  <2>. QED BY <1>11, <2>1 DEF Sweep
<1>12. CASE BeginClose \/ ResetHandshake \/ ClearPending \/ HeartbeatEnds
  BY <1>12 DEF BeginClose, ResetHandshake, ClearPending, HeartbeatEnds
<1>13. CASE UNCHANGED vars
  BY <1>13 DEF vars
<1>. QED
  BY <1>1, <1>2, <1>3, <1>4, <1>5, <1>6, <1>7, <1>8, <1>9, <1>10, <1>11, <1>12, <1>13
  DEF Next, CallStep, SocketThread, Closer

-----------------------------------------------------------------------------
(* The refinement                                                           *)

RInv == IInv /\ AnswerInv /\ OutcomeInv

\* The strengthened invariant holds of every behaviour.
LEMMA RInductive == Spec => []RInv
<1>1. Init => AnswerInv /\ OutcomeInv
  BY AnswerInit
<1>2. IInv /\ AnswerInv /\ OutcomeInv /\ [Next]_vars => (AnswerInv /\ OutcomeInv)'
  BY AnswerStep, OutcomeStep DEF IInv
<1>. QED BY <1>1, <1>2, Inductive, PTL DEF Spec, RInv

\* The initial states are initial states of the contract.
LEMMA ContractInit == Init => Contract!Init
BY DEF Init, Contract!Init, Stage, Result

\* Every step is a step of the contract or changes nothing of it.
LEMMA ContractStep == RInv /\ [Next]_vars => [Contract!Next]_(Contract!vars)
<1> SUFFICES ASSUME RInv, [Next]_vars PROVE [Contract!Next]_(Contract!vars)
  OBVIOUS
<1> USE HelloAssumption DEF RInv, IInv, TypeOK, callerVars, closeVars, peerVars, Goto, End, Steps,
            Outcomes, Stage, Result, Contract!vars, OutcomeInv
<1>1. ASSUME NEW c \in Calls, Enter(c) PROVE [Contract!Next]_(Contract!vars)
  <2>1. CASE closed
    <3>1. /\ pc[c] = "idle" /\ c \notin sent
          /\ pc' = [pc EXCEPT ![c] = "done"] /\ outcome' = [outcome EXCEPT ![c] = "refused"]
          /\ UNCHANGED <<sent, answer>>
      BY <1>1, <2>1 DEF Enter, IdInv, Ownership
    <3>2. Contract!End(c, "refused")
      BY <3>1 DEF Contract!End, Contract!Truthful, Reported
    <3>. QED BY <3>2 DEF Contract!Next
  <2>2. CASE ~closed
    <3>1. Contract!Begin(c)
      BY <1>1, <2>2 DEF Enter, Contract!Begin
    <3>. QED BY <3>1 DEF Contract!Next
  <2>. QED BY <2>1, <2>2
<1>2. ASSUME NEW c \in Calls, RefuseUnshaken(c) PROVE [Contract!Next]_(Contract!vars)
  <2>1. Contract!End(c, "refused")
    BY <1>2 DEF RefuseUnshaken, Contract!End, Contract!Truthful, Reported, IdInv, Ownership
  <2>. QED BY <2>1 DEF Contract!Next
<1>3. ASSUME NEW c \in Calls, TakeId(c) \/ Register(c) \/ BeginSend(c)
      PROVE  [Contract!Next]_(Contract!vars)
  BY <1>3 DEF TakeId, Register, BeginSend, AfterLock
<1>4. ASSUME NEW c \in Calls, FinishSend(c) PROVE [Contract!Next]_(Contract!vars)
  <2>1. CASE sent' = sent \cup {c} /\ UNCHANGED outcome
    <3>1. Contract!Request(c)
      BY <1>4, <2>1 DEF FinishSend, Contract!Request, IdInv, Ownership
    <3>. QED BY <3>1 DEF Contract!Next
  <2>2. CASE End(c, "leaving", "threw") /\ UNCHANGED <<wire, sent>>
    BY <1>4, <2>2 DEF FinishSend
  <2>. QED BY <1>4, <2>1, <2>2 DEF FinishSend
<1>5. ASSUME NEW c \in Calls, Resume(c) \/ Timeout(c) PROVE [Contract!Next]_(Contract!vars)
  BY <1>5 DEF Resume, Timeout, TimesOut
<1>6. ASSUME NEW c \in Calls, Leave(c) PROVE [Contract!Next]_(Contract!vars)
  <2>1. CASE c = Hello /\ outcome[c] = "ok"
    BY <1>6, <2>1 DEF Leave
  <2>2. CASE ~(c = Hello /\ outcome[c] = "ok")
    <3>1. PICK how \in {"ok", "error", "refused", "unknown"} : how = Reported(outcome[c])
      BY <1>6 DEF Leave, Reported
    <3>2. Contract!Truthful(c, how)
      BY <1>6, <3>1 DEF Leave, Contract!Truthful, Reported, AnswerInv
    <3>3. Contract!End(c, how)
      BY <1>6, <2>2, <3>1, <3>2 DEF Leave, Contract!End
    <3>. QED BY <3>3 DEF Contract!Next
  <2>. QED BY <2>1, <2>2
<1>7. CASE FinishHello
  <2>1. CASE End(Hello, "done", "mismatch")
    <3>1. Contract!End(Hello, "unknown")
      BY <1>7, <2>1 DEF FinishHello, Contract!End, Contract!Truthful, Reported
    <3>. QED BY <3>1 DEF Contract!Next
  <2>2. CASE Goto(Hello, "done") /\ UNCHANGED outcome
    <3>1. Contract!End(Hello, "ok")
      BY <1>7, <2>2 DEF FinishHello, Contract!End, Contract!Truthful, Reported, AnswerInv
    <3>. QED BY <3>1 DEF Contract!Next
  <2>. QED BY <1>7, <2>1, <2>2 DEF FinishHello
<1>8. CASE PeerAnswers
  <2>1. PICK f \in wire, op \in {"ok", "error"} : answer' = [answer EXCEPT ![f.for] = op]
    BY <1>8 DEF PeerAnswers
  <2>2. f.for \in Calls /\ f.for \in sent /\ answer[f.for] = "none"
    BY DEF CallFrame, AnswerInv, IdInv, Ownership
  <2>3. UNCHANGED <<Stage, sent, Result>>
    BY <1>8 DEF PeerAnswers
  <2>4. Contract!Answer(f.for, op)
    BY <2>1, <2>2, <2>3 DEF Contract!Answer
  <2>. QED BY <2>2, <2>4 DEF Contract!Next
<1>9. CASE Receive \/ TakeEntry \/ CompleteReply
  BY <1>9 DEF Receive, TakeEntry, CompleteReply
<1>10. CASE BeginClose \/ ResetHandshake \/ Sweep \/ ClearPending \/ HeartbeatEnds
  BY <1>10 DEF BeginClose, ResetHandshake, Sweep, ClearPending, HeartbeatEnds
<1>11. CASE UNCHANGED vars
  BY <1>11 DEF vars
<1>. QED
  BY <1>1, <1>2, <1>3, <1>4, <1>5, <1>6, <1>7, <1>8, <1>9, <1>10, <1>11
  DEF Next, CallStep, SocketThread, Closer

\* DbkSession.call keeps the contract of Rpc: whatever a caller is told is true
\* of its request, in every interleaving with answers, timeouts and close().
THEOREM SessionKeepsContract == Spec => KeepsContract
<1>1. Spec => Contract!Init /\ [][Contract!Next]_(Contract!vars)
  BY ContractInit, ContractStep, RInductive, PTL DEF Spec
<1>. QED BY <1>1 DEF KeepsContract, Contract!Spec

-----------------------------------------------------------------------------
(* What a call has been told                                                *)

\* What a call was told is true of its request, and not only at the moment it
\* was told: no frame of it goes out afterwards, no other answer comes.
OutcomesTrue ==
  \A c \in Calls : pc[c] = "done" => Contract!Truthful(c, Reported(outcome[c]))

\* "refused" and "threw" stay true of a request that never leaves; "ok" and
\* "error" are what the peer answered to this very request.
THEOREM OutcomesStayTrue == Spec => []OutcomesTrue
<1>1. RInv => OutcomesTrue
  <2> SUFFICES ASSUME RInv, NEW c \in Calls, pc[c] = "done"
               PROVE  Contract!Truthful(c, Reported(outcome[c]))
    BY DEF OutcomesTrue
  <2>1. outcome[c] \in Outcomes /\ outcome[c] # "none"
    BY DEF RInv, IInv, TypeOK, OutcomeInv
  <2>2. CASE outcome[c] \in {"refused", "threw"}
    BY <2>2 DEF RInv, OutcomeInv, Contract!Truthful, Reported
  <2>3. CASE outcome[c] \in {"ok", "error"}
    BY <2>3 DEF RInv, AnswerInv, Contract!Truthful, Reported
  <2>4. CASE outcome[c] \in {"closed", "timeout", "mismatch"}
    BY <2>4 DEF Contract!Truthful, Reported
  <2>. QED BY <2>1, <2>2, <2>3, <2>4 DEF Outcomes
<1>. QED BY <1>1, RInductive, PTL

\* How many steps a call has left at most; only hello takes them all.
StepsLeft(step) ==
  CASE step = "idle"       -> 8
    [] step = "admitted"   -> 7
    [] step = "numbered"   -> 6
    [] step = "registered" -> 5
    [] step = "sending"    -> 4
    [] step = "awaiting"   -> 3
    [] step = "leaving"    -> 2
    [] step = "helloed"    -> 1
    [] step = "done"       -> 0

\* A call only goes forward, whoever takes the step, and what it has been told
\* does not change any more once it has returned.
Advances ==
  \A c \in Calls :
    /\ StepsLeft(pc[c]) \in 0..8
    /\ pc'[c] # pc[c] => StepsLeft(pc'[c]) < StepsLeft(pc[c])
    /\ pc[c] = "done" => outcome'[c] = outcome[c]

\* Every step of a call is an advance; the other threads leave "pc" alone.
LEMMA AdvanceStep == RInv /\ [Next]_vars => Advances
<1> SUFFICES ASSUME RInv, [Next]_vars PROVE Advances
  OBVIOUS
<1> USE HelloAssumption DEF RInv, IInv, TypeOK, callerVars, Goto, End, Steps, Advances, StepsLeft
<1>1. ASSUME NEW c \in Calls, Enter(c) \/ RefuseUnshaken(c) PROVE Advances
  BY <1>1 DEF Enter, RefuseUnshaken
<1>2. ASSUME NEW c \in Calls, TakeId(c) \/ Register(c) \/ BeginSend(c) PROVE Advances
  BY <1>2 DEF TakeId, Register, BeginSend, AfterLock
<1>3. ASSUME NEW c \in Calls, FinishSend(c) PROVE Advances
  BY <1>3 DEF FinishSend
<1>4. ASSUME NEW c \in Calls, Resume(c) \/ Timeout(c) PROVE Advances
  BY <1>4 DEF Resume, Timeout, TimesOut
<1>5. ASSUME NEW c \in Calls, Leave(c) PROVE Advances
  BY <1>5 DEF Leave
<1>6. CASE FinishHello
  BY <1>6 DEF FinishHello
<1>7. CASE PeerAnswers \/ SocketThread
  BY <1>7 DEF PeerAnswers, SocketThread, Receive, TakeEntry, CompleteReply
<1>8. CASE BeginClose \/ Closer \/ HeartbeatEnds
  BY <1>8 DEF BeginClose, Closer, ResetHandshake, Sweep, ClearPending, HeartbeatEnds
<1>9. CASE UNCHANGED vars
  BY <1>9 DEF vars
<1>. QED BY <1>1, <1>2, <1>3, <1>4, <1>5, <1>6, <1>7, <1>8, <1>9 DEF Next, CallStep

\* With any number of calls, each takes at most eight steps of its own from
\* call() to its return, and never one back: the safety half of EveryCallEnds.
THEOREM CallsOnlyAdvance == Spec => [][Advances]_vars
<1>. QED BY AdvanceStep, RInductive, PTL DEF Spec

-----------------------------------------------------------------------------
(* What a closed session still does                                         *)

\* An entry that is in "pending" once close() has ended was put in behind its
\* sweep: its frame is not out, and will not go out.
LateUnsent ==
  closing = "done" => \A p \in pending : p.call \notin sent /\ pc[p.call] # "sending"

\* Every step keeps it: sendFrame looks at "closed" under the mutex.
LEMMA LateStep == IInv /\ LateUnsent /\ [Next]_vars => LateUnsent'
<1> SUFFICES ASSUME IInv, LateUnsent, [Next]_vars PROVE LateUnsent'
  OBVIOUS
<1> USE DEF IInv, TypeOK, callerVars, closeVars, peerVars, Goto, End, Steps, Entry, LateUnsent
<1>1. ASSUME NEW c \in Calls, Enter(c) \/ RefuseUnshaken(c) \/ TakeId(c) PROVE LateUnsent'
  BY <1>1 DEF Enter, RefuseUnshaken, TakeId
<1>2. ASSUME NEW c \in Calls, Register(c) PROVE LateUnsent'
  BY <1>2 DEF Register, Without, IdInv, Ownership
<1>3. ASSUME NEW c \in Calls, BeginSend(c) PROVE LateUnsent'
  <2>1. closing = "done" => closed
    BY DEF TrackInv
  <2>. QED BY <1>3, <2>1 DEF BeginSend, AfterLock
<1>4. ASSUME NEW c \in Calls, FinishSend(c) PROVE LateUnsent'
  BY <1>4 DEF FinishSend
<1>5. ASSUME NEW c \in Calls, Resume(c) \/ Timeout(c) PROVE LateUnsent'
  BY <1>5 DEF Resume, Timeout, TimesOut
<1>6. ASSUME NEW c \in Calls, Leave(c) PROVE LateUnsent'
  BY <1>6 DEF Leave, Forget, Without
<1>7. CASE FinishHello
  BY <1>7, HelloAssumption DEF FinishHello
<1>8. CASE PeerAnswers \/ SocketThread
  BY <1>8 DEF PeerAnswers, SocketThread, Receive, TakeEntry, Without, CompleteReply
<1>9. CASE BeginClose \/ ResetHandshake \/ ClearPending \/ HeartbeatEnds
  BY <1>9 DEF BeginClose, ResetHandshake, ClearPending, HeartbeatEnds
<1>10. CASE Sweep
  BY <1>10 DEF Sweep
<1>11. CASE UNCHANGED vars
  BY <1>11 DEF vars
<1>. QED
  BY <1>1, <1>2, <1>3, <1>4, <1>5, <1>6, <1>7, <1>8, <1>9, <1>10, <1>11
  DEF Next, CallStep, Closer

\* After close() no answer still on its way finds an entry: a late answer can
\* complete nobody, in particular not a call that registered behind the sweep.
NoLateMatch ==
  closing = "done" => \A f \in inbox \cup handling, p \in pending : p.id # f.id

\* What close() missed is out of reach of every answer and of the socket.
THEOREM ClosedAnswersNobody == Spec => [](LateUnsent /\ NoLateMatch)
<1>1. Init => LateUnsent
  BY DEF Init, LateUnsent
<1>2. IInv /\ LateUnsent => NoLateMatch
  <2> SUFFICES ASSUME IInv, LateUnsent, closing = "done",
                      NEW f \in inbox \cup handling, NEW p \in pending
               PROVE  p.id # f.id
    BY DEF NoLateMatch
  <2>1. p.call \in Calls /\ f.for \in Calls
    BY DEF IInv, TypeOK, Entry, ReplyFrame
  <2>2. p.id = rid[p.call] /\ p.id # 0 /\ f.id = rid[f.for] /\ f.for \in sent
    BY DEF IInv, IdInv, Ownership
  <2>3. f.for # p.call
    BY <2>2 DEF LateUnsent
  <2>. QED BY <2>1, <2>2, <2>3 DEF IInv, IdInv, IdsDistinct
<1>. QED BY <1>1, <1>2, LateStep, Inductive, PTL DEF Spec

\* A heartbeat belongs to a hello that has returned.
BeatIsShaken == heartbeat => Shaken

\* Hello starts the only one there is: once hello has returned and no heartbeat
\* runs (close() has cancelled it, or it saw the close), none runs again.
NoSecondBeat == Shaken /\ heartbeat' => heartbeat

\* Every step keeps the heartbeat to hello's.
LEMMA BeatStep == IInv /\ BeatIsShaken /\ [Next]_vars => BeatIsShaken' /\ NoSecondBeat
<1> SUFFICES ASSUME IInv, BeatIsShaken, [Next]_vars PROVE BeatIsShaken' /\ NoSecondBeat
  OBVIOUS
<1> USE HelloAssumption DEF IInv, TypeOK, callerVars, Goto, End, Steps, BeatIsShaken, NoSecondBeat, Shaken
<1>1. ASSUME NEW c \in Calls, Enter(c) \/ RefuseUnshaken(c) PROVE BeatIsShaken' /\ NoSecondBeat
  BY <1>1 DEF Enter, RefuseUnshaken
<1>2. ASSUME NEW c \in Calls, TakeId(c) \/ Register(c) \/ BeginSend(c) \/ FinishSend(c)
      PROVE  BeatIsShaken' /\ NoSecondBeat
  BY <1>2 DEF TakeId, Register, BeginSend, FinishSend
<1>3. ASSUME NEW c \in Calls, Resume(c) \/ Timeout(c) \/ Leave(c)
      PROVE  BeatIsShaken' /\ NoSecondBeat
  BY <1>3 DEF Resume, Timeout, TimesOut, Leave
<1>4. CASE FinishHello
  BY <1>4 DEF FinishHello, ShakeInv
<1>5. CASE PeerAnswers \/ SocketThread
  BY <1>5 DEF PeerAnswers, SocketThread, Receive, TakeEntry, CompleteReply
<1>6. CASE BeginClose \/ Closer \/ HeartbeatEnds
  BY <1>6 DEF BeginClose, Closer, ResetHandshake, Sweep, ClearPending, HeartbeatEnds
<1>7. CASE UNCHANGED vars
  BY <1>7 DEF vars
<1>. QED BY <1>1, <1>2, <1>3, <1>4, <1>5, <1>6, <1>7 DEF Next, CallStep

\* However close() and hello() interleave, a session starts one heartbeat at
\* most, and one that has ended stays so: the safety half of HeartbeatStops.
THEOREM OneHeartbeat == Spec => []BeatIsShaken /\ [][NoSecondBeat]_vars
<1>1. Init => BeatIsShaken
  BY DEF Init, BeatIsShaken
<1>. QED BY <1>1, BeatStep, Inductive, PTL DEF Spec
=============================================================================

-------------------------- MODULE BotDirectoryProofs --------------------------
(* What holds of the account cache for any bots, any number of coroutines    *)
(* and any number of changes and connections.                                *)
EXTENDS BotDirectory, TLAPS

-----------------------------------------------------------------------------
(* The inductive invariant                                                   *)

Event == [kind : {"event"}, bot : Bots, state : States]
Snapshot == [kind : {"snapshot"}, for : Callers, bots : [Bots -> States]]
Frame == Event \cup Snapshot

\* A frame is about b; it is the last one about b; none of them is.
About(i, b) == stream[i].kind = "event" => stream[i].bot = b
Says(i, b) == IF stream[i].kind = "event" THEN stream[i].state ELSE stream[i].bots[b]
NewsAfter(i, b) == \E j \in i+1..Len(stream) : stream[j].kind = "event" /\ stream[j].bot = b
News(b) == \E j \in 1..Len(stream) : stream[j].kind = "event" /\ stream[j].bot = b

\* The last that is said of a bot is what it is now.
LastIsNow ==
  \A i \in 1..Len(stream), b \in Bots :
    About(i, b) /\ ~NewsAfter(i, b) => Says(i, b) = StateOf(bots[b])

\* The hello of this connection has had its answer.
Greeted == hello = NoOne \/ phase[hello] = "applying"

\* How far the two sides and the caller that handshakes have come.
Sides ==
  /\ stream # <<>> => up /\ peerShook
  /\ shook => up /\ hello = NoOne
  /\ up /\ ~shook => hello # NoOne
  /\ up /\ hello # NoOne => phase[hello] \in {"asked", "applying"}
  /\ ~up => hello = NoOne

\* As long as no snapshot was overtaken: what is applied, and what has been
\* applied, of a bot of which no news is on its way is what it is now, and a lost
\* connection leaves nobody applying and no account READY.
Current ==
  ~overtaken =>
    /\ up /\ (Busy # {} \/ Greeted) => peerShook
    /\ up => \A r \in Busy : \A b \in todo[r] : ~News(b) => snapshot[r][b] = StateOf(bots[b])
    /\ up /\ Greeted =>
         \A b \in Bots : ~News(b) /\ (\A r \in Busy : b \notin todo[r]) => accounts[b] = StateOf(bots[b])
    /\ ~up => Busy = {} /\ \A b \in Bots : accounts[b] # "READY"

BInv == TypeOK /\ Sides /\ LastIsNow /\ Current

\* A frame that is typed is an event of a bot or a snapshot for a caller.
LEMMA Frames ==
  ASSUME NEW f \in Frame
  PROVE  /\ f.kind \in {"event", "snapshot"}
         /\ f.kind = "event" => f \in Event /\ f.bot \in Bots /\ f.state \in States
         /\ f.kind = "snapshot" => f \in Snapshot /\ f.for \in Callers /\ f.bots \in [Bots -> States]
BY DEF Frame, Event, Snapshot

\* Every status has a state.
LEMMA StateTyped == \A status \in Statuses : StateOf(status) \in States
BY DEF StateOf, Statuses, States

\* The type invariant, with the frames by their name.
LEMMA StreamTyped == TypeOK => stream \in Seq(Frame)
BY DEF TypeOK, Frame, Event, Snapshot

\* The initial states satisfy the invariant.
LEMMA InitInv == Init => BInv
<1> SUFFICES ASSUME Init PROVE BInv
  OBVIOUS
<1>1. TypeOK
  <2>1. stream \in Seq(Frame)
    BY DEF Init
  <2>2. changes \in 0..MaxChanges /\ connections \in 0..MaxConnections
    BY BoundsAssumption DEF Init
  <2>3. /\ snapshot \in [Callers -> [Bots -> States]] /\ todo \in [Callers -> SUBSET Bots]
        /\ accounts \in [Bots -> States]
    BY DEF Init, States
  <2>. QED BY <2>1, <2>2, <2>3 DEF Init, TypeOK, Frame, Event, Snapshot
<1>2. Sides /\ LastIsNow
  BY DEF Init, Sides, LastIsNow
<1>3. Current
  BY DEF Init, Current, Busy
<1>. QED BY <1>1, <1>2, <1>3 DEF BInv

-----------------------------------------------------------------------------
(* Types                                                                     *)

\* Every step keeps the types.
LEMMA TypeStep == TypeOK /\ [Next]_vars => TypeOK'
<1> SUFFICES ASSUME TypeOK, [Next]_vars PROVE TypeOK'
  OBVIOUS
<1>a. stream \in Seq(Frame)
  BY StreamTyped
<1> DEFINE
  Rest ==
    /\ bots' \in [Bots -> Statuses] /\ changes' \in 0..MaxChanges
    /\ up' \in BOOLEAN /\ connections' \in 0..MaxConnections
    /\ peerShook' \in BOOLEAN /\ shook' \in BOOLEAN
    /\ asking' \subseteq Callers
    /\ phase' \in [Callers -> {"idle", "asked", "applying"}]
    /\ snapshot' \in [Callers -> [Bots -> States]]
    /\ todo' \in [Callers -> SUBSET Bots]
    /\ hello' \in Callers \cup {NoOne}
    /\ accounts' \in [Bots -> States]
    /\ overtaken' \in BOOLEAN
<1>b. ASSUME Rest, stream' \in Seq(Frame) PROVE TypeOK'
  BY <1>b DEF TypeOK, Frame, Event, Snapshot
<1>1. ASSUME NEW b \in Bots, Change(b) PROVE TypeOK'
  <2>1. PICK status \in Statuses :
          /\ bots' = [bots EXCEPT ![b] = status]
          /\ stream' = IF up /\ peerShook
                       THEN Append(stream, [kind |-> "event", bot |-> b, state |-> StateOf(status)])
                       ELSE stream
    BY <1>1 DEF Change
  <2>2. [kind |-> "event", bot |-> b, state |-> StateOf(status)] \in Frame
    BY StateTyped DEF Frame, Event
  <2>3. stream' \in Seq(Frame)
    BY <1>a, <2>1, <2>2
  <2>4. changes' \in 0..MaxChanges
    BY <1>1, BoundsAssumption DEF Change, TypeOK
  <2>. QED BY <1>1, <1>b, <2>1, <2>3, <2>4 DEF Change, TypeOK, callers
<1>2. ASSUME NEW r \in Callers, Answer(r) PROVE TypeOK'
  <2> DEFINE f == [kind |-> "snapshot", for |-> r, bots |-> [b \in Bots |-> StateOf(bots[b])]]
  <2>1. f \in Frame
    BY StateTyped DEF TypeOK, Frame, Snapshot
  <2>2. stream' = Append(stream, f)
    BY <1>2 DEF Answer
  <2>. HIDE DEF f
  <2>3. stream' \in Seq(Frame)
    BY <1>a, <2>1, <2>2
  <2>. QED BY <1>2, <1>b, <2>3 DEF Answer, TypeOK, callers
<1>3. ASSUME NEW r \in Callers, Connect(r) PROVE TypeOK'
  <2>1. connections' \in 0..MaxConnections /\ stream' \in Seq(Frame)
    BY <1>3, BoundsAssumption DEF Connect, TypeOK
  <2>2. phase' \in [Callers -> {"idle", "asked", "applying"}]
    BY <1>3 DEF Connect, TypeOK
  <2>. QED BY <1>3, <1>b, <2>1, <2>2 DEF Connect, TypeOK
<1>4. CASE Lose
  <2>1. phase' \in [Callers -> {"idle", "asked", "applying"}] /\ accounts' \in [Bots -> States]
    BY <1>4 DEF Lose, TypeOK, States
  <2>2. stream' \in Seq(Frame)
    BY <1>4 DEF Lose
  <2>. QED BY <1>4, <1>b, <2>1, <2>2 DEF Lose, TypeOK
<1>5. ASSUME NEW r \in Callers, Refresh(r) PROVE TypeOK'
  BY <1>5, <1>a, <1>b DEF Refresh, TypeOK
<1>6. ASSUME NEW r \in Callers, ReceiveSnapshot(r) PROVE TypeOK'
  <2>1. Head(stream) \in Frame /\ Head(stream).kind = "snapshot" /\ stream' = Tail(stream)
    BY <1>6, <1>a DEF ReceiveSnapshot
  <2>2. Head(stream).bots \in [Bots -> States]
    BY <2>1, Frames
  <2>3. stream' \in Seq(Frame)
    BY <1>6, <1>a, <2>1 DEF ReceiveSnapshot
  <2>. QED BY <1>6, <1>b, <2>2, <2>3 DEF ReceiveSnapshot, TypeOK, koishi
<1>7. CASE ReceiveEvent
  <2>1. Head(stream) \in Frame /\ Head(stream).kind = "event" /\ stream' = Tail(stream)
    BY <1>7, <1>a DEF ReceiveEvent
  <2>2. Head(stream).state \in States
    BY <2>1, Frames
  <2>3. stream' \in Seq(Frame)
    BY <1>7, <1>a, <2>1 DEF ReceiveEvent
  <2>4. accounts' \in [Bots -> States]
    BY <1>7, <2>2 DEF ReceiveEvent, TypeOK
  <2>. QED BY <1>7, <1>b, <2>3, <2>4 DEF ReceiveEvent, TypeOK, koishi, callers
<1>8. CASE Shake
  BY <1>8, <1>a, <1>b DEF Shake, TypeOK, koishi
<1>9. ASSUME NEW r \in Callers, Apply(r) PROVE TypeOK'
  <2>1. /\ phase' \in [Callers -> {"idle", "asked", "applying"}]
        /\ todo' \in [Callers -> SUBSET Bots] /\ accounts' \in [Bots -> States]
    <3>1. CASE Replaces(r) = {}
      BY <1>9, <3>1 DEF Apply, TypeOK
    <3>2. CASE Replaces(r) # {}
      <4>1. PICK b \in todo[r] : /\ accounts' = [accounts EXCEPT ![b] = snapshot[r][b]]
                                 /\ todo' = [todo EXCEPT ![r] = @ \ {b}]
                                 /\ phase' = phase
        BY <1>9, <3>2 DEF Apply, Replaces
      <4>2. snapshot[r][b] \in States
        BY <4>1 DEF TypeOK
      <4>. QED BY <4>1, <4>2 DEF TypeOK
    <3>. QED BY <3>1, <3>2
  <2>. QED BY <1>9, <1>a, <1>b, <2>1 DEF Apply, TypeOK, koishi
<1>10. CASE UNCHANGED vars
  BY <1>10, <1>a, <1>b DEF vars, TypeOK
<1>. QED BY <1>1, <1>2, <1>3, <1>4, <1>5, <1>6, <1>7, <1>8, <1>9, <1>10 DEF Next

-----------------------------------------------------------------------------
(* The stream                                                                *)

\* A frame more is news for the bot it is about.
LEMMA Appended ==
  ASSUME stream \in Seq(Frame), NEW f \in Frame, stream' = Append(stream, f)
  PROVE  /\ Len(stream') = Len(stream) + 1
         /\ \A b \in Bots :
              /\ News(b)' <=> News(b) \/ (f.kind = "event" /\ f.bot = b)
              /\ \A i \in 1..Len(stream) :
                   /\ About(i, b)' <=> About(i, b)
                   /\ Says(i, b)' = Says(i, b)
                   /\ NewsAfter(i, b)' <=> NewsAfter(i, b) \/ (f.kind = "event" /\ f.bot = b)
              /\ \A i \in {Len(stream) + 1} :
                   /\ About(i, b)' <=> (f.kind = "event" => f.bot = b)
                   /\ Says(i, b)' = IF f.kind = "event" THEN f.state ELSE f.bots[b]
<1>1. /\ Len(stream) \in Nat /\ Len(stream') = Len(stream) + 1
      /\ \A i \in 1..Len(stream) : stream'[i] = stream[i]
      /\ stream'[Len(stream) + 1] = f
  OBVIOUS
<1>2. ASSUME NEW b \in Bots PROVE News(b)' <=> News(b) \/ (f.kind = "event" /\ f.bot = b)
  BY <1>1 DEF News
<1>3. ASSUME NEW b \in Bots, NEW i \in 1..Len(stream)
      PROVE  /\ About(i, b)' <=> About(i, b)
             /\ Says(i, b)' = Says(i, b)
  BY <1>1 DEF About, Says
<1>4. ASSUME NEW b \in Bots, NEW i \in 1..Len(stream)
      PROVE  NewsAfter(i, b)' <=> NewsAfter(i, b) \/ (f.kind = "event" /\ f.bot = b)
  BY <1>1 DEF NewsAfter
<1>5. ASSUME NEW b \in Bots, NEW i \in {Len(stream) + 1}
      PROVE  /\ About(i, b)' <=> (f.kind = "event" => f.bot = b)
             /\ Says(i, b)' = IF f.kind = "event" THEN f.state ELSE f.bots[b]
  BY <1>1 DEF About, Says
<1>. QED BY <1>1, <1>2, <1>3, <1>4, <1>5

\* The first frame is taken from the stream.
LEMMA Taken ==
  ASSUME stream \in Seq(Frame), stream # <<>>, stream' = Tail(stream)
  PROVE  /\ Len(stream) >= 1 /\ Len(stream') = Len(stream) - 1
         /\ \A b \in Bots :
              /\ News(b) <=> News(b)' \/ (Head(stream).kind = "event" /\ Head(stream).bot = b)
              /\ NewsAfter(1, b) <=> News(b)'
              /\ \A i \in 1..Len(stream') :
                   /\ About(i, b)' <=> About(i + 1, b)
                   /\ Says(i, b)' = Says(i + 1, b)
                   /\ NewsAfter(i, b)' <=> NewsAfter(i + 1, b)
<1>1. /\ Len(stream) \in Nat /\ Len(stream) >= 1 /\ Len(stream') = Len(stream) - 1
      /\ Head(stream) = stream[1]
      /\ \A i \in 1..Len(stream') : stream'[i] = stream[i + 1]
  OBVIOUS
<1>2. \A j \in 2..Len(stream) : j - 1 \in 1..Len(stream') /\ stream'[j - 1] = stream[j]
  BY <1>1
<1>3. ASSUME NEW b \in Bots PROVE NewsAfter(1, b) <=> News(b)'
  <2>1. ASSUME NewsAfter(1, b) PROVE News(b)'
    <3>1. PICK j \in 2..Len(stream) : stream[j].kind = "event" /\ stream[j].bot = b
      BY <2>1 DEF NewsAfter
    <3>. QED BY <1>2, <3>1 DEF News
  <2>2. ASSUME News(b)' PROVE NewsAfter(1, b)
    <3>1. PICK j \in 1..Len(stream') : stream'[j].kind = "event" /\ stream'[j].bot = b
      BY <2>2 DEF News
    <3>2. j + 1 \in 2..Len(stream) /\ stream[j + 1] = stream'[j]
      BY <1>1, <3>1
    <3>. QED BY <3>1, <3>2 DEF NewsAfter
  <2>. QED BY <2>1, <2>2
<1>4. ASSUME NEW b \in Bots
      PROVE  News(b) <=> NewsAfter(1, b) \/ (Head(stream).kind = "event" /\ Head(stream).bot = b)
  BY <1>1 DEF News, NewsAfter
<1>5. ASSUME NEW b \in Bots, NEW i \in 1..Len(stream')
      PROVE  /\ About(i, b)' <=> About(i + 1, b)
             /\ Says(i, b)' = Says(i + 1, b)
  BY <1>1 DEF About, Says
<1>6. ASSUME NEW b \in Bots, NEW i \in 1..Len(stream')
      PROVE  NewsAfter(i, b)' <=> NewsAfter(i + 1, b)
  BY <1>1, <1>2 DEF NewsAfter
<1>. QED BY <1>1, <1>3, <1>4, <1>5, <1>6

-----------------------------------------------------------------------------
(* The steps                                                                 *)

\* Each step keeps the two sides of the connection together.
LEMMA SidesStep == TypeOK /\ Sides /\ [Next]_vars => Sides'
<1> SUFFICES ASSUME TypeOK, Sides, [Next]_vars PROVE Sides'
  OBVIOUS
<1> USE CallersAssumption DEF TypeOK, Sides
<1>1. ASSUME NEW b \in Bots, Change(b) PROVE Sides'
  BY <1>1 DEF Change, callers
<1>2. ASSUME NEW r \in Callers, Answer(r) PROVE Sides'
  BY <1>2 DEF Answer, callers
<1>3. ASSUME NEW r \in Callers, Connect(r) PROVE Sides'
  BY <1>3 DEF Connect
<1>4. CASE Lose
  BY <1>4 DEF Lose
<1>5. ASSUME NEW r \in Callers, Refresh(r) PROVE Sides'
  BY <1>5 DEF Refresh
<1>6. ASSUME NEW r \in Callers, ReceiveSnapshot(r) PROVE Sides'
  BY <1>6 DEF ReceiveSnapshot, koishi
<1>7. CASE ReceiveEvent
  BY <1>7 DEF ReceiveEvent, koishi, callers
<1>8. CASE Shake
  BY <1>8 DEF Shake, koishi
<1>9. ASSUME NEW r \in Callers, Apply(r) PROVE Sides'
  BY <1>9 DEF Apply, koishi
<1>10. CASE UNCHANGED vars
  BY <1>10 DEF vars
<1>. QED BY <1>1, <1>2, <1>3, <1>4, <1>5, <1>6, <1>7, <1>8, <1>9, <1>10 DEF Next

\* The steps that put no frame on the stream and take none from it.
LEMMA SameStream ==
  ASSUME UNCHANGED stream
  PROVE  \A i, b : /\ About(i, b)' <=> About(i, b)
                   /\ Says(i, b)' = Says(i, b)
                   /\ NewsAfter(i, b)' <=> NewsAfter(i, b)
                   /\ News(b)' <=> News(b)
BY DEF About, Says, NewsAfter, News

\* What is said of a bot last is what it is, since each change is told after what
\* was told before.
LEMMA LastStep == BInv /\ [Next]_vars => LastIsNow'
<1> SUFFICES ASSUME BInv, [Next]_vars PROVE LastIsNow'
  OBVIOUS
<1>a. stream \in Seq(Frame) /\ Len(stream) \in Nat /\ bots \in [Bots -> Statuses] /\ Sides /\ LastIsNow
  BY StreamTyped DEF BInv, TypeOK
<1>1. ASSUME NEW b \in Bots, Change(b) PROVE LastIsNow'
  <2>1. PICK status \in Statuses :
          /\ bots' = [bots EXCEPT ![b] = status]
          /\ stream' = IF up /\ peerShook
                       THEN Append(stream, [kind |-> "event", bot |-> b, state |-> StateOf(status)])
                       ELSE stream
    BY <1>1 DEF Change
  <2>2. CASE up /\ peerShook
    <3> DEFINE f == [kind |-> "event", bot |-> b, state |-> StateOf(status)]
    <3>1. f \in Frame /\ f.kind = "event" /\ f.bot = b /\ f.state = StateOf(status)
      BY StateTyped DEF Frame, Event
    <3>2. stream' = Append(stream, f)
      BY <2>1, <2>2
    <3>. HIDE DEF f
    <3>3. SUFFICES ASSUME NEW i \in 1..Len(stream'), NEW c \in Bots, About(i, c)', ~NewsAfter(i, c)'
                   PROVE  Says(i, c)' = StateOf(bots'[c])
      BY DEF LastIsNow
    <3>4. CASE i \in 1..Len(stream)
      <4>1. c # b /\ About(i, c) /\ ~NewsAfter(i, c) /\ Says(i, c)' = Says(i, c)
        BY <1>a, <3>1, <3>2, <3>3, <3>4, Appended
      <4>. QED BY <1>a, <2>1, <3>4, <4>1 DEF LastIsNow
    <3>5. CASE i = Len(stream) + 1
      <4>1. c = b /\ Says(i, c)' = StateOf(status)
        BY <1>a, <3>1, <3>2, <3>3, <3>5, Appended
      <4>. QED BY <1>a, <2>1, <4>1
    <3>. QED BY <1>a, <3>1, <3>2, <3>4, <3>5, Appended
  <2>3. CASE ~(up /\ peerShook)
    <3>1. stream' = <<>>
      BY <1>a, <2>1, <2>3 DEF Sides
    <3>. QED BY <3>1 DEF LastIsNow
  <2>. QED BY <2>2, <2>3
<1>2. ASSUME NEW r \in Callers, Answer(r) PROVE LastIsNow'
  <2> DEFINE f == [kind |-> "snapshot", for |-> r, bots |-> [b \in Bots |-> StateOf(bots[b])]]
  <2>1. f \in Frame /\ f.kind = "snapshot" /\ f.bots = [b \in Bots |-> StateOf(bots[b])]
    BY <1>a, StateTyped DEF Frame, Snapshot
  <2>2. stream' = Append(stream, f) /\ bots' = bots
    BY <1>2 DEF Answer
  <2>. HIDE DEF f
  <2>3. SUFFICES ASSUME NEW i \in 1..Len(stream'), NEW c \in Bots, About(i, c)', ~NewsAfter(i, c)'
                 PROVE  Says(i, c)' = StateOf(bots[c])
    BY <2>2 DEF LastIsNow
  <2>4. CASE i \in 1..Len(stream)
    <3>1. About(i, c) /\ ~NewsAfter(i, c) /\ Says(i, c)' = Says(i, c)
      BY <1>a, <2>1, <2>2, <2>3, <2>4, Appended
    <3>. QED BY <1>a, <2>4, <3>1 DEF LastIsNow
  <2>5. CASE i = Len(stream) + 1
    <3>1. Says(i, c)' = f.bots[c]
      BY <1>a, <2>1, <2>2, <2>5, Appended
    <3>. QED BY <2>1, <3>1
  <2>. QED BY <1>a, <2>1, <2>2, <2>4, <2>5, Appended
<1>3. CASE stream' = <<>>
  BY <1>3 DEF LastIsNow
<1>4. CASE stream # <<>> /\ stream' = Tail(stream) /\ bots' = bots
  <2>1. SUFFICES ASSUME NEW i \in 1..Len(stream'), NEW c \in Bots, About(i, c)', ~NewsAfter(i, c)'
                 PROVE  Says(i, c)' = StateOf(bots[c])
    BY <1>4 DEF LastIsNow
  <2>2. i + 1 \in 1..Len(stream) /\ About(i + 1, c) /\ ~NewsAfter(i + 1, c)
        /\ Says(i, c)' = Says(i + 1, c)
    BY <1>a, <1>4, <2>1, Taken
  <2>. QED BY <1>a, <2>2 DEF LastIsNow
<1>5. CASE UNCHANGED <<stream, bots>>
  BY <1>a, <1>5, SameStream DEF LastIsNow
<1>6. \/ \E b \in Bots : Change(b)
      \/ \E r \in Callers : Answer(r)
      \/ stream' = <<>>
      \/ stream # <<>> /\ stream' = Tail(stream) /\ bots' = bots
      \/ UNCHANGED <<stream, bots>>
  BY DEF Next, Connect, Lose, Refresh, ReceiveSnapshot, ReceiveEvent, Shake, Apply, koishi, vars
<1>. QED BY <1>1, <1>2, <1>3, <1>4, <1>5, <1>6

\* What is applied, or has been, keeps up with the bots.
LEMMA CurrentStep == BInv /\ [Next]_vars => Current'
<1> SUFFICES ASSUME BInv, [Next]_vars, ~overtaken' PROVE Current'
  BY DEF Current
<1>a. /\ stream \in Seq(Frame) /\ Len(stream) \in Nat /\ bots \in [Bots -> Statuses]
      /\ TypeOK /\ Sides /\ LastIsNow /\ Current
  BY StreamTyped DEF BInv, TypeOK
<1>1. ASSUME NEW b \in Bots, Change(b) PROVE Current'
  <2>1. PICK status \in Statuses :
          /\ bots' = [bots EXCEPT ![b] = status]
          /\ stream' = IF up /\ peerShook
                       THEN Append(stream, [kind |-> "event", bot |-> b, state |-> StateOf(status)])
                       ELSE stream
    BY <1>1 DEF Change
  <2>2. UNCHANGED <<up, peerShook, phase, snapshot, todo, hello, accounts, overtaken>>
    BY <1>1 DEF Change, callers
  <2>3. Busy' = Busy /\ Greeted' = Greeted /\ (\A c \in Bots \ {b} : bots'[c] = bots[c])
    BY <1>a, <2>1, <2>2 DEF Busy, Greeted
  <2>4. CASE up /\ peerShook
    <3> DEFINE f == [kind |-> "event", bot |-> b, state |-> StateOf(status)]
    <3>1. f \in Frame /\ f.kind = "event" /\ f.bot = b
      BY StateTyped DEF Frame, Event
    <3>2. stream' = Append(stream, f)
      BY <2>1, <2>4
    <3>. HIDE DEF f
    <3>3. \A c \in Bots : News(c)' <=> News(c) \/ c = b
      BY <1>a, <3>1, <3>2, Appended
    <3>4. \A r \in Busy : todo[r] \subseteq Bots
      BY <1>a DEF TypeOK, Busy
    <3>. QED BY <1>a, <2>2, <2>3, <2>4, <3>3, <3>4 DEF Current
  <2>5. CASE ~(up /\ peerShook)
    BY <1>a, <2>2, <2>3, <2>5 DEF Current
  <2>. QED BY <2>4, <2>5
<1>2. ASSUME NEW r \in Callers, Answer(r) PROVE Current'
  <2> DEFINE f == [kind |-> "snapshot", for |-> r, bots |-> [b \in Bots |-> StateOf(bots[b])]]
  <2>1. f \in Frame /\ f.kind = "snapshot"
    BY <1>a, StateTyped DEF Frame, Snapshot
  <2>2. stream' = Append(stream, f) /\ up /\ peerShook'
        /\ UNCHANGED <<bots, up, phase, snapshot, todo, hello, accounts, overtaken>>
    BY <1>2 DEF Answer, callers
  <2>. HIDE DEF f
  <2>3. \A c \in Bots : News(c)' <=> News(c)
    BY <1>a, <2>1, <2>2, Appended
  <2>4. Busy' = Busy /\ Greeted' = Greeted /\ (\A q \in Busy : todo[q] \subseteq Bots)
    BY <1>a, <2>2 DEF Busy, Greeted, TypeOK
  <2>. QED BY <1>a, <2>2, <2>3, <2>4 DEF Current
<1>3. ASSUME NEW r \in Callers, Connect(r) PROVE Current'
  <2>1. Busy' = {} /\ ~Greeted' /\ up'
    BY <1>3, <1>a, CallersAssumption DEF Connect, Busy, Greeted, TypeOK
  <2>. QED BY <2>1 DEF Current
<1>4. CASE Lose
  <2>1. Busy' = {} /\ ~up' /\ \A b \in Bots : accounts'[b] # "READY"
    BY <1>4, <1>a DEF Lose, Busy, TypeOK
  <2>. QED BY <2>1 DEF Current
<1>5. ASSUME NEW r \in Callers, Refresh(r) PROVE Current'
  <2>1. Busy' = Busy /\ Greeted' = Greeted
    BY <1>5, <1>a DEF Refresh, Busy, Greeted, Sides, TypeOK
  <2>2. UNCHANGED <<stream, bots, up, peerShook, snapshot, todo, accounts, overtaken>>
    BY <1>5 DEF Refresh
  <2>. QED BY <1>a, <2>1, <2>2, SameStream DEF Current
<1>6. ASSUME NEW r \in Callers, ReceiveSnapshot(r) PROVE Current'
  <2>1. /\ stream # <<>> /\ stream' = Tail(stream) /\ Head(stream).kind = "snapshot"
        /\ snapshot' = [snapshot EXCEPT ![r] = Head(stream).bots]
        /\ todo' = [todo EXCEPT ![r] = Bots]
        /\ phase' = [phase EXCEPT ![r] = "applying"]
        /\ UNCHANGED <<bots, up, peerShook, accounts, overtaken>>
    BY <1>6 DEF ReceiveSnapshot, koishi
  <2>2. up /\ peerShook /\ Head(stream) = stream[1] /\ 1 \in 1..Len(stream)
    BY <1>a, <2>1 DEF Sides
  <2>3. Busy' = Busy \cup {r} /\ todo'[r] = Bots /\ r \in Busy'
    BY <1>a, <2>1 DEF Busy, TypeOK
  <2>4. ASSUME NEW b \in Bots, ~News(b)' PROVE ~News(b) /\ Head(stream).bots[b] = StateOf(bots[b])
    <3>1. ~NewsAfter(1, b) /\ ~News(b)
      BY <1>a, <2>1, <2>4, Taken
    <3>2. About(1, b) /\ Says(1, b) = Head(stream).bots[b]
      BY <2>1, <2>2 DEF About, Says
    <3>. QED BY <1>a, <2>2, <3>1, <3>2 DEF LastIsNow
  <2>5. ASSUME NEW q \in Busy', NEW b \in todo'[q], ~News(b)'
        PROVE  snapshot'[q][b] = StateOf(bots[b])
    <3>1. b \in Bots /\ q \in Callers
      BY <1>a, <2>1, <2>5 DEF Busy, TypeOK
    <3>2. CASE q = r
      BY <1>a, <2>1, <2>4, <2>5, <3>1, <3>2 DEF TypeOK
    <3>3. CASE q # r
      <4>1. q \in Busy /\ b \in todo[q] /\ snapshot'[q] = snapshot[q]
        BY <1>a, <2>1, <2>3, <2>5, <3>1, <3>3 DEF TypeOK
      <4>. QED BY <1>a, <2>1, <2>2, <2>4, <2>5, <3>1, <4>1 DEF Current
    <3>. QED BY <3>2, <3>3
  <2>. QED BY <2>1, <2>2, <2>3, <2>5 DEF Current
<1>7. CASE ReceiveEvent
  <2>1. /\ stream # <<>> /\ stream' = Tail(stream) /\ Head(stream).kind = "event"
        /\ shook /\ Busy = {} /\ ~overtaken
        /\ accounts' = [accounts EXCEPT ![Head(stream).bot] = Head(stream).state]
        /\ UNCHANGED <<bots, up, peerShook, phase, snapshot, todo, hello>>
    BY <1>7, <1>a DEF ReceiveEvent, koishi, callers, TypeOK
  <2>2. up /\ peerShook /\ Head(stream) = stream[1] /\ 1 \in 1..Len(stream) /\ hello = NoOne
    BY <1>a, <2>1 DEF Sides
  <2>3. Busy' = {} /\ Greeted
    BY <2>1, <2>2 DEF Busy, Greeted
  <2>4. ASSUME NEW b \in Bots, ~News(b)' PROVE accounts'[b] = StateOf(bots[b])
    <3>1. CASE Head(stream).bot = b
      <4>1. ~NewsAfter(1, b)
        BY <1>a, <2>1, <2>4, Taken
      <4>2. About(1, b) /\ Says(1, b) = Head(stream).state
        BY <2>1, <2>2, <3>1 DEF About, Says
      <4>. QED BY <1>a, <2>1, <2>2, <3>1, <4>1, <4>2 DEF LastIsNow, TypeOK
    <3>2. CASE Head(stream).bot # b
      <4>1. ~News(b) /\ accounts'[b] = accounts[b]
        BY <1>a, <2>1, <2>4, <3>2, Taken DEF TypeOK
      <4>. QED BY <1>a, <2>1, <2>2, <2>3, <4>1 DEF Current
    <3>. QED BY <3>1, <3>2
  <2>. QED BY <2>1, <2>2, <2>3, <2>4 DEF Current
<1>8. CASE Shake
  <2>1. Greeted /\ UNCHANGED <<stream, bots, up, peerShook, phase, snapshot, todo, accounts, overtaken>>
    BY <1>8 DEF Shake, Greeted, koishi
  <2>2. Busy' = Busy
    BY <2>1 DEF Busy
  <2>. QED BY <1>a, <2>1, <2>2, SameStream DEF Current
<1>9. ASSUME NEW r \in Callers, Apply(r) PROVE Current'
  <2>1. /\ phase[r] = "applying" /\ hello # r
        /\ UNCHANGED <<stream, bots, up, peerShook, snapshot, hello, overtaken>>
    BY <1>9 DEF Apply, koishi
  <2>2. r \in Busy /\ up /\ ~overtaken
    BY <1>a, <2>1 DEF Busy, Current
  <2>3. CASE Replaces(r) = {}
    <3>1. todo[r] = {} /\ phase' = [phase EXCEPT ![r] = "idle"] /\ UNCHANGED <<todo, accounts>>
      BY <1>9, <2>3 DEF Apply, Replaces
    <3>2. Busy' = Busy \ {r} /\ (Greeted' => Greeted)
      BY <1>a, <2>1, <3>1 DEF Busy, Greeted, Sides, TypeOK
    <3>. QED BY <1>a, <2>1, <2>2, <3>1, <3>2, SameStream DEF Current
  <2>4. CASE Replaces(r) # {}
    <3>1. PICK b \in todo[r] : /\ accounts' = [accounts EXCEPT ![b] = snapshot[r][b]]
                               /\ todo' = [todo EXCEPT ![r] = @ \ {b}]
                               /\ phase' = phase
      BY <1>9, <2>4 DEF Apply, Replaces
    <3>2. Busy' = Busy /\ Greeted' = Greeted /\ b \in Bots
      BY <1>a, <2>1, <3>1 DEF Busy, Greeted, TypeOK
    <3>3. \A q \in Busy : todo'[q] = IF q = r THEN todo[r] \ {b} ELSE todo[q]
      BY <1>a, <3>1 DEF Busy, TypeOK
    <3>4. ASSUME Greeted, NEW c \in Bots, ~News(c), \A q \in Busy : c \notin todo'[q]
          PROVE  accounts'[c] = StateOf(bots[c])
      <4>1. CASE c = b
        BY <1>a, <2>2, <3>1, <3>4, <4>1 DEF Current, TypeOK
      <4>2. CASE c # b
        <5>1. \A q \in Busy : c \notin todo[q]
          BY <3>3, <3>4, <4>2
        <5>. QED BY <1>a, <2>2, <3>1, <3>4, <4>2, <5>1 DEF Current, TypeOK
      <4>. QED BY <4>1, <4>2
    <3>. QED BY <1>a, <2>1, <2>2, <3>2, <3>3, <3>4, SameStream DEF Current
  <2>. QED BY <2>3, <2>4
<1>10. CASE UNCHANGED vars
  <2>1. UNCHANGED <<stream, bots, up, peerShook, phase, snapshot, todo, hello, accounts, overtaken>>
    BY <1>10 DEF vars
  <2>2. Busy' = Busy /\ Greeted' = Greeted
    BY <2>1 DEF Busy, Greeted
  <2>. QED BY <1>a, <2>1, <2>2, SameStream DEF Current
<1>. QED BY <1>1, <1>2, <1>3, <1>4, <1>5, <1>6, <1>7, <1>8, <1>9, <1>10 DEF Next

\* The invariant holds of every behaviour.
LEMMA DirectoryInductive == Spec => []BInv
<1>1. BInv /\ [Next]_vars => BInv'
  BY TypeStep, SidesStep, LastStep, CurrentStep DEF BInv
<1>. QED BY InitInv, <1>1, PTL DEF Spec

-----------------------------------------------------------------------------
(* What follows                                                              *)

\* Every variable keeps its type.
THEOREM DirectoryTypeCorrect == Spec => []TypeOK
<1>1. BInv => TypeOK
  BY DEF BInv
<1>. QED BY <1>1, DirectoryInductive, PTL

\* Snapshots and bot.changed events come down one stream: when all has been
\* applied and no snapshot was overtaken, the cache is what Koishi has.
THEOREM ExactWhenQuiet == Spec => []ExactUnlessOvertaken
<1>1. ASSUME BInv, Quiet, ~overtaken
      PROVE  IF up THEN Exact ELSE \A b \in Bots : accounts[b] # "READY"
  <2>a. TypeOK /\ Sides /\ Current
    BY <1>1 DEF BInv
  <2>1. CASE up
    <3>1. Busy = {} /\ \A b \in Bots : ~News(b)
      BY <1>1 DEF Quiet, Busy, News
    <3>2. Greeted
      BY <1>1, <2>a, <2>1 DEF Quiet, Sides, Greeted, TypeOK
    <3>3. \A b \in Bots : accounts[b] = StateOf(bots[b]) /\ bots[b] \in Statuses
      BY <1>1, <2>a, <2>1, <3>1, <3>2 DEF Current, TypeOK
    <3>. QED BY <2>1, <3>3 DEF Exact, StateOf, Statuses
  <2>2. CASE ~up
    BY <1>1, <2>a, <2>2 DEF Current
  <2>. QED BY <2>1, <2>2
<1>2. BInv => ExactUnlessOvertaken
  BY <1>1 DEF ExactUnlessOvertaken
<1>. QED BY <1>2, DirectoryInductive, PTL

-----------------------------------------------------------------------------
(* How the cache is repaired, overtaken or not                               *)

\* No event about b is on its way, and nobody applies another state of it than
\* the one it has.
Fresh(b) ==
  /\ up /\ ~News(b)
  /\ \A r \in Busy : b \in todo[r] => snapshot[r][b] = StateOf(bots[b])
RightNow(b) == accounts[b] = StateOf(bots[b])

\* Neither the bot nor the connection changes.
Rested(b) == bots'[b] = bots[b] /\ up' /\ connections' = connections

\* A bot at rest of which all is fresh stays so, whatever else is answered,
\* received and applied; what the cache has of it then is right for good once it
\* is right, and the first caller that comes to it puts it right.
Repairs ==
  \A b \in Bots : Fresh(b) /\ Rested(b) =>
    /\ Fresh(b)'
    /\ RightNow(b) => RightNow(b)'
    /\ (\E r \in Callers : b \in todo[r] /\ b \notin todo'[r]) => RightNow(b)'

\* Every step repairs, or leaves what is right.
LEMMA RepairStep == BInv /\ [Next]_vars => Repairs
<1> SUFFICES ASSUME BInv, [Next]_vars, NEW b \in Bots, Fresh(b), Rested(b)
             PROVE  /\ Fresh(b)'
                    /\ RightNow(b) => RightNow(b)'
                    /\ \A r \in Callers : b \in todo[r] /\ b \notin todo'[r] => RightNow(b)'
  BY DEF Repairs
<1> DEFINE Goal ==
      /\ Fresh(b)'
      /\ RightNow(b) => RightNow(b)'
      /\ \A r \in Callers : b \in todo[r] /\ b \notin todo'[r] => RightNow(b)'
<1>a. /\ stream \in Seq(Frame) /\ Len(stream) \in Nat /\ TypeOK /\ Sides /\ LastIsNow
      /\ up /\ ~News(b) /\ up' /\ bots'[b] = bots[b] /\ connections' = connections
      /\ \A r \in Busy : b \in todo[r] => snapshot[r][b] = StateOf(bots[b])
  BY StreamTyped DEF BInv, Fresh, Rested
<1>b. ASSUME UNCHANGED <<phase, snapshot, todo, accounts>>, ~News(b)' PROVE Goal
  BY <1>a, <1>b DEF Fresh, RightNow, Busy
<1>1. ASSUME NEW c \in Bots, Change(c) PROVE Goal
  <2>1. PICK status \in Statuses \ {bots[c]} :
          /\ bots' = [bots EXCEPT ![c] = status]
          /\ stream' = IF up /\ peerShook
                       THEN Append(stream, [kind |-> "event", bot |-> c, state |-> StateOf(status)])
                       ELSE stream
    BY <1>1 DEF Change
  <2>2. c # b
    BY <1>a, <2>1 DEF TypeOK
  <2>3. ~News(b)'
    <3> DEFINE f == [kind |-> "event", bot |-> c, state |-> StateOf(status)]
    <3>1. f \in Frame /\ f.bot = c
      BY StateTyped DEF Frame, Event
    <3>2. CASE stream' = Append(stream, f)
      <4>. HIDE DEF f
      <4>. QED BY <1>a, <2>2, <3>1, <3>2, Appended
    <3>3. CASE stream' = stream
      BY <1>a, <3>3, SameStream
    <3>. QED BY <2>1, <3>2, <3>3
  <2>. QED BY <1>1, <1>b, <2>3 DEF Change, callers
<1>2. ASSUME NEW r \in Callers, Answer(r) PROVE Goal
  <2> DEFINE f == [kind |-> "snapshot", for |-> r, bots |-> [d \in Bots |-> StateOf(bots[d])]]
  <2>1. f \in Frame /\ f.kind = "snapshot"
    BY <1>a, StateTyped DEF Frame, Snapshot, TypeOK
  <2>2. stream' = Append(stream, f)
    BY <1>2 DEF Answer
  <2>. HIDE DEF f
  <2>3. ~News(b)'
    BY <1>a, <2>1, <2>2, Appended
  <2>. QED BY <1>2, <1>b, <2>3 DEF Answer, callers
<1>3. ASSUME NEW r \in Callers, Connect(r) PROVE FALSE
  BY <1>3, <1>a DEF Connect, TypeOK
<1>4. CASE Lose
  BY <1>4, <1>a DEF Lose
<1>5. ASSUME NEW r \in Callers, Refresh(r) PROVE Goal
  <2>1. Busy' = Busy /\ ~News(b)'
    BY <1>5, <1>a, SameStream DEF Refresh, Busy, TypeOK
  <2>. QED BY <1>5, <1>a, <2>1 DEF Refresh, Fresh, RightNow
<1>6. ASSUME NEW r \in Callers, ReceiveSnapshot(r) PROVE Goal
  <2>1. /\ stream # <<>> /\ stream' = Tail(stream) /\ Head(stream).kind = "snapshot"
        /\ snapshot' = [snapshot EXCEPT ![r] = Head(stream).bots]
        /\ todo' = [todo EXCEPT ![r] = Bots]
        /\ phase' = [phase EXCEPT ![r] = "applying"]
        /\ UNCHANGED accounts
    BY <1>6 DEF ReceiveSnapshot, koishi
  <2>2. ~NewsAfter(1, b) /\ ~News(b)' /\ 1 \in 1..Len(stream) /\ Head(stream) = stream[1]
    BY <1>a, <2>1, Taken
  <2>3. Head(stream).bots[b] = StateOf(bots[b])
    <3>1. About(1, b) /\ Says(1, b) = Head(stream).bots[b]
      BY <2>1, <2>2 DEF About, Says
    <3>. QED BY <1>a, <2>2, <3>1 DEF LastIsNow
  <2>4. ASSUME NEW q \in Busy', b \in todo'[q] PROVE snapshot'[q][b] = StateOf(bots'[b])
    <3>1. CASE q = r
      BY <1>a, <2>1, <2>3, <3>1 DEF TypeOK
    <3>2. CASE q # r
      BY <1>a, <2>1, <2>4, <3>2 DEF Busy, TypeOK
    <3>. QED BY <3>1, <3>2
  <2>5. \A q \in Callers : b \in todo[q] => b \in todo'[q]
    BY <1>a, <2>1 DEF TypeOK
  <2>. QED BY <1>a, <2>1, <2>2, <2>4, <2>5 DEF Fresh, RightNow
<1>7. CASE ReceiveEvent
  <2>1. /\ stream # <<>> /\ stream' = Tail(stream) /\ Head(stream).kind = "event"
        /\ UNCHANGED <<phase, snapshot, todo>>
    BY <1>7 DEF ReceiveEvent, callers
  <2>2. ~News(b)' /\ Head(stream).bot # b
    BY <1>a, <2>1, Taken
  <2>3. accounts'[b] = accounts[b]
    BY <1>7, <1>a, <2>2 DEF ReceiveEvent, TypeOK
  <2>. QED BY <1>a, <2>1, <2>2, <2>3 DEF Fresh, RightNow, Busy
<1>8. CASE Shake
  BY <1>8, <1>a, <1>b, SameStream DEF Shake
<1>9. ASSUME NEW r \in Callers, Apply(r) PROVE Goal
  <2>1. r \in Busy /\ UNCHANGED snapshot /\ ~News(b)'
    BY <1>9, <1>a, SameStream DEF Apply, Busy
  <2>2. CASE Replaces(r) = {}
    <3>1. phase' = [phase EXCEPT ![r] = "idle"] /\ UNCHANGED <<todo, accounts>>
      BY <1>9, <2>2 DEF Apply
    <3>2. Busy' \subseteq Busy
      BY <1>a, <3>1 DEF Busy, TypeOK
    <3>. QED BY <1>a, <2>1, <3>1, <3>2 DEF Fresh, RightNow
  <2>3. CASE Replaces(r) # {}
    <3>1. PICK c \in todo[r] : /\ accounts' = [accounts EXCEPT ![c] = snapshot[r][c]]
                               /\ todo' = [todo EXCEPT ![r] = @ \ {c}]
                               /\ phase' = phase
      BY <1>9, <2>3 DEF Apply, Replaces
    <3>2. Busy' = Busy /\ \A q \in Callers : todo'[q] = IF q = r THEN todo[r] \ {c} ELSE todo[q]
      BY <1>a, <3>1 DEF Busy, TypeOK
    <3>3. Fresh(b)'
      BY <1>a, <2>1, <3>2 DEF Fresh, Busy
    <3>4. CASE c = b
      <4>1. RightNow(b)'
        BY <1>a, <2>1, <3>1, <3>4 DEF RightNow, TypeOK
      <4>. QED BY <3>3, <4>1
    <3>5. CASE c # b
      <4>1. accounts'[b] = accounts[b]
        BY <1>a, <3>1, <3>5 DEF TypeOK
      <4>2. \A q \in Callers : b \in todo[q] => b \in todo'[q]
        BY <3>2, <3>5
      <4>. QED BY <1>a, <3>3, <4>1, <4>2 DEF RightNow
    <3>. QED BY <3>4, <3>5
  <2>. QED BY <2>2, <2>3
<1>10. CASE UNCHANGED vars
  BY <1>10, <1>a, <1>b, SameStream DEF vars
<1>. QED BY <1>1, <1>2, <1>3, <1>4, <1>5, <1>6, <1>7, <1>8, <1>9, <1>10 DEF Next

\* However wrong the cache is, of a bot at rest the next refresh to be applied
\* repairs it, and nothing that is still under way undoes that: the safety half
\* of Heals.
THEOREM RefreshRepairs == Spec => [][Repairs]_vars
<1>. QED BY RepairStep, DirectoryInductive, PTL DEF Spec
=============================================================================

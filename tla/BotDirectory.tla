----------------------------- MODULE BotDirectory -----------------------------
(***************************************************************************)
(* The bots of Koishi and the JVM's cache of them (accounts of              *)
(* DbkKoishiGateway): snapshots answer session.hello and bots.list,         *)
(* bot.changed events follow each change, and both come down one stream.    *)
(* The WebSocket thread of the JVM applies events at once; a snapshot it    *)
(* hands to the coroutine that asked, which applies it in its own time, key *)
(* by key.  A call that fails changes nothing, as if it had not been made.  *)
(* A definition directly above the one it resembles is a slip that the     *)
(* runs have to catch; nothing uses it.                                    *)
(***************************************************************************)
EXTENDS Naturals, Sequences

CONSTANTS
  Bots,            \* the bots, each known by its botKey
  Callers,         \* the coroutines that handshake or run refreshBots
  MaxChanges,      \* bound: changes among the bots
  MaxConnections   \* bound: connections

ASSUME BoundsAssumption == MaxChanges \in Nat /\ MaxConnections \in Nat

VARIABLES
  bots, changes,       \* Koishi: ctx.bots, and how often they have changed
  up, connections,     \* the connection is open, and how many there were
  peerShook, shook,    \* handshook of Koishi's session and of the JVM's
  asking,              \* the callers whose CALL has not been answered
  stream,              \* frames on their way to the JVM
  phase, snapshot, todo, \* of each caller: idle, asked or applying; what and to which keys
  hello,               \* the caller that handshakes on this connection, or no one
  accounts,            \* the cache
  overtaken            \* history: a snapshot was, or may be, applied after what came later

koishi == <<bots, changes, peerShook, asking>>
callers == <<phase, snapshot, todo, hello>>
vars == <<bots, changes, up, connections, peerShook, shook, asking, stream,
          phase, snapshot, todo, hello, accounts, overtaken>>

\* "CONNECT" stands for RECONNECT and OFFLINE as well: statuses that may not send.
Statuses == {"absent", "ONLINE", "CONNECT"}
States == {"absent", "READY", "CONNECTING", "UNAVAILABLE"}
NoOne == "no one"
ASSUME CallersAssumption == NoOne \notin Callers

Init ==
  /\ bots \in [Bots -> Statuses] /\ changes = 0
  /\ up = FALSE /\ connections = 0
  /\ peerShook = FALSE /\ shook = FALSE
  /\ asking = {} /\ stream = <<>>
  /\ phase = [r \in Callers |-> "idle"]
  /\ snapshot = [r \in Callers |-> [b \in Bots |-> "absent"]]
  /\ todo = [r \in Callers |-> {}]
  /\ hello = NoOne
  /\ accounts = [b \in Bots |-> "absent"]
  /\ overtaken = FALSE

Busy == {r \in Callers : phase[r] = "applying"}

-----------------------------------------------------------------------------
(* Koishi                                                                   *)

\* toDbkBotStatus, and toRouteState on the other side
StatusAsItIs(status) == status
IsActive(status) == IF status = "absent" THEN "absent" ELSE "READY"
StateOf(status) ==
  IF status = "absent" THEN "absent" ELSE IF status = "ONLINE" THEN "READY" ELSE "CONNECTING"

\* A bot comes, goes or changes its status: watchBots emits bot.changed, which
\* a session that has not been greeted drops.
Change(b) ==
  /\ changes < MaxChanges
  /\ changes' = changes + 1
  /\ \E status \in Statuses \ {bots[b]} :
       /\ bots' = [bots EXCEPT ![b] = status]
       /\ stream' = IF up /\ peerShook
                    THEN Append(stream, [kind |-> "event", bot |-> b, state |-> StateOf(status)])
                    ELSE stream
  /\ UNCHANGED <<up, connections, peerShook, shook, asking, callers, accounts, overtaken>>

\* session.hello and bots.list: listBots as it is now
Answer(r) ==
  /\ up /\ r \in asking
  /\ asking' = asking \ {r}
  /\ peerShook' = TRUE
  /\ stream' = Append(stream, [kind |-> "snapshot", for |-> r,
                               bots |-> [b \in Bots |-> StateOf(bots[b])]])
  /\ UNCHANGED <<bots, changes, up, connections, shook, callers, accounts, overtaken>>

-----------------------------------------------------------------------------
(* The JVM's side of the connection                                         *)

\* A connection opens, perhaps in the place of another: the calls of that one
\* fail, and a caller handshakes on this one.
Connect(r) ==
  /\ connections < MaxConnections /\ phase[r] # "applying"
  /\ connections' = connections + 1
  /\ up' = TRUE /\ shook' = FALSE /\ peerShook' = FALSE
  /\ stream' = <<>> /\ asking' = {r} /\ hello' = r
  /\ phase' = [q \in Callers |-> IF q = r THEN "asked"
                                 ELSE IF phase[q] = "asked" THEN "idle" ELSE phase[q]]
  /\ overtaken' = (overtaken \/ Busy # {})
  /\ UNCHANGED <<bots, changes, snapshot, todo, accounts>>

\* onClose of the current connection, with markAccountsUnavailable
Lose ==
  /\ up /\ up' = FALSE
  /\ shook' = FALSE /\ peerShook' = FALSE
  /\ stream' = <<>> /\ asking' = {} /\ hello' = NoOne
  /\ phase' = [q \in Callers |-> IF phase[q] = "asked" THEN "idle" ELSE phase[q]]
  /\ accounts' = [b \in Bots |-> IF accounts[b] = "absent" THEN "absent" ELSE "UNAVAILABLE"]
  /\ overtaken' = (overtaken \/ Busy # {})
  /\ UNCHANGED <<bots, changes, connections, snapshot, todo>>

\* refreshBots
Refresh(r) ==
  /\ up /\ shook /\ phase[r] = "idle"
  /\ phase' = [phase EXCEPT ![r] = "asked"]
  /\ asking' = asking \cup {r}
  /\ UNCHANGED <<bots, changes, up, connections, peerShook, shook, stream, snapshot, todo,
                 hello, accounts, overtaken>>

\* handle: an answer completes the deferred of its caller
ReceiveSnapshot(r) ==
  /\ stream # <<>>
  /\ LET f == Head(stream) IN
       /\ f.kind = "snapshot" /\ f.for = r
       /\ snapshot' = [snapshot EXCEPT ![r] = f.bots]
       /\ todo' = [todo EXCEPT ![r] = Bots]
       /\ phase' = [phase EXCEPT ![r] = "applying"]
  /\ stream' = Tail(stream)
  /\ UNCHANGED <<koishi, up, connections, shook, hello, accounts, overtaken>>

\* handle: an event is dropped before the handshake is done, and otherwise
\* handleBotChanged puts or removes its bot
ReceiveEvent ==
  /\ stream # <<>> /\ Head(stream).kind = "event"
  /\ accounts' = IF ~shook THEN accounts
                 ELSE [accounts EXCEPT ![Head(stream).bot] = Head(stream).state]
  /\ overtaken' = (overtaken \/ ~shook \/ Busy # {})
  /\ stream' = Tail(stream)
  /\ UNCHANGED <<koishi, up, connections, shook, callers>>

\* hello() returns: the handshake is done before the snapshot is applied
Shake ==
  /\ hello # NoOne /\ phase[hello] = "applying"
  /\ shook' = TRUE /\ hello' = NoOne
  /\ UNCHANGED <<koishi, up, connections, stream, phase, snapshot, todo, accounts, overtaken>>

KeepsTheRest(r) == {b \in todo[r] : snapshot[r][b] # "absent"}
Replaces(r) == todo[r]

\* replaceBots, one key at a time: retainAll, and then the puts
Apply(r) ==
  /\ phase[r] = "applying" /\ hello # r
  /\ IF Replaces(r) = {}
     THEN /\ phase' = [phase EXCEPT ![r] = "idle"]
          /\ UNCHANGED <<todo, accounts>>
     ELSE /\ \E b \in Replaces(r) :
               /\ snapshot[r][b] = "absent" \/ \A d \in Replaces(r) : snapshot[r][d] # "absent"
               /\ accounts' = [accounts EXCEPT ![b] = snapshot[r][b]]
               /\ todo' = [todo EXCEPT ![r] = @ \ {b}]
          /\ UNCHANGED phase
  /\ UNCHANGED <<koishi, up, connections, shook, stream, snapshot, hello, overtaken>>

-----------------------------------------------------------------------------
Next ==
  \/ \E b \in Bots : Change(b)
  \/ \E r \in Callers :
       Answer(r) \/ Connect(r) \/ Refresh(r) \/ ReceiveSnapshot(r) \/ Apply(r)
  \/ Lose \/ ReceiveEvent \/ Shake

Spec == Init /\ [][Next]_vars

\* Frames arrive, coroutines go on, and the core lists the routes (and with
\* them the bots) again and again.
FairSpec ==
  /\ Spec
  /\ \A r \in Callers :
       /\ WF_vars(Answer(r)) /\ WF_vars(ReceiveSnapshot(r)) /\ WF_vars(Apply(r))
       /\ WF_vars(Refresh(r))
  /\ WF_vars(ReceiveEvent) /\ WF_vars(Shake)

-----------------------------------------------------------------------------
\* Every variable keeps its type.
TypeOK ==
  /\ bots \in [Bots -> Statuses] /\ changes \in 0..MaxChanges
  /\ up \in BOOLEAN /\ connections \in 0..MaxConnections
  /\ peerShook \in BOOLEAN /\ shook \in BOOLEAN
  /\ asking \subseteq Callers
  /\ stream \in Seq([kind : {"event"}, bot : Bots, state : States]
                    \cup [kind : {"snapshot"}, for : Callers, bots : [Bots -> States]])
  /\ phase \in [Callers -> {"idle", "asked", "applying"}]
  /\ snapshot \in [Callers -> [Bots -> States]]
  /\ todo \in [Callers -> SUBSET Bots]
  /\ hello \in Callers \cup {NoOne}
  /\ accounts \in [Bots -> States]
  /\ overtaken \in BOOLEAN

Quiet == stream = <<>> /\ \A r \in Callers : phase[r] = "idle"

Exact ==
  \A b \in Bots :
    /\ accounts[b] = "absent" <=> bots[b] = "absent"
    /\ accounts[b] = "READY" <=> bots[b] = "ONLINE"

\* When nothing is on its way and no snapshot was overtaken, the cache is
\* exact: connected it holds the bots there are and READY are those that are
\* online, disconnected none is READY.
ExactUnlessOvertaken ==
  Quiet /\ ~overtaken => IF up THEN Exact ELSE \A b \in Bots : accounts[b] # "READY"

\* Whatever went wrong between snapshots and events, the cache becomes right
\* again once the bots and the connection rest.
Heals == []<>(~up) \/ <>[]Exact
=============================================================================

# Verification of the DBK connection between Dynamic Bot and Koishi

This directory holds TLA+ models of the two plugins of this repository, the
TLC configurations that check them on small instances, and theorems that
TLAPS proves for every value of the constants. `PROJECT.json` lists the runs,
the mutants, the source lines each definition stands for, the findings, the
hazards and the theorems.

## The system

Dynamic Bot (the *core*, not in this repository) loads a JVM plugin (`src/jvm`,
Kotlin). The plugin keeps one WebSocket to a Koishi plugin (`src/koishi`,
TypeScript), which drives the chat bots Koishi has. Over the socket both speak
DBK: protobuf frames CALL, OK, ERROR, EVENT, PING and PONG (`src/proto`). The
socket may be opened by either side: *forward* means the JVM dials, *reverse*
means Koishi dials.

| Component | State it keeps | Operations | What makes it correct |
|---|---|---|---|
| **DBK session, JVM** (`DbkSession.kt`) | `closed`, `handshook`, `pending` map, ids, `sendMutex`, heartbeat job | `call`, `hello`, `onBinary`/`handle`, `close`, `fail` | an answer ends the call it belongs to; nothing stays in `pending`; what a caller is told is true of its request; closing wakes the waiting calls |
| **Transports, JVM** (`ForwardWsKoishiGateway.kt`, `ReverseWsKoishiGateway.kt`) | the client or the server and its active connection, redial job, attempts, suspension | `openClient`, `onOpen`, `onClose`, `scheduleReconnect`, `stopTransport` | one session in use; redialling never stops and never doubles; nothing survives `close()` |
| **Gateway client, JVM** (`DbkKoishiGateway.kt`) | `session`, `closing`, the account cache | `attachSession`, `handshake`, `sendMessage`, `recallMessage`, `listTargets`, `getTarget`, `refreshBots`, `close` | the outcome told is true of the platform; the cache is what Koishi has |
| **Message sink plugin, JVM** (`KoishiGatewayPlugin.kt`) | running or not, gateway, publishing scope | `sendMessage`, `recallMessage`, `listMessageTargets`, `resolveMessageTarget`, `listRoutes`, life cycle | a message is refused before anything is sent or handed on once; no recall is faked; candidates have a route of their own account and keep their kind |
| **Outgoing mapper, JVM** (`KoishiOutgoingMapper.kt`) | none | `toSendUnits` | something is sent of every message, quoted where it is a reply |
| **Incoming mapper, config, codecs** | none | pure functions | round trips, totality |
| **DBK session, Koishi** (`session.ts`, `socket.ts`) | handshake flag, closed flag, send queue | `handleCall`, `emit`, `fail`, `close` | one answer per CALL; nothing but hello before the handshake |
| **DBK gateway, Koishi** (`gateway.ts`) | socket, session, reconnect timer, attempts, suspension | `start*`, `attach`, `onReverseClosed`, `scheduleReconnect`, `emit`, `stop` | one live session, the current one; one dial under way; a refused gateway stays quiet |
| **message.send** (`send.ts`) | one request's receipts, failures, `quoteUsed`, `aborted` | render, `bot.sendMessage`, finalize, timer | the one status reported is true of all parts and stays true |
| **message.recall** (`recall.ts`) | none | one adapter call against a timer | no success without one |
| **bots.list** (`bots.ts`, `handlers.ts`) | none | status, features | the snapshot is what `ctx.bots` has |
| **targets.list** (`list-targets.ts`) | one request's pages and flags | paginate, walk, merge | ends; says when it is not whole |
| **targets.get** (`get-target.ts`) | none | lookups in order | the right bot answers |

**How they interact.** The core calls the plugin from its own coroutines. The
plugin calls the gateway, the gateway the session it holds at that moment, and
the session waits for the WebSocket thread, which handles answers and events.
`close()` may come from the socket, from a session that replaces this one, from
the heartbeat or from the plugin being stopped, and takes no lock that the
others take. In Koishi everything runs on one event loop; handlers suspend at
adapter calls and may end when the connection that asked is gone.

**What is hard.** The interleavings of the JVM's threads; requests that are
carried out after their caller has given up; adapters that deliver after their
timeout or fail after they delivered; the two streams of news about bots;
replaced and redialled connections; lists that never end.
`PROJECT.json` lists the hazards one by one, each at the line where it bites.

## The modules

The modules were written from the inside of the send path outwards, the most
important behaviour first: session, send, their composition, then connections,
the account cache, the lists of targets, and recall and resolving on top.

| Module | Models | Actions and what they stand for |
|---|---|---|
| `Rpc` | *abstract*: what `DbkSession.call` promises | a call begins, its request leaves, the peer answers, it ends as `ok`, `error`, `refused` (never left) or `unknown` |
| `DbkSession` | `DbkSession.kt` | one action per atomic step of one thread: `Enter` … `Leave` are the steps of `call()`; `Receive`, `TakeEntry`, `CompleteReply` those of the WebSocket thread; `BeginClose` … `ClearPending` those of `close()`. Implements `Rpc` (`KeepsContract`) |
| `SendContract` | *abstract*: what a `SendResult` promises | a part is delivered, a status is told; only UNKNOWN leaves open what is delivered later |
| `Outgoing` | `KoishiOutgoingMapper.kt` | operators, no state: the send units of a message, as the jobs `SendMessage` carries out |
| `SendMessage` | `send.ts` | one action per stretch from await to await; `Deliver` is the platform, `TimerFires` the 25 s timer. Implements `SendContract` (`KeepsSendContract`) |
| `Delivery` | the plugin's and the gateway's `sendMessage`, `onStart` and `onStop`, with the sessions as attempts see them and Koishi as `SendContract` describes it | the *composition*: `Try`, `CheckAccount`, `Choose`, `Call`, then `Reply`, `Cut` or `Timeout`; connections attach, shake hands, are lost or replaced; requests are taken up late; the plugin stops and starts again with a new gateway (`StartPlugin`). Implements `SendContract` end to end (`EndToEnd`) |
| `Recall` | `recall.ts` and both `recallMessage` of the JVM, on top of `Delivery` | `Ask` … `HearRecall`, `GiveUpRecall` for the JVM; `TakeUpRecall`, `Deleted`, `RecallTimer` for Koishi; `Delete` is the platform, which may come late |
| `DbkGateway` | `gateway.ts`, `session.ts`, `socket.ts` | one action per turn of the event loop: hellos, CALLs, sockets that open, break and close, dialling, `Stop` |
| `BotDirectory` | `bots.ts`, `watchBots`, the JVM's account cache | `Change`, `Answer`; `ReceiveEvent` at once, `ReceiveSnapshot` handed to a coroutine which `Apply`s it key by key |
| `WsTransport` | both transports, `attachSession`, `handshake`, `close` | WebSocket callbacks, the coroutine of each `onOpen`, the one that redials, and the four steps of `close()` |
| `TargetListing` | `list-targets.ts`, and what `bots.ts` says a bot can do | pages, iterables and errors of an adapter; the walk over guilds, channels and users; the flag |
| `TargetCatalog` | `listMessageTargets` and `listTargets` of the JVM | the two lookups of an account with the cache changing in between |
| `TargetResolve` | `get-target.ts`, `resolveMessageTarget` and `getTarget` of the JVM, on the cache of `TargetCatalog` | `Resolve`, `Hear`, `GiveUp`; `Look` is one lookup, which finds, misses or throws |
| `DbkSessionProofs`, `SendMessageProofs`, `DeliveryProofs` (with `Recall`), `DbkGatewayProofs`, `BotDirectoryProofs`, `WsTransportProofs`, `TargetListingProofs`, `TargetCatalogProofs` (with `TargetResolve`) | – | the proofs |
| `MC…` | – | the instances: sets of calls, requests, adapters and accounts |

**Which module relies on which.** `Recall` extends `Delivery`, and
`TargetResolve` extends `TargetCatalog`: a recall runs over the connections and
restarts of a delivery, a resolving over the cache of a listing. `Delivery`
relies on two facts which other modules establish: an answer belongs to its
request (`DbkSession` implements `Rpc`), and a status is true of the platform
(`SendMessage` implements `SendContract`, for adapters that do not fail after
they delivered). `Outgoing` makes the requests of `SendMessage`'s run.

In each module some definitions stand directly above the one they resemble
(`ForgetAnswered` above `Forget`). They are slips: plausible mistakes in the
same place of the code. Nothing uses them. With the slip in the place of its
original the run has to find its property violated; that shows that the
property depends on the code and not on the shape of the model.

## The runs

| Run | Instance | What it shows |
|---|---|---|
| `session` | the handshake and two calls; 50 047 states | `RepliesMatch`, `NoEntryLeaks`, `HandshakeFirst`, `MissedNeverSent`; `KeepsContract`; and, with no timeout at all, `CloseWakesSentCalls` and `HeartbeatStops`. With timers, `EveryCallEnds` |
| `send` | what the mapper makes of all messages of up to 2 batches of up to 2 contents, with and without a reply, as far as it is 4 jobs or fewer; 325 202 states | `KeepsSendContract`, `NothingBeginsAfterTimeout`, `QuotedOnce`, and `AlwaysAResult` with media and adapters that may hang |
| `send_retry` | adapters that fail after they delivered | *violation* of `RetryIsSafe` |
| `delivery` | 2 parts, 3 attempts, 3 connections, stops and starts, and then a recall; 978 276 states | `NeverTwice`, `EndToEnd`, `RecalledTruly`, `RecallEnds` |
| `delivery_failed` | 1 part, 1 attempt, 1 connection | *violation* of `FailedIsCertain` |
| `recall_stopped` | 1 part, 1 attempt, 1 connection, a recall | *violation* of `RecalledIsGone` |
| `gateway` | 3 sockets, 2 CALL ids, both modes; 97 550 states | `LiveIsCurrent`, `AnsweredOnce`, `OneDialUnderWay`, `SuspendedNeverDials`, `CallsAreAnswered` |
| `bots` | 2 bots, 2 coroutines, 2 changes, 2 connections; 856 351 states | `ExactUnlessOvertaken`, `Heals` |
| `transport` | 3 connections, both modes; 162 450 states | `OneServed`, `OneDialUnderWay`, `NoZombie` |
| `transport_stop` | 2 connections | *violation* of `StopClosesAll` |
| `listing` | 2 bots of 6 shapes, 4 kinds of request; 118 532 states | `CutsAreSaid`, `ListedIsDeclared`, `AlwaysResponds` |
| `catalog` | 4 bots, three of which share a selfId, one of them on qq; 2 changes, a listing or any address to resolve; 356 145 states | `OfOneId`, `NothingOfQq`, `ListedKindStays` |

Each passing run also checks the type invariant of its module.

**Bounds, and why they are enough.**
Three calls are the handshake and two that can be confused with each other.
Four jobs are a run of batches, a forward of two nodes and a run after it, the
shortest message in which a quote can be put in twice; three of them can fail,
time out and be delivered, in every order. Two batches of two contents hold a
forward at the beginning, in the middle or at the end of a batch.
Three attempts and three connections let a request of the first attempt be
taken up while the third is under way, with a connection replaced in between.
Three sockets or connections are one that is replaced, the one that replaces it
and the one that is dialled after both. Two entries in the table of delays and
three attempts reach the end of the table and go past it. `MaxPages` 3 and
`MaxItems` 4 with pages of two are reached in both ways, by pages and by items,
also over two bots. Ids, page counts and item counts stop one past their cap.
Three platforms with one selfId are two that the core may use and qq, so that each
may be found in the place of another; the bot with an id of its own is the one
that is not confused.
The sequence of `bots` reaches every overtaking: two coroutines with a snapshot
each, an event between them, and a connection replaced under both.
The theorems have none of these bounds.

**Deadlock** is not checked where the system may rest: connections and changes
are bounded, a session may be closed, a request may be done. `SendMessage` and
`Delivery` say so with a step of their own and check it.

**Fairness, and why the code justifies it.**
- `session`: a coroutine that can run is resumed, and a thread that has begun
  a handler or `close()` goes on. Nothing makes the peer answer. Timers fire
  only where `EveryCallEnds` asks for it (`TimersFire`): `withTimeout` is in
  every `call()`.
- `send`: the event loop runs what is ready, and the 25 s timer of `send.ts`
  fires. Media and adapters may hang for ever.
- `delivery`: the coroutine of a recall goes on, the timer of its `call()`
  fires, and so does the 25 s timer of `recall.ts`. Neither an answer nor the
  end of `deleteMessage` is assumed.
- `gateway`: closing sockets are closed, dials end, timers fire, and handlers
  end. The last is what the code guarantees for message.send and
  message.recall, which have timers of their own, and what adapters have to
  provide for the other methods.
- `bots`: frames arrive, coroutines go on, and the core lists the routes, and
  with them the bots, again and again. Without the last nothing repairs the
  cache.
- `transport`: a hello ends (15 s), coroutines go on, Koishi's heartbeat gives
  up a peer that does not answer once it has been greeted, and closing
  sockets are closed.
- `listing`: every call of an adapter ends. `list-targets.ts` has no timer; a
  call that hangs keeps the request waiting for the JVM's own timeout.

## Findings

Four runs end in a violation on purpose; each states what a document or the
code says of itself.

1. `delivery_failed`: a connection that closes under a message.send is reported
   as a definite failure (`toSendOutcome`), although Koishi may go on and
   deliver the message. `docs/protocol.md` reserves UNKNOWN for a missing
   answer. `EndToEnd` therefore counts FAILED as UNKNOWN. No message is sent
   twice for it: such a failure is not retryable.
2. `send_retry`: an adapter that delivers and then fails with ECONNRESET or a
   5xx gets a *retryable* failure, and a retry sends twice
   (`docs/decisions.md`, ADR-8). The other properties of `SendMessage`, and
   `Delivery`, are about adapters that do not do this (`ambiguous` is FALSE).
3. `transport_stop`: a redial that is past its check when `close()` runs leaves
   an open connection that nobody owns.
4. `recall_stopped`: `onStop` puts a gateway in place that does nothing. A recall
   that has passed its check of the account by then calls that gateway's
   `recallMessage`, which returns, and the plugin tells the core that the message
   is recalled (`docs/protocol.md:70`: do not fake success). It is the only way to
   a faked recall: `RecalledTruly` of `delivery`, and the theorem
   `OnlyTheStoppedFakeIt`.

Seen while modelling, and covered by the models, without a run of their own:

- **Snapshots and events.** A `bots.list` snapshot that is applied after a newer
  `bot.changed` brings a removed bot back, or loses a new one, until the next
  refresh. This is what `overtaken` records; `Heals` says that it is repaired.
- **Order of attaching.** Two reverse connections whose coroutines reach
  `attachSession` in the wrong order: the older closes the session of the newer.
  `NoZombie` says that the connection is then closed too, after which Koishi
  dials again.
- **Twins.** `listTargets` of the JVM looks its account up by the id alone
  (`DbkKoishiGateway.kt:138`), although a bot is known by platform *and* selfId
  (`.cursor/rules/protocol.mdc:13`). Of two bots with one selfId on two platforms
  the first answers twice: its targets are offered with the route of the other,
  whose own targets never are. `OfOneId` says that nothing goes further astray,
  and `NothingOfQq` that qq stays out, because Koishi skips its bots, too.
- **Types of channels.** `targets.list` drops a voice channel by either number,
  1 of old Koishi and 3 of today (`list-targets.ts:13`), and every type it does
  not know. `targets.get` takes 1 for a direct chat and resolves it as a USER, and
  an unknown type as a CHANNEL (`get-target.ts:170-183`), although
  `docs/protocol.md:50` has no voice channel be a target to send to.
  `ListedKindStays` leaves these two out, by name, and is about all the others.
- **Recalls that are not certain.** A recall that Koishi answers with UNKNOWN,
  or that times out, reaches the core as failed; the message may yet go.
- **One receipt of several.** A message of several parts that is SENT yields
  one receipt, the first. Recalling it leaves the other parts; the models treat
  the recall as that of the one message it names.
- **Quotes.** The JVM puts the quote in again in every run of batches, so a
  reply around a forward shows it before and behind. `QuotedOnce` says that it
  is never shown again otherwise. An empty message gets no quote from the JVM,
  but one from the request, put in by Koishi.
- **User lists.** A bot that can list one of its two user lists and is refused
  the other is reported as complete. `cut` does not count this.
- **Channels that are not there.** A bot that declares channels and cannot list
  them has its guilds listed as GROUPs, which it does not declare: the plugin
  lists them and then refuses to send to them (`isExcludedTarget`), and the
  list is not flagged. `ListedIsDeclared` leaves these bots out.
- **Ends of lists.** An empty page that names a next one, and a page that leads
  back to one seen, end the list as if it were whole.
- **Recall as declared and as done.** `canRecall` of `bots.ts`, which bots.list
  declares, and `botCanRecall` of `recall.ts` differ: a bot may declare a recall
  that is then refused.
- **Inbound messages.** `message.created` is documented (`docs/architecture.md`)
  and handled by the JVM, but no code of the Koishi plugin emits it.
- **Stop against start.** Nothing in `KoishiGatewayPlugin.kt` keeps `onStart`
  from running while `onStop` has not ended. `Delivery` assumes of the core that
  it calls them one after the other.

## What is proved

Every safety invariant and every refinement that a passing run checks, and the
action properties, are theorems: they hold for every value of the constants.
The second table has what is proved beyond the runs.

| Module | Theorems | Say |
|---|---|---|
| `DbkSessionProofs` | `TypeCorrect`, `RepliesAlwaysMatch`, `EntriesNeverLeak`, `HandshakeAlwaysFirst`, `MissedAreNeverSent` | the type invariant and the four safety invariants of `DbkSession`, for any number of calls |
| | `SessionKeepsContract` | `DbkSession` implements `Rpc` |
| `SendMessageProofs` | `SendTypeCorrect`, `QuoteAsAsked`, `SilentAfterTimeout` | `TypeOK`, `QuotedOnce`, `NothingBeginsAfterTimeout`, for requests of any number of jobs |
| | `SendKeepsContract` | `SendMessage` implements `SendContract` |
| `DeliveryProofs` | `DeliveryTypeCorrect`, `NoPartTwice`, `DeliveryKeepsContract` | `NeverTwice`, and `Delivery` implements `SendContract`, for any message, attempts, connections and restarts |
| | `RecallTypeCorrect`, `OnlyTheStoppedFakeIt`, `RecallIsDelivery` | `RecalledTruly`, the exact condition of finding 4; and what is proved of `Delivery` holds when its messages are recalled |
| `DbkGatewayProofs` | `GatewayTypeCorrect`, `OneServedAlways`, `AnsweredAtMostOnce`, `OneDialAlways`, `SuspendedStaysQuiet` | `LiveIsCurrent`, `AnsweredOnce`, `OneDialUnderWay`, `SuspendedNeverDials`, for any number of sockets and CALLs |
| `BotDirectoryProofs` | `DirectoryTypeCorrect`, `ExactWhenQuiet` | `ExactUnlessOvertaken`, for any bots, coroutines, changes and connections |
| `WsTransportProofs` | `TransportTypeCorrect`, `OneSessionAlways`, `OneRedialAlways` | `OneServed`, `OneDialUnderWay`, for any number of connections |
| `TargetListingProofs` | `ListingTypeCorrect`, `CutsAlwaysSaid`, `ListedAlwaysDeclared` | `CutsAreSaid`, `ListedIsDeclared`, for all adapters and caps of any size |
| `TargetCatalogProofs` | `OnlyTwinsAreConfused`, `NothingOfQqEver` | `OfOneId`, `NothingOfQq`, for any accounts, those that share a selfId included |
| | `CatalogTypeCorrect`, `ListedKindAlwaysStays`, `ResolveIsCatalog` | `ListedKindStays`, for any accounts; and what is proved of a listing holds when addresses are resolved |

The rest is not a property of any run. There are four kinds of it:
- *safety halves* of the liveness properties: that whatever is begun gets
  shorter with every step, that somebody is always there to end it, or that what
  is right stays right. TLC shows the other half, that the steps are taken;
- *conditions* of the findings: what still holds of the code where a run shows a
  violation, and what has to happen for it;
- *joints* between modules;
- orders and exclusions that hold at any size.

| Module | Theorem | Says |
|---|---|---|
| `DbkSessionProofs` | `CallsOnlyAdvance` | a call has eight steps at most and goes none of them back (half of `EveryCallEnds`); once it has returned its outcome stays |
| | `OneHeartbeat` | a heartbeat that has ended never starts again, though hello may start one behind `close()` (half of `HeartbeatStops`) |
| | `OutcomesStayTrue` | what a call was told stays true of its request: a refused one never goes out later |
| | `ClosedAnswersNobody` | what is in `pending` after `close()` has sent nothing, and no late answer finds it |
| `SendMessageProofs` | `WorkComesToAnEnd` | a request has boundedly many steps, and without a result something under way that brings one (half of `AlwaysAResult`) |
| | `GoodStatusAlwaysTrue` | with any adapter OK means that all parts are there and PARTIAL that some are; what RETRYABLE says takes an adapter that does not fail after it delivered (finding 2) |
| | `PartsInOrder`, `AnswerIsFinal` | parts are handed over in order and once; the first result is the only one |
| `DeliveryProofs` | `AttemptsKeepContract`, `ExecutionsAreFree` | the joint with `SendMessage`, see below |
| | `FailureIsFinal` | FAILED is certain, and for good, unless a connection was closed (finding 1) |
| | `OneAttemptUnderWay` | Koishi never has two requests of one message to work on |
| | `RecallFollowsReport` | a message is recalled after it was reported as sent, and never attempted again |
| | `RecallTakesElevenSteps` | a recall has eleven steps at most (half of `RecallEnds`) |
| `DbkGatewayProofs` | `OneConnectionAlways` | one socket at most is connecting or open, and an open one is served |
| | `StopLeavesNothing` | `stop()` leaves no socket and no timer, unlike the JVM's (finding 3) |
| | `SessionsEndForGood` | a session that has ended, and its socket, never come back |
| | `HandlersEndAnswered` | a handler ends with its CALL answered or its session closed (half of `CallsAreAnswered`) |
| `WsTransportProofs` | `OneConnectionOpen` | no connection but the current one is connecting or open |
| | `StopClosesTheRest` | a stopped server has no connection, a stopped client at most a redial's (finding 3) |
| | `NobodyElseLeaks` | every other open connection has somebody who will close it (half of `NoZombie`) |
| `BotDirectoryProofs` | `RefreshRepairs` | of a bot at rest the next snapshot that is applied repairs the cache, and nothing under way undoes it (half of `Heals`) |
| `TargetListingProofs` | `ListingGetsShorter`, `ShorterEnds` | every step of a listing leaves less to do, in a well-founded order (half of `AlwaysResponds`) |
| `TargetCatalogProofs` | `CatalogWorkGoesOn` | a listing asks for each account once and keeps what it has; an address takes four calls of an adapter at most, one without a kind seven |

**Assumptions.** The bounds are naturals, of any size (`MaxAssumption`,
`BoundsAssumption`); the handshake is one of the calls (`HelloAssumption`);
requests are sequences of jobs (`RequestsAssumption`); adapters are of
`AnyBot`, which has every combination of methods and features
(`AdaptersAssumption`); the mark for no coroutine is not a coroutine
(`CallersAssumption`).

**`DbkSession`.** None of its invariants is inductive. `IInv` adds what the code
relies on without saying it:
- `IdsDistinct`: no two calls hold one id, since every id is below `nextId`.
- `Ownership`: whatever carries an id (an entry, a frame, an answer) carries
  that of the call it is for. With `IdsDistinct` this gives `RepliesMatch`.
- `ShakeInv`: a call other than hello that has an id got it after hello
  returned. This is why `HandshakeFirst` outlives `handshook` being reset.
- `TrackInv`: a call whose frame is out and that nothing has completed is still
  in reach of the thread that will complete it: its entry is in the hands of
  the WebSocket thread, or in `pending` and not yet passed by the sweep. This
  gives `MissedNeverSent`. It holds because `sendFrame` looks at `closed` once
  more, under the mutex, after the call has been registered.

The refinement adds `AnswerInv` (answers on their way are the peer's) and
`OutcomeInv` (a call refused or thrown has sent nothing). `ClosedAnswersNobody`
follows from `LateUnsent`: what registers behind the sweep finds `closed` set
when it looks again under the mutex.

**`SendMessage`.** `SInv` ties what the handler has counted (receipts, failures,
what is under way) to what the platform has: a part counted as delivered is
delivered, one that failed is not and never will be, and only the part in the
adapter's hands when the timer fires is open. That is the part which makes the
status UNKNOWN, the only status that leaves something open.

**`Delivery` and `Recall`.** `DInv` says that all attempts before the present one
are *dead*, having nothing on the platform and never getting anything, and all
after it untouched (`Attempts`); that what Koishi said of an attempt is true of
it (`Answers`); and that the core was told what Koishi said (`Heard`).
`NeverTwice` alone is not inductive: it does not say that an attempt which is
retried can no longer deliver. That follows from RETRYABLE being told only by
Koishi, of a request it is done with, or by the plugin, of one that was never
sent. For a recall `Honest` says the same of
its one answer, and `InTurn` that its request leaves only after the gateway has been
chosen, so that a faked recall is one that Koishi was not asked for.

`Delivery` has `SendContract` in the place of Koishi. It assumes neither more nor
less than that: by `AttemptsKeepContract` each attempt by itself is a run of the
contract (an RPC error says what a failure says), and by `ExecutionsAreFree`
every step that the contract allows an execution is a step of `Delivery` at that
moment, whatever has become of the connection. With `SendKeepsContract`, what is
proved of `Delivery` therefore holds with the handler of `send.ts` in it, and
adapters that do not fail after they delivered. `FailureIsFinal` needs that a
call is on a session that has shaken hands (`OnOnce`), so that with no connection
closed a failure comes from Koishi or from before the request.

**`DbkGateway` and `WsTransport`.** The number of things under way is not
inductive by itself. `TimerAlone` says what they are: the timer and nothing
else, or one socket and no timer; with `Fields` (the gateway's socket and
session go together) it follows that a close event of an old socket can no
longer come where another dial would begin. On the JVM's side `OneUnderWay`
says that what is under way is the *current* connection or one redial, so that
the guard `current = c` of the close callback lets exactly one redial begin.
`OneServed` needs no more than that a connection which has not begun has no
coroutine (`Unborn`).

What is open, and what `stop()` leaves open, takes invariants of their own, both
called `EndInv`. In Koishi's an open socket has a live session (`OpenIsServed`)
and a gateway that dials has one socket, one that is dialled none that still
connects (`ReverseAlone`). In the JVM's only the current connection is connecting
or open (`CurrentOnly`), a redial runs only where that one is closed
(`RedialAlone`), and an open connection is watched by its coroutine or by
Koishi's heartbeat, unless it is the one that leaks (`Watch`).

**`BotDirectory`.** `LastIsNow`: the last frame in the stream that is about a bot
says what the bot is now. `Current`: as long as nothing was overtaken, of a bot
with no news on its way every snapshot being applied says what it is now, and
so does the cache where nothing is left to apply. This holds because Koishi
counts itself greeted before the snapshot leaves, so that every change behind
it is told. `RefreshRepairs` is about the rest, when something was overtaken and
`Current` says nothing: `LastIsNow` is enough for it.

**`TargetListing`.** `CutInv` follows what was lost on its way into the response:
from the page into the bot's flag, or through what the two user lists have
shown. `GuildsInv` says whose guilds they are. What a listing has left to do is
counted in bots, stages of the bot at hand, guilds to look into and what the
caps still allow the page at hand, compared in this order: turning a page takes
from its cap, the next guild opens a page with caps of its own, and so on up.
That this order is well-founded follows from the library's theorems on the
naturals and on pairs.

**`TargetCatalog` and `TargetResolve`.** `SameId`: the account that Koishi is asked
for has the id of the one at hand, which is one of those the plugin picked and
therefore not of qq. What Koishi answers for is not of qq either, since it skips
those bots; so both the address and the route of a candidate stay clear of it,
although the lookup between them does not. `RightInv`: what any lookup finds is
right for the kind it is made for, so that it does not matter which of them fail;
an address without a kind goes through the lookups of three kinds, one after the
other. `AfterMiss` counts what a miss still leaves of that chain.

**Only model-checked.** The liveness properties, which are beyond TLAPS here:
`EveryCallEnds`, `CloseWakesSentCalls`, `HeartbeatStops`, `AlwaysAResult`,
`RecallEnds`, `CallsAreAnswered`, `Heals`, `NoZombie`, `AlwaysResponds`. TLAPS
cannot reason about ENABLED, on which fairness rests. The table above has the
half of each that takes no fairness; of `CloseWakesSentCalls` that half is
`MissedNeverSent`. And `Outgoing`, whose folds are recursive: what they compute
would take an induction over the message, and the library's induction theorems
take an operator, which no installed prover can instantiate. The proofs of
`SendMessage` are about all requests, whether the mapper makes them or not.

## What is not modelled

- **Inbound messages** (`KoishiIncomingMapper.kt`, the publishing scope): the
  Koishi plugin of this version emits none.
- **PING and PONG frames**, but for their effect: a heartbeat that finds its peer
  silent. Frame contents, sequence numbers and protobuf encoding.
- **The WebSocket libraries** but for their callbacks. Closing a WebSocket is taken
  to end it in a close callback, also while it is still connecting (`Shut`).
- **Cancellation** of a caller's coroutine other than by its timeout.
- **What only formats or picks**: `avatar.ts`, `version.ts`, log lines, names;
  the validation of settings (`KoishiConfig.kt`), which has no state.
- **Merging**: the target that several bots see, and the addresses several
  accounts share, become one entry; hidden bots are left out.
- **Features** of a bot that only the core reads: message.recall,
  message.forward, mention.all.
- **targets.get for any bot**: the search over all bots; the JVM always names one.
- **Two calls at once on one plugin**: `Delivery` follows one message and its
  recall; calls share the session only, and `DbkSession` has several.

## What is left

1. Time: the two levels of timeouts (25 s in Koishi, 30 s on the JVM) and the
   heartbeats as clocks. The models let any timer fire at any time, which
   includes every order the real ones can have.
2. Inbound messages, once the Koishi plugin emits them, against `onStop`.
3. The merging of targets that several bots see, against a reference definition.

------------------------- MODULE TargetCatalogProofs -------------------------
(* What holds of TargetCatalog and TargetResolve for any accounts, those that *)
(* share a selfId included, any targets and any number of changes of the      *)
(* cache, whichever lookups fail.                                             *)
EXTENDS TargetResolve, TLAPS

\* Nothing is at hand before the listing begins.
Idle == stage = "idle" => for = NoOne /\ candidates = {}

\* Each step keeps the types.
LEMMA CatalogTypeStep == TypeOK /\ Idle /\ [Next]_vars => (TypeOK /\ Idle)'
<1> SUFFICES ASSUME TypeOK, Idle, [Next]_vars PROVE (TypeOK /\ Idle)'
  OBVIOUS
<1>1. ASSUME NEW a \in Accounts, NEW state \in {"absent", "READY", "UNAVAILABLE"},
             CacheChanges(a, state)
      PROVE  (TypeOK /\ Idle)'
  BY <1>1, BoundsAssumption DEF TypeOK, Idle, CacheChanges, caller
<1>2. CASE ConnectionChanges
  BY <1>2, BoundsAssumption DEF TypeOK, Idle, ConnectionChanges, Skip, caller
<1>3. CASE Begin
  BY <1>3 DEF TypeOK, Idle, Begin, cacheVars
<1>4. CASE Finish
  BY <1>4 DEF TypeOK, Idle, Finish, cacheVars
<1>5. CASE Fails
  BY <1>5 DEF TypeOK, Idle, Fails, Skip, cacheVars
<1>6. ASSUME NEW a \in Accounts, AskFor(a) PROVE (TypeOK /\ Idle)'
  BY <1>6 DEF TypeOK, Idle, AskFor, Skip, Cached, cacheVars, caller
<1>7. ASSUME NEW targets \in SUBSET Targets, Replies(targets) PROVE (TypeOK /\ Idle)'
  BY <1>7 DEF TypeOK, Idle, Replies, cacheVars
<1>8. CASE UNCHANGED vars
  BY <1>8 DEF TypeOK, Idle, vars
<1>. QED BY <1>1, <1>2, <1>3, <1>4, <1>5, <1>6, <1>7, <1>8 DEF Next

-----------------------------------------------------------------------------
(* Two lookups of one account, and what they may confuse                     *)

\* The account that Koishi is asked for has the id of the one at hand, which the
\* plugin picked and which is never one of "qq".
SameId ==
  /\ Idle
  /\ for # NoOne => asked \in Accounts /\ asked.id = for.id
  /\ \A a \in ready : a.platform # "qq"

Offered == OfOneId /\ NothingOfQq

\* Each step keeps it, whatever the lookup by id finds.
LEMMA SharedStep == TypeOK /\ SameId /\ Offered /\ [Next]_vars => SameId' /\ Offered'
<1> SUFFICES ASSUME TypeOK, SameId, Offered, [Next]_vars PROVE SameId' /\ Offered'
  OBVIOUS
<1> USE DEF SameId, Idle
<1>1. ASSUME NEW a \in Accounts, NEW state \in {"absent", "READY", "UNAVAILABLE"},
             CacheChanges(a, state)
      PROVE  SameId' /\ Offered'
  BY <1>1 DEF CacheChanges, caller, Offered, OfOneId, NothingOfQq
<1>2. CASE ConnectionChanges \/ Fails
  BY <1>2 DEF ConnectionChanges, Fails, Skip, caller, Offered, OfOneId, NothingOfQq
<1>3. CASE Begin
  BY <1>3 DEF Begin, Offered, OfOneId, NothingOfQq
<1>4. CASE Finish
  BY <1>4 DEF Finish, Offered, OfOneId, NothingOfQq
<1>5. ASSUME NEW a \in Accounts, AskFor(a) PROVE SameId' /\ Offered'
  BY <1>5 DEF AskFor, Skip, Cached, caller, Offered, OfOneId, NothingOfQq
<1>6. ASSUME NEW targets \in SUBSET Targets, Replies(targets) PROVE SameId' /\ Offered'
  <2>1. asked \in Accounts /\ asked.id = for.id /\ for \in ready /\ for.platform # "qq"
    BY <1>6 DEF Replies, TypeOK
  <2>2. for' = NoOne /\ ready' = ready /\ stage' = stage /\ stage # "idle"
    BY <1>6 DEF Replies
  <2>3. ASSUME NEW c \in candidates'
        PROVE  /\ c.source \in ready /\ c.id = c.source.id
               /\ [platform |-> c.platform, id |-> c.id] \in Accounts
               /\ c.platform # "qq" /\ c.source.platform # "qq"
    <3>1. CASE c \in candidates
      BY <3>1 DEF Offered, OfOneId, NothingOfQq
    <3>2. CASE c \notin candidates
      <4>1. PICK t \in targets : c = [target |-> t, platform |-> asked.platform,
                                      id |-> asked.id, source |-> for]
        BY <1>6, <3>2 DEF Replies
      <4>2. asked.platform # "qq"
        BY <1>6, <4>1 DEF Replies
      <4>3. asked = [platform |-> asked.platform, id |-> asked.id]
        BY <2>1, AccountsAssumption
      <4>. QED BY <2>1, <4>1, <4>2, <4>3
    <3>. QED BY <3>1, <3>2
  <2>. QED BY <2>2, <2>3 DEF Offered, OfOneId, NothingOfQq
<1>7. CASE UNCHANGED vars
  BY <1>7 DEF vars, Offered, OfOneId, NothingOfQq
<1>. QED BY <1>1, <1>2, <1>3, <1>4, <1>5, <1>6, <1>7 DEF Next

\* The invariant holds of every behaviour.
LEMMA SharedInductive == Spec => [](TypeOK /\ SameId /\ Offered)
<1>1. Init => TypeOK /\ SameId /\ Offered
  BY BoundsAssumption DEF Init, TypeOK, SameId, Idle, Offered, OfOneId, NothingOfQq
<1>2. TypeOK /\ SameId /\ Offered /\ [Next]_vars => (TypeOK /\ SameId /\ Offered)'
  BY CatalogTypeStep, SharedStep DEF SameId
<1>. QED BY <1>1, <1>2, PTL DEF Spec

\* What is offered goes astray at most to an account of the same selfId, on
\* another platform.
THEOREM OnlyTwinsAreConfused == Spec => []OfOneId
<1>1. Offered => OfOneId
  BY DEF Offered
<1>. QED BY <1>1, SharedInductive, PTL

\* No target of "qq" is offered, nor one with a route of it, though the gateway's
\* lookup by id may find a bot of that platform: the plugin's filter and Koishi's
\* own see to it together.
THEOREM NothingOfQqEver == Spec => []NothingOfQq
<1>1. Offered => NothingOfQq
  BY DEF Offered
<1>. QED BY <1>1, SharedInductive, PTL

-----------------------------------------------------------------------------
(* The inductive invariant: what Koishi has found is right before the plugin *)
(* hears of it, since each lookup is right for the addresses it is used for.  *)

Right(kind) ==
  kind \in Kinds =>
    /\ target.kind = ListedAs(target.what) => kind = target.kind
    /\ ListedAs(target.what) = "none" => target.what \in {"oldvoice", "forum"}

RightInv ==
  /\ target \in Addresses
  /\ plugin = "idle" => lookup = "none" /\ found = "none" /\ candidate = "none"
  /\ requested \in Kinds \cup {"OTHER"}
  /\ plugin # "idle" /\ lookup # "none" /\ target.kind # "OTHER" => requested = target.kind
  /\ lookup \in {"getUser", "getFriend"} => requested = "USER"
  /\ lookup = "getGuild" => requested = "GROUP" /\ ~target.nested
  /\ Right(found) /\ Right(candidate)

\* A channel is taken for what it was listed as.
LEMMA ChannelsAreRight ==
  ASSUME target \in Addresses, target.what # "server", NEW kind \in Kinds \cup {"OTHER"},
         target.kind # "OTHER" => kind = target.kind
  PROVE  Right(channelKind(Type(target.what), kind, target.nested))
<1>1. target.what \in Entities /\ target.kind \in Kinds \cup {"OTHER"} /\ target.nested \in BOOLEAN
  BY DEF Addresses
<1>2. target.what \in InGuilds => target.nested
  BY DEF Addresses
<1>3. target.what \in Chats => ~target.nested
  BY DEF Addresses
<1>4. CASE target.what \in {"user", "private"}
  BY <1>1, <1>4 DEF Right, ListedAs, Type, channelKind, Kinds
<1>5. CASE target.what \in {"group", "chat", "broadcast"}
  BY <1>1, <1>3, <1>5 DEF Right, ListedAs, Type, channelKind, Kinds, Chats
<1>6. CASE target.what \in {"text", "thread", "subthread", "category", "voice"}
  BY <1>1, <1>2, <1>6 DEF Right, ListedAs, Type, channelKind, Kinds, InGuilds
<1>7. CASE target.what \in {"oldvoice", "forum"}
  BY <1>1, <1>7 DEF Right, ListedAs, Kinds
<1>. QED BY <1>1, <1>4, <1>5, <1>6, <1>7 DEF Entities, InGuilds, Chats

\* A guild is taken for what it was listed as, by all who take it for a group.
LEMMA GuildsAreRight ==
  ASSUME target.what \in Chats, target.kind \in {"GROUP", "OTHER"}
  PROVE  Right(kindFromGuild(target.what))
BY DEF Right, ListedAs, kindFromGuild, Chats, Kinds

\* The initial states satisfy the invariant.
LEMMA RightInit == ResolveInit => RightInv
BY DEF ResolveInit, RightInv, Right, Kinds, Addresses, Entities, InGuilds, Chats

\* Every lookup keeps it.
LEMMA LookStep == RightInv /\ Look => RightInv'
<1> SUFFICES ASSUME RightInv, Look PROVE RightInv'
  OBVIOUS
<1>1. /\ target' = target /\ candidate' = candidate /\ plugin' = plugin
      /\ plugin # "idle" /\ lookup # "none" /\ target \in Addresses
  BY DEF Look, RightInv
<1>2. Right(candidate)'
  BY <1>1 DEF Right, RightInv
<1>3. target.kind \in Kinds \cup {"OTHER"} /\ requested \in Kinds \cup {"OTHER"}
      /\ (target.kind # "OTHER" => requested = target.kind)
  BY <1>1 DEF Addresses, RightInv
<1>4. Finds("USER") /\ target.what \in {"user", "private"} /\ requested = "USER" => RightInv'
  BY <1>1, <1>2, <1>3 DEF Finds, RightInv, Right, ListedAs, Kinds
<1>5. CASE lookup = "getUser"
  <2>1. CASE Misses("getFriend")
    BY <1>1, <1>2, <1>3, <1>5, <2>1 DEF Misses, RightInv, Right
  <2>. QED BY <1>4, <1>5, <2>1 DEF Look, RightInv
<1>6. CASE lookup = "getFriend"
  <2>1. CASE Misses("getChannel")
    BY <1>1, <1>2, <1>3, <1>6, <2>1 DEF Misses, RightInv, Right
  <2>. QED BY <1>4, <1>6, <2>1 DEF Look, RightInv
<1>7. CASE lookup = "getGuild"
  <2>1. CASE target.what \in Chats /\ Finds(kindFromGuild(target.what))
    <3>1. target.kind \in {"GROUP", "OTHER"}
      BY <1>3, <1>7 DEF RightInv
    <3>2. Right(found)'
      BY <1>1, <2>1, <3>1, GuildsAreRight DEF Right, Finds
    <3>. QED BY <1>1, <1>2, <1>3, <2>1, <3>2 DEF Finds, RightInv
  <2>2. CASE Misses("getChannel")
    BY <1>1, <1>2, <1>3, <1>7, <2>2 DEF Misses, RightInv, Right
  <2>. QED BY <1>7, <2>1, <2>2 DEF Look
<1>8. CASE lookup = "getChannel"
  <2> DEFINE kind == channelKind(Type(target.what), requested, target.nested)
  <2>1. CASE target.what # "server" /\ FindsChannel(kind)
    <3>1. Right(kind)
      BY <1>1, <1>3, <2>1, ChannelsAreRight
    <3>2. Right(found)'
      BY <1>1, <2>1, <3>1 DEF Right, FindsChannel
    <3>. QED BY <1>1, <1>2, <1>3, <2>1, <3>2 DEF FindsChannel, RightInv
  <2>2. CASE MissesChannel
    BY <1>1, <1>2, <1>3, <1>8, <2>2 DEF MissesChannel, RightInv, Right, Kinds
  <2>. QED BY <1>8, <2>1, <2>2 DEF Look
<1>9. CASE lookup = "lookupGuild"
  BY <1>1, <1>2, <1>3, <1>9 DEF Look, Misses, RightInv, Right
<1>. QED BY <1>5, <1>6, <1>7, <1>8, <1>9 DEF Look

\* Every step keeps the invariant.
LEMMA RightStep == RightInv /\ [ResolveNext]_<<vars, resolve>> => RightInv'
<1> SUFFICES ASSUME RightInv, [ResolveNext]_<<vars, resolve>> PROVE RightInv'
  OBVIOUS
<1>1. CASE UNCHANGED resolve
  BY <1>1 DEF RightInv, Right, resolve
<1>2. ASSUME NEW t \in Addresses, NEW a \in Accounts, Resolve(t, a.platform) PROVE RightInv'
  <2>1. plugin = "idle" /\ target' = t /\ found' = "none"
    BY <1>2 DEF Resolve, RightInv
  <2>2. /\ plugin' \in {"calling", "done"}
        /\ \/ lookup' = "none" /\ requested' = requested
           \/ lookup' = FirstLookup(t) /\ requested' = t.kind
        /\ candidate' \in {"none", "excluded", "placeholder"}
    BY <1>2 DEF Resolve, Returns, RightInv
  <2>3. (Right(found) /\ Right(candidate))'
    BY <2>1, <2>2 DEF Right, Kinds
  <2>. QED BY <2>1, <2>2, <2>3 DEF RightInv, FirstLookup, Addresses
<1>3. CASE GiveUp
  BY <1>3 DEF GiveUp, Returns, RightInv, Right, Kinds
<1>4. CASE Hear
  BY <1>4 DEF Hear, Returns, RightInv, Right, Kinds
<1>. QED BY <1>1, <1>2, <1>3, <1>4, LookStep DEF ResolveNext

\* The invariant holds of every behaviour.
THEOREM RightAlways == ResolveSpec => []RightInv
<1>. QED BY RightInit, RightStep, PTL DEF ResolveSpec

\* A target that is listed and then resolved has the kind it was listed with.
THEOREM ListedKindAlwaysStays == ResolveSpec => []ListedKindStays
<1>1. RightInv => ListedKindStays
  BY DEF RightInv, Right, ListedKindStays
<1>. QED BY <1>1, RightAlways, PTL

\* The resolving of an address changes nothing of a listing: what has been shown
\* of TargetCatalog holds with it, too.
THEOREM ResolveIsCatalog == ResolveSpec => Spec
<1>1. ResolveInit => Init
  BY DEF ResolveInit
<1>2. [ResolveNext]_<<vars, resolve>> => [Next]_vars
  BY DEF ResolveNext
<1>. QED BY <1>1, <1>2, PTL DEF ResolveSpec, Spec

\* Every variable of the listing and the resolving keeps its type.
THEOREM CatalogTypeCorrect == ResolveSpec => []ResolveTypeOK
<1>1. ResolveSpec => []TypeOK
  <2>1. Init => TypeOK /\ Idle
    BY BoundsAssumption DEF Init, TypeOK, Idle
  <2>. QED BY <2>1, CatalogTypeStep, ResolveIsCatalog, PTL DEF Spec
<1> DEFINE
  ResolveTypes ==
    /\ target \in Addresses
    /\ plugin \in {"idle", "calling", "done"}
    /\ candidate \in {"none", "excluded", "placeholder"} \cup Kinds
    /\ lookup \in {"none", "over"} \cup Lookups
    /\ requested \in Kinds \cup {"OTHER"}
    /\ found \in {"none"} \cup Kinds
<1>2. ResolveInit => ResolveTypes
  BY DEF ResolveInit, Addresses, Entities, InGuilds, Chats, Kinds
<1>3. ResolveTypes /\ [ResolveNext]_<<vars, resolve>> => ResolveTypes'
  <2> SUFFICES ASSUME ResolveTypes, [ResolveNext]_<<vars, resolve>> PROVE ResolveTypes'
    OBVIOUS
  <2>1. CASE UNCHANGED resolve
    BY <2>1 DEF resolve
  <2>2. ASSUME NEW t \in Addresses, NEW a \in Accounts, Resolve(t, a.platform) PROVE ResolveTypes'
    BY <2>2 DEF Resolve, Returns, FirstLookup, Lookups, Addresses
  <2>3. CASE GiveUp \/ Hear
    BY <2>3 DEF GiveUp, Hear, Returns
  <2>4. CASE Look
    <3>1. target.what \in Entities
      BY DEF Addresses
    <3>2. \A type : channelKind(type, requested, target.nested) \in {"none"} \cup Kinds
      BY DEF channelKind, Kinds
    <3>3. kindFromGuild(target.what) \in Kinds
      BY DEF kindFromGuild, Kinds
    <3>. QED BY <2>4, <3>1, <3>2, <3>3 DEF Look, Finds, Misses, FindsChannel, MissesChannel,
            Lookups, Kinds
  <2>. QED BY <2>1, <2>2, <2>3, <2>4 DEF ResolveNext
<1>4. TypeOK /\ ResolveTypes => ResolveTypeOK
  BY DEF ResolveTypeOK
<1>. HIDE DEF ResolveTypes
<1>. QED BY <1>1, <1>2, <1>3, <1>4, PTL DEF ResolveSpec

-----------------------------------------------------------------------------
(* How far the work goes                                                     *)

\* The calls of an adapter that may still be made for an address: what a miss goes
\* on to, in the chain an address without a kind goes through, and the last look for
\* the guild of a channel.
AfterMiss ==
  IF target.kind # "OTHER" THEN 0
  ELSE CASE requested = "OTHER" -> 5 [] requested = "GROUP" -> 3 [] OTHER -> 0
LookupsLeft ==
  CASE lookup = "getUser" -> 4 [] lookup = "getFriend" -> 3
    [] lookup = "getGuild" -> 3 + AfterMiss [] lookup = "getChannel" -> 2 + AfterMiss
    [] lookup = "lookupGuild" -> 1 [] OTHER -> 0

\* A listing asks for each of its accounts once and drops nothing it has.
Lists ==
  /\ stage # "idle" => ready' = ready /\ todo' \subseteq todo /\ candidates \subseteq candidates'
  /\ candidates' # candidates => todo' # todo

\* Koishi calls four methods of an adapter at most for an address with a kind, and
\* seven for one without, each call leaving fewer to make; the plugin returns once.
Resolves ==
  /\ plugin = "idle" => LookupsLeft' <= IF target'.kind = "OTHER" THEN 7 ELSE 4
  /\ plugin # "idle" /\ <<lookup, requested>>' # <<lookup, requested>> => LookupsLeft' < LookupsLeft
  /\ plugin = "done" => candidate' = candidate /\ plugin' = plugin

WorkGoesOn == Lists /\ Resolves

\* Each step goes on with the work, or leaves it.
LEMMA WorkStep ==
  ResolveTypeOK /\ RightInv /\ [ResolveNext]_<<vars, resolve>> => WorkGoesOn
<1> SUFFICES ASSUME ResolveTypeOK, RightInv, [ResolveNext]_<<vars, resolve>> PROVE WorkGoesOn
  OBVIOUS
<1>1. Lists
  <2>1. CASE UNCHANGED vars
    BY <2>1 DEF Lists, vars
  <2>2. CASE \E a \in Accounts, state \in {"absent", "READY", "UNAVAILABLE"} : CacheChanges(a, state)
    BY <2>2 DEF Lists, CacheChanges, caller
  <2>3. CASE ConnectionChanges \/ Fails
    BY <2>3 DEF Lists, ConnectionChanges, Fails, Skip, caller
  <2>4. CASE Begin \/ Finish
    BY <2>4 DEF Lists, Begin, Finish
  <2>5. CASE \E a \in Accounts : AskFor(a)
    BY <2>5 DEF Lists, AskFor, Skip, caller
  <2>6. CASE \E targets \in SUBSET Targets : Replies(targets)
    BY <2>6 DEF Lists, Replies, ResolveTypeOK, TypeOK
  <2>. QED BY <2>1, <2>2, <2>3, <2>4, <2>5, <2>6 DEF ResolveNext, Next
<1>2. Resolves
  <2>1. CASE UNCHANGED resolve
    <3>1. plugin = "idle" => LookupsLeft' = 0
      BY <2>1 DEF resolve, RightInv, LookupsLeft
    <3>. QED BY <2>1, <3>1 DEF resolve, Resolves
  <2>2. ASSUME NEW t \in Addresses, NEW a \in Accounts, Resolve(t, a.platform) PROVE Resolves
    <3>1. plugin = "idle" /\ target' = t /\ t.kind \in Kinds \cup {"OTHER"}
      BY <2>2 DEF Resolve, Addresses
    <3>2. lookup' = "none" \/ (lookup' = FirstLookup(t) /\ requested' = t.kind)
      BY <2>2 DEF Resolve, RightInv
    <3>3. LookupsLeft' <= IF t.kind = "OTHER" THEN 7 ELSE 4
      BY <3>1, <3>2 DEF LookupsLeft, AfterMiss, FirstLookup, Kinds
    <3>. QED BY <3>1, <3>3 DEF Resolves
  <2>3. CASE GiveUp \/ Hear
    BY <2>3 DEF GiveUp, Hear, Resolves
  <2>4. CASE Look
    <3>1. plugin # "idle" /\ UNCHANGED <<target, plugin, candidate>>
      BY <2>4 DEF Look, RightInv
    <3>2. LookupsLeft' < LookupsLeft
      BY <2>4, <3>1 DEF Look, Finds, Misses, FindsChannel, MissesChannel, LookupsLeft, AfterMiss,
         RightInv, Kinds
    <3>. QED BY <3>1, <3>2 DEF Resolves
  <2>. QED BY <2>1, <2>2, <2>3, <2>4 DEF ResolveNext
<1>. QED BY <1>1, <1>2 DEF WorkGoesOn

\* Neither a listing nor a lookup goes round in circles, for any accounts and
\* however the cache and the connection change.
THEOREM CatalogWorkGoesOn == ResolveSpec => [][WorkGoesOn]_<<vars, resolve>>
<1>. QED BY WorkStep, CatalogTypeCorrect, RightAlways, PTL DEF ResolveSpec
=============================================================================

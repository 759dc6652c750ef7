---------------------------- MODULE TargetResolve ----------------------------
(***************************************************************************)
(* resolveMessageTarget of the JVM plugin, getTarget of its gateway, and     *)
(* getTarget of the Koishi gateway (get-target.ts), which looks the target   *)
(* up with one method of the adapter after the other.  It runs on the cache  *)
(* and the connection of TargetCatalog.  What is at the address is fixed;    *)
(* every lookup may find it, or not, or throw, which the code takes for not. *)
(* A definition directly above the one it resembles is a slip that the       *)
(* runs have to catch; nothing uses it.                                      *)
(***************************************************************************)
EXTENDS TargetCatalog

VARIABLES
  target,              \* what is at the address, the kind the address says, and
                       \* whether the bot has nested channels
  plugin, candidate,   \* resolveMessageTarget: its step, and what it returns
  lookup, requested,   \* Koishi's lookup, or "over", and the kind it is made for
  found                \* the kind it found

resolve == <<target, plugin, candidate, lookup, requested, found>>

Kinds == {"USER", "GROUP", "CHANNEL", "THREAD"}
Lookups == {"getUser", "getFriend", "getGuild", "getChannel", "lookupGuild"}

\* What there is: in the guilds of a nested bot channels, with threads below some
\* of them; the guilds of a flat one are chats, of a type or of none.  "oldvoice" is
\* a voice channel in the numbering of old Koishi, "forum" one of a type unknown here.
InGuilds == {"server", "text", "thread", "subthread", "category", "voice", "oldvoice", "forum"}
Chats == {"private", "group", "broadcast", "chat"}
Entities == {"user"} \cup InGuilds \cup Chats

\* toDbkTarget has no kind (OTHER) for a webhook and the like; such an address gets
\* through where no account of the platform declares its kinds.
Addresses == {t \in [what : Entities, kind : Kinds \cup {"OTHER"}, nested : BOOLEAN] :
                /\ t.what \in InGuilds => t.nested
                /\ t.what \in Chats => ~t.nested}

\* classifyChannel and kindFromListedGuild: the kind targets.list gives it.
ListedAs(e) ==
  CASE e \in {"user", "private"}     -> "USER"
    [] e \in {"group", "chat"}       -> "GROUP"
    [] e \in {"text", "broadcast"}   -> "CHANNEL"
    [] e \in {"thread", "subthread"} -> "THREAD"
    [] OTHER                         -> "none"

ResolveInit ==
  /\ Init
  /\ target = [what |-> "user", kind |-> "USER", nested |-> FALSE]
  /\ plugin = "idle" /\ candidate = "none"
  /\ lookup = "none" /\ requested = "USER" /\ found = "none"

-----------------------------------------------------------------------------
(* The JVM                                                                  *)

Returns(what) == candidate' = what /\ plugin' = "done"

FirstLookup(t) ==
  IF t.kind = "USER" THEN "getUser"
  ELSE IF t.kind = "GROUP" /\ ~t.nested THEN "getGuild"
  ELSE "getChannel"

\* A kind that no account of the platform has excludes the address, as qq does;
\* with no account, or no session, the address itself is the answer.
Resolve(t, platform) ==
  /\ plugin = "idle" /\ stage = "idle" /\ target' = t
  /\ \/ Returns("excluded") /\ UNCHANGED <<lookup, requested>>
     \/ /\ platform # "qq"
        /\ IF up /\ \E a \in Accounts : cache[a] = "READY" /\ a.platform = platform
           THEN /\ plugin' = "calling" /\ lookup' = FirstLookup(t) /\ requested' = t.kind
                /\ UNCHANGED candidate
           ELSE Returns("placeholder") /\ UNCHANGED <<lookup, requested>>
  /\ UNCHANGED found

\* The call fails, or times out: runCatching has the placeholder for it.
GiveUp ==
  /\ plugin = "calling" /\ Returns("placeholder")
  /\ UNCHANGED <<target, lookup, requested, found>>

\* The candidate has the kind of the answer, not that of the address.
Hear ==
  /\ plugin = "calling" /\ lookup = "over"
  /\ Returns(IF found = "none" THEN "placeholder" ELSE found)
  /\ UNCHANGED <<target, lookup, requested, found>>

-----------------------------------------------------------------------------
(* Koishi                                                                   *)

\* The type a channel has that getChannel finds: a chat is a channel of its own.
\* 1 is DIRECT in today's numbering; what has no name here passes for a text channel.
Type(e) ==
  CASE e \in {"user", "private", "oldvoice"}  -> "DIRECT"
    [] e \in {"category", "voice", "thread"} -> e
    [] OTHER                                 -> "TEXT"

FlatIsGroup(type, kind, nested) ==
  IF type = "DIRECT" THEN "USER"
  ELSE IF type \in {"category", "voice"} \/ kind = "USER" \/ (kind = "GROUP" /\ nested) THEN "none"
  ELSE IF type = "thread" \/ kind = "THREAD" THEN "THREAD"
  ELSE IF ~nested THEN "GROUP"
  ELSE "CHANNEL"
channelKind(type, kind, nested) ==
  IF type = "DIRECT" THEN "USER"
  ELSE IF \/ type \in {"category", "voice"}
          \/ kind = "USER"
          \/ kind = "GROUP" /\ nested
       THEN "none"
  ELSE IF type = "thread" \/ kind = "THREAD" THEN "THREAD"
  ELSE IF ~nested /\ kind # "CHANNEL" THEN "GROUP"
  ELSE "CHANNEL"

\* Only flat bots are asked for a guild.
kindFromGuild(e) ==
  CASE e = "private"   -> "USER"
    [] e = "broadcast" -> "CHANNEL"
    [] OTHER           -> "GROUP"

Finds(kind) == lookup' = "over" /\ found' = kind /\ UNCHANGED requested
Misses(next) == lookup' = next /\ UNCHANGED <<requested, found>>

\* toChannelInfo asks for the guild the channel names, if it names one.
FindsChannel(kind) ==
  /\ kind # "none" /\ found' = kind
  /\ lookup' \in {"lookupGuild", "over"} /\ UNCHANGED requested

\* Without a kind to go by, what is no channel may be a group, and then a user.
MissesChannel ==
  /\ CASE requested = "OTHER" ->
             requested' = "GROUP" /\ lookup' = IF target.nested THEN "getChannel" ELSE "getGuild"
       [] requested = "GROUP" /\ target.kind = "OTHER" ->
             requested' = "USER" /\ lookup' = "getUser"
       [] OTHER -> lookup' = "over" /\ UNCHANGED requested
  /\ UNCHANGED found

Look ==
  /\ \/ /\ lookup = "getUser"
        /\ \/ target.what \in {"user", "private"} /\ Finds("USER")
           \/ Misses("getFriend")
     \/ /\ lookup = "getFriend"
        /\ \/ target.what \in {"user", "private"} /\ Finds("USER")
           \/ Misses("getChannel")
     \/ /\ lookup = "getGuild"
        /\ \/ target.what \in Chats /\ Finds(kindFromGuild(target.what))
           \/ Misses("getChannel")
     \/ /\ lookup = "getChannel"
        /\ \/ /\ target.what # "server"
              /\ FindsChannel(channelKind(Type(target.what), requested, target.nested))
           \/ MissesChannel
     \/ lookup = "lookupGuild" /\ Misses("over")
  /\ UNCHANGED <<target, plugin, candidate>>

-----------------------------------------------------------------------------
\* The plugin lists its targets or resolves one, with the cache and the connection
\* changing under it.  Two such calls have nothing else in common.
ResolveNext ==
  \/ Next /\ UNCHANGED resolve /\ (plugin = "idle" \/ stage' = "idle")
  \/ /\ \/ \E t \in Addresses, a \in Accounts : Resolve(t, a.platform)
        \/ GiveUp \/ Hear \/ Look
     /\ UNCHANGED vars

ResolveSpec == ResolveInit /\ [][ResolveNext]_<<vars, resolve>>

-----------------------------------------------------------------------------
\* Every variable keeps its type.
ResolveTypeOK ==
  /\ TypeOK
  /\ target \in Addresses
  /\ plugin \in {"idle", "calling", "done"}
  /\ candidate \in {"none", "excluded", "placeholder"} \cup Kinds
  /\ lookup \in {"none", "over"} \cup Lookups
  /\ requested \in Kinds \cup {"OTHER"}
  /\ found \in {"none"} \cup Kinds

\* targets.list and targets.get agree: an address that has the kind it was listed
\* with resolves to a target of that kind or to none, whichever lookups fail and
\* leave the answer to the next.  Of what is never listed, since it cannot be sent
\* to, servers, categories and voice channels resolve to nothing, whatever kind
\* they are taken for; channels whose type is not one of today's slip through.
ListedKindStays ==
  candidate \in Kinds =>
    /\ target.kind = ListedAs(target.what) => candidate = target.kind
    /\ ListedAs(target.what) = "none" => target.what \in {"oldvoice", "forum"}
=============================================================================

--------------------------- MODULE TargetListing ----------------------------
(***************************************************************************)
(* listTargets of the Koishi gateway (list-targets.ts): one targets.list    *)
(* request, which goes through the bots and reads each one's guilds,        *)
(* channels and users from its adapter, page by page.  The adapter is free  *)
(* to answer any call in any way; what it keeps back is remembered in cut.   *)
(* One handler runs alone, so an action ends where a call of the adapter    *)
(* begins or where one loop of the handler hands over to the next.          *)
(* A definition directly above the one it resembles is a slip that the      *)
(* runs have to catch; nothing uses it.                                     *)
(***************************************************************************)
EXTENDS Naturals

CONSTANTS
  Adapters,  \* the kinds of bots there are, a subset of AnyBot
  Filters,   \* the kinds requests ask for, "ANY" for one that asks for no kind
  MaxBots,   \* bound: bots the request is for
  PageSize,  \* bound: items on one page
  MaxPages,  \* MAX_LIST_PAGES
  MaxItems   \* MAX_LIST_ITEMS

Kinds == {"USER", "GROUP", "CHANNEL", "THREAD"}
UserLists == {"getFriendList", "getUserList"}
Lists == {"getGuildList", "getChannelList"} \cup UserLists

\* A bot is the methods its adapter has, the Satori features it claims and what
\* its message encoder is: none, one that knows at-all, or a plain one.
AnyBot ==
  [methods : SUBSET (Lists \cup {"getGuild", "getChannel", "getGuildMember", "getUser",
                                 "createDirectChannel", "createThread"}),
   features : SUBSET {"guild.list", "channel.list", "guild.get", "channel.get", "friend.list",
                      "user.get", "user.channel.create", "thread"},
   encoder : {"none", "mentions all", "plain"}]

ASSUME AdaptersAssumption == Adapters \subseteq AnyBot /\ Adapters # {}
ASSUME FiltersAssumption == Filters \subseteq Kinds \cup {"ANY"}
ASSUME BoundsAssumption ==
  /\ MaxBots \in Nat /\ PageSize \in Nat
  /\ MaxPages \in Nat \ {0} /\ MaxItems \in Nat \ {0}

VARIABLES
  filter,      \* the kind asked for, or "ANY"
  left, bot,   \* bots still to come, and the one at hand
  stage,       \* where listTargetsForBot is; "next" is between two bots
  page,        \* the paginate() under way
  guilds,      \* guilds of the bot still to look into
  mode,        \* channelMode: unknown, nested or flat
  users,       \* what listDirectUsers has seen
  listed,      \* the kinds the bot's targets have
  incomplete,  \* the bot's flag
  said,        \* the response's flag
  cut          \* history: a list was cut off, or refused where no other stands in for it

request == <<filter, left>>
outcome == <<said, cut>>
vars == <<filter, left, bot, stage, page, guilds, mode, users, listed, incomplete, said, cut>>

Has(b, methods, features) == b.methods \cap methods # {} \/ b.features \cap features # {}

hasNestedChannels(b) == Has(b, {"getChannelList"}, {"channel.list"})
hasGuildSurface(b) == Has(b, {"getGuildList", "getGuild"}, {"guild.list", "guild.get"})
hasThreadSurface(b) == Has(b, {"createThread"}, {"thread"})
canListDirectUsers(b) == Has(b, UserLists, {"friend.list"})
canListTargets(b) ==
  hasGuildSurface(b) \/ hasNestedChannels(b) \/ Has(b, {"getChannel"}, {"channel.get"})

looksDirectMessageOnly(b) ==
  b.encoder = "plain" /\ ~canListTargets(b) /\ ~Has(b, {"getGuildMember"}, {})

canDirectMessage(b) ==
  \/ canListDirectUsers(b) \/ looksDirectMessageOnly(b)
  \/ Has(b, {"getUser", "createDirectChannel"}, {"user.get", "user.channel.create"})

GroupsOnly(b) ==
  (IF canDirectMessage(b) THEN {"USER"} ELSE {})
    \cup (IF hasThreadSurface(b) THEN {"THREAD"} ELSE {})
    \cup (IF hasNestedChannels(b) THEN {"CHANNEL", "THREAD"}
          ELSE IF hasGuildSurface(b) THEN {"GROUP"} ELSE {})
botTargetKinds(b) ==
  (IF canDirectMessage(b) THEN {"USER"} ELSE {})
    \cup (IF hasThreadSurface(b) THEN {"THREAD"} ELSE {})
    \cup (IF hasNestedChannels(b) THEN {"CHANNEL", "THREAD"}
          ELSE IF hasGuildSurface(b) THEN {"GROUP", "CHANNEL"} ELSE {})

Wanted == IF filter = "ANY" THEN Kinds ELSE {filter}

NewPage == [pages |-> 1, items |-> 0, yielded |-> 0,
            iterating |-> FALSE, more |-> FALSE, over |-> FALSE,
            truncated |-> FALSE, unsupported |-> FALSE, failed |-> FALSE]
NoUsers == [supported |-> FALSE, failure |-> FALSE, success |-> FALSE, truncated |-> FALSE]

Init ==
  /\ filter \in Filters
  /\ left = MaxBots /\ bot = CHOOSE b \in Adapters : TRUE
  /\ stage = "next" /\ page = NewPage
  /\ guilds = 0 /\ mode = "unknown" /\ users = NoUsers
  /\ listed = {} /\ incomplete = FALSE
  /\ said = FALSE /\ cut = FALSE

-----------------------------------------------------------------------------
(* paginate                                                                 *)

Least(a, b) == IF a < b THEN a ELSE b

Ends(p, how) == [p EXCEPT !.over = TRUE, !.iterating = FALSE, !.more = FALSE,
                          !.truncated = how = "truncated" \/ (how = "failed" /\ p.items > 0),
                          !.unsupported = how = "unsupported", !.failed = how = "failed"]

Fetching == stage \in Lists /\ ~page.over /\ ~page.iterating /\ ~page.more
Iterating == stage \in Lists /\ page.iterating

Paginated(next, loss) ==
  /\ page' = next /\ cut' = (cut \/ loss)
  /\ UNCHANGED <<request, bot, stage, guilds, mode, users, listed, incomplete, said>>

\* A page that names the next one is followed, unless it is empty or leads back.
PageComes(n, token) ==
  LET read == [page EXCEPT !.items = Least(@ + n, MaxItems)]
  IN /\ Fetching /\ stage \in bot.methods
     /\ \/ token = "none" /\ Paginated(Ends(read, "whole"), FALSE)
        \/ token # "none" /\ n = 0 /\ Paginated(Ends(read, "whole"), FALSE)
        \/ /\ token = "old" /\ n > 0 /\ page.pages > 1
           /\ Paginated(Ends(read, "whole"), FALSE)
        \/ token = "new" /\ n > 0 /\ Paginated([read EXCEPT !.more = TRUE], FALSE)

NoCap(pages, items) == FALSE
AtCap(pages, items) == pages > MaxPages \/ items >= MaxItems

\* The caps are looked at before each fetch.  The counts stop at their caps.
TurnPage ==
  /\ stage \in Lists /\ page.more
  /\ LET pages == Least(page.pages + 1, MaxPages + 1)
     IN IF AtCap(pages, page.items)
        THEN Paginated(Ends(page, "truncated"), TRUE)
        ELSE Paginated([page EXCEPT !.pages = pages, !.more = FALSE], FALSE)

NullComes ==
  /\ Fetching /\ stage \in bot.methods
  /\ Paginated(Ends(page, "whole"), FALSE)

RejectsUnsupported ==
  /\ Fetching
  /\ IF page.items > 0 THEN Paginated(Ends(page, "truncated"), TRUE)
     ELSE Paginated(Ends(page, "unsupported"), FALSE)

RejectedUntruncated(p) == [Ends(p, "failed") EXCEPT !.truncated = FALSE]
Rejected(p) == Ends(p, "failed")

\* Of a bot's two user lists one may be refused outright.
Loss == stage \notin UserLists \/ page.items > 0

Rejects ==
  /\ Fetching /\ stage \in bot.methods
  /\ Paginated(Rejected(page), Loss)

\* The adapter answers with an async iterable, read to its end or to the cap;
\* what an iterable yielded before it throws is dropped.
IterableComes ==
  /\ Fetching /\ stage \in bot.methods
  /\ Paginated([page EXCEPT !.iterating = TRUE], FALSE)

Yields ==
  /\ Iterating
  /\ LET more == [page EXCEPT !.yielded = @ + 1]
         all == [more EXCEPT !.items = Least(@ + more.yielded, MaxItems)]
     IN IF more.yielded >= MaxItems
        THEN Paginated(Ends(all, "truncated"), TRUE)
        ELSE Paginated(more, FALSE)

IterableEnds ==
  /\ Iterating
  /\ Paginated(Ends([page EXCEPT !.items = Least(@ + page.yielded, MaxItems)], "whole"), FALSE)

IterableThrows(unsupported) ==
  /\ Iterating
  /\ IF unsupported /\ page.items = 0 THEN Paginated(Ends(page, "unsupported"), FALSE)
     ELSE Paginated(Rejected(page), Loss)

Adapter ==
  \/ \E n \in 0..PageSize, token \in {"none", "old", "new"} : PageComes(n, token)
  \/ NullComes \/ RejectsUnsupported \/ Rejects
  \/ IterableComes \/ Yields \/ IterableEnds
  \/ \E unsupported \in BOOLEAN : IterableThrows(unsupported)

-----------------------------------------------------------------------------
(* listTargetsForBot                                                        *)

Goes(to) == stage' = to /\ page' = NewPage

PushAll(kinds) == listed' = listed \cup kinds
\* pushTarget lets through what was asked for.
Push(kinds) == listed' = listed \cup (kinds \cap Wanted)

\* The bot's lists are those its kinds call for: nothing at all for a bot that
\* has not the kind asked for.
TakeBot(b) ==
  LET supported == botTargetKinds(b)
      pointless == filter # "ANY" /\ supported # {} /\ filter \notin supported
  IN /\ stage = "next" /\ left > 0
     /\ left' = left - 1 /\ bot' = b
     /\ listed' = {} /\ users' = NoUsers
     /\ mode' = IF hasNestedChannels(b) THEN "unknown" ELSE "flat"
     /\ incomplete' = (~pointless /\ hasGuildSurface(b) /\ ~hasNestedChannels(b))
     /\ Goes(IF pointless THEN "merge" ELSE IF Wanted = {"USER"} THEN "users" ELSE "getGuildList")
     /\ UNCHANGED <<filter, guilds, outcome>>

\* A bot of "qq" is passed over, with no flag.
SkipBot ==
  /\ stage = "next" /\ left > 0 /\ left' = left - 1
  /\ Goes("next")
  /\ UNCHANGED <<filter, bot, guilds, mode, users, listed, incomplete, outcome>>

Flagged(p) == p.unsupported \/ p.failed \/ p.truncated

HaveGuilds ==
  /\ stage = "getGuildList" /\ page.over
  /\ guilds' = page.items
  /\ incomplete' = (incomplete \/ Flagged(page))
  /\ cut' = (cut \/ page.unsupported)
  /\ Goes("guilds")
  /\ UNCHANGED <<request, bot, mode, users, listed, said>>

\* One turn of the loop over the guilds: a flat bot's guild is a target itself,
\* of the kind its type says; of any other the channels are fetched.
NextGuild ==
  /\ stage = "guilds" /\ guilds > 0
  /\ guilds' = guilds - 1
  /\ \/ /\ mode = "flat"
        /\ \E kind \in {"USER", "GROUP", "CHANNEL"} : Push({kind})
        /\ UNCHANGED <<stage, page>>
     \/ /\ mode # "flat" /\ Goes("getChannelList") /\ UNCHANGED listed
  /\ UNCHANGED <<request, bot, mode, users, incomplete, outcome>>

\* A bot that cannot list channels after all is flat from this guild on.
HaveChannels ==
  /\ stage = "getChannelList" /\ page.over
  /\ incomplete' = (incomplete \/ page.truncated \/ page.failed)
  /\ \/ /\ page.unsupported
        /\ mode' = "flat"
        /\ \E kind \in {"USER", "GROUP", "CHANNEL"} : Push({kind})
     \/ /\ page.failed /\ UNCHANGED <<mode, listed>>
     \/ /\ ~page.unsupported /\ ~page.failed
        /\ mode' = "nested"
        /\ \E kinds \in SUBSET {"CHANNEL", "THREAD"} :
             /\ page.items = 0 => kinds = {}
             /\ Push(kinds)
  /\ Goes("guilds")
  /\ UNCHANGED <<request, bot, guilds, users, outcome>>

NoMoreGuilds ==
  /\ stage = "guilds" /\ guilds = 0
  /\ Goes(IF "USER" \in Wanted THEN "users" ELSE "merge")
  /\ UNCHANGED <<request, bot, guilds, mode, users, listed, incomplete, outcome>>

\* A bot that may have users and cannot list them leaves the list incomplete.
AskUsers ==
  /\ stage = "users"
  /\ IF canListDirectUsers(bot)
     THEN Goes("getFriendList") /\ UNCHANGED incomplete
     ELSE /\ Goes("merge")
          /\ incomplete' = (incomplete \/ canDirectMessage(bot) \/ botTargetKinds(bot) = {})
  /\ UNCHANGED <<request, bot, guilds, mode, users, listed, outcome>>

Seen(u, p) ==
  IF p.unsupported THEN u
  ELSE [supported |-> TRUE, failure |-> u.failure \/ p.failed,
        success |-> u.success \/ ~p.failed, truncated |-> u.truncated \/ p.truncated]

HaveFriends ==
  /\ stage = "getFriendList" /\ page.over
  /\ users' = Seen(users, page)
  /\ IF page.items > 0 THEN Push({"USER"}) ELSE UNCHANGED listed
  /\ Goes("getUserList")
  /\ UNCHANGED <<request, bot, guilds, mode, incomplete, outcome>>

HaveUsers ==
  LET u == Seen(users, page)
  IN /\ stage = "getUserList" /\ page.over
     /\ users' = u
     /\ incomplete' = (incomplete \/ u.truncated \/ (u.failure /\ ~u.success))
     /\ cut' = (cut \/ (u.failure /\ ~u.success))
     /\ IF page.items > 0 THEN Push({"USER"}) ELSE UNCHANGED listed
     /\ Goes("merge")
     /\ UNCHANGED <<request, bot, guilds, mode, said>>

\* listTargets takes the bot's flag over; its targets are merged with the others'.
Merge ==
  /\ stage = "merge"
  /\ said' = (said \/ incomplete)
  /\ Goes("next")
  /\ mode' = "unknown" /\ users' = NoUsers /\ listed' = {} /\ incomplete' = FALSE
  /\ UNCHANGED <<request, bot, guilds, cut>>

\* At once, with an error, when the one bot asked for is not there.
Respond ==
  /\ stage = "next" /\ left \in {0, MaxBots}
  /\ Goes("done")
  /\ UNCHANGED <<request, bot, guilds, mode, users, listed, incomplete, outcome>>

Handler ==
  \/ TurnPage
  \/ \E b \in Adapters : TakeBot(b)
  \/ SkipBot \/ HaveGuilds \/ NextGuild \/ HaveChannels \/ NoMoreGuilds
  \/ AskUsers \/ HaveFriends \/ HaveUsers \/ Merge \/ Respond

Next == Adapter \/ Handler

Spec == Init /\ [][Next]_vars

\* The handler goes on by itself; that every call of an adapter comes to an end
\* is assumed, the code has no timer here.
FairSpec == Spec /\ WF_vars(Next)

-----------------------------------------------------------------------------
\* Every variable keeps its type.
TypeOK ==
  /\ filter \in Filters /\ left \in 0..MaxBots /\ bot \in Adapters
  /\ stage \in Lists \cup {"next", "guilds", "users", "merge", "done"}
  /\ page \in [pages : 1..(MaxPages + 1), items : 0..MaxItems, yielded : 0..MaxItems,
               iterating : BOOLEAN, more : BOOLEAN, over : BOOLEAN,
               truncated : BOOLEAN, unsupported : BOOLEAN, failed : BOOLEAN]
  /\ guilds \in 0..MaxItems /\ mode \in {"unknown", "nested", "flat"}
  /\ users \in [supported : BOOLEAN, failure : BOOLEAN, success : BOOLEAN, truncated : BOOLEAN]
  /\ listed \subseteq Wanted
  /\ incomplete \in BOOLEAN /\ said \in BOOLEAN
  /\ cut \in BOOLEAN

Done == stage = "done"

\* Whatever the handler stops reading at a cap, or is refused half-way, the
\* response says, however many lists and bots come after it (truncated, failed).
CutsAreSaid == Done /\ cut => said

\* Whatever is listed for a bot is of a kind the bot declares in bots.list, so
\* that the core, which sends to declared kinds only, may send to it.  A bot whose
\* channels turn out not to be listed is the exception, from then on.
ListedIsDeclared ==
  (mode = "flat" => ~hasNestedChannels(bot)) => listed \subseteq botTargetKinds(bot) \cup {"USER"}

\* With adapters that answer, the request is answered, also when every page
\* names a new one and an iterable never ends (MAX_LIST_PAGES, MAX_LIST_ITEMS).
AlwaysResponds == <>Done
=============================================================================

------------------------- MODULE TargetListingProofs -------------------------
(* What holds of a listing for any kinds of bots, any number of them and     *)
(* caps of any size, whatever the adapters answer.                           *)
EXTENDS TargetListing, WellFoundedInduction, TLAPS

-----------------------------------------------------------------------------
(* The inductive invariant                                                   *)

PageType ==
  [pages : 1..(MaxPages + 1), items : 0..MaxItems, yielded : 0..MaxItems,
   iterating : BOOLEAN, more : BOOLEAN, over : BOOLEAN,
   truncated : BOOLEAN, unsupported : BOOLEAN, failed : BOOLEAN]

\* What is over does not go on, and ends in one way; an iterable names no page;
\* what it may still yield is below the cap.
Sound(p) ==
  /\ p.over => ~p.iterating /\ ~p.more
  /\ p.iterating => ~p.more
  /\ ~p.over => p.yielded < MaxItems
  /\ ~(p.truncated /\ p.unsupported)

\* A list that has given anything is one the adapter has.
Given == page.iterating \/ page.items > 0 => stage \in bot.methods

\* The page says that something was lost.
Lost(p) == p.over /\ (p.truncated \/ (p.failed /\ stage \notin UserLists))

\* What was cut is on its way to the response: in the page at hand, in what the
\* bot's user lists have shown, in the bot's flag or in the response's.
CutInv ==
  /\ cut => said \/ incomplete \/ users.truncated \/ (stage \in Lists /\ Lost(page))
  /\ users.truncated => stage \in {"getUserList", "merge"}
  /\ users.truncated /\ stage = "merge" => incomplete
  /\ stage \in {"next", "done"} => ~incomplete

\* Guilds are those of a bot that lists guilds; the channels of a guild are asked
\* for only where the bot declares channels.
GuildsInv ==
  /\ guilds > 0 => stage \in {"guilds", "getChannelList"} /\ "getGuildList" \in bot.methods
  /\ stage = "getChannelList" => mode # "flat"
  /\ mode # "flat" => hasNestedChannels(bot) \/ stage \in {"next", "done"}

LInv == TypeOK /\ Sound(page) /\ Given /\ CutInv /\ GuildsInv /\ ListedIsDeclared

\* The type invariant, with the page's type by its name.
LEMMA PageTyped == TypeOK => page \in PageType
BY DEF TypeOK, PageType

\* A new page is a page nothing has come of yet.
LEMMA NewPageSound == NewPage \in PageType /\ Sound(NewPage) /\ ~NewPage.over
                      /\ NewPage.items = 0 /\ ~NewPage.iterating
BY BoundsAssumption DEF NewPage, PageType, Sound

\* The initial states satisfy the invariant.
LEMMA InitInv == Init => LInv
<1> SUFFICES ASSUME Init PROVE LInv
  OBVIOUS
<1>1. bot \in Adapters
  BY AdaptersAssumption DEF Init
<1>2. page \in PageType /\ Sound(page) /\ page.items = 0 /\ ~page.iterating
  BY NewPageSound DEF Init
<1>3. TypeOK
  <2>1. left \in 0..MaxBots /\ guilds \in 0..MaxItems
    BY BoundsAssumption DEF Init
  <2>2. users \in [supported : BOOLEAN, failure : BOOLEAN, success : BOOLEAN, truncated : BOOLEAN]
    BY DEF Init, NoUsers
  <2>3. /\ filter \in Filters /\ stage = "next" /\ mode = "unknown" /\ listed = {}
        /\ incomplete = FALSE /\ said = FALSE /\ cut = FALSE
    BY DEF Init
  <2>. QED BY <1>1, <1>2, <2>1, <2>2, <2>3 DEF TypeOK, PageType
<1>4. Given /\ CutInv /\ GuildsInv /\ ListedIsDeclared
  BY <1>2 DEF Init, Given, CutInv, GuildsInv, ListedIsDeclared, NoUsers
<1>. QED BY <1>2, <1>3, <1>4 DEF LInv

-----------------------------------------------------------------------------
(* paginate                                                                  *)

\* How a list ends.
LEMMA EndsEffect ==
  ASSUME NEW p \in PageType, NEW how \in {"whole", "truncated", "failed", "unsupported"}
  PROVE  /\ Ends(p, how) \in PageType /\ Sound(Ends(p, how))
         /\ Ends(p, how).over
         /\ Ends(p, how).items = p.items
         /\ ~Ends(p, how).iterating
         /\ how = "truncated" => Ends(p, how).truncated
         /\ how = "failed" => Ends(p, how).failed /\ (p.items > 0 => Ends(p, how).truncated)
BY DEF Ends, PageType, Sound

\* The items of a page stay below their cap.
LEMMA LeastTyped ==
  ASSUME NEW a \in Nat
  PROVE  Least(a, MaxItems) \in 0..MaxItems
BY BoundsAssumption DEF Least

\* What paginate and the adapter do between them: they work on the page alone,
\* and when something is lost the page ends and says so.
Pages ==
  /\ UNCHANGED <<request, bot, stage, guilds, mode, users, listed, incomplete, said>>
  /\ stage \in Lists /\ ~page.over
  /\ page' \in PageType /\ Sound(page') /\ Given'
  /\ cut' \in BOOLEAN
  /\ cut' => cut \/ Lost(page')

\* The end of a list, with what was read of it.
LEMMA EndOfList ==
  ASSUME TypeOK, stage \in Lists, ~page.over,
         NEW p \in PageType, p.items > 0 => stage \in bot.methods,
         NEW how \in {"whole", "truncated", "failed", "unsupported"},
         NEW loss \in BOOLEAN,
         loss => how = "truncated" \/ (how = "failed" /\ (stage \notin UserLists \/ p.items > 0)),
         Paginated(Ends(p, how), loss)
  PROVE  Pages
<1>1. page' = Ends(p, how) /\ cut' = (cut \/ loss)
      /\ UNCHANGED <<request, bot, stage, guilds, mode, users, listed, incomplete, said>>
  BY DEF Paginated
<1>2. page' \in PageType /\ Sound(page') /\ Given'
  BY <1>1, EndsEffect DEF Given
<1>3. loss => Lost(page')
  BY <1>1, EndsEffect DEF Lost
<1>4. cut' \in BOOLEAN
  BY <1>1 DEF TypeOK
<1>. QED BY <1>1, <1>2, <1>3, <1>4 DEF Pages

\* A list that goes on.
LEMMA ListGoesOn ==
  ASSUME TypeOK, stage \in Lists, ~page.over,
         NEW p \in PageType, Sound(p), ~p.over,
         p.iterating \/ p.items > 0 => stage \in bot.methods,
         Paginated(p, FALSE)
  PROVE  Pages
BY DEF Paginated, Pages, Given, TypeOK

\* Every answer of the adapter, and every look at the caps, is of this kind.
LEMMA PageStep ==
  ASSUME LInv, Adapter \/ TurnPage
  PROVE  Pages
<1>a. TypeOK /\ page \in PageType /\ Sound(page) /\ Given
  BY PageTyped DEF LInv
<1>b. Loss \in BOOLEAN
  BY DEF Loss
<1>c. page.items \in 0..MaxItems /\ page.yielded \in 0..MaxItems /\ page.pages \in 1..(MaxPages + 1)
      /\ MaxItems \in Nat \ {0} /\ MaxPages \in Nat
  BY <1>a, BoundsAssumption DEF PageType
<1>1. ASSUME NEW n \in 0..PageSize, NEW token \in {"none", "old", "new"}, PageComes(n, token)
      PROVE  Pages
  <2> DEFINE read == [page EXCEPT !.items = Least(@ + n, MaxItems)]
  <2>1. stage \in Lists /\ ~page.over /\ ~page.iterating /\ stage \in bot.methods
    BY <1>1 DEF PageComes, Fetching
  <2>2. page.items + n \in Nat
    BY <1>c, BoundsAssumption
  <2>3. Least(page.items + n, MaxItems) \in 0..MaxItems
    BY <2>2, LeastTyped
  <2>4. read \in PageType /\ Sound(read) /\ ~read.over /\ ~read.iterating
    BY <1>a, <2>1, <2>3 DEF PageType, Sound
  <2>5. [read EXCEPT !.more = TRUE] \in PageType /\ Sound([read EXCEPT !.more = TRUE])
        /\ ~[read EXCEPT !.more = TRUE].over
    BY <2>4 DEF PageType, Sound
  <2>6. Paginated(Ends(read, "whole"), FALSE) \/ Paginated([read EXCEPT !.more = TRUE], FALSE)
    BY <1>1 DEF PageComes
  <2>. HIDE DEF read
  <2>7. CASE Paginated(Ends(read, "whole"), FALSE)
    BY <1>a, <2>1, <2>4, <2>7, EndOfList
  <2>8. CASE Paginated([read EXCEPT !.more = TRUE], FALSE)
    BY <1>a, <2>1, <2>5, <2>8, ListGoesOn
  <2>. QED BY <2>6, <2>7, <2>8
<1>2. CASE TurnPage
  <2>1. stage \in Lists /\ ~page.over
    BY <1>a, <1>2 DEF TurnPage, Sound
  <2> DEFINE pages == Least(page.pages + 1, MaxPages + 1)
             turned == [page EXCEPT !.pages = pages, !.more = FALSE]
  <2>2. pages \in 1..(MaxPages + 1)
    BY <1>c DEF Least
  <2>3. turned \in PageType /\ Sound(turned) /\ ~turned.over
        /\ (turned.iterating \/ turned.items > 0 => stage \in bot.methods)
    BY <1>a, <2>1, <2>2 DEF PageType, Sound, Given
  <2>4. Paginated(Ends(page, "truncated"), TRUE) \/ Paginated(turned, FALSE)
    BY <1>2 DEF TurnPage
  <2>. HIDE DEF turned
  <2>5. CASE Paginated(Ends(page, "truncated"), TRUE)
    BY <1>a, <2>1, <2>5, EndOfList DEF Given
  <2>6. CASE Paginated(turned, FALSE)
    BY <1>a, <2>1, <2>3, <2>6, ListGoesOn
  <2>. QED BY <2>4, <2>5, <2>6
<1>3. CASE NullComes
  BY <1>a, <1>3, EndOfList DEF NullComes, Fetching
<1>4. CASE RejectsUnsupported
  <2>1. stage \in Lists /\ ~page.over
    BY <1>4 DEF RejectsUnsupported, Fetching
  <2>. QED BY <1>a, <1>4, <2>1, EndOfList DEF RejectsUnsupported, Given
<1>5. CASE Rejects
  <2>1. stage \in Lists /\ ~page.over /\ stage \in bot.methods /\ Paginated(Ends(page, "failed"), Loss)
    BY <1>5 DEF Rejects, Fetching, Rejected
  <2>. QED BY <1>a, <1>b, <2>1, EndOfList DEF Loss
<1>6. CASE IterableComes
  <2>1. /\ stage \in Lists /\ ~page.over /\ stage \in bot.methods /\ ~page.more
        /\ Paginated([page EXCEPT !.iterating = TRUE], FALSE)
    BY <1>6 DEF IterableComes, Fetching
  <2>2. [page EXCEPT !.iterating = TRUE] \in PageType /\ Sound([page EXCEPT !.iterating = TRUE])
        /\ ~[page EXCEPT !.iterating = TRUE].over
    BY <1>a, <2>1 DEF PageType, Sound
  <2>. QED BY <1>a, <2>1, <2>2, ListGoesOn
<1>7. ASSUME Yields \/ IterableEnds \/ \E unsupported \in BOOLEAN : IterableThrows(unsupported)
      PROVE  Pages
  <2>1. stage \in Lists /\ page.iterating /\ ~page.over /\ stage \in bot.methods
        /\ page.yielded < MaxItems
    BY <1>a, <1>7 DEF Yields, IterableEnds, IterableThrows, Iterating, Sound, Given
  <2>2. CASE Yields
    <3> DEFINE more == [page EXCEPT !.yielded = @ + 1]
               all == [more EXCEPT !.items = Least(@ + more.yielded, MaxItems)]
    <3>1. more \in PageType /\ more.yielded \in Nat /\ more.items \in Nat /\ more.iterating /\ ~more.over
          /\ more.yielded = page.yielded + 1
          /\ ~(more.truncated /\ more.unsupported) /\ ~more.more
      BY <1>a, <1>c, <2>1 DEF PageType, Sound
    <3>2. Least(more.items + more.yielded, MaxItems) \in 0..MaxItems
      BY <3>1, LeastTyped
    <3>3. all \in PageType
      BY <3>1, <3>2 DEF PageType
    <3>4. IF more.yielded >= MaxItems THEN Paginated(Ends(all, "truncated"), TRUE)
          ELSE Paginated(more, FALSE)
      BY <2>2 DEF Yields
    <3>. HIDE DEF more, all
    <3>5. CASE more.yielded >= MaxItems
      BY <1>a, <2>1, <3>3, <3>4, <3>5, EndOfList
    <3>6. CASE ~(more.yielded >= MaxItems)
      <4>1. Sound(more)
        BY <1>c, <3>1, <3>6 DEF Sound
      <4>. QED BY <1>a, <2>1, <3>1, <3>4, <3>6, <4>1, ListGoesOn
    <3>. QED BY <3>5, <3>6
  <2>3. CASE IterableEnds
    <3> DEFINE all == [page EXCEPT !.items = Least(@ + page.yielded, MaxItems)]
    <3>1. page.items + page.yielded \in Nat
      BY <1>c
    <3>2. all \in PageType
      BY <1>a, <3>1, LeastTyped DEF PageType
    <3>3. Paginated(Ends(all, "whole"), FALSE)
      BY <2>3 DEF IterableEnds
    <3>. HIDE DEF all
    <3>. QED BY <1>a, <2>1, <3>2, <3>3, EndOfList
  <2>4. ASSUME NEW unsupported \in BOOLEAN, IterableThrows(unsupported) PROVE Pages
    <3>1. Paginated(Ends(page, "unsupported"), FALSE) \/ Paginated(Ends(page, "failed"), Loss)
      BY <2>4 DEF IterableThrows, Rejected
    <3>2. CASE Paginated(Ends(page, "unsupported"), FALSE)
      BY <1>a, <2>1, <3>2, EndOfList
    <3>3. CASE Paginated(Ends(page, "failed"), Loss)
      BY <1>a, <1>b, <2>1, <3>3, EndOfList DEF Loss
    <3>. QED BY <3>1, <3>2, <3>3
  <2>. QED BY <1>7, <2>2, <2>3, <2>4
<1>. QED BY <1>1, <1>2, <1>3, <1>4, <1>5, <1>6, <1>7 DEF Adapter

\* What such a step keeps.
LEMMA PagesKeep == LInv /\ Pages => LInv'
<1> SUFFICES ASSUME LInv, Pages PROVE LInv'
  OBVIOUS
<1>1. TypeOK' /\ Sound(page)' /\ Given'
  BY DEF LInv, TypeOK, Pages, PageType, request, Sound, Wanted
<1>2. CutInv'
  BY DEF LInv, Pages, CutInv, Lost
<1>3. GuildsInv' /\ ListedIsDeclared'
  BY DEF LInv, Pages, GuildsInv, ListedIsDeclared, hasNestedChannels, botTargetKinds
<1>. QED BY <1>1, <1>2, <1>3 DEF LInv

-----------------------------------------------------------------------------
(* listTargetsForBot                                                         *)

\* After a step of the handler the page at hand is a new one.
Turned == page' = NewPage

\* A page that has just been turned to is typed and sound.
LEMMA TurnedPage ==
  ASSUME Turned
  PROVE  page' \in PageType /\ Sound(page') /\ Given'
BY NewPageSound DEF Turned, Given

\* What the user lists have shown.
LEMMA SeenEffect ==
  ASSUME TypeOK, Sound(page)
  PROVE  /\ Seen(users, page) \in [supported : BOOLEAN, failure : BOOLEAN,
                                   success : BOOLEAN, truncated : BOOLEAN]
         /\ users.truncated => Seen(users, page).truncated
         /\ page.truncated => Seen(users, page).truncated
BY DEF TypeOK, Seen, Sound

\* The steps of the handler but NextGuild, which may leave the page as it is.
HandlerStep ==
  \/ \E b \in Adapters : TakeBot(b)
  \/ SkipBot \/ HaveGuilds \/ HaveChannels \/ NoMoreGuilds
  \/ AskUsers \/ HaveFriends \/ HaveUsers \/ Merge \/ Respond

\* The handler's steps keep the types.
LEMMA HandlerTypes == LInv /\ (HandlerStep \/ NextGuild) => TypeOK'
<1> SUFFICES ASSUME LInv, HandlerStep \/ NextGuild PROVE TypeOK'
  OBVIOUS
<1>a. TypeOK /\ page \in PageType /\ Sound(page)
  BY PageTyped DEF LInv
<1>b. page.items \in 0..MaxItems /\ page.truncated \in BOOLEAN /\ page.failed \in BOOLEAN
      /\ page.unsupported \in BOOLEAN
  BY <1>a DEF PageType
<1>c. NoUsers \in [supported : BOOLEAN, failure : BOOLEAN, success : BOOLEAN, truncated : BOOLEAN]
  BY DEF NoUsers
<1>d. page' = NewPage => page' \in PageType
  BY NewPageSound
<1> DEFINE
  Types ==
    /\ filter' \in Filters /\ left' \in 0..MaxBots /\ bot' \in Adapters
    /\ stage' \in Lists \cup {"next", "guilds", "users", "merge", "done"}
    /\ guilds' \in 0..MaxItems /\ mode' \in {"unknown", "nested", "flat"}
    /\ users' \in [supported : BOOLEAN, failure : BOOLEAN, success : BOOLEAN, truncated : BOOLEAN]
    /\ listed' \subseteq Wanted'
    /\ incomplete' \in BOOLEAN /\ said' \in BOOLEAN /\ cut' \in BOOLEAN
<1>e. ASSUME Types, page' \in PageType PROVE TypeOK'
  BY <1>e DEF TypeOK, PageType
<1>1. ASSUME NEW b \in Adapters, TakeBot(b) PROVE TypeOK'
  <2>1. left' \in 0..MaxBots
    BY <1>a, <1>1, BoundsAssumption DEF TypeOK, TakeBot
  <2>2. stage' \in Lists \cup {"next", "guilds", "users", "merge", "done"} /\ page' \in PageType
    BY <1>1, <1>d DEF TakeBot, Goes, Lists
  <2>3. incomplete' \in BOOLEAN
    BY <1>1 DEF TakeBot
  <2>. QED BY <1>1, <1>a, <1>c, <1>e, <2>1, <2>2, <2>3 DEF TypeOK, TakeBot, outcome
<1>2. CASE HaveGuilds
  BY <1>2, <1>a, <1>b, <1>d, <1>e DEF TypeOK, HaveGuilds, Goes, request, Wanted
<1>3. CASE NextGuild
  BY <1>3, <1>a, <1>d, <1>e, BoundsAssumption
  DEF TypeOK, NextGuild, Push, Goes, Lists, request, outcome, Wanted, PageType
<1>4. CASE HaveChannels
  BY <1>4, <1>a, <1>b, <1>d, <1>e DEF TypeOK, HaveChannels, Push, Goes, request, outcome, Wanted
<1>5. CASE NoMoreGuilds \/ AskUsers
  BY <1>5, <1>a, <1>d, <1>e
  DEF TypeOK, NoMoreGuilds, AskUsers, Goes, Lists, UserLists, request, outcome, Wanted
<1>6. CASE HaveFriends
  BY <1>6, <1>a, <1>d, <1>e, SeenEffect
  DEF TypeOK, HaveFriends, Push, Goes, Lists, UserLists, request, outcome, Wanted
<1>7. CASE HaveUsers
  BY <1>7, <1>a, <1>d, <1>e, SeenEffect
  DEF TypeOK, HaveUsers, Push, Goes, request, Wanted
<1>8. CASE Merge \/ Respond
  BY <1>8, <1>a, <1>c, <1>d, <1>e DEF TypeOK, Merge, Respond, Goes, request, outcome, Wanted
<1>9. CASE SkipBot
  BY <1>9, <1>a, <1>d, <1>e, BoundsAssumption DEF TypeOK, SkipBot, Goes, outcome, Wanted
<1>. QED BY <1>1, <1>2, <1>3, <1>4, <1>5, <1>6, <1>7, <1>8, <1>9 DEF HandlerStep

\* What is lost is handed on, from the page to the bot's flag or to what its user
\* lists have shown, and from there to the response.
LEMMA HandlerCuts == LInv /\ (HandlerStep \/ NextGuild) => CutInv'
<1> SUFFICES ASSUME LInv, HandlerStep \/ NextGuild PROVE CutInv'
  OBVIOUS
<1>a. TypeOK /\ Sound(page) /\ CutInv
  BY DEF LInv
<1>b. cut \in BOOLEAN /\ said \in BOOLEAN /\ incomplete \in BOOLEAN /\ users.truncated \in BOOLEAN
  BY <1>a DEF TypeOK
<1> USE DEF CutInv
<1>1. ASSUME NEW b \in Adapters, TakeBot(b) PROVE CutInv'
  BY <1>1, <1>a DEF TakeBot, Goes, NoUsers, outcome, Lists, UserLists
<1>2. CASE HaveGuilds
  BY <1>2, <1>a DEF HaveGuilds, Goes, Flagged, Lost, Lists, UserLists
<1>3. CASE NextGuild
  BY <1>3, <1>a DEF NextGuild, Goes, Lost, Lists, UserLists, outcome
<1>4. CASE HaveChannels
  BY <1>4, <1>a DEF HaveChannels, Goes, Lost, Lists, UserLists, outcome
<1>5. CASE NoMoreGuilds \/ AskUsers
  <2>1. cut' = cut /\ said' = said /\ users' = users /\ (incomplete => incomplete')
    BY <1>5, <1>b DEF NoMoreGuilds, AskUsers, outcome
  <2>2. stage \in {"guilds", "users"} /\ stage' \in {"users", "merge", "getFriendList"}
    BY <1>5 DEF NoMoreGuilds, AskUsers, Goes
  <2>. QED BY <2>1, <2>2, <1>a, <1>b DEF Lists, UserLists
<1>6. CASE HaveFriends
  BY <1>6, <1>a, SeenEffect DEF HaveFriends, Goes, Lost, Lists, UserLists, outcome
<1>7. CASE HaveUsers
  BY <1>7, <1>a, SeenEffect DEF HaveUsers, Goes, Lost, Lists, UserLists
<1>8. CASE Merge \/ Respond
  <2>1. CASE Merge
    BY <2>1, <1>a, <1>b DEF Merge, Goes, NoUsers, Lists, UserLists
  <2>2. CASE Respond
    BY <2>2, <1>a, <1>b DEF Respond, Goes, Lists, UserLists, outcome
  <2>. QED BY <1>8, <2>1, <2>2
<1>9. CASE SkipBot
  BY <1>9, <1>a, <1>b DEF SkipBot, Goes, Lists, UserLists, outcome
<1>. QED BY <1>1, <1>2, <1>3, <1>4, <1>5, <1>6, <1>7, <1>8, <1>9 DEF HandlerStep

\* What is pushed is of a kind the bot declares.
LEMMA HandlerKinds == LInv /\ (HandlerStep \/ NextGuild) => GuildsInv' /\ ListedIsDeclared'
<1> SUFFICES ASSUME LInv, HandlerStep \/ NextGuild PROVE GuildsInv' /\ ListedIsDeclared'
  OBVIOUS
<1>a. GuildsInv /\ ListedIsDeclared /\ Given /\ guilds \in 0..MaxItems /\ MaxItems \in Nat
  BY BoundsAssumption DEF LInv, TypeOK
<1>b. "getGuildList" \in bot.methods => hasGuildSurface(bot)
  BY DEF hasGuildSurface, Has
<1>c. /\ hasNestedChannels(bot) => {"CHANNEL", "THREAD"} \subseteq botTargetKinds(bot)
      /\ ~hasNestedChannels(bot) /\ hasGuildSurface(bot)
           => {"GROUP", "CHANNEL"} \subseteq botTargetKinds(bot)
  BY DEF botTargetKinds
<1>1. ASSUME NEW b \in Adapters, TakeBot(b) PROVE GuildsInv' /\ ListedIsDeclared'
  BY <1>1, <1>a DEF TakeBot, Goes, GuildsInv, ListedIsDeclared
<1>2. CASE HaveGuilds
  BY <1>2, <1>a DEF HaveGuilds, Goes, Given, GuildsInv, ListedIsDeclared, request
<1>3. CASE NextGuild
  <2>1. GuildsInv'
    BY <1>3, <1>a DEF NextGuild, Goes, GuildsInv, request
  <2>2. ListedIsDeclared'
    <3>1. listed' \subseteq listed \cup {"USER", "GROUP", "CHANNEL"} /\ bot' = bot /\ mode' = mode
      BY <1>3 DEF NextGuild, Push
    <3>2. CASE mode = "flat" /\ ~hasNestedChannels(bot)
      BY <1>3, <1>a, <1>b, <1>c, <3>1, <3>2 DEF NextGuild, GuildsInv, ListedIsDeclared
    <3>3. CASE mode = "flat" /\ hasNestedChannels(bot)
      BY <3>1, <3>3 DEF ListedIsDeclared
    <3>4. CASE mode # "flat"
      BY <1>3, <1>a, <3>1, <3>4 DEF NextGuild, ListedIsDeclared
    <3>. QED BY <3>2, <3>3, <3>4
  <2>. QED BY <2>1, <2>2
<1>4. CASE HaveChannels
  <2>1. mode # "flat" /\ hasNestedChannels(bot) /\ bot' = bot
    BY <1>4, <1>a DEF HaveChannels, GuildsInv
  <2>2. GuildsInv'
    BY <1>4, <1>a, <2>1 DEF HaveChannels, Goes, GuildsInv, request
  <2>3. mode' = "flat" \/ listed' \subseteq listed \cup {"CHANNEL", "THREAD"}
    BY <1>4 DEF HaveChannels, Push
  <2>. QED BY <1>a, <1>c, <2>1, <2>2, <2>3 DEF ListedIsDeclared
<1>5. CASE NoMoreGuilds \/ AskUsers
  BY <1>5, <1>a DEF NoMoreGuilds, AskUsers, Goes, GuildsInv, ListedIsDeclared, request
<1>6. CASE HaveFriends \/ HaveUsers
  <2>1. listed' \subseteq listed \cup {"USER"} /\ bot' = bot /\ mode' = mode
    BY <1>6 DEF HaveFriends, HaveUsers, Push, request
  <2>2. ListedIsDeclared'
    BY <1>a, <2>1 DEF ListedIsDeclared
  <2>3. GuildsInv'
    BY <1>6, <1>a DEF HaveFriends, HaveUsers, Goes, GuildsInv, request
  <2>. QED BY <2>2, <2>3
<1>7. CASE Merge \/ Respond \/ SkipBot
  BY <1>7, <1>a DEF Merge, Respond, SkipBot, Goes, GuildsInv, ListedIsDeclared, request
<1>. QED BY <1>1, <1>2, <1>3, <1>4, <1>5, <1>6, <1>7 DEF HandlerStep

\* The steps of the handler begin a new page; only a flat guild leaves the page
\* as it is.
LEMMA HandlerPages == LInv /\ (HandlerStep \/ NextGuild) => Sound(page)' /\ Given'
<1> SUFFICES ASSUME LInv, HandlerStep \/ NextGuild PROVE Sound(page)' /\ Given'
  OBVIOUS
<1>1. Turned \/ UNCHANGED <<page, stage, bot>>
  BY DEF HandlerStep, NextGuild, TakeBot, SkipBot, HaveGuilds, HaveChannels, NoMoreGuilds,
         AskUsers, HaveFriends, HaveUsers, Merge, Respond, Goes, Turned
<1>2. CASE Turned
  BY <1>2, TurnedPage
<1>3. CASE UNCHANGED <<page, stage, bot>>
  BY <1>3 DEF LInv, Sound, Given
<1>. QED BY <1>1, <1>2, <1>3

\* A step that changes nothing keeps the invariant.
LEMMA Stuttering == LInv /\ UNCHANGED vars => LInv'
<1> SUFFICES ASSUME LInv, UNCHANGED vars PROVE LInv'
  OBVIOUS
<1>1. TypeOK' /\ Sound(page)' /\ Given'
  BY DEF LInv, TypeOK, Wanted, Sound, Given, vars
<1>2. CutInv' /\ GuildsInv' /\ ListedIsDeclared'
  BY DEF LInv, CutInv, Lost, GuildsInv, ListedIsDeclared, vars
<1>. QED BY <1>1, <1>2 DEF LInv

\* The invariant holds of every behaviour.
LEMMA ListingInductive == Spec => []LInv
<1>1. LInv /\ [Next]_vars => LInv'
  <2> SUFFICES ASSUME LInv, [Next]_vars PROVE LInv'
    OBVIOUS
  <2>1. CASE Adapter \/ TurnPage
    BY <2>1, PageStep, PagesKeep
  <2>2. CASE HandlerStep \/ NextGuild
    BY <2>2, HandlerTypes, HandlerCuts, HandlerKinds, HandlerPages DEF LInv
  <2>3. CASE UNCHANGED vars
    BY <2>3, Stuttering
  <2>. QED BY <2>1, <2>2, <2>3 DEF Next, Handler, HandlerStep
<1>. QED BY InitInv, <1>1, PTL DEF Spec

-----------------------------------------------------------------------------
(* What follows                                                              *)

\* Every variable keeps its type, and no list its caps are for grows past them.
THEOREM ListingTypeCorrect == Spec => []TypeOK
<1>1. LInv => TypeOK
  BY DEF LInv
<1>. QED BY <1>1, ListingInductive, PTL

\* Whatever paginate cut off or was refused, for whichever of the bots, the
\* response says that the list is not whole.
THEOREM CutsAlwaysSaid == Spec => []CutsAreSaid
<1>1. LInv => CutsAreSaid
  BY DEF LInv, CutInv, CutsAreSaid, Done, Lists, UserLists
<1>. QED BY <1>1, ListingInductive, PTL

\* Whatever adapters answer, the targets listed for a bot are of the kinds that
\* botTargetKinds declares, but where its channels turn out not to be listed.
THEOREM ListedAlwaysDeclared == Spec => []ListedIsDeclared
<1>1. LInv => ListedIsDeclared
  BY DEF LInv
<1>. QED BY <1>1, ListingInductive, PTL

-----------------------------------------------------------------------------
(* The listing comes to an end                                               *)

\* How many stages a bot has before it, the guilds it has left to look into, and
\* what paginate may still do to the page at hand.
StagesLeft ==
  CASE stage = "getGuildList" -> 7
    [] stage \in {"guilds", "getChannelList"} -> 6
    [] stage = "users" -> 5
    [] stage = "getFriendList" -> 4
    [] stage = "getUserList" -> 3
    [] stage = "merge" -> 2
    [] stage = "next" -> 1
    [] OTHER -> 0
GuildsLeft == 2 * guilds + (IF stage = "getChannelList" THEN 1 ELSE 0)
PageLeft(p) ==
  IF p.over THEN 0
  ELSE IF p.iterating THEN 1 + (MaxItems - p.yielded)
  ELSE MaxItems + 2 + 2 * (MaxPages + 1 - p.pages) + (IF p.more THEN 0 ELSE 1)

Left == <<left, <<StagesLeft, <<GuildsLeft, PageLeft(page)>>>>>>

\* The bots count first, then the stages of one, its guilds and its pages.
Fewer == OpToRel(<, Nat)
FewerPages == LexPairOrdering(Fewer, Fewer, Nat, Nat)
FewerStages == LexPairOrdering(Fewer, FewerPages, Nat, Nat \X Nat)
Shorter == LexPairOrdering(Fewer, FewerStages, Nat, Nat \X (Nat \X Nat))
Lefts == Nat \X (Nat \X (Nat \X Nat))

\* Nothing gets shorter for ever.
THEOREM ShorterEnds == IsWellFoundedOn(Shorter, Lefts)
<1>1. IsWellFoundedOn(Fewer, Nat)
  BY NatLessThanWellFounded DEF Fewer
<1>2. IsWellFoundedOn(FewerPages, Nat \X Nat)
  BY <1>1, WFLexPairOrdering DEF FewerPages
<1>3. IsWellFoundedOn(FewerStages, Nat \X (Nat \X Nat))
  BY <1>1, <1>2, WFLexPairOrdering DEF FewerStages
<1>. QED BY <1>1, <1>3, WFLexPairOrdering DEF Shorter, Lefts

\* The order on what is left, by its parts.
LEMMA ShorterByParts ==
  ASSUME NEW a \in Nat, NEW b \in Nat, NEW c \in Nat, NEW d \in Nat,
         NEW e \in Nat, NEW f \in Nat, NEW g \in Nat, NEW h \in Nat,
         \/ e < a
         \/ e = a /\ f < b
         \/ e = a /\ f = b /\ g < c
         \/ e = a /\ f = b /\ g = c /\ h < d
  PROVE  <<<<e, <<f, <<g, h>>>>>>, <<a, <<b, <<c, d>>>>>>>> \in Shorter
<1>1. \A i, j \in Nat : i < j => <<i, j>> \in Fewer
  BY DEF Fewer, OpToRel
<1>2. g < c \/ (g = c /\ h < d) => <<<<g, h>>, <<c, d>>>> \in FewerPages
  BY <1>1 DEF FewerPages, LexPairOrdering
<1>3. f < b \/ (f = b /\ <<<<g, h>>, <<c, d>>>> \in FewerPages)
        => <<<<f, <<g, h>>>>, <<b, <<c, d>>>>>> \in FewerStages
  BY <1>1 DEF FewerStages, LexPairOrdering
<1>4. e < a \/ (e = a /\ <<<<f, <<g, h>>>>, <<b, <<c, d>>>>>> \in FewerStages)
        => <<<<e, <<f, <<g, h>>>>>>, <<a, <<b, <<c, d>>>>>>>> \in Shorter
  BY <1>1 DEF Shorter, LexPairOrdering
<1>. QED BY <1>2, <1>3, <1>4

\* What a page may still be put through is a number, and none once it is over.
LEMMA PageLeftTyped ==
  ASSUME NEW p \in PageType
  PROVE  PageLeft(p) \in Nat
BY BoundsAssumption DEF PageLeft, PageType

\* What is left is counted in numbers.
LEMMA LeftTyped == TypeOK => Left \in Lefts /\ left \in Nat /\ StagesLeft \in Nat
                             /\ GuildsLeft \in Nat /\ PageLeft(page) \in Nat
<1> SUFFICES ASSUME TypeOK
             PROVE  left \in Nat /\ StagesLeft \in Nat /\ GuildsLeft \in Nat
                    /\ PageLeft(page) \in Nat
  BY DEF Left, Lefts
<1>1. left \in Nat /\ GuildsLeft \in Nat
  BY BoundsAssumption DEF TypeOK, GuildsLeft
<1>2. StagesLeft \in Nat
  BY DEF StagesLeft
<1>. QED BY <1>1, <1>2, PageTyped, PageLeftTyped

\* A page that ends has nothing left; one that goes on had something.
LEMMA EndsShorter ==
  ASSUME NEW p \in PageType, ~p.over, NEW q \in PageType,
         NEW how \in {"whole", "truncated", "failed", "unsupported"}
  PROVE  PageLeft(Ends(q, how)) < PageLeft(p)
<1>1. PageLeft(Ends(q, how)) = 0
  BY EndsEffect DEF PageLeft
<1>2. PageLeft(p) > 0
  BY BoundsAssumption DEF PageLeft, PageType
<1>. QED BY <1>1, <1>2

\* Every answer of an adapter and every look at the caps brings the page nearer
\* to its end: a page that names a new one too, and an item of an iterable.
LEMMA PageShorter ==
  ASSUME LInv, Adapter \/ TurnPage
  PROVE  PageLeft(page') < PageLeft(page)
<1>a. TypeOK /\ page \in PageType /\ Sound(page)
  BY PageTyped DEF LInv
<1>b. /\ page.pages \in 1..(MaxPages + 1) /\ page.items \in 0..MaxItems
      /\ page.yielded \in 0..MaxItems /\ MaxItems \in Nat \ {0} /\ MaxPages \in Nat \ {0}
  BY <1>a, BoundsAssumption DEF PageType
<1>c. page.iterating \/ page.more => ~page.over
  BY <1>a DEF Sound
<1>d. ASSUME NEW how \in {"whole", "truncated", "failed", "unsupported"}, NEW loss,
             ~page.over, Paginated(Ends(page, how), loss)
      PROVE  PageLeft(page') < PageLeft(page)
  BY <1>a, <1>d, EndsShorter DEF Paginated
<1>1. ASSUME NEW n \in 0..PageSize, NEW token \in {"none", "old", "new"}, PageComes(n, token)
      PROVE  PageLeft(page') < PageLeft(page)
  <2> DEFINE read == [page EXCEPT !.items = Least(@ + n, MaxItems)]
  <2>1. ~page.over /\ ~page.iterating /\ ~page.more
    BY <1>1 DEF PageComes, Fetching
  <2>2. page.items + n \in Nat
    BY <1>b, BoundsAssumption
  <2>3. read \in PageType
    BY <1>a, <2>2, LeastTyped DEF PageType
  <2>4. ~read.over /\ ~read.iterating /\ read.pages = page.pages
    BY <1>a, <2>1 DEF PageType
  <2>5. PageLeft([read EXCEPT !.more = TRUE]) < PageLeft(page)
    <3>. HIDE DEF read
    <3>1. /\ ~[read EXCEPT !.more = TRUE].over /\ ~[read EXCEPT !.more = TRUE].iterating
          /\ [read EXCEPT !.more = TRUE].pages = page.pages /\ [read EXCEPT !.more = TRUE].more
      BY <2>3, <2>4 DEF PageType
    <3>. QED BY <1>b, <2>1, <3>1 DEF PageLeft
  <2>6. page' = Ends(read, "whole") \/ page' = [read EXCEPT !.more = TRUE]
    BY <1>1 DEF PageComes, Paginated
  <2>. HIDE DEF read
  <2>. QED BY <1>a, <2>1, <2>3, <2>5, <2>6, EndsShorter
<1>2. CASE TurnPage
  <2> DEFINE pages == Least(page.pages + 1, MaxPages + 1)
             turned == [page EXCEPT !.pages = pages, !.more = FALSE]
  <2>1. page.more /\ ~page.over /\ ~page.iterating
    BY <1>2, <1>a DEF TurnPage, Sound
  <2>2. \/ Paginated(Ends(page, "truncated"), TRUE)
        \/ ~AtCap(pages, page.items) /\ Paginated(turned, FALSE)
    BY <1>2 DEF TurnPage
  <2>3. CASE Paginated(Ends(page, "truncated"), TRUE)
    BY <1>d, <2>1, <2>3
  <2>4. CASE ~AtCap(pages, page.items) /\ Paginated(turned, FALSE)
    <3>1. pages = page.pages + 1 /\ pages <= MaxPages
      BY <1>b, <2>4 DEF AtCap, Least
    <3>2. page' = turned
      BY <2>4 DEF Paginated
    <3>3. turned.pages = pages /\ ~turned.more /\ ~turned.over /\ ~turned.iterating
      BY <1>a, <2>1 DEF PageType
    <3>. HIDE DEF turned, pages
    <3>. QED BY <1>b, <2>1, <3>1, <3>2, <3>3 DEF PageLeft
  <2>. QED BY <2>2, <2>3, <2>4
<1>3. CASE NullComes \/ RejectsUnsupported \/ Rejects
  BY <1>d, <1>3 DEF NullComes, RejectsUnsupported, Rejects, Rejected, Fetching
<1>4. CASE IterableComes
  <2>1. ~page.over /\ ~page.iterating /\ ~page.more /\ page' = [page EXCEPT !.iterating = TRUE]
    BY <1>4 DEF IterableComes, Fetching, Paginated
  <2>2. page'.iterating /\ ~page'.over /\ page'.yielded = page.yielded
    BY <1>a, <2>1 DEF PageType
  <2>. QED BY <1>b, <2>1, <2>2 DEF PageLeft
<1>5. CASE Yields
  <2> DEFINE more == [page EXCEPT !.yielded = @ + 1]
             all == [more EXCEPT !.items = Least(@ + more.yielded, MaxItems)]
  <2>1. page.iterating /\ ~page.over
    BY <1>5, <1>c DEF Yields, Iterating
  <2>2. page.yielded < MaxItems
    BY <1>a, <2>1 DEF Sound
  <2>3. /\ more \in PageType /\ more.yielded = page.yielded + 1
        /\ more.items = page.items /\ more.iterating /\ ~more.over
    BY <1>a, <1>b, <2>1, <2>2 DEF PageType
  <2>4. all \in PageType
    <3>1. more.items + more.yielded \in Nat
      BY <1>b, <2>3
    <3>. HIDE DEF more
    <3>. QED BY <2>3, <3>1, LeastTyped DEF PageType
  <2>5. page' = Ends(all, "truncated") \/ page' = more
    BY <1>5 DEF Yields, Paginated
  <2>. HIDE DEF more, all
  <2>6. PageLeft(more) < PageLeft(page)
    BY <1>b, <2>1, <2>2, <2>3 DEF PageLeft
  <2>. QED BY <1>a, <2>1, <2>4, <2>5, <2>6, EndsShorter
<1>6. CASE IterableEnds
  <2> DEFINE all == [page EXCEPT !.items = Least(@ + page.yielded, MaxItems)]
  <2>1. ~page.over /\ page' = Ends(all, "whole")
    BY <1>6, <1>c DEF IterableEnds, Iterating, Paginated
  <2>2. all \in PageType
    <3>1. page.items + page.yielded \in Nat
      BY <1>b
    <3>. QED BY <1>a, <3>1, LeastTyped DEF PageType
  <2>. HIDE DEF all
  <2>. QED BY <1>a, <2>1, <2>2, EndsShorter
<1>7. ASSUME NEW unsupported \in BOOLEAN, IterableThrows(unsupported)
      PROVE  PageLeft(page') < PageLeft(page)
  BY <1>c, <1>d, <1>7 DEF IterableThrows, Iterating, Rejected
<1>. QED BY <1>1, <1>2, <1>3, <1>4, <1>5, <1>6, <1>7 DEF Adapter

\* Every step of the handler leaves fewer bots, or fewer stages of the bot at
\* hand, or fewer of its guilds.
LEMMA HandlerShorter ==
  ASSUME TypeOK, HandlerStep \/ NextGuild
  PROVE  \/ left' < left
         \/ left' = left /\ StagesLeft' < StagesLeft
         \/ left' = left /\ StagesLeft' = StagesLeft /\ GuildsLeft' < GuildsLeft
<1>a. left \in Nat /\ guilds \in Nat
  BY BoundsAssumption DEF TypeOK
<1>1. ASSUME NEW b \in Adapters, TakeBot(b) PROVE left' < left
  BY <1>a, <1>1 DEF TakeBot
<1>2. CASE NextGuild
  <2>1. stage = "guilds" /\ guilds > 0 /\ guilds' = guilds - 1 /\ left' = left
        /\ stage' \in {"guilds", "getChannelList"}
    BY <1>2 DEF NextGuild, Goes, request
  <2>2. StagesLeft' = StagesLeft
    BY <2>1 DEF StagesLeft
  <2>3. GuildsLeft' < GuildsLeft
    BY <1>a, <2>1 DEF GuildsLeft
  <2>. QED BY <2>1, <2>2, <2>3
<1>3. CASE HaveChannels
  <2>1. stage = "getChannelList" /\ stage' = "guilds" /\ guilds' = guilds /\ left' = left
    BY <1>3 DEF HaveChannels, Goes, request
  <2>2. StagesLeft' = StagesLeft /\ GuildsLeft' < GuildsLeft
    BY <1>a, <2>1 DEF StagesLeft, GuildsLeft
  <2>. QED BY <2>1, <2>2
<1>4. CASE HaveGuilds \/ NoMoreGuilds \/ AskUsers
  BY <1>4 DEF HaveGuilds, NoMoreGuilds, AskUsers, Goes, request, StagesLeft
<1>5. CASE HaveFriends \/ HaveUsers \/ Merge \/ Respond
  BY <1>5 DEF HaveFriends, HaveUsers, Merge, Respond, Goes, request, StagesLeft
<1>6. CASE SkipBot
  BY <1>a, <1>6 DEF SkipBot
<1>. QED BY <1>1, <1>2, <1>3, <1>4, <1>5, <1>6 DEF HandlerStep

\* The safety half of AlwaysResponds, for caps of any size and whatever adapters
\* answer, one that names new pages for ever and one that yields for ever too:
\* every step of a listing leaves less to do, in an order in which nothing gets
\* shorter for ever (ShorterEnds).  What TLC adds is that a step is always taken.
Shortens == <<Left', Left>> \in Shorter
EveryStepShortens == [][Shortens]_vars

\* Every step of a listing makes what is left of it shorter.
THEOREM ListingGetsShorter == Spec => EveryStepShortens
<1> DEFINE Counted == left \in Nat /\ StagesLeft \in Nat /\ GuildsLeft \in Nat
                      /\ PageLeft(page) \in Nat
<1>1. LInv => Counted
  BY LeftTyped DEF LInv
<1>2. ASSUME LInv, Counted, Counted', Next PROVE Shortens
  <2>1. \/ left' < left
        \/ left' = left /\ StagesLeft' < StagesLeft
        \/ left' = left /\ StagesLeft' = StagesLeft /\ GuildsLeft' < GuildsLeft
        \/ /\ left' = left /\ StagesLeft' = StagesLeft /\ GuildsLeft' = GuildsLeft
           /\ PageLeft(page)' < PageLeft(page)
    <3>1. CASE Adapter \/ TurnPage
      <4>1. UNCHANGED <<left, stage, guilds>>
        BY <1>2, <3>1, PageStep DEF Pages, request
      <4>2. PageLeft(page)' < PageLeft(page)
        BY <1>2, <3>1, PageShorter DEF PageLeft
      <4>. QED BY <4>1, <4>2 DEF StagesLeft, GuildsLeft
    <3>2. CASE HandlerStep \/ NextGuild
      BY <1>2, <3>2, HandlerShorter DEF LInv
    <3>. QED BY <1>2, <3>1, <3>2 DEF Next, Handler, HandlerStep
  <2>. QED BY <1>2, <2>1, ShorterByParts DEF Left, Shortens
<1>3. LInv /\ Counted /\ Counted' /\ [Next]_vars => [Shortens]_vars
  BY <1>2
<1>. HIDE DEF Counted
<1>. QED BY <1>1, <1>3, ListingInductive, PTL DEF Spec, EveryStepShortens
=============================================================================

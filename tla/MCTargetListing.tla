--------------------------- MODULE MCTargetListing ---------------------------
(* TargetListing with the shapes the adapters of Koishi have.               *)
EXTENDS TargetListing

\* Guilds with channels and members, as Discord and KOOK have.
Nested == [methods |-> {"getGuildList", "getChannelList", "createThread"}, features |-> {},
           encoder |-> "mentions all"]
\* All of them, as a client of Satori or a bot of its own.
Full == [methods |-> Lists, features |-> {}, encoder |-> "mentions all"]
\* Groups and friends, as OneBot has.
Flat == [methods |-> {"getGuildList", "getFriendList", "getUserList"}, features |-> {},
         encoder |-> "mentions all"]
\* Chats and users it can look up but not list, as Telegram.
LooksUp == [methods |-> {"getGuild", "getUser"}, features |-> {}, encoder |-> "plain"]
\* Features that name lists the bot has no method for.
Claims == [methods |-> {"getGuildList"}, features |-> {"channel.list", "friend.list"},
           encoder |-> "none"]
\* Nothing but messages to single users, as mail.
MailOnly == [methods |-> {}, features |-> {}, encoder |-> "plain"]

MCAdapters == {Nested, Full, Flat, LooksUp, Claims, MailOnly}
MCFilters == {"ANY", "USER", "GROUP", "CHANNEL"}
=============================================================================

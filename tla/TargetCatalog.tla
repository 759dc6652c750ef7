---------------------------- MODULE TargetCatalog ----------------------------
(***************************************************************************)
(* listMessageTargets of the JVM plugin and listTargets of its gateway: the  *)
(* plugin goes through the accounts that are READY, asks Koishi for the      *)
(* targets of each and merges what comes back, while the WebSocket thread    *)
(* changes the account cache and the connection comes and goes.              *)
(* A definition directly above the one it resembles is a slip that the       *)
(* runs have to catch; nothing uses it.                                      *)
(***************************************************************************)
EXTENDS Naturals

CONSTANTS
  Accounts,   \* the bots, as [platform, id]: botKey is the two together
  Targets,    \* the targets a bot may have, each on its bot's platform
  MaxChanges  \* bound: changes of the cache and of the connection

ASSUME AccountsAssumption == Accounts \subseteq [platform : STRING, id : STRING]
ASSUME BoundsAssumption == MaxChanges \in Nat

VARIABLES
  cache, up,     \* accounts of the gateway, with their states; a session is there
  changes,
  stage,         \* of listMessageTargets: idle, listing or done
  ready, todo,   \* the READY accounts it found, and those it has still to ask for
  for, asked,    \* the account at hand, and the one whose targets Koishi is asked for
  candidates     \* what it has: a target, the platform and account of its address
                 \* and the account whose route is its source

cacheVars == <<cache, up, changes>>
caller == <<stage, ready, todo, candidates>>
vars == <<cache, up, changes, stage, ready, todo, for, asked, candidates>>

NoOne == [platform |-> "", id |-> ""]

Init ==
  /\ cache \in [Accounts -> {"absent", "READY", "UNAVAILABLE"}] /\ up = TRUE /\ changes = 0
  /\ stage = "idle" /\ ready = {} /\ todo = {}
  /\ for = NoOne /\ asked = NoOne /\ candidates = {}

\* bot.changed, or the snapshot of another coroutine.
CacheChanges(a, state) ==
  /\ changes < MaxChanges /\ changes' = changes + 1
  /\ cache' = [cache EXCEPT ![a] = state]
  /\ UNCHANGED <<up, caller, for, asked>>

BeginAll ==
  /\ stage = "idle" /\ stage' = "listing"
  /\ ready' = {a \in Accounts : cache[a] = "READY"}
  /\ todo' = ready'
  /\ UNCHANGED <<cacheVars, for, asked, candidates>>
\* The plugin sees the accounts once; "qq" is not one of its platforms.
Begin ==
  /\ stage = "idle" /\ stage' = "listing"
  /\ ready' = {a \in Accounts : cache[a] = "READY" /\ a.platform # "qq"}
  /\ todo' = ready'
  /\ UNCHANGED <<cacheVars, for, asked, candidates>>

CachedSame(a) == {b \in Accounts : cache[b] # "absent"}
\* The gateway is given the account's id alone; which one of several it finds is
\* up to the order of the map.
Cached(a) == {b \in Accounts : cache[b] # "absent" /\ b.id = a.id}

SkipHeld(a) == todo' = todo \ {a} /\ UNCHANGED <<for, asked, stage, ready, candidates>>
\* No account, no session, a call that fails: no targets, and on to the next.
Skip(a) ==
  /\ todo' = todo \ {a} /\ for' = NoOne /\ asked' = NoOne
  /\ UNCHANGED <<stage, ready, candidates>>

AskFor(a) ==
  /\ stage = "listing" /\ for = NoOne /\ a \in todo
  /\ \/ (Cached(a) = {} \/ ~up) /\ Skip(a) /\ UNCHANGED cacheVars
     \/ /\ up /\ for' = a /\ asked' \in Cached(a)
        /\ UNCHANGED <<cacheVars, caller>>

Fails == for # NoOne /\ Skip(for) /\ UNCHANGED cacheVars

\* A connection that is made or lost; the call on the old one fails with it.
ConnectionChanges ==
  /\ changes < MaxChanges /\ changes' = changes + 1
  /\ up' = ~up
  /\ IF for # NoOne THEN Skip(for) ELSE UNCHANGED <<caller, for, asked>>
  /\ UNCHANGED cache

RepliesAlsoForQq(targets) ==
  /\ for # NoOne
  /\ candidates' = candidates \cup
       {[target |-> t, platform |-> asked.platform, id |-> asked.id, source |-> for] : t \in targets}
  /\ todo' = todo \ {for} /\ for' = NoOne /\ asked' = NoOne
  /\ UNCHANGED <<cacheVars, stage, ready>>
\* Koishi's listTargets skips a bot of "qq" and answers with no targets.  The
\* address is that of the account found, the source is the route of the one at hand.
Replies(targets) ==
  /\ for # NoOne /\ (asked.platform = "qq" => targets = {})
  /\ candidates' = candidates \cup
       {[target |-> t, platform |-> asked.platform, id |-> asked.id, source |-> for] : t \in targets}
  /\ todo' = todo \ {for} /\ for' = NoOne /\ asked' = NoOne
  /\ UNCHANGED <<cacheVars, stage, ready>>

\* Candidates of one address are merged, with the sources of all of them.
Finish ==
  /\ stage = "listing" /\ todo = {} /\ stage' = "done"
  /\ UNCHANGED <<cacheVars, ready, todo, for, asked, candidates>>

Next ==
  \/ \E a \in Accounts, state \in {"absent", "READY", "UNAVAILABLE"} : CacheChanges(a, state)
  \/ ConnectionChanges
  \/ Begin \/ Finish \/ Fails
  \/ \E a \in Accounts : AskFor(a)
  \/ \E targets \in SUBSET Targets : Replies(targets)

Spec == Init /\ [][Next]_vars

-----------------------------------------------------------------------------
\* Every variable keeps its type; a call is under way for an account of the list.
TypeOK ==
  /\ cache \in [Accounts -> {"absent", "READY", "UNAVAILABLE"}]
  /\ up \in BOOLEAN /\ changes \in 0..MaxChanges
  /\ stage \in {"idle", "listing", "done"}
  /\ ready \subseteq Accounts /\ todo \subseteq ready
  /\ for \in todo \cup {NoOne} /\ asked \in Accounts \cup {NoOne}
  /\ \A c \in candidates : c.target \in Targets /\ c.source \in ready

\* A candidate is offered by one of the accounts that the plugin picked, at the
\* address of a bot with the same selfId, whatever becomes of the cache between the
\* two lookups: only two bots that share a selfId are taken for each other.  (Those
\* are: see the README.)
OfOneId ==
  \A c \in candidates :
    /\ c.source \in ready /\ c.id = c.source.id
    /\ [platform |-> c.platform, id |-> c.id] \in Accounts

\* No target of the excluded platform "qq" is offered, and none with a route of
\* it, although the gateway looks for the account among all that it knows and may
\* find a bot of "qq" that shares its selfId with one of another platform.
NothingOfQq == \A c \in candidates : c.platform # "qq" /\ c.source.platform # "qq"
=============================================================================

-------------------------------- MODULE Rpc ---------------------------------
(***************************************************************************)
(* What DbkSession.call promises the code above it, without ids, maps,     *)
(* locks or threads: a call ends once; it ends with the answer the peer    *)
(* gave to this very request, or as "refused" when the request never left  *)
(* this process, or as "unknown", which says nothing about the peer.       *)
(***************************************************************************)
CONSTANT Calls

VARIABLES
  stage,     \* idle, active, done
  requested, \* the calls whose request has left
  answer,    \* what the peer answered, if it has
  result     \* what the caller was told

vars == <<stage, requested, answer, result>>

Init ==
  /\ stage = [c \in Calls |-> "idle"]
  /\ requested = {}
  /\ answer = [c \in Calls |-> "none"]
  /\ result = [c \in Calls |-> "none"]

Begin(c) ==
  /\ stage[c] = "idle"
  /\ stage' = [stage EXCEPT ![c] = "active"]
  /\ UNCHANGED <<requested, answer, result>>

Request(c) ==
  /\ stage[c] = "active" /\ c \notin requested
  /\ requested' = requested \cup {c}
  /\ UNCHANGED <<stage, answer, result>>

\* The peer may answer late, when nobody waits any more.
Answer(c, op) ==
  /\ c \in requested /\ answer[c] = "none"
  /\ answer' = [answer EXCEPT ![c] = op]
  /\ UNCHANGED <<stage, requested, result>>

Truthful(c, how) ==
  \/ how = "unknown"
  \/ how = "refused" /\ c \notin requested
  \/ how \in {"ok", "error"} /\ answer[c] = how

End(c, how) ==
  /\ stage[c] # "done"
  /\ Truthful(c, how)
  /\ stage' = [stage EXCEPT ![c] = "done"]
  /\ result' = [result EXCEPT ![c] = how]
  /\ UNCHANGED <<requested, answer>>

Next ==
  \E c \in Calls :
    \/ Begin(c) \/ Request(c)
    \/ \E op \in {"ok", "error"} : Answer(c, op)
    \/ \E how \in {"ok", "error", "refused", "unknown"} : End(c, how)

Spec == Init /\ [][Next]_vars
=============================================================================

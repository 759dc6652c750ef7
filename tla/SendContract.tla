---------------------------- MODULE SendContract ----------------------------
(***************************************************************************)
(* What a SendResult promises: its status is true of what the platform got  *)
(* and stays true.  Only an UNKNOWN leaves open what is, or will be, there. *)
(***************************************************************************)
VARIABLES
  parts,             \* what the request asks to be delivered, fixed
  delivered,         \* the parts the platform has taken
  told               \* the status reported, once it has been
vars == <<parts, delivered, told>>

Init == delivered = {} /\ told = "none"

Deliver ==
  /\ told \in {"none", "UNKNOWN"}
  /\ \E p \in parts \ delivered : delivered' = delivered \cup {p}
  /\ UNCHANGED <<parts, told>>

Truthful(status) ==
  /\ status = "OK" => delivered = parts
  /\ status = "PARTIAL" => delivered # {} /\ delivered # parts
  /\ status \in {"FAILED", "RETRYABLE"} => delivered = {}

Tell ==
  /\ told = "none"
  /\ \E status \in {"OK", "PARTIAL", "FAILED", "RETRYABLE", "UNKNOWN"} :
       Truthful(status) /\ told' = status
  /\ UNCHANGED <<parts, delivered>>

Next == Deliver \/ Tell
Spec == Init /\ [][Next]_vars
=============================================================================

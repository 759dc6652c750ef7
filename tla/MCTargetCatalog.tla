-------------------------- MODULE MCTargetCatalog --------------------------
(* TargetCatalog and TargetResolve with four bots.                         *)
EXTENDS TargetResolve

Bot(p, i) == [platform |-> p, id |-> i]

\* One selfId on three platforms, qq among them, and a bot with one of its own.
Twins == {Bot("onebot", "1"), Bot("red", "1"), Bot("qq", "1"), Bot("discord", "2")}
=============================================================================

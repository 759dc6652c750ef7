---------------------------- MODULE MCDbkSession ----------------------------
(* DbkSession with three calls: the handshake and two that race it, each    *)
(* other and close().                                                       *)
EXTENDS DbkSession
CONSTANTS hello, c1, c2
=============================================================================

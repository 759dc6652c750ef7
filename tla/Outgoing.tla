------------------------------ MODULE Outgoing -------------------------------
(***************************************************************************)
(* KoishiOutgoingMapper.kt: the send units the JVM makes of a core message, *)
(* as the jobs that SendMessage carries out.  A message is a sequence of    *)
(* batches, a batch a sequence of contents:                                 *)
(*   "item"         text, a mention or media: something to show             *)
(*   "nothing"      a blank text                                            *)
(*   "reply"        quotes the message that is replied to                   *)
(*   "other reply"  quotes another one                                      *)
(*   "forward", "empty forward"  a merged forward of two nodes, of none     *)
(* A batch is cut where a forward stands in it; the batches between two     *)
(* forwards are a run.                                                      *)
(***************************************************************************)
EXTENDS SequencesExt

Contents == {"item", "nothing", "reply", "other reply", "forward", "empty forward"}

Quotes(batch) == Contains(batch, "reply") \/ Contains(batch, "other reply")

withReply(run, reply) ==
  IF ~reply \/ \E k \in DOMAIN run : Quotes(run[k]) THEN run
  ELSE << <<"reply">> \o Head(run) >> \o Tail(run)

\* A batch with nothing to show is left out; of a run of such, and of an empty
\* message, the text for an empty message remains.
toNormalUnits(run) ==
  LET shown == SelectSeq(run, LAMBDA batch : \E k \in DOMAIN batch : batch[k] # "nothing")
      jobs == [k \in DOMAIN shown |-> IF Contains(shown[k], "reply") THEN "quoted" ELSE "part"]
  IN IF jobs = <<>> THEN <<"part">> ELSE jobs

\* Koishi sends a forward node by node.
toForwardUnit(content) == IF content = "forward" THEN <<"part", "part">> ELSE <<"void">>

Start == [units |-> <<>>, run |-> <<>>, current |-> <<>>]

flushBatch(s) ==
  IF s.current = <<>> THEN s
  ELSE [s EXCEPT !.run = Append(@, s.current), !.current = <<>>]

flushNormal(s, reply) ==
  IF s.run = <<>> THEN s
  ELSE [s EXCEPT !.units = @ \o toNormalUnits(withReply(s.run, reply)), !.run = <<>>]

Add(s, content, reply) ==
  IF content \in {"forward", "empty forward"}
  THEN LET flushed == flushNormal(flushBatch(s), reply)
       IN [flushed EXCEPT !.units = @ \o toForwardUnit(content)]
  ELSE [s EXCEPT !.current = Append(@, content)]

toSendUnits(batches, reply) ==
  LET ofContents(s, batch) == FoldLeft(LAMBDA t, content : Add(t, content, reply), s, batch)
      all == FoldLeft(LAMBDA s, batch : flushBatch(ofContents(s, batch)), Start, batches)
      units == flushNormal(all, reply).units
  IN IF units = <<>> THEN <<"part">> ELSE units
=============================================================================

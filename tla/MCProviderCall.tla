--------------------------- MODULE MCProviderCall ---------------------------
(***************************************************************************)
(* Values for TLC: usages, prices and the messages of an Anthropic         *)
(* upstream, which may stop anywhere in them; the last one is no message   *)
(* that the protocol knows.  A token costs a fraction of a nano-dollar,    *)
(* and the largest product saturates.                                      *)
(***************************************************************************)
EXTENDS ProviderCall

MCUsages == {NoUsage, NullUsage, Pair(0, 0), Pair(7, 3), Pair(99, 90), Pair(2, Null), Pair(Null, 5)}
MCPrices == {Pair(Null, Null), Pair(4, Null), Pair(1, 3), Pair(0, 8)}

Content(type, kind, value) == [type |-> type, kind |-> kind, value |-> value]
Data(v) == [field |-> "data", value |-> v]

Name(type) == [field |-> "event", name |-> type]
Blank == [field |-> "blank"]

Event(v) == <<Name(v.type), Data(v), Blank>>
Unnamed(v) == <<Data(v), Blank>>
Keepalive == <<Name("ping"), [field |-> "other"], Data(NotJson), Blank>>
Bad == <<[field |-> "bad"], Blank>>

Start == Event(Content("message_start", None, "msg_9"))
Block(kind) == Event(Content("content_block_start", kind, None))
Text(t) == Content("content_block_delta", "text_delta", t)
Thought == Event(Content("content_block_delta", "thinking_delta", "hm"))
Why(reason) == Event(Content("message_delta", None, reason))
Stop == Event(Content("message_stop", None, None))
Twice == <<Data(Text("He")), Data(Text("llo")), Blank>>
Misnamed == <<Name("message_stop"), Data(Text("He")), Blank>>
Error == Event(Content("error", None, None))

MCMessages ==
  { FlattenSeq(m) : m \in {
    <<Start, Event(Text("He")), Keepalive, Unnamed(Text("llo")), Why("max_tokens"), Stop>>,
    <<Unnamed(Text("He")), Why("end_turn"), Why("max_tokens"), Event(Text("llo")), Stop>>,
    <<Start, Block("text"), Event(Text("He")), Block("tool_use"), Event(Text("llo")), Stop>>,
    <<Start, Event(Text("He")), Thought, Stop>>,
    <<Start, Event(Text("He")), Bad, Event(Text("llo")), Stop>>,
    <<Start, Event(Text("He")), Error>>,
    <<Start, Twice, <<Blank>>, Event(Text("He")), Stop, Unnamed(Text(None)), Misnamed>> } }
=============================================================================

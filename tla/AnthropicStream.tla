-------------------------- MODULE AnthropicStream --------------------------
(***************************************************************************)
(* crates/moaray-providers/src/anthropic_sse.rs: the incremental           *)
(* translation of Anthropic's event stream into OpenAI chunks, as a value  *)
(* (the local state of the stream of translate()) and the three things     *)
(* that can come from upstream: a chunk of bytes, an error, the end.       *)
(*                                                                         *)
(* Bytes are abstracted to halves of lines, so that a chunk may end inside *)
(* a line, inside an event, or hold several events.  A line is             *)
(*   [field |-> "event", name |-> type]      [field |-> "blank"]           *)
(*   [field |-> "data", value |-> payload]   [field |-> "other"]           *)
(*   [field |-> "bad"]: not UTF-8                                          *)
(* A payload is [type, kind, value]: kind is the type of a content block   *)
(* or of a delta, value an id, a text or a stop reason; or it is NotJson.  *)
(***************************************************************************)
EXTENDS Integers, Sequences

CONSTANTS
  None,      \* an absent value
  NotJson    \* a data payload that does not parse

\* What translate() yields.
Delta(id, text)    == [frame |-> "delta", id |-> id, value |-> text]
FinishFrame(id, r) == [frame |-> "finish", id |-> id, value |-> r]
Done               == [frame |-> "done", id |-> None, value |-> None]
Fault(error)       == [frame |-> "error", id |-> None, value |-> error]

\* buf: the bytes of an incomplete line; event, data: the event being
\* collected; out: everything yielded so far; returned: the stream is over.
NewTranslator ==
  [buf |-> <<>>, event |-> None, data |-> <<>>,
   id |-> "chatcmpl-anthropic", finish |-> None, done_sent |-> FALSE,
   out |-> <<>>, returned |-> FALSE]

MapStopReason(r) == IF r = "max_tokens" THEN "length" ELSE "stop"

-----------------------------------------------------------------------------
(* SseParser::push *)

\* A line is decoded when its last byte is there.  Without its first half it is
\* some unknown field.
LineOf(bytes) == IF Len(bytes) = 2 THEN bytes[1].line ELSE [field |-> "other"]

\* One complete line; an empty line dispatches the event, if there is one.
TakeLine(p, line) ==
  CASE line.field = "bad" -> [p EXCEPT !.bad = TRUE]
    [] line.field = "event" -> [p EXCEPT !.event = line.name]
    [] line.field = "data" -> [p EXCEPT !.data = Append(@, line.value)]
    [] line.field = "blank" /\ (p.event # None \/ p.data # <<>>) ->
         [p EXCEPT !.events = Append(@, [event |-> p.event, data |-> p.data]),
                   !.event = None, !.data = <<>>]
    [] OTHER -> p

TakeBytes(p, piece) ==
  LET bytes == Append(p.buf, piece) IN
  IF p.bad THEN p
  ELSE IF piece.ends THEN TakeLine([p EXCEPT !.buf = <<>>], LineOf(bytes))
  ELSE [p EXCEPT !.buf = bytes]

Parser(t, buf) ==
  [buf |-> buf, event |-> t.event, data |-> t.data, events |-> <<>>, bad |-> FALSE]

\* Mutant of Push: every chunk starts on a new line.
PushFromNewLine(t, chunk) ==
  LET after[n \in 0..Len(chunk)] ==
        IF n = 0 THEN Parser(t, <<>>) ELSE TakeBytes(after[n - 1], chunk[n])
  IN  after[Len(chunk)]

Push(t, chunk) ==
  LET after[n \in 0..Len(chunk)] ==
        IF n = 0 THEN Parser(t, t.buf) ELSE TakeBytes(after[n - 1], chunk[n])
  IN  after[Len(chunk)]

-----------------------------------------------------------------------------
(* translate() *)

Yield(t, item) == [t EXCEPT !.out = Append(@, item)]
YieldError(t, error) == [Yield(t, Fault(error)) EXCEPT !.returned = TRUE]
Terminate(t) ==
  Yield(Yield(t, FinishFrame(t.id, IF t.finish = None THEN "stop" ELSE t.finish)), Done)

\* Data lines are joined before they are parsed; an event without data, or
\* whose data is not one JSON value, is skipped.
Parsed(ev) == IF Len(ev.data) = 1 THEN ev.data[1] ELSE NotJson

Translate(t, ev) ==
  LET v == Parsed(ev)
      type == IF v = NotJson THEN None ELSE IF ev.event # None THEN ev.event ELSE v.type
  IN IF t.returned \/ type = None THEN t
     ELSE CASE type = "message_start" /\ v.value # None -> [t EXCEPT !.id = v.value]
            [] type = "content_block_start" /\ v.kind # "text" -> YieldError(t, "Unsupported")
            [] type = "content_block_delta" /\ v.kind # "text_delta" -> YieldError(t, "Unsupported")
            [] type = "content_block_delta" /\ v.kind = "text_delta" /\ v.value # None ->
                 Yield(t, Delta(t.id, v.value))
            [] type = "message_delta" /\ v.value # None ->
                 [t EXCEPT !.finish = MapStopReason(v.value)]
            [] type = "message_stop" -> [Terminate(t) EXCEPT !.done_sent = TRUE]
            [] OTHER -> t

TranslateAll(t, events) ==
  LET after[n \in 0..Len(events)] ==
        IF n = 0 THEN t ELSE Translate(after[n - 1], events[n])
  IN  after[Len(events)]

\* A chunk arrives: it is parsed as a whole, then its events are translated.
ReadChunk(t, chunk) ==
  LET p == Push(t, chunk) IN
  IF p.bad THEN YieldError(t, "UpstreamError")
  ELSE [TranslateAll(t, p.events) EXCEPT !.buf = p.buf, !.event = p.event, !.data = p.data]

\* Upstream breaks off, or ends: what is left in buf and in the event is dropped.
ReadError(t, error) == YieldError(t, error)
ReadEnd(t) == [(IF t.done_sent THEN t ELSE Terminate(t)) EXCEPT !.returned = TRUE]
=============================================================================

----------------------------- MODULE StreamAnswer -----------------------------
(***************************************************************************)
(* One HTTP answer becomes one QueryResult: the worker cuts the body of an *)
(* SSE stream into events, the API adapter decodes them, the accumulator   *)
(* turns them into StreamChunks and a final answer; a plain body is        *)
(* decoded at once. The network delivers the bytes of the stream in reads  *)
(* of any size. A text is the sequence of the places of the events that    *)
(* brought it.                                                             *)
(***************************************************************************)
EXTENDS Integers, Sequences, SequencesExt, FiniteSets, FiniteSetsExt

CONSTANTS
  ChatKinds,    \* the kinds of a chat completion event
  GenKinds,     \* the kinds of an SGLang /generate event
  MaxFrames,    \* bound on the events of a stream
  Bodies        \* plain answers, each [api, kind]

VARIABLE stream

StreamIdle == stream = [stage |-> "idle"]

Str(text) == [tuple |-> FALSE, parts |-> IF text = <<>> THEN <<>> ELSE <<text>>]
Tuple(parts) == [tuple |-> TRUE, parts |-> parts]
None_ == Str(<<>>)

\* An error answer has no output; an accumulator starts empty.
NoAnswer == [ok |-> FALSE, output |-> None_, reasoning |-> None_,
             calls |-> [chunked |-> FALSE, v |-> <<>>], finish |-> FALSE, first |-> FALSE]
NewAccumulator == [output |-> <<>>, reasoning |-> <<>>, calls |-> <<>>, finish |-> FALSE,
                   text |-> <<>>, tokens |-> 0, sent |-> FALSE]

\* The events of a stream; each is sent in two pieces, the second of which
\* ends with the delimiter. The end of the stream may be cut short.
StreamInit ==
  \/ \E api \in {"openai", "completions", "sglang"}, all \in BOOLEAN, cut \in 0..2 :
     \E frames \in BoundedSeq(IF api = "sglang" THEN GenKinds
                              ELSE IF api = "openai" THEN ChatKinds
                              ELSE ChatKinds \cap {"content", "finish", "nochoice", "bad"}, MaxFrames) :
       /\ cut > 0 => frames # <<>>
       /\ stream = [stage |-> "reading", api |-> api, all |-> all, frames |-> frames, cut |-> cut,
                    read |-> 0, incomplete |-> 0, batches |-> <<>>, acc |-> NewAccumulator,
                    chunks |-> <<>>, answer |-> NoAnswer]
  \/ \E b \in Bodies :
       stream = [stage |-> "body", api |-> b.api, kind |-> b.kind, answer |-> NoAnswer]

-----------------------------------------------------------------------------
(***************************************************************************)
(* core/types: TextModelOutput                                             *)
(***************************************************************************)
\* Streamed fragments of a call are joined by their index.
merge_tool_calls(calls) ==
  IF ~calls.chunked THEN calls.v
  ELSE LET fragments == FlattenSeq(calls.v)
           merged == SetToSortSeq({f.index : f \in ToSet(fragments)}, <)
       IN  [k \in DOMAIN merged |->
             [index |-> merged[k],
              arguments |-> FlattenSeq([j \in DOMAIN fragments |->
                              IF fragments[j].index = merged[k] THEN fragments[j].arguments ELSE <<>>])]]

as_message_parts(a) ==
  [content |-> FlattenSeq(a.output.parts), reasoning |-> FlattenSeq(a.reasoning.parts),
   calls |-> merge_tool_calls(a.calls)]

\* The parts that came after the first chunk.
as_message_parts_after_first_chunk(a) ==
  LET hasReasoning == a.reasoning.parts # <<>>
      hasOutput == a.output.parts # <<>>
      dropsCall == a.calls.chunked /\ a.calls.v # <<>> /\ ~hasOutput /\ ~hasReasoning
  IN  [reasoning |-> IF a.reasoning.tuple /\ hasReasoning
                     THEN FlattenSeq(Tail(a.reasoning.parts)) ELSE <<>>,
       content |->
         CASE ~hasOutput -> <<>>
           [] ~a.output.tuple ->
                IF hasReasoning /\ a.reasoning.tuple THEN FlattenSeq(a.output.parts) ELSE <<>>
           [] OTHER -> FlattenSeq(IF hasReasoning THEN a.output.parts ELSE Tail(a.output.parts)),
       calls |-> merge_tool_calls([a.calls EXCEPT !.v = IF dropsCall THEN Tail(@) ELSE @])]

-----------------------------------------------------------------------------
(***************************************************************************)
(* The adapters' decoders                                                  *)
(***************************************************************************)
\* SSEMessage and its first choice: what an event at place i brings.
HasContent(kind) == kind \in {"content", "both", "content+call"}
HasReasoning(kind) == kind \in {"reasoning", "both"}
HasCall(kind) == kind \in {"call", "call2", "content+call"}
CallIndex(kind) == IF kind = "call2" THEN 1 ELSE 0

\* decode_sse_message: <<>> when the event is dropped; the completions
\* adapter makes an empty choice of it instead.
decode_sse_message(api, kind) ==
  IF kind = "nochoice" THEN IF api = "completions" THEN <<"empty">> ELSE <<>>
  ELSE <<kind>>

\* [DONE] does not look like a JSON object and is never decoded; one event
\* that does not decode ends the parsing of the whole batch.
parse_sse_chunk(api, frames, batch) ==
  LET docs == SelectSeq(batch, LAMBDA i : frames[i] # "done")
      bad == {k \in DOMAIN docs : frames[docs[k]] = "bad"}
      good == IF bad = {} THEN docs ELSE SubSeq(docs, 1, Min(bad) - 1)
  IN  SelectSeq(good, LAMBDA i : decode_sse_message(api, frames[i]) # <<>>)

\* What a server would put in one plain body.
Message(frames) ==
  LET brings(P(_)) == SelectSeq([i \in DOMAIN frames |-> i], LAMBDA i : P(frames[i]))
      fragments == [k \in DOMAIN brings(HasCall) |->
                     <<[index |-> CallIndex(frames[brings(HasCall)[k]]),
                        arguments |-> <<brings(HasCall)[k]>>]>>]
  IN  [content |-> brings(HasContent), reasoning |-> brings(HasReasoning),
       calls |-> merge_tool_calls([chunked |-> TRUE, v |-> fragments]),
       finish |-> \E i \in DOMAIN frames : frames[i] = "finish"]

\* from_endpoint_response: a message without choices raises.
decode_response(m) ==
  [ok |-> TRUE, output |-> Str(m.content), reasoning |-> Str(m.reasoning),
   calls |-> [chunked |-> FALSE, v |-> m.calls], finish |-> m.finish, first |-> FALSE]

-----------------------------------------------------------------------------
(***************************************************************************)
(* The accumulators: [acc, chunk], chunk <<>> or one StreamChunk           *)
(***************************************************************************)
Emit(acc, text, all) ==
  IF all \/ ~acc.sent
  THEN [acc |-> [acc EXCEPT !.sent = TRUE], chunk |-> <<[text |-> text, first |-> ~acc.sent]>>]
  ELSE [acc |-> acc, chunk |-> <<>>]

add_chunk(acc0, all, kind, i) ==
  LET acc == [acc0 EXCEPT !.finish = @ \/ kind = "finish",
                !.calls = IF HasCall(kind)
                          THEN Append(@, <<[index |-> CallIndex(kind), arguments |-> <<i>>]>>) ELSE @,
                !.output = IF HasContent(kind) THEN Append(@, <<i>>) ELSE @,
                !.reasoning = IF HasReasoning(kind) /\ ~HasContent(kind) THEN Append(@, <<i>>) ELSE @]
  IN  IF HasContent(kind) \/ HasReasoning(kind) THEN Emit(acc, <<i>>, all)
      ELSE IF HasCall(kind) /\ ~acc.sent THEN Emit(acc, <<>>, all)
      ELSE [acc |-> acc, chunk |-> <<>>]

\* SGLang: an event carries the whole text so far and the number of tokens.
GenText(frames, i) ==
  FoldLeft(LAMBDA text, k : CASE frames[k] = "text" -> Append(text, k)
                              [] frames[k] = "retract" /\ text # <<>> -> Front(text)
                              [] OTHER -> text,
           <<>>, [k \in 1..i |-> k])

GenTokens(frames, i) == Cardinality({k \in 1..i : frames[k] \in {"text", "tokens", "retract"}})

add_chunk_sglang(acc0, all, frames, i) ==
  LET text == GenText(frames, i)
      more == SubSeq(text, Len(acc0.text) + 1, Len(text))
      acc == [acc0 EXCEPT !.text = text, !.tokens = GenTokens(frames, i)]
  IN  IF GenTokens(frames, i) = acc0.tokens THEN [acc |-> acc0, chunk |-> <<>>]
      ELSE IF more # <<>> THEN Emit(acc, more, all)
      ELSE [acc |-> acc, chunk |-> <<>>]

\* The first chunk is kept apart: it is not counted for TPOT.
FirstAndRest(chunks) ==
  Tuple(IF Len(chunks) <= 1 THEN chunks ELSE <<Head(chunks), FlattenSeq(Tail(chunks))>>)

get_final_output(api, acc) ==
  IF api = "sglang"
  THEN [NoAnswer EXCEPT !.ok = TRUE, !.output = Str(acc.text), !.first = ~acc.sent]
  ELSE [ok |-> TRUE, finish |-> acc.finish, first |-> ~acc.sent,
        calls |-> [chunked |-> TRUE, v |-> acc.calls],
        output |-> IF acc.reasoning # <<>> THEN Str(FlattenSeq(acc.output)) ELSE FirstAndRest(acc.output),
        reasoning |-> IF acc.reasoning # <<>> THEN FirstAndRest(acc.reasoning) ELSE None_]

-----------------------------------------------------------------------------
(***************************************************************************)
(* The worker                                                              *)
(***************************************************************************)
\* Pieces 2i-1 and 2i are the halves of event i. A cut stream lacks the
\* delimiter of its last event (1) or its second half altogether (2).
Pieces == 2 * Len(stream.frames) - (IF stream.cut = 2 THEN 1 ELSE 0)
Complete(read) ==
  IF stream.cut = 1 /\ read = Pieces THEN Len(stream.frames) - 1 ELSE read \div 2

\* _handle_streaming_body: every event of a batch goes through the
\* accumulator, each chunk to the main process.
AddBatch(batch) ==
  FoldLeft(LAMBDA s, i :
             LET r == IF stream.api = "sglang"
                      THEN add_chunk_sglang(s.acc, stream.all, stream.frames, i)
                      ELSE add_chunk(s.acc, stream.all, stream.frames[i], i)
             IN  [acc |-> r.acc, chunks |-> s.chunks \o r.chunk],
           [acc |-> stream.acc, chunks |-> stream.chunks],
           parse_sse_chunk(stream.api, stream.frames, batch))

_iter_sse_lines_NoBuffer ==
  /\ stream.stage = "reading" /\ stream.read < Pieces
  /\ \E read \in stream.read + 1 .. Pieces :
       LET batch == [k \in 1..(Complete(read) - Complete(stream.read)) |-> Complete(stream.read) + k]
           whole == SelectSeq(batch, LAMBDA i : 2 * i - 1 > stream.read)
           s == AddBatch(whole)
       IN  stream' = [stream EXCEPT !.read = read, !.incomplete = read - 2 * Complete(read),
                        !.batches = IF batch = <<>> THEN @ ELSE Append(@, batch),
                        !.acc = s.acc, !.chunks = s.chunks]

\* A read: what lies before the last delimiter is parsed, with what an
\* earlier read left incomplete; the rest waits.
_iter_sse_lines ==
  /\ stream.stage = "reading" /\ stream.read < Pieces
  /\ \E read \in stream.read + 1 .. Pieces :
       LET batch == [k \in 1..(Complete(read) - Complete(stream.read)) |-> Complete(stream.read) + k]
           s == AddBatch(batch)
       IN  stream' = [stream EXCEPT !.read = read, !.incomplete = read - 2 * Complete(read),
                        !.batches = IF batch = <<>> THEN @ ELSE Append(@, batch),
                        !.acc = s.acc, !.chunks = s.chunks]

\* The end of the stream: a rest that is a whole event is parsed, half an
\* event is not a JSON object.
_handle_streaming_body ==
  LET last == Len(stream.frames)
      batch == IF stream.incomplete > 0 /\ stream.cut = 1 THEN <<last>> ELSE <<>>
      s == AddBatch(batch)
  IN  /\ stream.stage = "reading" /\ stream.read = Pieces
      /\ stream' = [stream EXCEPT !.stage = "done", !.acc = s.acc, !.chunks = s.chunks,
                      !.batches = IF batch = <<>> THEN @ ELSE Append(@, batch),
                      !.answer = get_final_output(stream.api, s.acc)]

\* A plain body; a decoder that raises makes an error answer.
_handle_non_streaming_body ==
  /\ stream.stage = "body"
  /\ stream' = [stream EXCEPT !.stage = "answered",
       !.answer =
         CASE stream.kind \in {"nochoice", "bad", "bothreasonings", "mp4-nowhere"} -> NoAnswer
           [] stream.kind = "video_bytes" -> [NoAnswer EXCEPT !.ok = TRUE]
           [] stream.kind \in {"video_path", "mp4", "text"} ->
                [NoAnswer EXCEPT !.ok = TRUE, !.output = Str(<<1>>)]]

StreamNext == _iter_sse_lines \/ _handle_streaming_body \/ _handle_non_streaming_body

-----------------------------------------------------------------------------
(***************************************************************************)
(* Properties                                                              *)
(***************************************************************************)
Delivered == FlattenSeq(stream.batches)
Clean == stream.cut # 2 /\ \A i \in DOMAIN stream.frames : stream.frames[i] \notin {"bad", "both"}

\* The text the server generated, in the order of its events.
Generated ==
  SelectSeq([i \in DOMAIN stream.frames |-> i],
            LAMBDA i : HasContent(stream.frames[i]) \/ HasReasoning(stream.frames[i]))

\* However the network cuts the stream, its events are parsed once and in
\* order, and the answer is the one a plain body would have given.
StreamEqualsBody ==
  /\ Delivered = [k \in 1..Len(Delivered) |-> k]
  /\ stream.stage = "done" /\ Clean =>
       IF stream.api = "sglang"
       THEN FlattenSeq(stream.answer.output.parts) = GenText(stream.frames, Len(stream.frames))
       ELSE /\ as_message_parts(stream.answer) = as_message_parts(decode_response(Message(stream.frames)))
            /\ stream.answer.finish = Message(stream.frames).finish

\* An event is lost only in the batch of an earlier event that was malformed.
LossIsConfined ==
  stream.stage = "done" /\ stream.api # "sglang" =>
    \A i \in DOMAIN stream.frames :
      /\ HasContent(stream.frames[i])
      /\ ~ \E k \in DOMAIN stream.answer.output.parts : i \in ToSet(stream.answer.output.parts[k])
      => \/ stream.cut = 2 /\ i = Len(stream.frames)
         \/ \E b \in DOMAIN stream.batches :
              /\ i \in ToSet(stream.batches[b])
              /\ \E j \in ToSet(stream.batches[b]) : j < i /\ stream.frames[j] = "bad"

\* RECV_FIRST is reported once, by the first chunk; an answer says that it
\* is the first chunk itself exactly if none went before it.
OneFirstChunk ==
  /\ \A k \in DOMAIN stream.chunks : stream.chunks[k].first <=> k = 1
  /\ ~stream.all => Len(stream.chunks) <= 1
  /\ stream.stage = "done" => (stream.answer.first <=> stream.chunks = <<>>)

\* With stream_all_chunks the chunks are the text.
ChunksAreTheText ==
  stream.stage = "done" /\ Clean /\ stream.all /\ stream.api # "sglang" =>
    FlattenSeq([k \in DOMAIN stream.chunks |-> stream.chunks[k].text]) = Generated

\* The first chunk and the parts after it, which TPOT counts, make up the
\* text, when reasoning comes before content and text before the calls.
FirstAndRestAreTheText ==
  LET f == stream.frames
      rest == as_message_parts_after_first_chunk(stream.answer)
      textAt == {i \in DOMAIN f : HasContent(f[i]) \/ HasReasoning(f[i])}
      orderly == /\ \A i, j \in DOMAIN f : HasContent(f[i]) /\ HasReasoning(f[j]) => j < i
                 /\ \A i \in DOMAIN f : f[i] \in {"call", "call2"} =>
                      textAt = {} \/ \E j \in textAt : j < i
  IN  stream.stage = "done" /\ Clean /\ orderly /\ stream.api # "sglang" /\ textAt # {} =>
        stream.chunks[1].text \o rest.reasoning \o rest.content = Generated

\* _handle_streaming_body and the accumulators: the answer a worker sends
\* does not depend on how the network cut the stream.
StreamsAreWhole ==
  stream.stage \in {"reading", "done"} =>
    StreamEqualsBody /\ LossIsConfined /\ OneFirstChunk /\ ChunksAreTheText /\ FirstAndRestAreTheText
=============================================================================

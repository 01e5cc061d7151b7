---------------------------- MODULE ProviderWires ----------------------------
(***************************************************************************)
(* The two wire protocols as functions: the decoders that turn the frames  *)
(* of a provider's stream into events, the encoders that turn the          *)
(* conversation into a request (llm-client/wires/anthropic-messages.ts and *)
(* wires/openai-responses.ts), and the owned taxonomy of provider failures *)
(* (llm-client/errors.ts).                                                 *)
(*                                                                         *)
(* What a frame carries is known by its stamp: a text is the sequence of   *)
(* the stamps of its deltas, a tool call the stamp of the frame that opened*)
(* it.  A frame is [type, kind, stamp]; both protocols use the same types: *)
(* "start" and "stop" of a block or item, "delta", "end" for the terminal  *)
(* event, "fail" for an error payload.                                     *)
(***************************************************************************)
EXTENDS Naturals, Sequences, FiniteSets, SequencesExt

Frame(type, kind, stamp) == [type |-> type, kind |-> kind, stamp |-> stamp]

(* "unnamed": a tool call without an id; "other": a block of unknown type. *)
BlockKinds == {"text", "reasoning", "tool", "unnamed", "other"}

Block(kind, data) == [kind |-> kind, data |-> data]
Said(blocks, kind) ==
  FlattenSeq([k \in DOMAIN blocks |->
                IF blocks[k].kind = kind THEN blocks[k].data ELSE <<>>])

(* The blocks of some kinds, in their order. *)
Keep(blocks, kinds) ==
  FlattenSeq([k \in DOMAIN blocks |->
                IF blocks[k].kind \in kinds THEN <<blocks[k]>> ELSE <<>>])

(* A decoder: the block (item) under assembly, the content so far, the      *)
(* terminal event seen.  Providers assemble one block at a time.            *)
NoBlock == Block("none", <<>>)
NewDecoder == [open |-> NoBlock, content |-> <<>>, completed |-> FALSE]

(* One step of a decoder: the decoder after it, the events it yields and    *)
(* whether it throws.                                                       *)
Yields(d, events) == [decoder |-> d, events |-> events, throws |-> FALSE]
Throws(d) == [decoder |-> d, events |-> <<>>, throws |-> TRUE]
Ignores(d) == Yields(d, <<>>)

Complete(blocks) == [kind |-> "complete", data |-> <<>>, message |-> blocks]
Delta(kind, data) == [kind |-> kind, data |-> data, message |-> <<>>]

-----------------------------------------------------------------------------
(* AnthropicDecoder.handle.  Blocks are kept in the order they were closed. *)
AnthropicHandles(d, f) ==
  CASE f.type = "start" ->
         Ignores([d EXCEPT !.open =
           Block(f.kind, IF f.kind = "tool" THEN <<f.stamp>> ELSE <<>>)])
    [] f.type = "delta" ->
         Yields([d EXCEPT !.open.data = Append(@, f.stamp)],
                <<Delta(f.kind, <<f.stamp>>)>>)
    [] f.type = "stop" /\ f.kind = "unnamed" -> Throws(d)
    [] f.type = "stop" /\ f.kind # "unnamed" ->
         Yields([d EXCEPT !.open = NoBlock,
                          !.content = IF f.kind = "other" THEN @ ELSE Append(@, d.open)],
                IF f.kind = "tool" THEN <<Delta("tool", d.open.data)>> ELSE <<>>)
    [] f.type = "end" ->
         Yields([d EXCEPT !.completed = TRUE], <<Complete(d.content)>>)
    [] f.type = "fail" -> Throws(d)

(* The frames a messages stream can continue with: external. *)
AnthropicSends(d, stamp) ==
  {Frame("fail", "none", stamp)} \cup
  IF d.open = NoBlock
  THEN {Frame("start", kind, stamp) : kind \in BlockKinds}
         \cup {Frame("end", "none", stamp)}
  ELSE {Frame("stop", d.open.kind, stamp)}
         \cup {Frame("delta", kind, stamp) : kind \in {d.open.kind} \cap {"text", "reasoning"}}

(* OpenAiDecoder.#complete: all reasoning, all text, then the calls. *)
OpenAiMessage(d) ==
  LET one(kind) == IF Said(d.content, kind) = <<>> THEN <<>>
                   ELSE <<Block(kind, Said(d.content, kind))>>
  IN one("reasoning") \o one("text") \o Keep(d.content, {"tool"})

(* OpenAiDecoder.handle.  Text and reasoning are accumulated whichever item *)
(* they belong to: every delta is content of its own until #complete.       *)
OpenAiHandles(d, f) ==
  CASE f.type = "start" ->
         Ignores(IF f.kind \in {"tool", "unnamed"}
                 THEN [d EXCEPT !.open = Block(f.kind, <<f.stamp>>)] ELSE d)
    [] f.type = "delta" ->
         Yields([d EXCEPT !.content = Append(@, Block(f.kind, <<f.stamp>>))],
                <<Delta(f.kind, <<f.stamp>>)>>)
    [] f.type = "stop" /\ f.kind = "unnamed" -> Throws(d)
    [] f.type = "stop" /\ f.kind = "tool" ->
         Yields([d EXCEPT !.open = NoBlock, !.content = Append(@, d.open)],
                <<Delta("tool", d.open.data)>>)
    [] f.type = "end" ->
         Yields([d EXCEPT !.completed = TRUE], <<Complete(OpenAiMessage(d))>>)
    [] f.type = "fail" -> Throws(d)

(* The frames a responses stream can continue with: external. *)
OpenAiSends(d, stamp) ==
  {Frame("fail", "none", stamp)} \cup
  IF d.open = NoBlock
  THEN {Frame("delta", kind, stamp) : kind \in {"text", "reasoning"}}
         \cup {Frame("start", kind, stamp) : kind \in {"tool", "unnamed", "other"}}
         \cup {Frame("end", "none", stamp)}
  ELSE {Frame("stop", d.open.kind, stamp)}

-----------------------------------------------------------------------------
(* A message of the conversation is [role, content].  Reasoning is dropped  *)
(* by both encoders; an entry of a request is [type, data, message], where  *)
(* message is the index of the message the entry belongs to.                *)
Message(role, blocks) == [role |-> role, content |-> blocks]
Entry(block, message) == [type |-> block.kind, data |-> block.data, message |-> message]
Entries(blocks, message) == [k \in DOMAIN blocks |-> Entry(blocks[k], message)]
Encodable(blocks) == Keep(blocks, {"text", "tool", "result"})

(* encodeMessage: a message per message, block by block. *)
AnthropicEntries(conversation) ==
  FlattenSeq([m \in DOMAIN conversation |->
                Entries(Encodable(conversation[m].content), m)])

(* Mutant: the message item is pushed behind the tool items. *)
OpenAiItemsTextLast(message, m) ==
  LET parts == Keep(message.content, {"text"})
  IN Entries(Keep(message.content, {"tool", "result"}), m)
       \o IF parts = <<>> THEN <<>> ELSE <<Entry(Block("text", Said(parts, "text")), m)>>

(* encodeMessageItems: one message item with every text part, unshifted     *)
(* before the calls and results; each of those is an item of the input.     *)
OpenAiItems(message, m) ==
  LET parts == Keep(message.content, {"text"})
  IN (IF parts = <<>> THEN <<>> ELSE <<Entry(Block("text", Said(parts, "text")), m)>>)
       \o Entries(Keep(message.content, {"tool", "result"}), m)

OpenAiEntries(conversation) ==
  FlattenSeq([m \in DOMAIN conversation |-> OpenAiItems(conversation[m], m)])

-----------------------------------------------------------------------------
(* A ProviderError: its kind, the http status (0: none), truncated. *)
Failure(kind, status, truncated) ==
  [kind |-> kind, status |-> status, truncated |-> truncated]

FromStatus(status) ==
  Failure(CASE status \in {401, 403} -> "authentication"
            [] status = 429 -> "rate_limit"
            [] status \in {500, 502, 503, 529} -> "server"
            [] OTHER -> "request", status, FALSE)

Transport == Failure("transport", 0, FALSE)
Truncated == Failure("decode", 0, TRUE)
DecodeError == Failure("decode", 0, FALSE)

(* toProviderError: at "open" the sdk rejects with a status, a connection   *)
(* error, or what building the request threw; a "stream" fails with its     *)
(* connection, or with anything that does not parse.                        *)
OpenFailures(statuses) ==
  {FromStatus(s) : s \in statuses} \cup {Transport, Failure("request", 0, FALSE)}
StreamFailures == {Transport, DecodeError}

(* isRetryable *)
IsRetryable(failure, codes) ==
  CASE failure.kind \in {"rate_limit", "server"} -> failure.status \in codes
    [] failure.kind = "transport" -> TRUE
    [] failure.kind = "decode" -> failure.truncated
    [] OTHER -> FALSE
=============================================================================

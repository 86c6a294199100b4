---------------------------- MODULE WireFormats ----------------------------
(***************************************************************************)
(* From the conversation the engine assembles (messages of content blocks) *)
(* to what each provider kind is sent: translate_messages with its         *)
(* alternation stubs and folds, translate_to_responses_items, and the      *)
(* Anthropic body with its cache breakpoints.  A text, a picture and a     *)
(* call are numbers; 0 is a text the translation adds.                     *)
(***************************************************************************)
EXTENDS SequencesExt, Integers

CONSTANTS
  Formats,       \* provider kinds under check
  MessageBound,  \* bound: messages of a conversation
  CallBound      \* bound: calls of one answer

ASSUME WireAssumption == MessageBound \in Nat /\ CallBound \in Nat

VARIABLES
  format,        \* the provider the session runs on
  conversation,  \* the messages of the next request, oldest first
  names          \* texts and calls so far

wireVars == <<format, conversation, names>>

Added == 0
Part(t, x, pic) == [t |-> t, x |-> x, pic |-> pic]
Of(blocks, t) == SelectSeq(blocks, LAMBDA b : b.t = t)
Names(blocks) == [i \in DOMAIN blocks |-> blocks[i].x]
Pictured(blocks) == SelectSeq(blocks, LAMBDA b : b.pic)

(***************************************************************************)
(* OpenAI chat messages.                                                   *)
(***************************************************************************)
Chat(role, texts, calls, pics, call) ==
  [role |-> role, texts |-> texts, calls |-> calls, pics |-> pics, call |-> call]
UserChat(texts, pics) == Chat("user", texts, <<>>, pics, 0)

\* thinking and reasoning blocks mean nothing to this backend
AssistantChat(m) ==
  <<Chat("assistant", Names(Of(m.blocks, "text")), Names(Of(m.blocks, "use")), <<>>, 0)>>

\* Status text riding tool results goes into the last of them
FoldsIntoTool(m) ==
  Of(m.blocks, "text") # <<>> /\ Of(m.blocks, "image") = <<>> /\ Of(m.blocks, "result") # <<>>

ToolChats(m) ==
  LET results == Of(m.blocks, "result")
  IN [i \in DOMAIN results |-> Chat("tool",
       IF i = Len(results) /\ FoldsIntoTool(m)
       THEN <<results[i].x>> \o Names(Of(m.blocks, "text")) ELSE <<results[i].x>>,
       <<>>, <<>>, results[i].x)]

UserChats(m) ==
  LET shots == Names(Pictured(Of(m.blocks, "result")))
      texts == Names(Of(m.blocks, "text"))
      pics == Names(Of(m.blocks, "image"))
  IN ToolChats(m)
       \o (IF shots = <<>> THEN <<>> ELSE <<UserChat(<<Added>>, shots)>>)
       \o (IF FoldsIntoTool(m) \/ (texts = <<>> /\ pics = <<>>) THEN <<>>
           ELSE <<UserChat(texts, pics)>>)

\* Per-request text goes to the end: into the last user string or tool result
Tailed(out, dynamic) ==
  IF ~dynamic THEN out
  ELSE IF out # <<>> /\ Last(out).role \in {"user", "tool"} /\ Last(out).pics = <<>>
  THEN [out EXCEPT ![Len(out)].texts = Append(@, Added)]
  ELSE Append(out, UserChat(<<Added>>, <<>>))

Counts(c) == c.role = "user" \/ (c.role = "assistant" /\ c.calls = <<>>)
EmptyAnswer(c) == c.role = "assistant" /\ c.calls = <<>> /\ c.texts = <<>>
Stub(role) == IF role = "user" THEN Chat("assistant", <<Added>>, <<>>, <<>>, 0)
              ELSE UserChat(<<Added>>, <<>>)

\* mutant: the role before counts, tool messages too
AlternateByRole(acc, c) ==
  IF EmptyAnswer(c) THEN acc
  ELSE [out |-> acc.out \o (IF c.role = acc.last THEN <<Stub(c.role)>> ELSE <<>>) \o <<c>>,
        last |-> c.role]

\* enforce_alternation(), one message; last is the role last counted
Alternate(acc, c) ==
  LET clash == Counts(c) /\ (c.role = acc.last \/ (acc.last = "none" /\ c.role = "assistant"))
  IN IF EmptyAnswer(c) THEN acc
     ELSE [out |-> acc.out \o (IF clash THEN <<Stub(c.role)>> ELSE <<>>) \o <<c>>,
           last |-> IF Counts(c) THEN c.role ELSE acc.last]
\* mutant: the request is padded to end with the user
AlternatedToUser(out) ==
  LET acc == FoldLeft(Alternate, [out |-> <<>>, last |-> "none"], out)
  IN acc.out \o (IF acc.last = "assistant" THEN <<Stub("assistant")>> ELSE <<>>)
Alternated(out) == FoldLeft(Alternate, [out |-> <<>>, last |-> "none"], out).out

ChatMessages(msgs, dynamic) ==
  Alternated(Tailed(FlattenSeq([i \in DOMAIN msgs |->
    IF msgs[i].role = "assistant" THEN AssistantChat(msgs[i]) ELSE UserChats(msgs[i])]), dynamic))

(***************************************************************************)
(* Responses items: reasoning, then the text, then one item per call; the  *)
(* outputs directly after their calls, pictures after them.                *)
(***************************************************************************)
Item(role, texts, pics, call) == Chat(role, texts, <<>>, pics, call)
Each(role, blocks) == [i \in DOMAIN blocks |->
  Item(role, IF role = "output" THEN <<blocks[i].x>> ELSE <<>>, <<>>, blocks[i].x)]
Spoken(role, texts, pics) ==
  IF texts = <<>> /\ pics = <<>> THEN <<>> ELSE <<Item(role, texts, pics, 0)>>

MessageItems(m) ==
  LET texts == Names(Of(m.blocks, "text")) IN
  IF m.role = "assistant"
  THEN Each("reasoning", Of(m.blocks, "reasoning")) \o Spoken("assistant", texts, <<>>)
         \o Each("call", Of(m.blocks, "use"))
  ELSE Each("output", Of(m.blocks, "result"))
         \o Spoken("user", texts, Names(SelectSeq(m.blocks, LAMBDA b : b.t = "image" \/ b.pic)))

ResponsesItems(msgs, dynamic) ==
  FlattenSeq([i \in DOMAIN msgs |-> MessageItems(msgs[i])])
    \o Spoken("user", IF dynamic THEN <<Added>> ELSE <<>>, <<>>)

(***************************************************************************)
(* The Anthropic body: the messages as they are, a cache breakpoint on the *)
(* last two, the dynamic text behind the breakpoints.                      *)
(***************************************************************************)
Marked(msgs) == {i \in DOMAIN msgs : i >= Len(msgs) - 1 /\ msgs[i].blocks # <<>>}
AnthropicMessages(msgs, dynamic) ==
  IF ~dynamic \/ msgs = <<>> THEN msgs
  ELSE IF Last(msgs).role = "user"
  THEN [msgs EXCEPT ![Len(msgs)].blocks = Append(@, Part("text", Added, FALSE))]
  ELSE Append(msgs, [role |-> "user", blocks |-> <<Part("text", Added, FALSE)>>])

\* Every format as one sequence of messages
Wire(msgs, dynamic) ==
  CASE format = "openai"  -> ChatMessages(msgs, dynamic)
    [] format = "chatgpt" -> ResponsesItems(msgs, dynamic)
    [] OTHER -> AnthropicMessages(msgs, dynamic)

(***************************************************************************)
(* The conversation grows: the engine appends prompts, answers and the     *)
(* results of an answer's calls, and never changes a message it has sent.  *)
(***************************************************************************)
WireInit == format \in Formats /\ conversation = <<>> /\ names = 0

Asks(m) == m.role = "assistant" /\ Of(m.blocks, "use") # <<>>
Waiting == conversation # <<>> /\ Asks(Last(conversation))
Says(role, blocks, n) ==
  /\ Len(conversation) < MessageBound
  /\ conversation' = Append(conversation, [role |-> role, blocks |-> blocks])
  /\ names' = names + n /\ UNCHANGED format

Prompts ==
  /\ ~Waiting
  /\ \E pic \in BOOLEAN :
       Says("user", <<Part("text", names + 1, FALSE)>>
              \o (IF pic THEN <<Part("image", names + 1, FALSE)>> ELSE <<>>), 1)

\* a compaction summary is an answer that leads the conversation
ModelAnswers ==
  /\ ~Waiting
  /\ \E thinks \in {"", "thinking", "reasoning"}, says \in 0..1, n \in 0..CallBound :
       /\ thinks = "reasoning" => format = "chatgpt"
       /\ thinks # "" \/ says + n > 0
       /\ Says("assistant",
            (IF thinks = "" THEN <<>> ELSE <<Part(thinks, names + 1, FALSE)>>)
              \o [i \in 1..says |-> Part("text", names + 1, FALSE)]
              \o [i \in 1..n |-> Part("use", names + 1 + i, FALSE)], 1 + n)

Results ==
  /\ Waiting
  /\ \E shot \in BOOLEAN, status \in 0..1 :
       LET calls == Of(Last(conversation).blocks, "use")
       IN Says("user",
            [i \in DOMAIN calls |-> Part("result", calls[i].x, shot /\ i = 1)]
              \o [i \in 1..status |-> Part("text", names + 1, FALSE)], 1)

WireNext == Prompts \/ ModelAnswers \/ Results
WireSpec == WireInit /\ [][WireNext]_wireVars

(***************************************************************************)
(* Properties.                                                             *)
(***************************************************************************)
WireTypeOK ==
  /\ format \in Formats /\ Len(conversation) <= MessageBound
  /\ \A i \in DOMAIN conversation :
       Asks(conversation[i]) /\ i < Len(conversation) =>
         Of(conversation[i + 1].blocks, "result") # <<>>

Spelled(seq) == SelectSeq(seq, LAMBDA x : x # Added)
Told1(m) == Names(SelectSeq(m.blocks, LAMBDA b : b.t \in {"text", "result"}))
TextsIn(msgs) == FlattenSeq([i \in DOMAIN msgs |-> Told1(msgs[i])])
ShotsIn(msgs) == UNION {{msgs[i].blocks[j].x : j \in {k \in DOMAIN msgs[i].blocks :
                          msgs[i].blocks[k].t = "image" \/ msgs[i].blocks[k].pic}} : i \in DOMAIN msgs}
WireTexts(out) == Spelled(FlattenSeq([i \in DOMAIN out |-> out[i].texts]))
WireShots(out) == UNION {ToSet(out[i].pics) : i \in DOMAIN out}

\* Strict templates: user and plain assistant messages alternate, user first.
Alternates(out) ==
  LET counted == SelectSeq(out, Counts)
  IN \A i \in DOMAIN counted :
       counted[i].role = (IF i % 2 = 1 THEN "user" ELSE "assistant") /\ ~EmptyAnswer(counted[i])

\* The answers of an assistant message's calls follow it, in order, before
\* anything else.
AnsweredInPlace(out) ==
  \A i \in DOMAIN out : \A k \in DOMAIN out[i].calls :
    i + Len(out[i].calls) <= Len(out) =>
      out[i + k].role = "tool" /\ out[i + k].call = out[i].calls[k]
OutputsFollow(out) ==
  \A i \in DOMAIN out : out[i].role = "output" =>
    \E j \in 1..(i - 1) : /\ out[j].role = "call" /\ out[j].call = out[i].call
                          /\ \A k \in j..i : out[k].role \in {"call", "output"}

\* Whatever the conversation, no provider's request loses, repeats or reorders
\* a text, loses a picture, tears a call from its answer or breaks the
\* alternation strict chat templates insist on; and "step N's translation stays
\* an exact prefix of step N+1's (prompt cache)": stubs, folds and split pictures
\* depend on earlier messages only.
WireFaithful ==
  /\ ~Waiting /\ format # "anthropic" => \A dynamic \in BOOLEAN :
       LET out == Wire(conversation, dynamic) IN
         /\ WireTexts(out) = TextsIn(conversation) /\ WireShots(out) = ShotsIn(conversation)
         /\ format = "openai" => Alternates(out) /\ AnsweredInPlace(out)
         /\ format = "chatgpt" => OutputsFollow(out)
  /\ conversation # <<>> =>
       IsPrefix(Wire(Front(conversation), FALSE), Wire(conversation, FALSE))

=============================================================================

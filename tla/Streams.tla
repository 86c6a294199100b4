------------------------------ MODULE Streams ------------------------------
(***************************************************************************)
(* The streams of the sessions that share one provider object and its      *)
(* HttpClient: registration of the cancel flag, the transfer and its       *)
(* in-flight entry, server-sent events cut anywhere into network chunks,   *)
(* the parse state of the three provider kinds, the ChatGPT sign-in retry, *)
(* cancellation by token or of everything, and the one report a stream     *)
(* makes.  An event is its kind; how a call's input was cut is a count of  *)
(* pieces, text is a count of deltas, and what a server has sent of its    *)
(* answer is the counts it comes to.                                       *)
(***************************************************************************)
EXTENDS SequencesExt, Integers

CONSTANTS
  Flows,        \* the stream() calls
  Tokens,       \* stream tokens the engine mints
  ProviderKinds,\* subset of {"anthropic", "openai", "chatgpt"}
  SendBound     \* bound: per stream, the events of one response

ASSUME StreamsAssumption ==
  /\ SendBound \in [Flows -> Nat]
  /\ ProviderKinds \subseteq {"anthropic", "openai", "chatgpt"}

VARIABLES
  provider,   \* the provider's kind
  flow,       \* per stream: its registration, its transfer and its parse state
  server,     \* per stream: what its server has sent of the answer, in whole events
  caused      \* history: streams whose server, network or sign-in failed

streamVars == <<provider, flow, server, caused>>

Sweep == ""      \* the empty token: every stream of the provider
Fine == 200
Denied == 401
Broken == 500
NoCode == 0
NoTransport == -1
NoEvent == ""

\* The parse state of an attempt; it lives as long as the request, not as long
\* as one write callback.
NoParse == [texts |-> 0, open |-> 0, calls |-> <<>>, reason |-> "EndTurn"]
NoFlow == [phase |-> "idle", token |-> NoEvent, flag |-> FALSE, cancelled |-> FALSE,
           part |-> NoEvent, parse |-> NoParse, code |-> NoCode, attempt |-> 0,
           errored |-> FALSE, reports |-> <<>>, late |-> FALSE]

(***************************************************************************)
(* What a server sends: texts, calls with at least one piece of input, an  *)
(* end, and the mark behind the end.  The end may be the token limit, also *)
(* inside a call.  The input of a call parses when no piece of it is       *)
(* missing.                                                                *)
(***************************************************************************)
Events == {"text", "call", "piece", "close", "finish", "limit", "error", "done"}

\* calls are the pieces of each, open says that the last one is not closed
Nothing == [texts |-> 0, calls |-> <<>>, open |-> FALSE, whole |-> FALSE,
            limited |-> FALSE, closed |-> FALSE, events |-> 0]

PiecesOfLast(body) == body.calls[Len(body.calls)]

WithEvent(body, e) ==
  LET more == [body EXCEPT !.events = @ + 1] IN
  CASE e = "text"   -> [more EXCEPT !.texts = @ + 1]
    [] e = "call"   -> [more EXCEPT !.calls = Append(@, 0), !.open = TRUE]
    [] e = "piece"  -> [more EXCEPT !.calls[Len(body.calls)] = @ + 1]
    [] e = "close"  -> [more EXCEPT !.open = FALSE]
    [] e = "finish" -> [more EXCEPT !.whole = TRUE]
    [] e = "limit"  -> [more EXCEPT !.limited = TRUE]
    [] e = "done"   -> [more EXCEPT !.closed = TRUE]
    [] e = "error"  -> more

MayFollow(body, e) ==
  CASE e \in {"text", "call", "finish"} -> ~body.open /\ ~body.whole /\ ~body.limited
    [] e = "piece" -> body.open /\ ~body.limited
    [] e = "close" -> body.open /\ ~body.limited /\ PiecesOfLast(body) > 0
    [] e = "limit" -> ~body.whole /\ ~body.limited
    [] e = "error" -> ~body.whole
    [] e = "done"  -> (body.whole \/ body.limited) /\ ~body.closed

StreamInit ==
  /\ provider \in ProviderKinds
  /\ flow = [s \in Flows |-> NoFlow]
  /\ server = [s \in Flows |-> Nothing]
  /\ caused = {}

(***************************************************************************)
(* Cancel flags and in-flight requests.                                    *)
(***************************************************************************)
Registered == {s \in Flows : flow[s].phase \notin {"idle", "gone"}}
Inflight == {s \in Flows : flow[s].phase = "inflight"}
Matching(t) == {s \in Registered : flow[s].token = t}

\* stream(): the flag is registered under the token before anything is sent
Open(s) ==
  /\ flow[s].phase = "idle"
  /\ \E t \in Tokens :
       flow' = [flow EXCEPT ![s] = [flow[s] EXCEPT !.phase = "ready", !.token = t]]
  /\ UNCHANGED <<provider, server, caused>>

\* post_sse(): the request enters the in-flight set of the client
PostSSE(s) ==
  /\ flow[s].phase = IF provider = "chatgpt" THEN "signed" ELSE "ready"
  /\ flow' = [flow EXCEPT ![s] = [flow[s] EXCEPT
       !.phase = "inflight", !.code = NoCode, !.parse = NoParse]]
  /\ server' = [server EXCEPT ![s] = Nothing]
  /\ UNCHANGED <<provider, caused>>

\* cancel(): only a cancel that matches every registered stream may stop
\* the transfers of the shared client
StopsAnyTransfer(t) == Registered # {}   \* mutant
StopsTransfers(t) == Matching(t) = Registered

Cancel(t) ==
  /\ t = Sweep \/ Matching(t) # {}
  /\ LET hit == IF t = Sweep THEN Registered ELSE Matching(t)
     IN flow' = [s \in Flows |-> [flow[s] EXCEPT
          !.flag = @ \/ s \in hit,
          !.cancelled = @ \/ (StopsTransfers(t) /\ s \in Inflight)]]
  /\ UNCHANGED <<provider, server, caused>>

(***************************************************************************)
(* Server-sent events.                                                     *)
(***************************************************************************)
\* post_sse() returns; its request leaves the in-flight set
Ended(f, code) == [f EXCEPT !.phase = "returned", !.code = code, !.cancelled = FALSE,
                            !.part = NoEvent]
Report(how) == [how |-> how, texts |-> 0, calls |-> <<>>, reason |-> "none"]
WithReport(f, r) == [f EXCEPT !.reports = Append(@, r), !.late = @ \/ f.flag]

\* One event in the parse state.  Anthropic delimits a call's block, OpenAI has
\* no event that ends a call, the ChatGPT backend repeats the whole input.
AnthropicEvent(p, e) ==
  CASE e = "text"   -> [p EXCEPT !.texts = @ + 1]
    [] e = "call"   -> [p EXCEPT !.open = 0]
    [] e = "piece"  -> [p EXCEPT !.open = @ + 1]
    [] e = "close"  -> [p EXCEPT !.calls = Append(@, p.open)]
    [] e = "finish" -> [p EXCEPT !.reason = IF p.calls # <<>> THEN "ToolUse" ELSE "EndTurn"]
    [] e = "limit"  -> [p EXCEPT !.reason = "MaxTokens"]
    [] OTHER        -> p

OpenAIEvent(p, e) ==
  CASE e = "text"   -> [p EXCEPT !.texts = @ + 1]
    [] e = "call"   -> [p EXCEPT !.calls = Append(@, 0)]
    [] e = "piece"  -> [p EXCEPT !.calls[Len(p.calls)] = @ + 1]
    [] e = "finish" -> [p EXCEPT !.reason = IF p.calls # <<>> THEN "ToolUse" ELSE "EndTurn"]
    [] e = "limit"  -> [p EXCEPT !.reason = "MaxTokens"]
    [] OTHER        -> p

CodexEvent(p, e, body) ==
  CASE e = "text"   -> [p EXCEPT !.texts = @ + 1]
    [] e = "call"   -> [p EXCEPT !.calls = Append(@, 0)]
    [] e = "piece"  -> [p EXCEPT !.calls[Len(p.calls)] = @ + 1]
    [] e = "close"  -> [p EXCEPT !.calls[Len(p.calls)] = PiecesOfLast(body)]
    [] e = "limit"  -> [p EXCEPT !.reason = "MaxTokens"]
    [] OTHER        -> p

ParsedEvent(p, e, body) ==
  CASE provider = "anthropic" -> AnthropicEvent(p, e)
    [] provider = "openai"    -> OpenAIEvent(p, e)
    [] OTHER                  -> CodexEvent(p, e, body)

\* The event callback: a set flag stops the transfer before anything is told
Callback(f, e, body) ==
  CASE f.flag -> Ended(f, Fine)
    [] ~f.flag /\ e = "error" -> Ended([WithReport(f, Report("error")) EXCEPT !.errored = TRUE], Fine)
    [] ~f.flag /\ e = "done" /\ provider = "openai" -> Ended(f, Fine)
    [] OTHER -> [f EXCEPT !.parse = ParsedEvent(@, e, body)]

\* write_cb: the beginning of an event waits in the request for its blank line
KeptPart(f, e) == [f EXCEPT !.part = e]

Chunk(s) ==
  /\ s \in Inflight /\ ~flow[s].cancelled /\ flow[s].part = NoEvent
  /\ server[s].events < SendBound[s]
  /\ \E e \in Events :
       /\ MayFollow(server[s], e)
       /\ flow' = [flow EXCEPT ![s] = KeptPart(@, e)]
  /\ UNCHANGED <<provider, server, caused>>

Dispatch(s) ==
  /\ s \in Inflight /\ ~flow[s].cancelled /\ flow[s].part # NoEvent
  /\ LET e == flow[s].part
         body == WithEvent(server[s], e)
     IN /\ server' = [server EXCEPT ![s] = body]
        /\ flow' = [flow EXCEPT ![s] = Callback([flow[s] EXCEPT !.part = NoEvent], e, body)]
        /\ caused' = IF e = "error" THEN caused \cup {s} ELSE caused
  /\ UNCHANGED provider

\* The body ends: an event without its blank line is never dispatched
BodyEnds(s) ==
  /\ s \in Inflight /\ ~flow[s].cancelled
  /\ flow' = [flow EXCEPT ![s] = Ended(@, Fine)]
  /\ UNCHANGED <<provider, server, caused>>

\* An error status: the body is a document, no event
Refuses(s) ==
  /\ s \in Inflight /\ ~flow[s].cancelled /\ server[s] = Nothing /\ flow[s].part = NoEvent
  /\ \E code \in {Denied, Broken} : flow' = [flow EXCEPT ![s] = Ended(@, code)]
  /\ caused' = caused \cup {s}
  /\ UNCHANGED <<provider, server>>

\* Connect, stall limit, reset, oversized buffer
Breaks(s) ==
  /\ s \in Inflight /\ ~flow[s].cancelled
  /\ flow' = [flow EXCEPT ![s] = Ended(@, NoTransport)]
  /\ caused' = caused \cup {s}
  /\ UNCHANGED <<provider, server>>

\* xfer_cb, or the next write_cb, sees the cancelled request
Aborts(s) ==
  /\ s \in Inflight /\ flow[s].cancelled
  /\ flow' = [flow EXCEPT ![s] = Ended(@, NoTransport)]
  /\ UNCHANGED <<provider, server, caused>>

(***************************************************************************)
(* The end of stream().                                                    *)
(***************************************************************************)
\* FlagPop: the entry and the locals of the call go
Gone(f) == [NoFlow EXCEPT !.phase = "gone", !.flag = f.flag, !.reports = f.reports,
                          !.late = f.late]
Failed(f) == IF f.errored /\ provider # "anthropic" THEN f ELSE WithReport(f, Report("error"))

\* A call's accumulated input parses only when it is the whole input
Materialised(p, body) ==
  [i \in DOMAIN p.calls |->
     /\ i \in DOMAIN body.calls /\ p.calls[i] = body.calls[i]
     /\ ~(i = Len(body.calls) /\ body.open)]
FinishReason(p) ==
  IF provider = "chatgpt" /\ p.calls # <<>> /\ p.reason # "MaxTokens" THEN "ToolUse"
  ELSE p.reason
Finished(f, body) ==
  IF f.errored THEN f
  ELSE WithReport(f, [how |-> "finish", texts |-> f.parse.texts,
                    calls |-> Materialised(f.parse, body), reason |-> FinishReason(f.parse)])

\* One forced refresh when the backend rejects the access token
Retries(s) ==
  provider = "chatgpt" /\ ~flow[s].flag /\ flow[s].code = Denied /\ flow[s].attempt = 0

\* The answer of the transfer, told once: a cancelled stream stays quiet
OutcomeUnasked(f, body) ==   \* mutant: the flag is not read again at the end
  IF f.code >= 400 \/ f.code = NoTransport THEN Failed(f) ELSE Finished(f, body)
Outcome(f, body) ==
  CASE f.flag -> f
    [] ~f.flag /\ f.code >= 400 -> Failed(f)
    [] ~f.flag /\ f.code = NoTransport -> Failed(f)
    [] OTHER -> Finished(f, body)

EndsStream(s) ==
  /\ flow[s].phase = "returned"
  /\ ~Retries(s)
  /\ flow' = [flow EXCEPT ![s] = Gone(Outcome(@, server[s]))]
  /\ UNCHANGED <<provider, server, caused>>

\* codex_auth_get_access() and codex_auth_force_refresh(): a failure is told
\* even when a cancel came while they were at work
SignsIn(s) ==
  /\ provider = "chatgpt" /\ flow[s].phase = "ready"
  /\ \/ /\ flow' = [flow EXCEPT ![s].phase = "signed"]
        /\ UNCHANGED caused
     \/ /\ flow' = [flow EXCEPT ![s] = Gone([flow[s] EXCEPT !.reports = Append(@, Report("sign-in"))])]
        /\ caused' = caused \cup {s}
  /\ UNCHANGED <<provider, server>>

Refreshes(s) ==
  /\ flow[s].phase = "returned" /\ Retries(s)
  /\ \/ flow' = [flow EXCEPT ![s] = [flow[s] EXCEPT !.phase = "ready", !.attempt = 1]]
     \/ flow' = [flow EXCEPT ![s] = Gone([flow[s] EXCEPT !.reports = Append(@, Report("sign-in"))])]
  /\ UNCHANGED <<provider, server, caused>>

StreamNext ==
  \/ \E s \in Flows : \/ Open(s) \/ PostSSE(s) \/ Chunk(s) \/ Dispatch(s)
                       \/ BodyEnds(s) \/ Refuses(s) \/ Breaks(s) \/ Aborts(s)
                       \/ EndsStream(s) \/ SignsIn(s) \/ Refreshes(s)
  \/ \E t \in Tokens \cup {Sweep} : Cancel(t)

StreamSpec == StreamInit /\ [][StreamNext]_streamVars

(***************************************************************************)
(* Properties.                                                             *)
(***************************************************************************)
\* Every stream is in a state of stream(), and only a registered one is
\* flagged, in flight or at its end.
StreamTypeOK ==
  /\ provider \in ProviderKinds /\ caused \subseteq Flows
  /\ \A s \in Flows :
       /\ flow[s].phase \in {"idle", "ready", "signed", "inflight", "returned", "gone"}
       /\ flow[s].attempt \in 0..1 /\ server[s].events <= SendBound[s]
       /\ flow[s].phase = "idle" => flow[s] = NoFlow

\* A stream tells its session one thing, and the truth: nothing after a cancel
\* of its own, an error only when its own server, network or sign-in failed (a
\* cancel of another session is no failure of this one), every text and every
\* whole call of a complete answer however it was cut into chunks, a call whose
\* input was cut off never as a parsed one, and that the token limit ended an
\* answer exactly when it did.
StreamTruthful ==
  \A s \in Flows : LET f == flow[s] IN
    /\ Len(f.reports) <= 1 /\ ~f.late
    /\ f.phase = "gone" /\ ~f.flag => f.reports # <<>>
    /\ \A r \in ToSet(f.reports) :
         IF r.how = "finish"
         THEN /\ r.texts = server[s].texts
              /\ (r.reason = "MaxTokens") <=> server[s].limited
              /\ server[s].whole => r.calls = [i \in DOMAIN server[s].calls |-> TRUE]
              /\ \A i \in DOMAIN r.calls : r.calls[i] => i < Len(server[s].calls) \/ ~server[s].open
         ELSE s \in caused

\* provider.h: "an empty token means 'cancel every stream on this provider'
\* (engine shutdown uses this)": after it no transfer of the client runs on.
SweepReachesTransfers ==
  [][Cancel(Sweep) => \A s \in Inflight : flow'[s].cancelled]_streamVars

=============================================================================

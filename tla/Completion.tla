------------------------------ MODULE Completion ------------------------------
(***************************************************************************)
(* One chat completion (llm/llm.go, Stream): the POST with its retries on  *)
(* 429, the SSE stream the reply is assembled from, and the plain JSON     *)
(* answer of an endpoint that ignores stream=true.                         *)
(*                                                                         *)
(* The provider is modelled from what the client relies on: a reply is a   *)
(* text and a set of tool calls by index, both sent in numbered pieces;    *)
(* the pieces of one text or call come in order, those of different calls  *)
(* in any order, and finish_reason after all of them. The stream may break *)
(* anywhere. Ids, names, reasoning and usage are left out.                 *)
(***************************************************************************)
EXTENDS TurnContext, Integers, Sequences, SequencesExt

CONSTANTS
  Indexes,     \* indexes a provider may give to a tool call
  MaxPieces,   \* bound: pieces of a text or of a call's arguments
  MaxRetries   \* maxRateLimitRetries

ASSUME CompletionAssumption ==
  /\ Indexes \subseteq Int /\ IsFiniteSet(Indexes)
  /\ MaxPieces \in Nat /\ MaxRetries \in Nat

VARIABLES
  ask,      \* where Stream is: "idle", "post", "backoff", "stream", "ok", "err"
  attempt,  \* POSTs of this request answered with 429
  draft,    \* the reply the provider is sending
  sent,     \* how much of it is sent
  text,     \* content
  calls,    \* toolCalls: the arguments received by index
  finish,   \* sawFinishReason
  heard,    \* history: the text deltas the caller was given
  answer    \* the message Stream returned

completionVars == <<ask, attempt, draft, sent, text, calls, finish, heard, answer>>

Pieces     == [i \in 1..MaxPieces |-> i]
FirstOf(n) == SubSeq(Pieces, 1, n)
Absent     == -1
NoCalls    == [i \in {} |-> <<>>]
EmptyJSON  == <<0>>                          \* "{}"

\* How many pieces of the text and of each call; Absent for no call.
Amounts == [text : 0..MaxPieces, args : [Indexes -> Absent..MaxPieces]]
Nothing == [text |-> 0, args |-> [i \in Indexes |-> Absent]]
NoReply == [text |-> <<>>, calls |-> <<>>]

Opened(amount) == {i \in Indexes : amount.args[i] # Absent}

CompletionTypes ==
  /\ ask \in {"idle", "post", "backoff", "stream", "ok", "err"}
  /\ attempt \in 0..MaxRetries /\ {draft, sent} \subseteq Amounts
  /\ text \in Seq(1..MaxPieces) /\ heard \in Seq(1..MaxPieces)
  /\ DOMAIN calls \subseteq Indexes
  /\ finish \in BOOLEAN

CompletionInit ==
  /\ ask = "idle" /\ attempt = 0 /\ draft = Nothing /\ sent = Nothing
  /\ text = <<>> /\ calls = NoCalls /\ finish = FALSE /\ heard = <<>>
  /\ answer = NoReply
-----------------------------------------------------------------------------
\* The POST.

Fresh ==
  /\ attempt' = 0 /\ draft' = Nothing /\ sent' = Nothing
  /\ text' = <<>> /\ calls' = NoCalls /\ finish' = FALSE /\ heard' = <<>>
  /\ answer' = NoReply

Ask  == ask' = "post" /\ Fresh
Rest == ask' = "idle" /\ Fresh   \* Stream has returned to its caller

\* No response, or a status that is not retried.
PostFails ==
  /\ ask = "post" /\ ask' = "err"
  /\ UNCHANGED <<attempt, draft, sent, text, calls, finish, heard, answer>>

RateLimited ==
  /\ ask = "post"
  /\ ask' = IF attempt >= MaxRetries THEN "err" ELSE "backoff"
  /\ UNCHANGED <<attempt, draft, sent, text, calls, finish, heard, answer>>

BackoffEnds ==
  /\ ask = "backoff" /\ ask' = "post" /\ attempt' = attempt + 1
  /\ UNCHANGED <<draft, sent, text, calls, finish, heard, answer>>

BackoffAborts ==
  /\ ask = "backoff" /\ Ended /\ ask' = "err"
  /\ UNCHANGED <<attempt, draft, sent, text, calls, finish, heard, answer>>

StreamOpens ==
  /\ ask = "post" /\ ask' = "stream" /\ draft' \in Amounts /\ attempt' = 0
  /\ UNCHANGED <<sent, text, calls, finish, heard, answer>>

\* Sorted: the n-th index is the one with n - 1 of them below it.
Ordered(indexes) ==
  [n \in 1..Cardinality(indexes) |->
     CHOOSE i \in indexes : Cardinality({j \in indexes : j < i}) = n - 1]

\* Not event-stream: decodeCompletion. No delta is reported, and the calls are
\* an array, with arguments that stay empty when they are.
JSONAnswer ==
  /\ ask = "post"
  /\ draft' \in Amounts /\ Opened(draft') \subseteq Nat
  /\ \/ ask' = "err" /\ UNCHANGED answer
     \/ /\ ask' = "ok"
        /\ answer' = [text  |-> FirstOf(draft'.text),
                      calls |-> [n \in DOMAIN Ordered(Opened(draft')) |->
                         FirstOf(draft'.args[Ordered(Opened(draft'))[n]])]]
  /\ UNCHANGED <<attempt, sent, text, calls, finish, heard>>
-----------------------------------------------------------------------------
\* consumeStream.

TextChunk ==
  /\ ask = "stream" /\ sent.text < draft.text
  /\ sent' = [sent EXCEPT !.text = @ + 1]
  /\ text' = Append(text, sent'.text) /\ heard' = Append(heard, sent'.text)
  /\ UNCHANGED <<ask, attempt, draft, calls, finish, answer>>

\* Fragments accumulate under their index; a negative one is skipped.
Accumulate(i, fragment) ==
  calls' = IF i < 0 THEN calls
           ELSE [j \in DOMAIN calls \cup {i} |->
                   (IF j \in DOMAIN calls THEN calls[j] ELSE <<>>)
                   \o (IF j = i THEN fragment ELSE <<>>)]

\* The first fragment of a call carries its id and name, the others arguments.
CallChunk(i) ==
  /\ ask = "stream" /\ sent.args[i] < draft.args[i]
  /\ sent' = [sent EXCEPT !.args[i] = @ + 1]
  /\ Accumulate(i, IF sent.args[i] = Absent THEN <<>> ELSE <<sent'.args[i]>>)
  /\ UNCHANGED <<ask, attempt, draft, text, finish, heard, answer>>

FinishChunk ==
  /\ ask = "stream" /\ sent = draft /\ ~finish /\ finish' = TRUE
  /\ UNCHANGED <<ask, attempt, draft, sent, text, calls, heard, answer>>

Assemble ==
  answer' = [text |-> text, calls |-> [n \in DOMAIN Ordered(DOMAIN calls) |->
     LET args == calls[Ordered(DOMAIN calls)[n]]
     IN  IF args = <<>> THEN EmptyJSON ELSE args]]

\* Fault: any end of the stream is a good one.
EndAlways ==
  /\ ask = "stream" /\ ask' = "ok" /\ Assemble
  /\ UNCHANGED <<attempt, draft, sent, text, calls, finish, heard>>

\* data: [DONE], which some providers send with no finish_reason before it,
\* or the end of the connection.
StreamEndsHere ==
  /\ ask = "stream"
  /\ \E sawDone \in BOOLEAN :
       /\ sawDone => sent = draft
       /\ IF sawDone \/ finish THEN ask' = "ok" /\ Assemble
                               ELSE ask' = "err" /\ UNCHANGED answer
  /\ UNCHANGED <<attempt, draft, sent, text, calls, finish, heard>>

\* A failed read, malformed data, an error chunk.
StreamBreaks ==
  /\ ask = "stream" /\ ask' = "err"
  /\ UNCHANGED <<attempt, draft, sent, text, calls, finish, heard, answer>>

CompletionStep ==
  \/ PostFails \/ RateLimited \/ BackoffEnds \/ BackoffAborts
  \/ StreamOpens \/ JSONAnswer
  \/ TextChunk \/ (\E i \in Indexes : CallChunk(i)) \/ FinishChunk
  \/ StreamEndsHere \/ StreamBreaks

\* What must happen once the context ended: the transport gives up, and the
\* backoff is left.
CompletionGivesUp == PostFails \/ BackoffAborts \/ StreamBreaks
-----------------------------------------------------------------------------
\* The index of every call that can be put together.
Valid == {i \in Opened(draft) : i >= 0}

\* An answer is the whole reply: all of its text and every call under a
\* valid index, in the order of the indexes, each with all of its arguments.
\* A stream that was cut is never an answer (consumeStream, decodeCompletion).
AnswersAreWhole ==
  ask = "ok" =>
    /\ answer.text = FirstOf(draft.text)
    /\ Len(answer.calls) = Cardinality(Valid)
    /\ \A n \in DOMAIN answer.calls :
         LET args == FirstOf(draft.args[Ordered(Valid)[n]])
         IN  answer.calls[n] = args \/ (args = <<>> /\ answer.calls[n] = EmptyJSON)

\* The caller hears no piece of the text twice and none out of order, however
\* often the request was retried, and all of it before a streamed answer
\* (Stream retries only before the response is established).
HeardOnce ==
  /\ IsPrefix(heard, Pieces)
  /\ ask = "ok" => heard \in {<<>>, answer.text}

\* What the loop takes for the model's answer is all of it, and what the client
\* was shown meanwhile is the same text, once.
RepliesAreExact == AnswersAreWhole /\ HeardOnce

\* Why: at every moment what has been put together is what has been sent, no
\* more was sent than there is, and finish_reason means that all was. Nothing
\* was sent before the response is established, so a retry repeats nothing.
Gathered == {i \in Opened(sent) : i >= 0}

ReplyInv ==
  /\ CompletionTypes
  /\ text = FirstOf(sent.text) /\ heard = text
  /\ calls = [i \in Gathered |-> FirstOf(sent.args[i])]
  /\ sent.text <= draft.text /\ \A i \in Indexes : sent.args[i] <= draft.args[i]
  /\ finish => sent = draft
  /\ ask \in {"post", "backoff"} => sent = Nothing /\ ~finish
  /\ ask = "backoff" => attempt < MaxRetries
  /\ AnswersAreWhole
  /\ ask = "ok" => heard \in {<<>>, answer.text}
=============================================================================

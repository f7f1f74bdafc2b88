---------------------------- MODULE StreamReader ----------------------------
(***************************************************************************)
(* The Go client's event stream (stream.go): one goroutine (Stream.run)    *)
(* reads the lines of the SSE body, folds them into a frame and hands each *)
(* event to the consumer over a bounded channel; Close, called from any    *)
(* other goroutine, sets closed before it closes done and the body, and    *)
(* the reader can come between. The network is external: it delivers *)
(* what was written, up to the point where the connection breaks or the    *)
(* body ends. An event is a number, 0 for the sync frame, which has no id  *)
(* line; names and payloads are not looked at.                             *)
(***************************************************************************)
EXTENDS Integers, Sequences, FiniteSets, SequencesExt

CONSTANTS
  OutCap,   \* capacity of the Events channel (16)
  WireCap   \* bound: lines in flight before a writer blocks

ASSUME ReaderAssumption == OutCap \in Nat \ {0} /\ WireCap \in Nat

VARIABLES
  wire,     \* the lines written and not yet read
  body,     \* "none" yet, "open", ended ("eof"), ended early ("cut"), "broken"
  frame,    \* what parseLine has folded: the id and the data, <<>> if none
  reader,   \* where Stream.run is
  cause,    \* the error finish is called with
  err,      \* Stream.err
  out,      \* the Events channel
  closing,  \* how far Close has come
  stalled,  \* the consumer receives no more
  taken,    \* history: the events the consumer received
  sent      \* history: the events whose data line reaches the body's end

readerVars == <<wire, body, frame, reader, cause, err, out, closing, stalled,
                taken, sent>>

Closings == {"no", "marked", "closed"}
Errors   == {"nil", "read", "malformed", "ours"}
Torn     == -1  \* a piece of a data line

EmptyFrame == [id |-> <<>>, data |-> <<>>]

ReaderInit ==
  /\ wire = <<>> /\ body = "none"
  /\ frame = EmptyFrame
  /\ reader = "off" /\ cause = "nil" /\ err = "nil"
  /\ out = <<>> /\ closing = "no" /\ stalled = FALSE
  /\ taken = <<>> /\ sent = <<>>

Line(kind, ev) == [kind |-> kind, ev |-> ev]

\* The lines of an event's frame (writeSSEFrame, writeSSESync).
Lines(ev) == (IF ev = 0 THEN <<>> ELSE <<Line("id", ev)>>)
             \o <<Line("data", ev), Line("blank", ev)>>

-----------------------------------------------------------------------------
(* The network *)

\* Client.Events got its answer: newStream starts run.
OpenBody ==
  /\ body = "none"
  /\ body' = "open" /\ reader' = "read"
  /\ UNCHANGED <<wire, frame, cause, err, out, closing, stalled, taken, sent>>

\* The peer writes a frame; it blocks while the window is full.
WriteFrame(ev) ==
  /\ body = "open" /\ Len(wire) <= WireCap
  /\ wire' = wire \o Lines(ev)
  /\ sent' = Append(sent, ev)
  /\ UNCHANGED <<body, frame, reader, cause, err, out, closing, stalled, taken>>

\* The peer has nothing more to write.
EndBody ==
  /\ body = "open"
  /\ body' = "eof"
  /\ UNCHANGED <<wire, frame, reader, cause, err, out, closing, stalled, taken,
                 sent>>

\* n lines get through and, if torn, a part of the next one; a part of any but
\* a data line makes no difference.
Cut(n, torn) ==
  SubSeq(wire, 1, n) \o (IF torn THEN <<Line("torn", Torn)>> ELSE <<>>)

\* The body ends early, in the middle of a frame or of a line: a broken
\* connection, or a peer that just closes it, which reads as io.EOF.
CutBody(how) ==
  /\ body = "open"
  /\ \E n \in 0..Len(wire), torn \in BOOLEAN :
       /\ torn => n < Len(wire) /\ wire[n + 1].kind = "data"
       /\ LET rest == SubSeq(wire, n + 1, Len(wire))
              gone == {i \in DOMAIN rest : rest[i].kind = "data"}
          IN /\ wire' = Cut(n, torn)
             /\ sent' = SubSeq(sent, 1, Len(sent) - Cardinality(gone))
  /\ body' = how
  /\ UNCHANGED <<frame, reader, cause, err, out, closing, stalled, taken>>

-----------------------------------------------------------------------------
(* Stream.run *)

\* parseLine; a torn line is only folded at the end of the body, and what it
\* leaves in data does not parse.
Fold(l) ==
  CASE l.kind = "id"                -> [frame EXCEPT !.id = <<l.ev>>]
    [] l.kind \in {"data", "torn"} -> [frame EXCEPT !.data = Append(@, l.ev)]
    [] OTHER                        -> frame

\* No whole line is left.
OnlyTorn == \A i \in DOMAIN wire : wire[i].kind = "torn"

\* A line is read: a blank one dispatches the frame. Once the body is closed
\* the buffered lines can still be read.
ReadLine ==
  /\ reader = "read" /\ wire # <<>> /\ Head(wire).kind # "torn"
  /\ wire' = Tail(wire)
  /\ frame' = Fold(Head(wire))
  /\ reader' = IF Head(wire).kind = "blank" THEN "dispatch" ELSE "read"
  /\ UNCHANGED <<body, cause, err, out, closing, stalled, taken, sent>>

\* io.EOF, with a last partial line or none: the pending frame is dispatched.
ReadEnd ==
  /\ reader = "read" /\ body \in {"eof", "cut"}
  /\ OnlyTorn
  /\ wire' = <<>>
  /\ frame' = IF wire = <<>> THEN frame ELSE Fold(wire[1])
  /\ reader' = "last"
  /\ UNCHANGED <<body, cause, err, out, closing, stalled, taken, sent>>

\* The read fails: the connection broke, or Close closed the body.
ReadFails ==
  /\ reader = "read"
  /\ \/ closing = "closed" /\ cause' = "ours"
     \/ body = "broken" /\ OnlyTorn /\ cause' = "read"
  /\ reader' = "finish"
  /\ UNCHANGED <<wire, body, frame, err, out, closing, stalled, taken, sent>>

\* Where dispatch goes back to.
Resumed == IF reader = "last" THEN "finish" ELSE "read"

\* No data: nothing to dispatch.
DispatchNothing ==
  /\ reader \in {"dispatch", "last"} /\ frame.data = <<>>
  /\ reader' = Resumed
  /\ frame' = EmptyFrame
  /\ UNCHANGED <<wire, body, cause, err, out, closing, stalled, taken, sent>>

\* The data is no event: the stream ends with an error.
DispatchMalformed ==
  /\ reader \in {"dispatch", "last"} /\ frame.data # <<>>
  /\ Len(frame.data) > 1 \/ frame.data[1] = Torn
  /\ reader' = "finish" /\ cause' = "malformed"
  /\ frame' = EmptyFrame
  /\ UNCHANGED <<wire, body, err, out, closing, stalled, taken, sent>>

\* The event goes out, under its frame's id or, without one, the seq in its
\* payload.
Send ==
  /\ reader \in {"dispatch", "last"} /\ Len(frame.data) = 1
  /\ frame.data[1] # Torn /\ Len(out) < OutCap
  /\ out' = Append(out, IF frame.id = <<>> THEN frame.data[1] ELSE frame.id[1])
  /\ reader' = Resumed
  /\ frame' = EmptyFrame
  /\ UNCHANGED <<wire, body, cause, err, closing, stalled, taken, sent>>

\* Close came while run could not, or could as well, deliver.
Abandon ==
  /\ reader \in {"dispatch", "last"} /\ Len(frame.data) = 1
  /\ frame.data[1] # Torn /\ closing = "closed"
  /\ reader' = "finish" /\ cause' = "nil"
  /\ frame' = EmptyFrame
  /\ UNCHANGED <<wire, body, err, out, closing, stalled, taken, sent>>

\* Fault: finish does not look whether the stream was closed.
FinishUnchecked ==
  /\ reader = "finish"
  /\ reader' = "finished"
  /\ err' = cause
  /\ UNCHANGED <<wire, body, frame, cause, out, closing, stalled, taken, sent>>

\* finish: the error is dropped if the stream was closed on purpose.
Finish ==
  /\ reader = "finish"
  /\ reader' = "finished"
  /\ err' = IF closing = "no" THEN cause ELSE "nil"
  /\ UNCHANGED <<wire, body, frame, cause, out, closing, stalled, taken, sent>>

\* Fault: the channel is only closed for a consumer that closed the stream.
CloseEventsAfterClose ==
  /\ reader = "finished" /\ closing # "no"
  /\ reader' = "done"
  /\ UNCHANGED <<wire, body, frame, cause, err, out, closing, stalled, taken,
                 sent>>

\* close(s.events).
CloseEvents ==
  /\ reader = "finished"
  /\ reader' = "done"
  /\ UNCHANGED <<wire, body, frame, cause, err, out, closing, stalled, taken,
                 sent>>

ReaderStep == \/ ReadLine \/ ReadEnd \/ ReadFails \/ DispatchNothing
              \/ DispatchMalformed \/ Send \/ Abandon \/ Finish \/ CloseEvents

-----------------------------------------------------------------------------
(* The consumer *)

Take ==
  /\ out # <<>> /\ ~stalled
  /\ out' = Tail(out)
  /\ taken' = Append(taken, Head(out))
  /\ UNCHANGED <<wire, body, frame, reader, cause, err, closing, stalled, sent>>

\* It stops draining the channel.
Stall ==
  /\ ~stalled /\ reader # "off"
  /\ stalled' = TRUE
  /\ UNCHANGED <<wire, body, frame, reader, cause, err, out, closing, taken, sent>>

\* Close sets closed; then it closes done and the body, between which run can
\* do nothing it could not do after both.
Close ==
  /\ reader # "off"
  /\ \/ closing = "no" /\ closing' = "marked"
     \/ closing = "marked" /\ closing' = "closed"
  /\ UNCHANGED <<wire, body, frame, reader, cause, err, out, stalled, taken, sent>>

-----------------------------------------------------------------------------
(* Properties *)

\* The consumer gets what was written, in order, without hole or repeat; when
\* the channel closes without an error and nobody called Close it got all of
\* it (Stream: "Err reports whether the stream ended cleanly").
DeliversWhatWasSent ==
  /\ IsPrefix(taken \o out, sent)
  /\ reader = "done" /\ err = "nil" /\ closing = "no" => taken \o out = sent

\* Err tells a stream that broke from one that ended, and never reports the
\* consumer's own Close as a failure, wherever Close meets the reader.
EndIsTold ==
  /\ err # "ours"
  /\ reader = "done" /\ closing = "no" /\ body = "broken" => err # "nil"

\* The consumer can trust the stream: what it got, and how it ended.
StreamIsHonest == DeliversWhatWasSent /\ EndIsTold

-----------------------------------------------------------------------------
(* The inductive invariant behind StreamIsHonest *)

\* What is out of the reader's hands.
Got == taken \o out

\* The data lines of w from the i-th line on.
DataFrom(w, i) == {j \in i..Len(w) : w[j].kind = "data"}
Unread(w, i)   == Cardinality(DataFrom(w, i))

Reading == reader \in {"off", "read", "dispatch", "last"}
Early   == body \in {"cut", "broken"}

\* The frame holds an event that is still to be dispatched.
Pending == Reading /\ frame.data # <<>> /\ frame.data[1] # Torn

ReaderTypes ==
  /\ wire \in Seq([kind : {"id", "data", "blank", "torn"}, ev : Int])
  /\ frame \in [id : Seq(Int), data : Seq(Int)]
  /\ taken \in Seq(Int) /\ out \in Seq(Int) /\ sent \in Seq(Nat)
  /\ body \in {"none", "open", "eof", "cut", "broken"} /\ closing \in Closings
  /\ reader \in {"off", "read", "dispatch", "last", "finish", "finished", "done"}
  /\ reader = "off" <=> body = "none"

\* The line behind one of the given kind and event, if there is one: a frame is
\* whole unless the body ended early.
Follows(kind, ev, l) ==
  /\ kind = "id" => l \in {Line("data", ev), Line("torn", Torn)}
  /\ kind = "data" => l.kind = "blank"
  /\ kind # "torn"

WireWhole ==
  \A i \in DOMAIN wire :
    /\ wire[i].kind = "torn" => wire[i].ev = Torn
    /\ IF i = Len(wire) THEN wire[i].kind = "blank" \/ Early
                        ELSE Follows(wire[i].kind, wire[i].ev, wire[i + 1])

\* What the reader has folded goes on in the wire.
FrameWhole ==
  /\ Reading => Len(frame.data) <= 1
  /\ reader = "off" => frame = EmptyFrame
  /\ reader = "read" /\ frame # EmptyFrame =>
       IF wire = <<>> THEN Early
       ELSE IF frame.data # <<>> THEN Follows("data", 0, wire[1])
                                 ELSE Follows("id", frame.id[1], wire[1])
  /\ reader \in {"read", "dispatch"} => frame.data # <<Torn>>
  /\ Pending /\ frame.id # <<>> => frame.id[1] = frame.data[1]
  /\ reader = "last" => wire = <<>> /\ body \in {"eof", "cut"}

\* What was sent is what is out, the frame's event and the data lines left;
\* once the reader has given up, something may be missing between.
SentIsAccounted ==
  /\ \A k \in DOMAIN Got : Got[k] = sent[k]
  /\ \A i \in DOMAIN wire :
       wire[i].kind = "data" => wire[i].ev = sent[Len(sent) - Unread(wire, i) + 1]
  /\ Len(Got) + Unread(wire, 1) <= Len(sent)
  /\ Reading => Len(Got) + (IF Pending THEN 1 ELSE 0) + Unread(wire, 1) = Len(sent)
  /\ Pending => frame.data[1] = sent[Len(Got) + 1]

\* The reader gives up without an error only where the body ends, or because of
\* Close.
CauseIsRight ==
  /\ Reading => cause = "nil"
  /\ cause = "ours" => closing = "closed"
  /\ ~Reading /\ cause = "nil" /\ closing # "closed" =>
       Len(Got) = Len(sent) /\ body \in {"eof", "cut"}
  /\ reader \in {"finished", "done"} /\ closing = "no" => err = cause
  /\ err # "ours"

ReaderInv ==
  ReaderTypes /\ WireWhole /\ FrameWhole /\ SentIsAccounted /\ CauseIsRight

-----------------------------------------------------------------------------
(* Liveness *)

\* run ends, and closes the channel, after a Close even if the consumer has
\* stopped draining, and after the end of the body if it drains.
ReaderEnds ==
  /\ closing = "closed" ~> reader = "done"
  /\ body \in {"eof", "cut", "broken"} ~> (reader = "done" \/ stalled)

=============================================================================

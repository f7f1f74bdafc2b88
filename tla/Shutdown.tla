------------------------------ MODULE Shutdown ------------------------------
(***************************************************************************)
(* A node that is told to stop (cmd/turnhive/main.go, Controller.Close):   *)
(* it disconnects the event subscribers, shuts the HTTP server down for at *)
(* most ten seconds, stops the sweeper, closes every session, revokes its  *)
(* lease and exits, while requests, a turn, the sweeper and the reader of  *)
(* an event stream (StreamReader) go on. The node holds one session "old", *)
(* with its hub (EventHub) and at most one turn, and creates a second,     *)
(* "new". Nobody waits for the turn's goroutine. A sandbox is named by who *)
(* is to release it. Only the states of the four requests matter here:     *)
(* routing and adoption are in Ownership, the turn itself in TurnCalls. A  *)
(* server that fails exits at once (errCh) and is not modelled.            *)
(***************************************************************************)
EXTENDS EventHub, StreamReader

CONSTANTS
  Client,  \* the subscriber
  Mixes    \* bound: what can happen together in a behaviour

Happenings == {"stream", "message", "delta", "create", "relay", "background",
               "sweep", "lapse", "cut", "stall", "close"}
ASSUME ShutdownAssumption == Chans = {Client} /\ Mixes \subseteq SUBSET Happenings

VARIABLES
  mix,        \* what can happen
  stage,      \* where main is
  failed,     \* srv.Shutdown ran into its timeout
  stream,     \* the handler of the event stream
  backlog,    \* what it has to write first
  message,    \* the handler of a message
  create,     \* the handler of a session creation
  relay,      \* the handler of an event stream another node serves
  sessions,   \* Controller.sessions
  shut,       \* the sessions closed
  holders,    \* who is to release a sandbox
  closer,     \* the session Close is at
  turn,       \* the turn's goroutine
  cancelled,  \* the turn's context is cancelled
  drained,    \* the turn reports background exits
  background, \* a background process of the session
  lease,      \* the node's lease in etcd
  owed        \* history: the last event when the subscriber was disconnected

httpVars == <<stream, backlog, message, create, relay>>
ctrlVars == <<sessions, shut, holders, closer>>
turnVars == <<turn, cancelled, drained, background>>
mainVars == <<stage, failed, lease, owed, mix>>
vars == <<hubVars, readerVars, httpVars, ctrlVars, turnVars, mainVars>>

Accepting == stage \in {"serving", "kicking"}
Up        == stage # "exited"
Settled   == /\ {stream, message, relay} \subseteq {"idle", "over"}
             /\ create \in {"idle", "over", "late"}

Init ==
  /\ HubInit /\ ReaderInit /\ mix \in Mixes
  /\ stage = "serving" /\ failed = FALSE /\ lease = "held" /\ owed = 0
  /\ stream = "idle" /\ backlog = <<>> /\ message = "idle" /\ create = "idle"
  /\ relay = "idle"
  /\ sessions = {"old"} /\ shut = {} /\ closer = "off"
  /\ holders \in {{"old"}} \cup (IF "sweep" \in mix THEN {{}} ELSE {})
  /\ turn = "none" /\ cancelled = FALSE /\ drained = FALSE
  /\ background = IF "background" \in mix THEN "running" ELSE "none"

-----------------------------------------------------------------------------
(* Requests *)

\* A request arrives and finds its session (or needs none).
Arrive ==
  /\ Accepting
  /\ \/ /\ "stream" \in mix /\ stream = "idle" /\ "old" \in sessions
        /\ stream' = "loaded"
        /\ UNCHANGED <<message, create, relay>>
     \/ /\ "message" \in mix /\ message = "idle" /\ "old" \in sessions
        /\ message' = "loaded"
        /\ UNCHANGED <<stream, create, relay>>
     \/ /\ "create" \in mix /\ create = "idle"
        /\ create' = "building"
        /\ UNCHANGED <<stream, message, relay>>
     \/ /\ "relay" \in mix /\ relay = "idle"
        /\ relay' = "open"
        /\ UNCHANGED <<stream, message, create>>
  /\ UNCHANGED <<hubVars, readerVars, backlog, ctrlVars, turnVars, mainVars>>

\* The rest of what a step of the stream's handler leaves alone.
StreamOnly == UNCHANGED <<message, create, relay, ctrlVars, turnVars, mainVars>>

StreamSubscribes ==
  /\ Up /\ stream = "loaded"
  /\ Subscribe(Client) /\ OpenBody
  /\ stream' = "sync" /\ backlog' = After(0)
  /\ StreamOnly

StreamWrites ==
  /\ Up /\ closing # "closed"
  /\ \/ /\ stream = "sync" /\ stream' = "backlog"
        /\ WriteFrame(0)
        /\ UNCHANGED <<hubVars, backlog>>
     \/ /\ stream = "backlog" /\ backlog # <<>>
        /\ WriteFrame(Head(backlog).seq) /\ backlog' = Tail(backlog)
        /\ UNCHANGED <<hubVars, stream>>
     \/ /\ stream = "backlog" /\ backlog = <<>> /\ stream' = "live"
        /\ UNCHANGED <<hubVars, readerVars, backlog>>
     \/ /\ stream = "live" /\ chan[Client] # <<>>
        /\ Receive(Client) /\ WriteFrame(Head(chan[Client]).seq)
        /\ UNCHANGED <<stream, backlog>>
  /\ StreamOnly

\* Fault: the handler returns when its channel is closed, drained or not.
StreamReturnsAtOnce ==
  /\ Up /\ stream = "live" /\ Client \in closed
  /\ stream' = "over" /\ EndBody
  /\ UNCHANGED <<hubVars, backlog>> /\ StreamOnly

\* The channel is closed and drained.
StreamReturns ==
  /\ Up /\ stream = "live" /\ chan[Client] = <<>> /\ Client \in closed
  /\ stream' = "over" /\ EndBody
  /\ UNCHANGED <<hubVars, backlog>> /\ StreamOnly

\* The request's context ended: the client closed or lost the connection.
StreamGone ==
  /\ Up /\ stream \in {"sync", "backlog", "live"}
  /\ closing = "closed" \/ body # "open"
  /\ stream' = "over" /\ Unsubscribe(Client)
  /\ UNCHANGED <<readerVars, backlog>> /\ StreamOnly

\* The connection breaks, or the peer closes it early.
NetworkCuts ==
  /\ "cut" \in mix
  /\ \E how \in {"cut", "broken"} : CutBody(how)
  /\ UNCHANGED <<hubVars, httpVars, ctrlVars, turnVars, mainVars>>

\* The other node ends the relayed stream.
RelayEnds ==
  /\ Up /\ relay = "open" /\ relay' = "over"
  /\ UNCHANGED <<hubVars, readerVars, stream, backlog, message, create,
                 ctrlVars, turnVars, mainVars>>

\* handleCreateSession: the sandbox, the spec and the record; a failure before
\* the session is stored releases the sandbox. A session stored while Close
\* goes over the map may be missed.
CreateSession ==
  /\ Up
  /\ \/ /\ create = "building"
        /\ \/ create' = "built" /\ holders' = holders \cup {"new"}
           \/ create' = "over" /\ UNCHANGED holders
        /\ UNCHANGED sessions
     \/ /\ create = "built"
        /\ create' = IF stage = "closing" THEN "late" ELSE "over"
        /\ sessions' = sessions \cup {"new"}
        /\ UNCHANGED holders
     \/ /\ create = "built"
        /\ create' = "over" /\ holders' = holders \ {"new"}
        /\ UNCHANGED sessions
  /\ UNCHANGED <<hubVars, readerVars, stream, backlog, message, relay, shut,
                 closer, turnVars, mainVars>>

-----------------------------------------------------------------------------
(* Turns and background processes *)

\* runTurn up to the goroutine it starts; the bound on events bounds the turns.
StartTurn(drains) ==
  /\ turn = "none" /\ seq + 2 <= MaxSeq
  /\ Publish(seq + 1, "turn_started")
  /\ turn' = "starting" /\ cancelled' = FALSE /\ drained' = drains

TurnOnly == UNCHANGED <<readerVars, httpVars, sessions, shut, closer, background,
                        mainVars>>

\* handleCreateMessage; a running turn makes it a 409.
MessageArrives ==
  /\ Up /\ message = "loaded" /\ message' = "over"
  /\ \/ StartTurn(FALSE) /\ UNCHANGED background
     \/ /\ turn # "none" \/ seq + 2 > MaxSeq
        /\ UNCHANGED <<hubVars, turnVars>>
  /\ UNCHANGED <<readerVars, stream, backlog, create, relay, ctrlVars, mainVars>>

\* drainBackgroundExits, from the watcher or after a turn has finished.
Drain ==
  /\ Up /\ background = "exited" /\ background' = "none"
  /\ StartTurn(TRUE)
  /\ UNCHANGED <<readerVars, httpVars, ctrlVars, mainVars>>

BackgroundExits ==
  /\ Up /\ background = "running" /\ background' = "exited"
  /\ UNCHANGED <<hubVars, readerVars, httpVars, ctrlVars, turn, cancelled,
                 drained, mainVars>>

\* ensureSandbox: the session has one, or one is allocated.
EnsureSandbox ==
  /\ Up /\ turn = "starting"
  /\ \/ /\ "old" \in holders /\ "old" \notin shut
        /\ turn' = "running" /\ UNCHANGED holders
     \/ /\ ~("old" \in holders /\ "old" \notin shut)
        /\ turn' = "built" /\ holders' = holders \cup {"turn"}
  /\ UNCHANGED <<hubVars, cancelled, drained>> /\ TurnOnly

\* setSandbox; a closed session refuses.
Attach ==
  /\ Up /\ turn = "built"
  /\ \/ /\ "old" \notin shut
        /\ turn' = "running" /\ holders' = (holders \ {"turn"}) \cup {"old"}
     \/ /\ turn' = "refused" /\ UNCHANGED holders  \* or a step of it failed
  /\ UNCHANGED <<hubVars, cancelled, drained>> /\ TurnOnly

\* The sandbox is released, and the turn reports the error.
ReleaseRefused ==
  /\ Up /\ turn = "refused"
  /\ turn' = "finishing" /\ holders' = holders \ {"turn"}
  /\ Publish(currentTurn, "turn_finished")
  /\ UNCHANGED <<cancelled, drained>> /\ TurnOnly

\* RunTurn reports progress; it ends of itself or with its context.
TurnSpeaks ==
  /\ "delta" \in mix /\ Up /\ turn = "running" /\ seq + 2 <= MaxSeq
  /\ Publish(currentTurn, "delta")
  /\ UNCHANGED <<turn, cancelled, drained, holders>> /\ TurnOnly

TurnEnds ==
  /\ Up /\ turn = "running"
  /\ turn' = "finishing"
  /\ Publish(currentTurn, "turn_finished")
  /\ UNCHANGED <<cancelled, drained, holders>> /\ TurnOnly

\* finishTurn.
FinishTurn ==
  /\ Up /\ turn = "finishing" /\ turn' = "none"
  /\ UNCHANGED <<hubVars, cancelled, drained, holders>> /\ TurnOnly

TurnStep == \/ MessageArrives \/ Drain \/ BackgroundExits \/ EnsureSandbox
            \/ Attach \/ ReleaseRefused \/ TurnSpeaks \/ TurnEnds \/ FinishTurn

-----------------------------------------------------------------------------
(* The sweeper *)

\* reapIdleSandboxes takes the sandbox of a session without a turn ...
Reap ==
  /\ stage \in {"serving", "kicking", "draining", "stopping"}
  /\ "sweep" \in mix /\ turn = "none" /\ "old" \in holders \cap sessions
  /\ "sweeper" \notin holders
  /\ holders' = (holders \ {"old"}) \cup {"sweeper"}
  /\ UNCHANGED <<hubVars, readerVars, httpVars, sessions, shut, closer, turnVars,
                 mainVars>>

\* ... and releases it.
Reaped ==
  /\ Up /\ "sweeper" \in holders
  /\ holders' = holders \ {"sweeper"}
  /\ UNCHANGED <<hubVars, readerVars, httpVars, sessions, shut, closer, turnVars,
                 mainVars>>

-----------------------------------------------------------------------------
(* main *)

MainOnly == UNCHANGED <<httpVars, turnVars>>

\* SIGTERM: the context RegisterNode got ends, and with it the keepalive.
Signal ==
  /\ stage = "serving" /\ stage' = "kicking"
  /\ UNCHANGED <<hubVars, readerVars, ctrlVars, failed, lease, owed, mix>> /\ MainOnly

\* The lease is not kept alive any more, and its TTL passes.
LeaseLapses ==
  /\ "lapse" \in mix /\ stage # "serving" /\ lease = "held" /\ lease' = "lapsed"
  /\ UNCHANGED <<hubVars, readerVars, ctrlVars, stage, failed, owed, mix>> /\ MainOnly

\* CloseSubscribers; srv.Shutdown then closes the listener.
CloseSubscribers ==
  /\ stage = "kicking" /\ stage' = "draining"
  /\ CloseAll
  /\ owed' = IF Client \in subs THEN seq ELSE owed
  /\ UNCHANGED <<readerVars, ctrlVars, failed, lease, mix>> /\ MainOnly

\* Every request is answered.
ShutdownReturns ==
  /\ stage = "draining" /\ Settled
  /\ stage' = "stopping"
  /\ UNCHANGED <<hubVars, readerVars, ctrlVars, failed, lease, owed, mix>> /\ MainOnly

\* Fault: the server is shut down without a time limit.
NoTimeout == FALSE /\ UNCHANGED vars

ShutdownTimesOut ==
  /\ stage = "draining" /\ ~Settled
  /\ stage' = "stopping" /\ failed' = TRUE
  /\ UNCHANGED <<hubVars, readerVars, ctrlVars, lease, owed, mix>> /\ MainOnly

\* Fault: Close does not wait for the sweeper.
StopNoWait ==
  /\ stage = "stopping" /\ stage' = "closing"
  /\ UNCHANGED <<hubVars, readerVars, ctrlVars, failed, lease, owed, mix>> /\ MainOnly

\* Close: the sweeper has ended.
StopSweeper ==
  /\ stage = "stopping" /\ "sweeper" \notin holders
  /\ stage' = "closing"
  /\ UNCHANGED <<hubVars, readerVars, ctrlVars, failed, lease, owed, mix>> /\ MainOnly

\* A session leaves the map and its turn is cancelled ...
CancelSession(s) ==
  /\ stage = "closing" /\ closer = "off" /\ s \in sessions
  /\ closer' = s /\ sessions' = sessions \ {s}
  /\ cancelled' = (cancelled \/ (s = "old" /\ turn # "none"))
  /\ UNCHANGED <<hubVars, readerVars, httpVars, shut, holders, turn, drained,
                 background, mainVars>>

\* ... it is closed and its sandbox taken ...
CloseSession ==
  /\ closer \in {"old", "new"} /\ Up
  /\ shut' = shut \cup {closer}
  /\ IF closer \in holders
     THEN closer' = "releasing" /\ holders' = (holders \ {closer}) \cup {"closer"}
     ELSE closer' = "off" /\ UNCHANGED holders
  /\ UNCHANGED <<hubVars, readerVars, sessions, mainVars>> /\ MainOnly

\* ... and released.
ReleaseClosed ==
  /\ closer = "releasing" /\ Up
  /\ closer' = "off" /\ holders' = holders \ {"closer"}
  /\ UNCHANGED <<hubVars, readerVars, sessions, shut, mainVars>> /\ MainOnly

\* Every session is closed: registry.Close, whose error is only logged.
Revoke ==
  /\ stage = "closing" /\ closer = "off"
  /\ sessions \subseteq (IF create = "late" THEN {"new"} ELSE {})
  /\ stage' = "revoked" /\ lease' \in {lease, "revoked"}
  /\ UNCHANGED <<hubVars, readerVars, ctrlVars, failed, owed, mix>> /\ MainOnly

\* The process ends, whatever its other goroutines do.
Exit ==
  /\ stage = "revoked" /\ stage' = "exited"
  /\ IF body = "open" THEN CutBody("broken") ELSE UNCHANGED readerVars
  /\ UNCHANGED <<hubVars, ctrlVars, failed, lease, owed, mix>> /\ MainOnly

Closing == (\E s \in {"old", "new"} : CancelSession(s)) \/ CloseSession
           \/ ReleaseClosed

MainStep == \/ CloseSubscribers \/ ShutdownReturns \/ ShutdownTimesOut
            \/ StopSweeper \/ Closing \/ Revoke \/ Exit

\* The client does not touch the node.
Node       == <<hubVars, httpVars, ctrlVars, turnVars, mainVars>>
ClientStep == ReaderStep /\ UNCHANGED Node
Receives   == Take /\ UNCHANGED Node
Closes     == "close" \in mix /\ Close /\ UNCHANGED Node
StopsTaking == "stall" \in mix /\ Stall /\ UNCHANGED Node

StreamStep == StreamSubscribes \/ StreamWrites \/ StreamReturns \/ StreamGone

Next == \/ Signal \/ LeaseLapses \/ MainStep
        \/ Arrive \/ StreamStep \/ NetworkCuts \/ RelayEnds \/ CreateSession
        \/ TurnStep \/ Reap \/ Reaped
        \/ ClientStep \/ Receives \/ Closes \/ StopsTaking

Spec == Init /\ [][Next]_vars

\* main, the sweeper, the handler of the stream and the client's reader run; a
\* consumer that has not stalled receives.
FairSpec == Spec /\ WF_vars(MainStep) /\ WF_vars(Reaped)
                 /\ WF_vars(StreamStep) /\ WF_vars(ClientStep)
                 /\ WF_vars(Receives)

TypeOK ==
  /\ HubTypes
  /\ reader \in {"off", "read", "dispatch", "last", "finish", "finished", "done"}
  /\ body \in {"none", "open", "eof", "cut", "broken"}
  /\ cause \in Errors /\ err \in Errors /\ closing \in Closings
  /\ wire \in Seq([kind : {"id", "data", "blank", "torn"}, ev : Torn..MaxSeq])
  /\ frame \in [id : Seq(0..MaxSeq), data : Seq(Torn..MaxSeq)]
  /\ out \in Seq(0..MaxSeq) /\ taken \in Seq(0..MaxSeq) /\ sent \in Seq(0..MaxSeq)
  /\ stalled \in BOOLEAN /\ Len(out) <= OutCap
  /\ stage \in {"serving", "kicking", "draining", "stopping", "closing",
                "revoked", "exited"}
  /\ failed \in BOOLEAN /\ lease \in {"held", "lapsed", "revoked"}
  /\ owed \in 0..MaxSeq
  /\ stream \in {"idle", "loaded", "sync", "backlog", "live", "over"}
  /\ backlog \in Seq(Events)
  /\ message \in {"idle", "loaded", "over"} /\ relay \in {"idle", "open", "over"}
  /\ create \in {"idle", "building", "built", "over", "late"}
  /\ sessions \subseteq {"old", "new"} /\ shut \subseteq {"old", "new"}
  /\ holders \subseteq {"old", "new", "turn", "sweeper", "closer"}
  /\ closer \in {"off", "old", "new", "releasing"}
  /\ turn \in {"none", "starting", "built", "refused", "running", "finishing"}
  /\ cancelled \in BOOLEAN /\ drained \in BOOLEAN
  /\ background \in {"none", "running", "exited"}

-----------------------------------------------------------------------------
(* Properties *)

Seen == {taken[i] : i \in DOMAIN taken} \cup {out[i] : i \in DOMAIN out}

\* A subscriber the node disconnects in order to stop, and whose connection
\* holds, gets every event published until then that the replay buffer still
\* held when it subscribed, and none of those behind one it got is missing,
\* before its stream ends cleanly (CloseSubscribers, handleSessionEvents).
FarewellIsWhole ==
  body = "eof" /\ reader = "done" /\ err = "nil" /\ closing = "no" =>
    \A e \in 1..owed :
      e > owed - BufCap \/ (\E f \in Seen \ {0} : f <= e) => e \in Seen

\* A node whose requests all ended in time exits without leaving a sandbox
\* behind, but one that a turn was just building (main.go:103).
ExitReleasesSandboxes ==
  stage = "exited" /\ ~failed =>
    /\ holders \subseteq {"turn"}
    /\ "turn" \in holders => turn \in {"built", "refused"}

\* Once such a node gives up its sessions' records, so that other nodes adopt
\* them, its turns are cancelled; only one that reports background exits can
\* have started behind Close's back.
GivenUpTurnsAreCancelled ==
  stage \in {"revoked", "exited"} /\ ~failed /\ turn \notin {"none", "finishing"}
    => cancelled \/ drained

\* A node that stopped in good order left neither sandboxes nor turns to
\* themselves.
StopIsClean == ExitReleasesSandboxes /\ GivenUpTurnsAreCancelled

-----------------------------------------------------------------------------
(* The inductive invariant behind StopIsClean *)

Stages == {"serving", "kicking", "draining", "stopping", "closing", "revoked", "exited"}

StopTypes ==
  /\ stage \in Stages /\ closer \in {"off", "old", "new", "releasing"}
  /\ create \in {"idle", "building", "built", "over", "late"}
  /\ sessions \subseteq {"old", "new"}
  /\ holders \subseteq {"old", "new", "turn", "sweeper", "closer"}

\* Whoever is to release a sandbox is still there to do it.
HoldersLive ==
  /\ "turn" \in holders => turn \in {"built", "refused"}
  /\ "sweeper" \in holders => stage \in {"serving", "kicking", "draining", "stopping"}
  /\ "closer" \in holders => closer = "releasing"
  /\ "old" \in holders => "old" \in sessions \/ closer = "old"
  /\ "new" \in holders => create = "built" \/ "new" \in sessions \/ closer = "new"

\* A session is in the map, in Close's hands or closed; it leaves the map when
\* its turn is cancelled, and Close is done when the map is empty.
ClosedInOrder ==
  /\ "old" \in sessions \/ closer = "old" \/ "old" \in shut
  /\ stage \in {"serving", "kicking", "draining", "stopping"} => "old" \in sessions
  /\ closer # "off" => stage = "closing"
  /\ create = "late" => stage \in {"closing", "revoked", "exited"}

\* If srv.Shutdown returned in time, no handler is left to start anything.
AllSettled ==
  ~failed =>
    /\ stage \in {"stopping", "closing", "revoked", "exited"} =>
         message # "loaded" /\ create \in {"idle", "over"}
    /\ stage \in {"revoked", "exited"} => sessions = {}
    /\ "old" \notin sessions /\ turn # "none" => cancelled \/ drained

StopInv == StopTypes /\ HoldersLive /\ ClosedInOrder /\ AllSettled

-----------------------------------------------------------------------------
(* The inductive invariants behind FarewellIsWhole, beside ReaderInv *)

\* The hub's types, of which the handler's and the turn's are part; a channel
\* holds nothing that was not published.
HubView ==
  /\ HubTypes /\ backlog \in Seq(Events)
  /\ \A c \in Chans : next[c] + Len(chan[c]) <= seq + 1
  /\ turn \in {"starting", "built", "refused", "running"} => currentTurn # 0

\* The subscriber's channel as its handler sees it: it goes on where the handler
\* is due and, as long as it is subscribed, up to the last event.
ChannelGoesOn ==
  /\ \A i \in DOMAIN chan[Client] : chan[Client][i].seq = next[Client] + i - 1
  /\ Client \in subs =>
       /\ Client \notin closed /\ stream \in {"sync", "backlog", "live"}
       /\ next[Client] + Len(chan[Client]) = seq + 1

\* The last event the handler has written, or passed over for being too old.
Written == next[Client] - 1 - Len(backlog)

\* What the handler has still to write of the backlog ends where the channel
\* begins.
BacklogGoesOn ==
  /\ BufferWindow
  /\ stream \in {"sync", "backlog"} =>
       /\ Written >= 0
       /\ \A i \in DOMAIN backlog : backlog[i].seq = Written + i
  /\ stream = "live" => backlog = <<>>

\* The handler has written the sync frame and then, without a hole, the events
\* it subscribed to, which are all there are or as many as are kept.
WrittenSoFar ==
  /\ body = "none" => sent = <<>>
  /\ stream = "sync" /\ body = "open" =>
       sent = <<>> /\ (Written = 0 \/ Len(backlog) >= BufCap)
  /\ (stream \in {"backlog", "live"} /\ body = "open") \/ body = "eof" =>
       /\ sent # <<>> /\ sent[1] = 0
       /\ \A k \in 2..Len(sent) : sent[k] = Written - Len(sent) + k
       /\ Len(sent) - 1 = Written \/ Len(sent) - 1 + Len(backlog) >= BufCap

\* What the subscriber is owed is on its way, and written when the stream ends.
OwedComes ==
  /\ stage \in {"serving", "kicking"} \/ stream \in {"idle", "loaded"} => owed = 0
  /\ owed # 0 => Client \notin subs /\ owed = next[Client] + Len(chan[Client]) - 1
  /\ body = "eof" => stream = "over" /\ backlog = <<>> /\ chan[Client] = <<>>

FarewellInv == ChannelGoesOn /\ BacklogGoesOn /\ WrittenSoFar /\ OwedComes

-----------------------------------------------------------------------------
(* Liveness *)

\* A node told to stop exits.
StopEnds == stage = "kicking" ~> stage = "exited"

-----------------------------------------------------------------------------
(* What the comments promise and the code does not keep *)

\* main.go:91-94: with every subscriber kicked no events handler keeps Shutdown
\* until its timeout.
SubscribersAreKicked ==
  stage \notin {"serving", "kicking"} => subs = {} /\ relay # "open"

\* main.go:106-108: the records disappear when the lease is revoked, after the
\* sessions were closed.
RecordsOutliveSessions == lease # "held" => turn # "running" \/ cancelled \/ drained

=============================================================================

----------------------------- MODULE EventStream -----------------------------
(***************************************************************************)
(* The event stream of one session end to end: the turn that publishes,    *)
(* the hub (EventHub), one handleSessionEvents goroutine per connection    *)
(* (controller/controller.go) and the client that tracks the sequence      *)
(* number it resumes from (stream.go). A connection can break at any time; *)
(* what the handler has not written by then is lost to the client. Cold    *)
(* eviction closes the hub's subscribers and retires it; clients come with *)
(* the last_seq of an earlier hub, whose numbering was another one.        *)
(***************************************************************************)
EXTENDS EventHub

CONSTANTS
  SyncClients,  \* clients that reset their seq from the sync frame (the SDK)
  MaxStale,     \* bound: last_seq such a client may bring along
  MaxBreaks     \* bound: broken connections in a behaviour

Clients   == Chans
IdClients == Clients \ SyncClients   \* EventSource: the last id seen

ASSUME StreamAssumption ==
  SyncClients \subseteq Clients /\ MaxStale \in Nat /\ MaxBreaks \in Nat

VARIABLES
  conn,     \* where each client's handler is
  backlog,  \* the backlog the handler still has to write
  sync,     \* the sync frame the handler is to write
  last,     \* the seq the client resumes from
  view,     \* the running turn as the client sees it
  got,      \* history: events received by each client
  lost,     \* history: events that had left the buffer when it reconnected
  retired,  \* the session was evicted, this hub serves nobody any more
  breaks

streamVars == <<conn, backlog, sync, last, view, got, lost, retired, breaks>>
vars == <<hubVars, streamVars>>

Connected(c) == conn[c] \in {"sync", "backlog", "live"}
Pending(c)   == backlog[c] \o chan[c]

TypeOK ==
  /\ HubTypes
  /\ conn \in [Clients -> {"off", "loaded", "sync", "backlog", "live"}]
  /\ backlog \in [Clients -> Seq(Events)]
  /\ sync \in [Clients -> [turn : Turns \cup {0}, seq : 0..MaxSeq]]
  /\ last \in [Clients -> 0..(MaxSeq + MaxStale)]
  /\ view \in [Clients -> Turns \cup {0}]
  /\ got \in [Clients -> SUBSET (1..MaxSeq)]
  /\ lost \in [Clients -> SUBSET (1..MaxSeq)]
  /\ retired \in BOOLEAN /\ breaks \in 0..MaxBreaks

Init ==
  /\ HubInit
  /\ conn = [c \in Clients |-> "off"]
  /\ backlog = [c \in Clients |-> <<>>]
  /\ sync = [c \in Clients |-> [turn |-> 0, seq |-> 0]]
  /\ last \in [Clients -> 0..MaxStale]
  /\ \A c \in IdClients : last[c] = 0
  /\ view = [c \in Clients |-> 0]
  /\ got = [c \in Clients |-> {}] /\ lost = [c \in Clients |-> {}]
  /\ retired = FALSE /\ breaks = 0

\* A turn opens, reports progress and closes; Session shows that a session
\* publishes one turn at a time.
PublishEvent ==
  /\ \/ currentTurn = 0 /\ Publish(seq + 1, "turn_started")
     \/ /\ currentTurn # 0
        /\ \E name \in {"delta", "turn_finished"} : Publish(currentTurn, name)
  /\ ~retired
  /\ UNCHANGED streamVars

\* The client connects and the handler finds the session.
Connect(c) ==
  /\ conn[c] = "off" /\ ~retired
  /\ conn' = [conn EXCEPT ![c] = "loaded"]
  /\ UNCHANGED <<hubVars, backlog, sync, last, view, got, lost, retired, breaks>>

\* Fault: the backlog leaves out the event the client asked to resume after
\* and the one that follows it.
HandleSubscribeSkips(c) ==
  /\ conn[c] = "loaded"
  /\ Subscribe(c)
  /\ conn' = [conn EXCEPT ![c] = "sync"]
  /\ backlog' = [backlog EXCEPT ![c] = After(last[c] + 1)]
  /\ sync' = [sync EXCEPT ![c] = [turn |-> currentTurn, seq |-> seq]]
  /\ lost' = [lost EXCEPT ![c] = @ \cup ((last[c] + 1)..(seq - Len(buf)))]
  /\ UNCHANGED <<last, view, got, retired, breaks>>

\* Fault: the backlog starts with the event the client saw last.
HandleSubscribeRepeats(c) ==
  /\ conn[c] = "loaded"
  /\ Subscribe(c)
  /\ conn' = [conn EXCEPT ![c] = "sync"]
  /\ backlog' = [backlog EXCEPT ![c] = After(last[c] - 1)]
  /\ sync' = [sync EXCEPT ![c] = [turn |-> currentTurn, seq |-> seq]]
  /\ lost' = [lost EXCEPT ![c] = @ \cup ((last[c] + 1)..(seq - Len(buf)))]
  /\ UNCHANGED <<last, view, got, retired, breaks>>

\* Fault: the newest event falls between the backlog and the channel.
HandleSubscribeShort(c) ==
  /\ conn[c] = "loaded"
  /\ Subscribe(c)
  /\ conn' = [conn EXCEPT ![c] = "sync"]
  /\ backlog' = [backlog EXCEPT ![c] =
       SelectSeq(After(last[c]), LAMBDA ev : ev.seq # seq)]
  /\ sync' = [sync EXCEPT ![c] = [turn |-> currentTurn, seq |-> seq]]
  /\ lost' = [lost EXCEPT ![c] = @ \cup ((last[c] + 1)..(seq - Len(buf)))]
  /\ UNCHANGED <<last, view, got, retired, breaks>>

\* Channel, backlog, current turn and latest seq in one critical section.
HandleSubscribe(c) ==
  /\ conn[c] = "loaded"
  /\ Subscribe(c)
  /\ conn' = [conn EXCEPT ![c] = "sync"]
  /\ backlog' = [backlog EXCEPT ![c] = After(last[c])]
  /\ sync' = [sync EXCEPT ![c] = [turn |-> currentTurn, seq |-> seq]]
  /\ lost' = [lost EXCEPT ![c] = @ \cup ((last[c] + 1)..(seq - Len(buf)))]
  /\ UNCHANGED <<last, view, got, retired, breaks>>

\* Fault: the sync frame does not carry the current turn.
WriteSyncIdle(c) ==
  /\ conn[c] = "sync"
  /\ conn' = [conn EXCEPT ![c] = "backlog"]
  /\ view' = [view EXCEPT ![c] = 0]
  /\ last' = [last EXCEPT ![c] = IF c \in SyncClients THEN sync[c].seq ELSE @]
  /\ UNCHANGED <<hubVars, backlog, sync, got, lost, retired, breaks>>

\* The sync frame comes first and carries no id.
WriteSync(c) ==
  /\ conn[c] = "sync"
  /\ conn' = [conn EXCEPT ![c] = "backlog"]
  /\ view' = [view EXCEPT ![c] = sync[c].turn]
  /\ last' = [last EXCEPT ![c] = IF c \in SyncClients THEN sync[c].seq ELSE @]
  /\ UNCHANGED <<hubVars, backlog, sync, got, lost, retired, breaks>>

\* The client takes one data frame.
Deliver(c, ev) ==
  /\ last' = [last EXCEPT ![c] = ev.seq]
  /\ got' = [got EXCEPT ![c] = @ \cup {ev.seq}]
  /\ view' = [view EXCEPT ![c] = CASE ev.name = "turn_started" -> ev.turn
                                   [] ev.name = "turn_finished" -> 0
                                   [] OTHER -> @]

WriteBacklog(c) ==
  /\ conn[c] = "backlog" /\ backlog[c] # <<>>
  /\ Deliver(c, Head(backlog[c]))
  /\ backlog' = [backlog EXCEPT ![c] = Tail(@)]
  /\ UNCHANGED <<hubVars, conn, sync, lost, retired, breaks>>

BacklogDone(c) ==
  /\ conn[c] = "backlog" /\ backlog[c] = <<>>
  /\ conn' = [conn EXCEPT ![c] = "live"]
  /\ UNCHANGED <<hubVars, backlog, sync, last, view, got, lost, retired, breaks>>

WriteLive(c) ==
  /\ conn[c] = "live" /\ chan[c] # <<>>
  /\ Deliver(c, Head(chan[c]))
  /\ Receive(c)
  /\ UNCHANGED <<conn, backlog, sync, lost, retired, breaks>>

\* The channel was closed and is drained: the handler returns.
HandlerEnds(c) ==
  /\ conn[c] = "live" /\ chan[c] = <<>> /\ c \in closed
  /\ conn' = [conn EXCEPT ![c] = "off"]
  /\ UNCHANGED <<hubVars, backlog, sync, last, view, got, lost, retired, breaks>>

\* The connection breaks; the deferred unsubscribe drops the channel.
Break(c) ==
  /\ Connected(c) /\ breaks < MaxBreaks
  /\ Unsubscribe(c)
  /\ conn' = [conn EXCEPT ![c] = "off"]
  /\ backlog' = [backlog EXCEPT ![c] = <<>>]
  /\ breaks' = breaks + 1
  /\ UNCHANGED <<sync, last, view, got, lost, retired>>

\* evictColdSessions: no turn runs; the subscribers are disconnected.
Evict ==
  /\ ~retired /\ currentTurn = 0
  /\ retired' = TRUE
  /\ CloseAll
  /\ UNCHANGED <<conn, backlog, sync, last, view, got, lost, breaks>>

HandlerNext(c) == HandleSubscribe(c) \/ WriteSync(c) \/ WriteBacklog(c)
                  \/ BacklogDone(c) \/ WriteLive(c) \/ HandlerEnds(c)

Next == \/ PublishEvent \/ Evict
        \/ \E c \in Clients : Connect(c) \/ HandlerNext(c) \/ Break(c)

Spec == Init /\ [][Next]_vars

\* Handlers run and clients reconnect; publishing, breaks and eviction are
\* never forced.
FairSpec == Spec /\ \A c \in Clients : WF_vars(Connect(c)) /\ WF_vars(HandlerNext(c))

-----------------------------------------------------------------------------
(* Safety *)

\* Whatever a connected client is still to get is consecutive: the backlog
\* joins the live events without hole or overlap (subscribe, publish).
StreamGapless ==
  \A c \in Clients : Connected(c) =>
    \A i, j \in DOMAIN Pending(c) :
      j = i + 1 => Pending(c)[j].seq = Pending(c)[i].seq + 1

\* A client that resumes from the last id it saw never gets an event twice,
\* however often it is dropped, cut off or reconnects.
NothingTwice ==
  \A c \in IdClients : Connected(c) =>
    \A i \in DOMAIN Pending(c) : Pending(c)[i].seq \notin got[c]

\* Such a client misses only events that had left the replay buffer when it
\* reconnected (hub.go:15-17).
NothingMissed ==
  \A c \in IdClients : 1..last[c] \subseteq got[c] \cup lost[c]

\* A client that resumes by id gets every event once, but for those that had
\* left the replay buffer when it came back.
ExactlyOnce == NothingTwice /\ NothingMissed

\* A client that has caught up sees the turn the hub runs: the sync frame's
\* current turn and the replayed events agree in the end.
ViewAgrees ==
  \A c \in Clients :
    conn[c] = "live" /\ c \in subs /\ Pending(c) = <<>> => view[c] = currentTurn

-----------------------------------------------------------------------------
(* The inductive invariant behind these, beside that of the hub *)

\* The event a connected client gets next.
Due(c) == next[c] - Len(backlog[c])

\* The backlog ends where the channel begins.
Joins(c) ==
  /\ conn[c] = "live" => backlog[c] = <<>>
  /\ Connected(c) => \A i \in 1..Len(backlog[c]) : backlog[c][i].seq = Due(c) + i - 1

\* A client that resumes by id asks for what comes behind all it got; what it
\* skipped had left the buffer.
Resumes(c) ==
  c \in IdClients =>
    /\ last[c] <= seq /\ got[c] \subseteq 1..last[c] /\ 1..last[c] \subseteq got[c] \cup lost[c]
    /\ Connected(c) => last[c] < Due(c) /\ (last[c] + 1)..(Due(c) - 1) \subseteq lost[c]

\* The turn a client sees once it has taken an event that opens or closes one.
Shown(ev) == IF ev.name = "turn_started" THEN ev.turn ELSE 0

\* The last event in p that opens or closes a turn shows t; if there is none,
\* t is what was seen before.
LeadsTo(seen, p, t) ==
  /\ \A i \in 1..Len(p) :
       p[i].name # "delta" /\ (\A j \in 1..Len(p) : j > i => p[j].name = "delta")
         => Shown(p[i]) = t
  /\ (\A i \in 1..Len(p) : p[i].name = "delta") => seen = t

\* What a client sees, or is about to see from its sync frame.
Sees(c) == IF conn[c] = "sync" THEN sync[c].turn ELSE view[c]

\* What is on its way to a subscriber leads it to the running turn.
Catches(c) == Connected(c) /\ c \in subs => LeadsTo(Sees(c), Pending(c), currentTurn)

StreamInv ==
  /\ TypeOK /\ HubIsGapless
  /\ LeadsTo(currentTurn, buf, currentTurn)
  /\ \A c \in Clients : Joins(c) /\ Resumes(c) /\ Catches(c)

-----------------------------------------------------------------------------
(* Liveness *)

\* Every event reaches every client that resumes by id, unless it left the
\* buffer or the session was evicted.
EventsArrive ==
  \A c \in IdClients, n \in 1..MaxSeq :
    seq >= n ~> (n \in got[c] \cup lost[c] \/ retired)

-----------------------------------------------------------------------------
(* What the comments promise and the code does not keep *)

\* hub.go:15-18, stream.go:22-26: a client that resets its seq from the sync
\* frame and is cut off loses no event that is still in the buffer.
SyncClientMissesNothing ==
  \A c \in SyncClients :
    conn[c] = "off" => (1..last[c]) \cap (1..seq) \subseteq got[c] \cup lost[c]

\* sweeper.go:36-39, hub.go:104-107: after an eviction every SSE handler
\* returns; nobody stays subscribed to the retired hub.
RetiredHubIsSilent == retired => subs = {}

=============================================================================

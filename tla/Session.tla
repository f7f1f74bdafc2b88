------------------------------ MODULE Session ------------------------------
(***************************************************************************)
(* One session on the node that owns it: the mu-guarded Session fields of  *)
(* controller/session.go, the turn goroutine and the drain of background   *)
(* exits of controller/turn.go, the sandbox build of                       *)
(* controller/sandbox.go, the sweeper of controller/sweeper.go, and the    *)
(* create, cancel and teardown handlers that act on the same session.      *)
(*                                                                         *)
(* An action is one critical section of s.mu (or one remote call), so TLC  *)
(* interleaves the goroutines wherever the code lets go of the mutex.      *)
(* Time is abstracted to two flags: the session has been inactive for at   *)
(* least idle_timeout, for at least cold_timeout.                          *)
(***************************************************************************)
EXTENDS Naturals, Sequences, FiniteSets

CONSTANTS
  Turns,      \* turn ids; newTurnID never repeats one
  Msgs,       \* POST .../messages requests
  Cancels,    \* POST .../cancel requests
  Teardowns,  \* DELETE requests and the controller's Close
  Procs,      \* backgrounded shell commands
  Sandboxes,  \* sandboxes ironhive can hand out
  Sweeper,    \* the sweeper goroutine
  Creator,    \* the handleCreateSession request
  None        \* the nil of turnID, sandbox and of an empty hand

Builders  == Turns \cup {Creator}                \* who calls ensureSandbox
Holders   == Builders \cup Teardowns \cup {Sweeper}
Drainers  == Turns \cup Procs                    \* who calls drainBackgroundExits

ASSUME DistinctNames ==
  /\ Sweeper # Creator
  /\ Turns \cap (Teardowns \cup Procs \cup {Sweeper, Creator}) = {}
  /\ Teardowns \cap {Sweeper, Creator} = {}
  /\ None \notin Turns \cup Sandboxes

VARIABLES
  \* Session fields and the controller's sessions map
  inMap, closed, sandbox, turnID, cause, idle, cold, bgExited,
  \* the hub's view of the turns
  hubTurn, status,
  \* goroutines: turns, their sandbox builds, drains, background commands
  turn, ctxDone, content, build, drain, batch, proc, procOn,
  \* requests, the sweeper and the creation
  msg, cxl, cxlTurn, tear, tearTurn, sweep, create,
  \* ironhive's sandboxes, who holds one outside the session, renewals
  sbState, hand, renewing,
  \* history: exits in the order they were recorded, exits a closed
  \* session dropped, turns an accepted cancel named
  recorded, dropped, asked

fieldVars   == <<inMap, closed, sandbox, turnID, cause, idle, cold, bgExited>>
hubVars     == <<hubTurn, status>>
turnVars    == <<turn, ctxDone, content>>
drainVars   == <<drain, batch>>
procVars    == <<proc, procOn>>
requestVars == <<msg, cxl, cxlTurn, tear, tearTurn>>
ironVars    == <<sbState, hand, renewing>>
historyVars == <<recorded, dropped, asked>>
vars == <<fieldVars, hubVars, turnVars, build, drainVars, procVars,
          requestVars, sweep, create, ironVars, historyVars>>

Active(t)  == turn[t] \in {"started", "work", "publish", "touch", "finish"}
Running(t) == turn[t] = "work" /\ build[t] = "ok"   \* inside Loop.RunTurn
EnsureFailed(b) == build[b] = "drop" /\ hand[b] = None
Elems(q)   == {q[i] : i \in DOMAIN q}

FieldTypes ==
  /\ inMap \in BOOLEAN /\ closed \in BOOLEAN /\ cause \in BOOLEAN
  /\ idle \in BOOLEAN /\ cold \in BOOLEAN

TurnTypes ==
  /\ turnID \in Turns \cup {None} /\ hubTurn \in Turns \cup {None}
  /\ status \in [Turns -> {"none", "done", "error", "cancelled"}]
  /\ turn \in [Turns -> {"new", "started", "work", "publish", "touch",
                         "finish", "end"}]
  /\ ctxDone \subseteq Turns /\ asked \subseteq Turns

ThreadTypes ==
  /\ msg \in [Msgs -> {"none", "loaded", "accepted", "busy"}]
  /\ cxl \in [Cancels -> {"none", "loaded", "waiting", "cancelled",
                          "pending", "no_turn"}]
  /\ cxlTurn \in [Cancels -> Turns \cup {None}]
  /\ tear \in [Teardowns -> {"none", "loaded", "unmapped", "cancel", "close",
                             "closed"}]
  /\ tearTurn \in [Teardowns -> Turns \cup {None}]
  /\ sweep \in {"rest", "reap", "reaped", "evict", "unmap"}
  /\ create \in {"ensure", "spec", "done", "failed"}

SandboxTypes ==
  /\ sandbox \in Sandboxes \cup {None}
  /\ build \in [Builders -> {"check", "alloc", "build", "attach", "drop", "ok"}]
  /\ sbState \in [Sandboxes -> {"free", "live", "released"}]
  /\ hand \in [Holders -> Sandboxes \cup {None}]
  /\ renewing \subseteq Sandboxes

ExitTypes ==
  /\ drain \in [Drainers -> {"off", "take", "start", "requeue", "end"}]
  /\ proc \in [Procs -> {"none", "running", "exited", "gone", "reported"}]
  /\ procOn \in [Procs -> Sandboxes \cup {None}]
  /\ bgExited \in Seq(Procs) /\ recorded \in Seq(Procs)
  /\ content \in [Turns -> Seq(Procs)] /\ batch \in [Drainers -> Seq(Procs)]
  /\ dropped \subseteq Procs

TypeOK == FieldTypes /\ TurnTypes /\ ThreadTypes /\ SandboxTypes /\ ExitTypes

\* A session under creation, or one just adopted (no sandbox yet).
Init ==
  /\ \/ create = "ensure" /\ inMap = FALSE
     \/ create = "done" /\ inMap = TRUE
  /\ closed = FALSE /\ sandbox = None /\ turnID = None /\ cause = FALSE
  /\ idle = FALSE /\ cold = FALSE /\ bgExited = <<>>
  /\ hubTurn = None /\ status = [t \in Turns |-> "none"]
  /\ turn = [t \in Turns |-> "new"] /\ ctxDone = {}
  /\ content = [t \in Turns |-> <<>>]
  /\ build = [b \in Builders |-> "check"]
  /\ drain = [d \in Drainers |-> "off"] /\ batch = [d \in Drainers |-> <<>>]
  /\ proc = [p \in Procs |-> "none"] /\ procOn = [p \in Procs |-> None]
  /\ msg = [m \in Msgs |-> "none"]
  /\ cxl = [k \in Cancels |-> "none"] /\ cxlTurn = [k \in Cancels |-> None]
  /\ tear = [k \in Teardowns |-> "none"]
  /\ tearTurn = [k \in Teardowns |-> None]
  /\ sweep = "rest"
  /\ sbState = [s \in Sandboxes |-> "free"]
  /\ hand = [h \in Holders |-> None] /\ renewing = {}
  /\ recorded = <<>> /\ dropped = {} /\ asked = {}

-----------------------------------------------------------------------------
(* Turns *)

\* Fault: the cause of the previous turn is not reset.
StartTurnKeepsCause(t) ==
  /\ turnID = None
  /\ turn[t] = "new"
  /\ turnID' = t
  /\ UNCHANGED cause
  /\ turn' = [turn EXCEPT ![t] = "started"]

\* Session.startTurn: one turn at a time; closed is not consulted.
StartTurn(t) ==
  /\ turnID = None
  /\ turn[t] = "new"
  /\ turnID' = t
  /\ cause' = FALSE
  /\ turn' = [turn EXCEPT ![t] = "started"]

\* handleCreateMessage finds the session in the map ...
MessageLoad(m) ==
  /\ msg[m] = "none" /\ inMap
  /\ msg' = [msg EXCEPT ![m] = "loaded"]
  /\ UNCHANGED <<fieldVars, hubVars, turnVars, build, drainVars, procVars,
                 cxl, cxlTurn, tear, tearTurn, sweep, create, ironVars,
                 historyVars>>

\* ... and runTurn accepts the message (202) ...
MessageAccepted(m, t) ==
  /\ msg[m] = "loaded"
  /\ StartTurn(t)
  /\ msg' = [msg EXCEPT ![m] = "accepted"]
  /\ UNCHANGED <<inMap, closed, sandbox, idle, cold, bgExited, hubVars,
                 ctxDone, content, build, drainVars, procVars, cxl, cxlTurn,
                 tear, tearTurn, sweep, create, ironVars, historyVars>>

\* ... or rejects it with 409 session_busy.
MessageBusy(m) ==
  /\ msg[m] = "loaded" /\ turnID # None
  /\ msg' = [msg EXCEPT ![m] = "busy"]
  /\ UNCHANGED <<fieldVars, hubVars, turnVars, build, drainVars, procVars,
                 cxl, cxlTurn, tear, tearTurn, sweep, create, ironVars,
                 historyVars>>

\* The rest of runTurn in the caller: touch, publish turn_started, go.
TurnStarted(t) ==
  /\ turn[t] = "started"
  /\ idle' = FALSE /\ cold' = FALSE
  /\ hubTurn' = t
  /\ turn' = [turn EXCEPT ![t] = "work"]
  /\ UNCHANGED <<inMap, closed, sandbox, turnID, cause, bgExited, status,
                 ctxDone, content, build, drainVars, procVars, requestVars,
                 sweep, create, ironVars, historyVars>>

\* Fault: the turn's context has no timeout.
TurnTimeoutNever(t) == FALSE /\ Active(t) /\ UNCHANGED vars

\* turnTimeout ends the turn's context.
TurnTimeout(t) ==
  /\ Active(t) /\ t \notin ctxDone
  /\ ctxDone' = ctxDone \cup {t}
  /\ UNCHANGED <<fieldVars, hubVars, turn, content, build, drainVars,
                 procVars, requestVars, sweep, create, ironVars, historyVars>>

\* RunTurn ends with a reply, possibly after its context ended.
RunDone(t) ==
  /\ Running(t)
  /\ turn' = [turn EXCEPT ![t] = "publish"]
  /\ status' = [status EXCEPT ![t] = "done"]
  /\ UNCHANGED <<fieldVars, hubTurn, ctxDone, content, build, drainVars,
                 procVars, requestVars, sweep, create, ironVars, historyVars>>

\* hubReporter.Error: the cause, read now, decides the terminal status.
TurnFails(t) ==
  /\ turn' = [turn EXCEPT ![t] = "publish"]
  /\ status' = [status EXCEPT ![t] = IF cause THEN "cancelled" ELSE "error"]
  /\ UNCHANGED <<fieldVars, hubTurn, ctxDone, content, build, drainVars,
                 procVars, requestVars, sweep, create, ironVars, historyVars>>

\* RunTurn fails: a stream error, or its context ended.
RunFails(t) == Running(t) /\ TurnFails(t)

\* ensureSandbox failed: "failed to prepare sandbox".
PrepareFails(t) == turn[t] = "work" /\ EnsureFailed(t) /\ TurnFails(t)

\* Fault: the hub's current turn is not cleared.
PublishKeepsCurrent(t) ==
  /\ turn[t] = "publish"
  /\ turn' = [turn EXCEPT ![t] = "touch"]
  /\ UNCHANGED <<fieldVars, hubVars, ctxDone, content, build, drainVars,
                 procVars, requestVars, sweep, create, ironVars, historyVars>>

\* The turn_finished event reaches the hub.
PublishFinished(t) ==
  /\ turn[t] = "publish"
  /\ hubTurn' = None
  /\ turn' = [turn EXCEPT ![t] = "touch"]
  /\ UNCHANGED <<fieldVars, status, ctxDone, content, build, drainVars,
                 procVars, requestVars, sweep, create, ironVars, historyVars>>

\* The deferred touch, then the deferred cancel of the turn's context.
TouchTurn(t) ==
  /\ turn[t] = "touch"
  /\ idle' = FALSE /\ cold' = FALSE
  /\ ctxDone' = ctxDone \cup {t}
  /\ turn' = [turn EXCEPT ![t] = "finish"]
  /\ UNCHANGED <<inMap, closed, sandbox, turnID, cause, bgExited, hubVars,
                 content, build, drainVars, procVars, requestVars, sweep,
                 create, ironVars, historyVars>>

\* Session.finishTurn; the goroutine goes on to drainBackgroundExits.
FinishTurn(t) ==
  /\ turn[t] = "finish"
  /\ turnID' = None
  /\ turn' = [turn EXCEPT ![t] = "end"]
  /\ drain' = [drain EXCEPT ![t] = "take"]
  /\ UNCHANGED <<inMap, closed, sandbox, cause, idle, cold, bgExited, hubVars,
                 ctxDone, content, build, batch, procVars, requestVars, sweep,
                 create, ironVars, historyVars>>

-----------------------------------------------------------------------------
(* ensureSandbox, called by a turn or by the creation *)

MayBuild(b) == IF b = Creator THEN create = "ensure" ELSE turn[b] = "work"

BuildStep(b, from, to) ==
  /\ MayBuild(b)
  /\ build[b] = from
  /\ build' = [build EXCEPT ![b] = to]
  /\ UNCHANGED <<inMap, closed, turnID, cause, idle, cold, bgExited, hubVars,
                 turnVars, drainVars, procVars, requestVars, sweep, create,
                 historyVars>>

SandboxLive == ~closed /\ sandbox # None

\* liveSandbox answers: keep the sandbox, or build one.
EnsureLive(b)  == SandboxLive /\ BuildStep(b, "check", "ok")
                  /\ UNCHANGED <<sandbox, ironVars>>
EnsureBuild(b) == ~SandboxLive /\ BuildStep(b, "check", "alloc")
                  /\ UNCHANGED <<sandbox, ironVars>>

Allocate(b, s) ==
  /\ sbState[s] = "free"
  /\ BuildStep(b, "alloc", "build")
  /\ sbState' = [sbState EXCEPT ![s] = "live"]
  /\ hand' = [hand EXCEPT ![b] = s]
  /\ UNCHANGED <<sandbox, renewing>>

AllocateFails(b) == BuildStep(b, "alloc", "drop")
                    /\ UNCHANGED <<sandbox, ironVars>>

\* Skills, persisted files, user files or the history could not be loaded.
BuildFails(b) == BuildStep(b, "build", "drop") /\ UNCHANGED <<sandbox, ironVars>>

\* Everything is installed; the renewal goroutine starts.
StartRenewal(b) ==
  /\ BuildStep(b, "build", "attach")
  /\ renewing' = renewing \cup {hand[b]}
  /\ UNCHANGED <<sandbox, sbState, hand>>

\* Fault: a closed session is not refused the sandbox.
SetSandboxUnchecked(b) ==
  /\ BuildStep(b, "attach", "ok")
  /\ sandbox' = hand[b]
  /\ hand' = [hand EXCEPT ![b] = None]
  /\ UNCHANGED <<sbState, renewing>>

\* setSandbox attaches the sandbox, unless the session was closed meanwhile.
SetSandbox(b) ==
  /\ ~closed
  /\ BuildStep(b, "attach", "ok")
  /\ sandbox' = hand[b]
  /\ hand' = [hand EXCEPT ![b] = None]
  /\ UNCHANGED <<sbState, renewing>>

\* Fault: the refused caller returns its error without releasing.
SetSandboxRefusedLeaks(b) ==
  /\ closed
  /\ BuildStep(b, "attach", "drop")
  /\ hand' = [hand EXCEPT ![b] = None]
  /\ UNCHANGED <<sandbox, sbState, renewing>>

SetSandboxRefused(b) == closed /\ BuildStep(b, "attach", "drop")
                        /\ UNCHANGED <<sandbox, ironVars>>

\* Whoever holds a detached or rejected sandbox stops its renewal first,
\* then releases it.
LettingGo(h) ==
  /\ hand[h] # None
  /\ h \in Builders => build[h] = "drop"
  /\ h = Sweeper => sweep # "unmap"

StopRenewal(h) ==
  /\ LettingGo(h) /\ hand[h] \in renewing
  /\ renewing' = renewing \ {hand[h]}
  /\ UNCHANGED <<fieldVars, hubVars, turnVars, build, drainVars, procVars,
                 requestVars, sweep, create, sbState, hand, historyVars>>

\* A release that fails is only logged (sandbox.go:163-164), and the lease takes
\* the sandbox back: either way nobody here holds it any more.
ReleaseSandbox(h) ==
  /\ LettingGo(h) /\ hand[h] \notin renewing
  /\ sbState' = [sbState EXCEPT ![hand[h]] = "released"]
  /\ hand' = [hand EXCEPT ![h] = None]
  /\ UNCHANGED <<fieldVars, hubVars, turnVars, build, drainVars, procVars,
                 requestVars, sweep, create, renewing, historyVars>>

-----------------------------------------------------------------------------
(* handleCreateSession *)

CreateUnchanged == UNCHANGED <<closed, turnID, cause, idle, cold, bgExited,
                               hubVars, turnVars, drainVars, procVars,
                               requestVars, sweep, sbState, renewing,
                               historyVars>>

CreateEnsured ==
  /\ create = "ensure" /\ build[Creator] = "ok"
  /\ create' = "spec"
  /\ CreateUnchanged /\ UNCHANGED <<inMap, sandbox, build, hand>>

CreateFails ==
  /\ create = "ensure" /\ EnsureFailed(Creator)
  /\ create' = "failed"
  /\ CreateUnchanged /\ UNCHANGED <<inMap, sandbox, build, hand>>

\* The spec is written and the ownership registered: the session is served.
CreateStored ==
  /\ create = "spec"
  /\ create' = "done" /\ inMap' = TRUE
  /\ CreateUnchanged /\ UNCHANGED <<sandbox, build, hand>>

\* One of them failed: releaseSessionSandbox detaches with takeSandbox.
CreateRollback ==
  /\ create = "spec"
  /\ create' = "failed"
  /\ hand' = [hand EXCEPT ![Creator] = sandbox]
  /\ sandbox' = None
  /\ build' = [build EXCEPT ![Creator] = "drop"]
  /\ CreateUnchanged /\ UNCHANGED inMap

-----------------------------------------------------------------------------
(* Background exits *)

\* The shell tool of a running turn backgrounds a command.
Background(p, t) ==
  /\ Running(t) /\ proc[p] = "none" /\ SandboxLive
  /\ proc' = [proc EXCEPT ![p] = "running"]
  /\ procOn' = [procOn EXCEPT ![p] = sandbox]
  /\ UNCHANGED <<fieldVars, hubVars, turnVars, build, drainVars, requestVars,
                 sweep, create, ironVars, historyVars>>

\* watchBgProcess: a clean outcome, or a stream that died with its sandbox.
ProcExits(p) ==
  /\ proc[p] = "running"
  /\ proc' = [proc EXCEPT ![p] =
                IF sbState[procOn[p]] = "live" THEN "exited" ELSE "gone"]
  /\ UNCHANGED <<fieldVars, hubVars, turnVars, build, drainVars, procOn,
                 requestVars, sweep, create, ironVars, historyVars>>

\* OnBackgroundExit: recordBackgroundExit, then drainBackgroundExits.
RecordExit(p) ==
  /\ proc[p] = "exited"
  /\ proc' = [proc EXCEPT ![p] = "reported"]
  /\ drain' = [drain EXCEPT ![p] = "take"]
  /\ IF closed
     THEN dropped' = dropped \cup {p} /\ UNCHANGED <<bgExited, recorded>>
     ELSE /\ bgExited' = Append(bgExited, p)
          /\ recorded' = Append(recorded, p)
          /\ UNCHANGED dropped
  /\ UNCHANGED <<inMap, closed, sandbox, turnID, cause, idle, cold, hubVars,
                 turnVars, build, batch, procOn, requestVars, sweep, create,
                 ironVars, asked>>

DrainUnchanged == UNCHANGED <<inMap, closed, sandbox, idle, cold, hubVars,
                              ctxDone, build, procVars, requestVars, sweep,
                              create, ironVars, recorded, asked>>

\* takeBackgroundExits pops the queue; a closed session reports nothing.
TakeExits(d) ==
  /\ drain[d] = "take"
  /\ IF closed \/ bgExited = <<>>
     THEN /\ drain' = [drain EXCEPT ![d] = "end"]
          /\ UNCHANGED <<bgExited, batch>>
     ELSE /\ drain' = [drain EXCEPT ![d] = "start"]
          /\ batch' = [batch EXCEPT ![d] = bgExited]
          /\ bgExited' = <<>>
  /\ DrainUnchanged /\ UNCHANGED <<turnID, cause, turn, content, dropped>>

\* runTurn starts the synthesized turn ...
DrainStarts(d, t) ==
  /\ drain[d] = "start"
  /\ StartTurn(t)
  /\ content' = [content EXCEPT ![t] = batch[d]]
  /\ batch' = [batch EXCEPT ![d] = <<>>]
  /\ drain' = [drain EXCEPT ![d] = "end"]
  /\ DrainUnchanged /\ UNCHANGED <<bgExited, dropped>>

\* Fault: a drain that finds the session busy gives up.
DrainBusyForgets(d) ==
  /\ drain[d] = "start" /\ turnID # None
  /\ drain' = [drain EXCEPT ![d] = "end"] /\ batch' = [batch EXCEPT ![d] = <<>>]
  /\ DrainUnchanged
  /\ UNCHANGED <<turnID, cause, bgExited, turn, content, dropped>>

\* ... or finds the session busy ...
DrainBusy(d) ==
  /\ drain[d] = "start" /\ turnID # None
  /\ drain' = [drain EXCEPT ![d] = "requeue"]
  /\ DrainUnchanged
  /\ UNCHANGED <<turnID, cause, bgExited, turn, content, batch, dropped>>

\* ... and requeueBackgroundExits puts the batch back at the head.
Requeue(d) ==
  /\ drain[d] = "requeue"
  /\ drain' = [drain EXCEPT ![d] = "end"]
  /\ batch' = [batch EXCEPT ![d] = <<>>]
  /\ IF closed
     THEN dropped' = dropped \cup Elems(batch[d]) /\ UNCHANGED bgExited
     ELSE bgExited' = batch[d] \o bgExited /\ UNCHANGED dropped
  /\ DrainUnchanged /\ UNCHANGED <<turnID, cause, turn, content>>

-----------------------------------------------------------------------------
(* handleCancelTurn *)

CancelUnchanged == UNCHANGED <<inMap, closed, sandbox, turnID, idle, cold,
                               bgExited, hubVars, turn, content, build,
                               drainVars, procVars, msg, tear, tearTurn,
                               sweep, create, ironVars, recorded, dropped>>

CancelLoad(k) ==
  /\ cxl[k] = "none" /\ inMap
  /\ cxl' = [cxl EXCEPT ![k] = "loaded"]
  /\ CancelUnchanged /\ UNCHANGED <<cause, ctxDone, cxlTurn, asked>>

\* Session.CancelTurn marks the cause and cancels the turn's context.
CancelTurn(k) ==
  /\ cxl[k] = "loaded" /\ turnID # None
  /\ cxl' = [cxl EXCEPT ![k] = "waiting"]
  /\ cxlTurn' = [cxlTurn EXCEPT ![k] = turnID]
  /\ cause' = TRUE
  /\ ctxDone' = ctxDone \cup {turnID}
  /\ asked' = asked \cup {turnID}
  /\ CancelUnchanged

CancelNoTurn(k) ==
  /\ cxl[k] = "loaded" /\ turnID = None
  /\ cxl' = [cxl EXCEPT ![k] = "no_turn"]
  /\ CancelUnchanged /\ UNCHANGED <<cause, ctxDone, cxlTurn, asked>>

\* turnDone was closed: 202 cancelled.
CancelReplies(k) ==
  /\ cxl[k] = "waiting" /\ turn[cxlTurn[k]] = "end"
  /\ cxl' = [cxl EXCEPT ![k] = "cancelled"]
  /\ CancelUnchanged /\ UNCHANGED <<cause, ctxDone, cxlTurn, asked>>

\* The client left first: 504.
CancelAbandoned(k) ==
  /\ cxl[k] = "waiting"
  /\ cxl' = [cxl EXCEPT ![k] = "pending"]
  /\ CancelUnchanged /\ UNCHANGED <<cause, ctxDone, cxlTurn, asked>>

-----------------------------------------------------------------------------
(* handleDeleteSession and Controller.Close *)

TearUnchanged == UNCHANGED <<turnID, cause, idle, cold, bgExited, hubVars,
                             turn, content, build, drainVars, procVars, msg,
                             cxl, cxlTurn, sweep, create, sbState, renewing,
                             historyVars>>

TearStep(k, from, to) == tear[k] = from /\ tear' = [tear EXCEPT ![k] = to]

TearLoad(k) ==
  /\ inMap /\ TearStep(k, "none", "loaded")
  /\ TearUnchanged /\ UNCHANGED <<inMap, closed, sandbox, ctxDone, tearTurn, hand>>

TearUnmap(k) ==
  /\ TearStep(k, "loaded", "unmapped")
  /\ inMap' = FALSE
  /\ TearUnchanged /\ UNCHANGED <<closed, sandbox, ctxDone, tearTurn, hand>>

\* Session.cancelTurn reads turnCancel under the lock ...
TearReadCancel(k) ==
  /\ TearStep(k, "unmapped", "cancel")
  /\ tearTurn' = [tearTurn EXCEPT ![k] = turnID]
  /\ TearUnchanged /\ UNCHANGED <<inMap, closed, sandbox, ctxDone, hand>>

\* ... and calls it outside.
TearCancel(k) ==
  /\ TearStep(k, "cancel", "close")
  /\ ctxDone' = ctxDone \cup ({tearTurn[k]} \cap Turns)
  /\ TearUnchanged /\ UNCHANGED <<inMap, closed, sandbox, tearTurn, hand>>

\* closeSession closes and detaches; the caller releases.
CloseSession(k) ==
  /\ TearStep(k, "close", "closed")
  /\ closed' = TRUE
  /\ hand' = [hand EXCEPT ![k] = sandbox]
  /\ sandbox' = None
  /\ TearUnchanged /\ UNCHANGED <<inMap, ctxDone, tearTurn>>

-----------------------------------------------------------------------------
(* The sweeper: every tick reaps idle sandboxes, then evicts cold sessions *)

TimePasses ==
  /\ \/ ~idle /\ idle' = TRUE /\ UNCHANGED cold
     \/ ~cold /\ cold' = TRUE /\ UNCHANGED idle
  /\ UNCHANGED <<inMap, closed, sandbox, turnID, cause, bgExited, hubVars,
                 turnVars, build, drainVars, procVars, requestVars, sweep,
                 create, ironVars, historyVars>>

SweepUnchanged == UNCHANGED <<turnID, cause, idle, cold, bgExited, hubVars,
                              turnVars, build, drainVars, procVars,
                              requestVars, create, sbState, renewing,
                              historyVars>>

SweepStep(from, to) == sweep = from /\ hand[Sweeper] = None /\ sweep' = to

SweepTick ==
  /\ inMap /\ SweepStep("rest", "reap")
  /\ SweepUnchanged /\ UNCHANGED <<inMap, closed, sandbox, hand>>

\* takeSandboxIfIdle: no running turn and no recent activity.
ReapTake ==
  /\ SweepStep("reap", "reaped")
  /\ IF turnID # None \/ ~idle
     THEN UNCHANGED <<sandbox, hand>>
     ELSE /\ hand' = [hand EXCEPT ![Sweeper] = sandbox]
          /\ sandbox' = None
  /\ SweepUnchanged /\ UNCHANGED <<inMap, closed>>

EvictVisit ==
  /\ SweepStep("reaped", IF inMap THEN "evict" ELSE "rest")
  /\ SweepUnchanged /\ UNCHANGED <<inMap, closed, sandbox, hand>>

\* takeIfCold: closes and detaches in one critical section.
EvictTake ==
  /\ ~closed /\ turnID = None /\ cold
  /\ SweepStep("evict", "unmap")
  /\ closed' = TRUE
  /\ hand' = [hand EXCEPT ![Sweeper] = sandbox]
  /\ sandbox' = None
  /\ SweepUnchanged /\ UNCHANGED inMap

EvictSkip ==
  /\ closed \/ turnID # None \/ ~cold
  /\ SweepStep("evict", "rest")
  /\ SweepUnchanged /\ UNCHANGED <<inMap, closed, sandbox, hand>>

\* sessions.Delete; the release of the sandbox follows.
EvictUnmap ==
  /\ sweep = "unmap" /\ sweep' = "rest"
  /\ inMap' = FALSE
  /\ SweepUnchanged /\ UNCHANGED <<closed, sandbox, hand>>

-----------------------------------------------------------------------------
MessageNext == \E m \in Msgs :
  MessageLoad(m) \/ MessageBusy(m) \/ \E t \in Turns : MessageAccepted(m, t)

TurnNext == \E t \in Turns :
  \/ TurnStarted(t) \/ TurnTimeout(t) \/ RunDone(t) \/ RunFails(t)
  \/ PrepareFails(t) \/ PublishFinished(t) \/ TouchTurn(t) \/ FinishTurn(t)

BuildNext == \E b \in Builders :
  \/ EnsureLive(b) \/ EnsureBuild(b) \/ AllocateFails(b) \/ BuildFails(b)
  \/ StartRenewal(b) \/ SetSandbox(b) \/ SetSandboxRefused(b)
  \/ \E s \in Sandboxes : Allocate(b, s)

ReleaseNext == \E h \in Holders : StopRenewal(h) \/ ReleaseSandbox(h)

CreateNext == CreateEnsured \/ CreateFails \/ CreateStored \/ CreateRollback

ProcNext == \E p \in Procs :
  \/ ProcExits(p) \/ RecordExit(p)
  \/ \E t \in Turns : Background(p, t)

DrainNext == \E d \in Drainers :
  \/ TakeExits(d) \/ DrainBusy(d) \/ Requeue(d)
  \/ \E t \in Turns : DrainStarts(d, t)

CancelNext == \E k \in Cancels :
  \/ CancelLoad(k) \/ CancelTurn(k) \/ CancelNoTurn(k) \/ CancelReplies(k)
  \/ CancelAbandoned(k)

TearNext == \E k \in Teardowns :
  \/ TearLoad(k) \/ TearUnmap(k) \/ TearReadCancel(k) \/ TearCancel(k)
  \/ CloseSession(k)

SweepNext == SweepTick \/ ReapTake \/ EvictVisit \/ EvictTake \/ EvictSkip
             \/ EvictUnmap \/ TimePasses

Next == MessageNext \/ TurnNext \/ BuildNext \/ ReleaseNext \/ CreateNext
        \/ ProcNext \/ DrainNext \/ CancelNext \/ TearNext \/ SweepNext

Spec == Init /\ [][Next]_vars

-----------------------------------------------------------------------------
(* Safety *)

\* A session runs one turn at a time: the turns between startTurn and
\* finishTurn are exactly the one turnID names (runTurn, session.go:286-314).
OneTurn == \A t \in Turns : Active(t) <=> turnID = t

\* No sandbox leaks and none is released twice: a sandbox ironhive keeps
\* running is attached to the session or in the hands of the one goroutine
\* that must attach or release it, whatever rebuild, reap, eviction, DELETE,
\* rollback and Close do concurrently (setSandbox, take*, closeSession).
SandboxOwned ==
  /\ \A s \in Sandboxes :
       sbState[s] = "live" <=> (sandbox = s \/ \E h \in Holders : hand[h] = s)
  /\ \A h \in Holders : hand[h] # None => hand[h] # sandbox
  /\ \A g, h \in Holders : hand[g] = hand[h] /\ hand[g] # None => g = h

\* A turn that runs on an open session keeps the sandbox ensureSandbox gave
\* it: neither the reaper nor the eviction takes it away
\* (takeSandboxIfIdle, takeIfCold).
RunningKeepsSandbox ==
  \A t \in Turns : Running(t) /\ ~closed => sandbox # None

\* Nothing is attached to a closed session, however late a rebuild ends
\* (setSandbox against closeSession and takeIfCold).
ClosedHoldsNothing == closed => sandbox = None

\* The attached sandbox is being renewed, and a renewal never outlives its
\* sandbox (ensureSandbox, stopRenew before releaseSandbox).
RenewalFollowsSandbox ==
  /\ sandbox # None => sandbox \in renewing
  /\ \A s \in renewing : sbState[s] = "live"

\* Every running sandbox is held by the session or by one goroutine, none is
\* taken from a running turn or attached to a closed session, and the lease is
\* renewed for just the attached one and those being built or released.
SandboxesAccounted ==
  SandboxOwned /\ RunningKeepsSandbox /\ RenewalFollowsSandbox /\ ClosedHoldsNothing

\* Where a recorded background exit can be.
Places(p) ==
  {<<"queue", i>> : i \in {i \in DOMAIN bgExited : bgExited[i] = p}}
  \cup {<<"batch", d>> : d \in {d \in Drainers : p \in Elems(batch[d])}}
  \cup {<<"turn", t>> : t \in {t \in Turns : p \in Elems(content[t])}}
  \cup {<<"dropped">> : x \in {p} \cap dropped}

\* A background exit is reported at most once and never forgotten: it is in
\* the queue, in one drain's hands, in one synthesized turn, or a closed
\* session dropped it (record, take and requeueBackgroundExits).
ExitsConserved ==
  \A p \in Procs :
    Cardinality(Places(p)) = IF p \in Elems(recorded) \cup dropped THEN 1 ELSE 0

\* A turn closes with the cancelled status only when a cancel named this very
\* turn: the cause of an earlier turn never leaks (startTurn resets it).
CancelledOnlyIfAsked ==
  \A t \in Turns : status[t] = "cancelled" => t \in asked

\* What the hub shows as the current turn is the turn the session runs; an
\* idle session never shows an open turn (turn_finished before finishTurn).
HubShowsRunningTurn == hubTurn # None => hubTurn = turnID

\* However requests, drains and ends of turns interleave, one turn runs at a
\* time, turnID names it, and no subscriber is shown another as running.
TurnsAreShown == OneTurn /\ HubShowsRunningTurn

-----------------------------------------------------------------------------
(* The inductive invariant behind the sandbox properties *)

Building(b) == build[b] \in {"alloc", "build", "attach"}

\* Before the session is in the map nothing but its creation touches it.
QuietCreation ==
  create # "done" =>
    /\ ~inMap /\ turnID = None /\ sweep = "rest"
    /\ \A t \in Turns : turn[t] = "new"
    /\ \A m \in Msgs : msg[m] = "none"
    /\ \A k \in Cancels : cxl[k] = "none"
    /\ \A k \in Teardowns : tear[k] = "none"
    /\ \A d \in Drainers : drain[d] = "off"
    /\ \A p \in Procs : proc[p] = "none"

\* How far a build got goes with who runs it and what it holds.
BuildPhases ==
  /\ \A t \in Turns : turn[t] \in {"new", "started"} => build[t] = "check"
  /\ \A b \in Builders : Building(b) => MayBuild(b)
  /\ \A b \in Builders : build[b] \in {"check", "alloc", "ok"} => hand[b] = None
  /\ \A b \in Builders : build[b] \in {"build", "attach"} => hand[b] # None
  /\ create = "spec" => build[Creator] = "ok"
  /\ \A k \in Teardowns : tear[k] # "closed" => hand[k] = None

\* A build starts only on a session without a sandbox, and stays alone.
BuildingDetached == \A b \in Builders : Building(b) => sandbox = None

\* Between its renewal's start and its attachment a sandbox is renewed.
AttachingRenewed ==
  \A b \in Builders : build[b] = "attach" => hand[b] \in renewing

\* The hub's current turn is between its turn_started and turn_finished.
HubTurnOpen == hubTurn # None => turn[hubTurn] \in {"work", "publish"}

\* A cause on record belongs to the running turn, and somebody cancelled it.
CauseIsCurrent == cause /\ turnID # None => turnID \in asked

SessionInv ==
  /\ TypeOK /\ OneTurn /\ QuietCreation /\ BuildPhases /\ BuildingDetached
  /\ SandboxOwned /\ RunningKeepsSandbox /\ ClosedHoldsNothing
  /\ RenewalFollowsSandbox /\ AttachingRenewed
  /\ HubTurnOpen /\ CauseIsCurrent /\ CancelledOnlyIfAsked

-----------------------------------------------------------------------------
(* Liveness *)

\* The scheduling the code justifies: goroutines and accepted requests run,
\* a turn's context times out, RunTurn returns once its context ended (its
\* calls take the context), the sweeper's ticker keeps ticking.
Fairness ==
  /\ \A t \in Turns :
       /\ WF_vars(TurnStarted(t)) /\ WF_vars(TurnTimeout(t))
       /\ WF_vars(t \in ctxDone /\ (RunDone(t) \/ RunFails(t)))
       /\ WF_vars(PrepareFails(t)) /\ WF_vars(PublishFinished(t))
       /\ WF_vars(TouchTurn(t)) /\ WF_vars(FinishTurn(t))
  /\ \A b \in Builders :
       WF_vars(\/ EnsureLive(b) \/ EnsureBuild(b) \/ AllocateFails(b)
               \/ BuildFails(b) \/ StartRenewal(b) \/ SetSandbox(b)
               \/ SetSandboxRefused(b) \/ \E s \in Sandboxes : Allocate(b, s))
  /\ \A h \in Holders : WF_vars(StopRenewal(h) \/ ReleaseSandbox(h))
  /\ WF_vars(CreateNext)
  /\ \A p \in Procs : WF_vars(RecordExit(p))
  /\ \A d \in Drainers :
       WF_vars(\/ TakeExits(d) \/ DrainBusy(d) \/ Requeue(d)
               \/ \E t \in Turns : DrainStarts(d, t))
  /\ \A m \in Msgs :
       WF_vars(MessageBusy(m) \/ \E t \in Turns : MessageAccepted(m, t))
  /\ \A k \in Cancels :
       WF_vars(CancelTurn(k) \/ CancelNoTurn(k) \/ CancelReplies(k))
  /\ \A k \in Teardowns :
       WF_vars(\/ TearUnmap(k) \/ TearReadCancel(k) \/ TearCancel(k)
               \/ CloseSession(k))
  /\ WF_vars(SweepTick \/ ReapTake \/ EvictVisit \/ EvictTake \/ EvictSkip
             \/ EvictUnmap)

FairSpec == Spec /\ Fairness

\* Every accepted turn ends and frees the session (turnTimeout, the deferred
\* finishTurn).
TurnEnds == \A t \in Turns : Active(t) ~> turn[t] = "end"

\* Once a session is closed, every sandbox it held or was building is
\* released, also the one a late turn builds.
ClosedFreesSandboxes ==
  \A s \in Sandboxes : (closed /\ sbState[s] = "live") ~> sbState[s] = "released"

\* A session that stays idle gives its sandbox back (runSweeper).
IdleFreesSandbox ==
  <>[](idle /\ turnID = None /\ inMap) => <>[](sandbox = None)

\* A sandbox is released in the end, after a close and when the session idles.
SandboxesFreed == ClosedFreesSandboxes /\ IdleFreesSandbox

-----------------------------------------------------------------------------
(* What the comments promise and the code does not keep *)

\* turn.go:124-130: a background exit queued while the session is busy is
\* drained when the running turn completes.
ExitsReported ==
  \A p \in Procs : p \in Elems(recorded) ~>
    (closed \/ \E t \in Turns : p \in Elems(content[t]))

\* session.go:272-274: requeued exits keep the order they were recorded in.
RequeueKeepsOrder ==
  \A i, j \in DOMAIN bgExited : i < j =>
    \E m, n \in DOMAIN recorded :
      m < n /\ recorded[m] = bgExited[i] /\ recorded[n] = bgExited[j]

\* turn.go:80-84, controller.go:274-276: DELETE and Close abort the running
\* turn.
TeardownAbortsTurn ==
  \A k \in Teardowns, t \in Turns :
    tear[k] = "closed" /\ Running(t) => t \in ctxDone

\* session.go:332-333, turn.go:166-169: a cancel answered with 202 closed its
\* turn with the cancelled status.
CancelReplyIsTrue ==
  \A k \in Cancels : cxl[k] = "cancelled" => status[cxlTurn[k]] = "cancelled"

=============================================================================

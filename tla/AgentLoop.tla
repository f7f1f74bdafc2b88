------------------------------ MODULE AgentLoop ------------------------------
(***************************************************************************)
(* The turns of one session as its agent loop runs them (agent/loop.go):   *)
(* the history in memory and in S3, write-ahead, trimming and compaction   *)
(* (agent/context.go), the steps of a turn with their external tool calls  *)
(* (ToolResults), and what becomes of the history when the sandbox is      *)
(* reaped and the loop rebuilt, the session evicted, or its node crashes   *)
(* and another one adopts it. One owner at a time (Ownership). Each action *)
(* makes at most one write to S3; a write fails or takes effect.           *)
(* A message is one token; the model's window holds Budget of them.        *)
(***************************************************************************)
EXTENDS ToolResults, Sequences

CONSTANTS
  Budget,     \* context window less the reserve, in messages
  KeepTurns,  \* keepRecentTurns
  MaxSteps,   \* maxTurnSteps
  MaxCalls,   \* bound: tool calls in one message of the model
  MaxCrashes, \* bound: crashes
  MaxFails    \* bound: failed S3 calls and sandbox builds

ASSUME LoopAssumption ==
  /\ Budget \in Int /\ KeepTurns \in Nat \ {0} /\ MaxSteps \in Nat \ {0}
  /\ MaxCalls \in Nat /\ MaxCrashes \in Nat /\ MaxFails \in Nat

VARIABLES
  history,   \* Loop.history
  ready,     \* Loop.histReady: the history was read from S3
  stored,    \* history.jsonl in S3
  sandbox,   \* the session holds a sandbox, and the loop built with it
  pc,        \* where the turn is; "cold" when no node holds the session
  turn,      \* turns started so far; the last one is the running one
  step,      \* messages with tool calls in this turn
  calls,     \* the calls of the last one that are still to do
  asked,     \* history: turns whose user message went into the history
  done,      \* history: turns the client was told are done
  dropped,   \* history: turns trimmed or compacted away
  cut,       \* history: turns a crash interrupted
  crashes, fails

dataVars  == <<history, stored, ready>>
pcVars    == <<pc, turn, step, calls>>
ghostVars == <<asked, done, dropped, cut>>
vars == <<toolVars, dataVars, sandbox, pcVars, ghostVars, crashes, fails>>

Turns == 1..MaxTurns
User(t)         == [role |-> "user", turn |-> t, kind |-> "text"]
Assistant(t, k) == [role |-> "assistant", turn |-> t, kind |-> k]
Summary         == [role |-> "user", turn |-> 0, kind |-> "summary"]
Messages == {User(t) : t \in Turns} \cup {Summary}
            \cup {Assistant(t, k) : t \in Turns, k \in {"reply", "partial", "marker"}}

TurnsOf(h) == {h[i].turn : i \in DOMAIN h}
Dangling(h) == h # <<>> /\ h[Len(h)].role = "user"

CallLists == UNION {[1..n -> CallIds] : n \in 1..MaxCalls}
Call == Head(calls)

Running == pc \notin {"idle", "cold"}

TypeOK ==
  /\ ToolTypes
  /\ history \in Seq(Messages) /\ stored \in Seq(Messages)
  /\ ready \in BOOLEAN /\ sandbox \in BOOLEAN
  /\ pc \in {"cold", "idle", "prepare", "trim", "ahead", "stream", "call", "wait",
             "fail", "save", "finish"}
  /\ turn \in 0..MaxTurns /\ step \in 0..MaxSteps /\ calls \in CallLists \cup {<<>>}
  /\ asked \subseteq Turns /\ done \subseteq Turns
  /\ dropped \subseteq 0..MaxTurns /\ cut \subseteq Turns
  /\ crashes \in 0..MaxCrashes /\ fails \in 0..MaxFails

Init ==
  /\ ToolInit
  /\ history = <<>> /\ stored = <<>> /\ ready = FALSE /\ sandbox = TRUE
  /\ pc = "idle" /\ turn = 0 /\ step = 0 /\ calls = <<>>
  /\ asked = {} /\ done = {} /\ dropped = {} /\ cut = {}
  /\ crashes = 0 /\ fails = 0

-----------------------------------------------------------------------------
(* agent/context.go *)

\* Fault: only the user message of a turn is dropped.
HalfTurn(h, n) == 1

\* estimateMessageTokens: every message is one token.
Size(h) == Len(h)

\* The length of the turn that starts after n messages.
TurnLen(h, n) ==
  IF n + 2 <= Len(h) /\ h[n + 2].role = "assistant" THEN 2 ELSE 1

\* How many messages TruncateToFit drops: whole turns from the head until the
\* rest fits, never the last one.
CutFor(h) ==
  LET cutAt[n \in 0..Len(h)] ==
        IF \/ Len(h) - n <= 2 \/ h[n + 1].role # "user"
           \/ Budget > 0 /\ Size(h) - n <= Budget
        THEN n ELSE cutAt[n + TurnLen(h, n)]
  IN cutAt[0]

Trim(h) == SubSeq(h, CutFor(h) + 1, Len(h))

Users(h) == {i \in DOMAIN h : h[i].role = "user"}

\* CompactMessages: all but the last KeepTurns turns become one summary.
Compact(h) ==
  IF Cardinality(Users(h)) <= KeepTurns THEN h
  ELSE LET cutoff == CHOOSE i \in Users(h) :
             Cardinality({j \in Users(h) : j >= i}) = KeepTurns
       IN <<Summary>> \o SubSeq(h, cutoff, Len(h))

-----------------------------------------------------------------------------
(* history.go, saveHistory *)

\* HistoryStore.Load: no object is an empty history.
Load == stored

\* Errors are ignored or only logged: memory is ahead of S3 from then on.
Save(h) == \/ stored' = h /\ UNCHANGED fails
           \/ fails < MaxFails /\ fails' = fails + 1 /\ UNCHANGED stored

Goto(to) == pc' = to /\ UNCHANGED <<turn, step, calls>>

-----------------------------------------------------------------------------
(* The turn: runTurn, ensureSandbox, RunTurn *)

StartTurn ==
  /\ pc = "idle" /\ turn < MaxTurns
  /\ pc' = "prepare" /\ turn' = turn + 1 /\ step' = 0
  /\ UNCHANGED <<toolVars, dataVars, sandbox, calls, ghostVars, crashes, fails>>

\* The sandbox is there; the first turn reads the history.
PrepareLive ==
  /\ pc = "prepare" /\ sandbox
  /\ history' = (IF ready THEN history ELSE Load) /\ ready' = TRUE
  /\ Goto("trim")
  /\ UNCHANGED <<toolVars, stored, sandbox, ghostVars, crashes, fails>>

\* A new loop comes with the new sandbox and reads its history from S3.
Rebuild ==
  /\ pc = "prepare" /\ ~sandbox
  /\ sandbox' = TRUE /\ history' = Load /\ ready' = TRUE
  /\ Goto("trim")
  /\ UNCHANGED <<toolVars, stored, ghostVars, crashes, fails>>

\* The sandbox cannot be built, or the history cannot be read.
PrepareFails ==
  /\ pc = "prepare" /\ ~(sandbox /\ ready)
  /\ fails < MaxFails /\ fails' = fails + 1
  /\ Goto("finish")
  /\ UNCHANGED <<toolVars, dataVars, sandbox, ghostVars, crashes>>

TrimHistory ==
  /\ pc = "trim"
  /\ history' = Trim(history)
  /\ IF history' # history THEN Save(history') ELSE UNCHANGED <<stored, fails>>
  /\ dropped' = dropped \cup (TurnsOf(history) \ TurnsOf(history'))
  /\ Goto("ahead")
  /\ UNCHANGED <<toolVars, ready, sandbox, asked, done, cut, crashes>>

\* The user message is in S3 before the model sees it.
WriteAhead ==
  /\ pc = "ahead"
  /\ history' = Append(history, User(turn))
  /\ Save(history')
  /\ asked' = asked \cup {turn}
  /\ Goto("stream")
  /\ UNCHANGED <<toolVars, ready, sandbox, done, dropped, cut, crashes>>

\* The reply goes into the history, which is compacted if the turn used up the
\* window, and the client is told; only then it is saved.
StreamReply(overflow) ==
  /\ pc = "stream"
  /\ LET h == Append(history, Assistant(turn, "reply"))
     IN history' = IF overflow THEN Compact(h) ELSE h
  /\ dropped' = dropped \cup (TurnsOf(history) \ TurnsOf(history'))
  /\ done' = done \cup {turn}
  /\ Goto("save")
  /\ UNCHANGED <<toolVars, stored, ready, sandbox, asked, cut, crashes, fails>>

SaveReply ==
  /\ pc = "save"
  /\ Save(history)
  /\ Goto("finish")
  /\ UNCHANGED <<toolVars, history, ready, sandbox, ghostVars, crashes>>

\* The model answers with calls of external tools.
StreamCalls(cs) ==
  /\ pc = "stream"
  /\ pc' = "call" /\ calls' = cs /\ step' = step + 1
  /\ UNCHANGED <<toolVars, dataVars, sandbox, turn, ghostVars, crashes, fails>>

\* The stream breaks, or the turn is cancelled.
StreamFails ==
  /\ pc = "stream"
  /\ Goto("fail")
  /\ UNCHANGED <<toolVars, dataVars, sandbox, ghostVars, crashes, fails>>

\* The calls of one message are done one after the other, then comes the next
\* request, unless the steps are used up.
NextCall ==
  /\ calls' = Tail(calls)
  /\ pc' = CASE Len(calls) > 1 -> "call"
              [] Len(calls) = 1 /\ step < MaxSteps -> "stream"
              [] OTHER -> "fail"
  /\ UNCHANGED <<turn, step>>

CallAnswered ==
  /\ pc = "call" /\ TakeParked(Call, turn)
  /\ NextCall
  /\ UNCHANGED <<dataVars, sandbox, ghostVars, crashes, fails>>

CallWaits ==
  /\ pc = "call" /\ AwaitResult(Call)
  /\ Goto("wait")
  /\ UNCHANGED <<dataVars, sandbox, ghostVars, crashes, fails>>

ResultArrives ==
  /\ pc = "wait" /\ ReceiveResult(turn)
  /\ NextCall
  /\ UNCHANGED <<dataVars, sandbox, ghostVars, crashes, fails>>

\* Fault: an external tool call has no timeout.
WaitForEver == FALSE /\ UNCHANGED vars

\* The call's timeout or the turn's context ends the wait; the error is the
\* call's result.
WaitEnds ==
  /\ pc = "wait" /\ GiveUp(Call)
  /\ NextCall
  /\ UNCHANGED <<dataVars, sandbox, ghostVars, crashes, fails>>

\* Fault: the partial reply stays in memory.
FailTurnUnsaved ==
  /\ pc = "fail"
  /\ history' = Append(history, Assistant(turn, "partial"))
  /\ Goto("finish")
  /\ UNCHANGED <<toolVars, stored, ready, sandbox, ghostVars, crashes, fails>>

\* failTurn: the partial reply is saved under a context of its own.
FailTurn ==
  /\ pc = "fail"
  /\ history' = Append(history, Assistant(turn, "partial"))
  /\ Save(history')
  /\ Goto("finish")
  /\ UNCHANGED <<toolVars, ready, sandbox, ghostVars, crashes>>

FinishTurn ==
  /\ pc = "finish" /\ ClearResults
  /\ Goto("idle")
  /\ UNCHANGED <<dataVars, sandbox, ghostVars, crashes, fails>>

-----------------------------------------------------------------------------
(* Everybody else *)

\* The client posts a result, for whatever call and whenever it likes.
PostResult(c) ==
  /\ pc # "cold"
  /\ AddToolResult(c, IF Running THEN turn ELSE 0)
  /\ UNCHANGED <<dataVars, sandbox, pcVars, ghostVars, crashes, fails>>

\* The reaper takes the sandbox of an idle session.
Reap ==
  /\ pc = "idle" /\ sandbox
  /\ sandbox' = FALSE
  /\ UNCHANGED <<toolVars, dataVars, pcVars, ghostVars, crashes, fails>>

Forget ==
  /\ history' = <<>> /\ ready' = FALSE /\ sandbox' = FALSE /\ ForgetResults
  /\ pc' = "cold" /\ calls' = <<>> /\ UNCHANGED <<turn, step>>

Evict ==
  /\ pc = "idle"
  /\ Forget
  /\ UNCHANGED <<stored, ghostVars, crashes, fails>>

Crash ==
  /\ pc # "cold" /\ crashes < MaxCrashes
  /\ Forget
  /\ crashes' = crashes + 1
  /\ cut' = IF Running THEN cut \cup {turn} ELSE cut
  /\ UNCHANGED <<stored, asked, done, dropped, fails>>

\* Fault: adoption seals every history.
AdoptSealsAll ==
  /\ pc = "cold" /\ stored # <<>>
  /\ history' = Append(stored, Assistant(stored[Len(stored)].turn, "marker"))
  /\ Save(history') /\ ready' = TRUE /\ Goto("idle")
  /\ UNCHANGED <<toolVars, sandbox, ghostVars, crashes>>

\* adoptSession: load the history and seal the turn that was interrupted.
Adopt ==
  /\ pc = "cold"
  /\ IF Dangling(Load)
     THEN /\ history' = Append(Load, Assistant(Load[Len(Load)].turn, "marker"))
          /\ Save(history')
     ELSE history' = Load /\ UNCHANGED <<stored, fails>>
  /\ ready' = TRUE /\ Goto("idle")
  /\ UNCHANGED <<toolVars, sandbox, ghostVars, crashes>>

-----------------------------------------------------------------------------

LoopStep ==
  \/ PrepareLive \/ Rebuild \/ PrepareFails \/ TrimHistory \/ WriteAhead
  \/ (\E o \in BOOLEAN : StreamReply(o)) \/ SaveReply
  \/ (\E cs \in CallLists : StreamCalls(cs)) \/ StreamFails
  \/ CallAnswered \/ CallWaits \/ ResultArrives \/ WaitEnds
  \/ FailTurn \/ FinishTurn

Next ==
  \/ StartTurn \/ LoopStep \/ Reap \/ Evict \/ Crash \/ Adopt
  \/ \E c \in CallIds : PostResult(c)

Spec == Init /\ [][Next]_vars

\* The turn's goroutine runs: streams, saves and waits are bounded by timeouts.
FairSpec == Spec /\ WF_vars(LoopStep)

-----------------------------------------------------------------------------
(* Safety *)

\* A waiter is registered only while the loop waits for that very call and no
\* result of it lies in the buffer: no result is parked past its waiter, none
\* is handed to a waiter that has gone.
WaiterIsLive ==
  /\ waiters # {} => pc = "wait" /\ waiters = {Call} /\ ~Parked(Call) /\ slot = {}
  /\ slot # {} => pc = "wait"

\* What a client reports during one turn no other turn consumes, whatever call
\* ids the provider reuses (finishTurn, session.go:299-301).
ResultsStayInTurn == \A r \in strays : r.during = 0

\* A reported result goes to the call it was meant for or to none.
ResultsFindTheirCall == WaiterIsLive /\ ResultsStayInTurn

InOrder(h) ==
  \A i \in DOMAIN h :
    /\ \A j \in 1..(i - 1) :
         h[i].role = "user" /\ h[j].role = "user" => h[j].turn < h[i].turn
    /\ h[i].role = "assistant" => i > 1 /\ h[i - 1] = User(h[i].turn)

\* The history never repeats or reorders turns, and an answer stands directly
\* behind the message it answers, through failed saves, rebuilds and adoptions.
TurnsInOrder == InOrder(history)

\* If no save failed, an idle session has in S3 what it has in memory: it may be
\* reaped, evicted or crash without loss.
SavedWhenIdle == fails = 0 /\ pc = "idle" => stored = history

Answered(h, t) ==
  \E i \in 1..(Len(h) - 1) : h[i] = User(t) /\ h[i + 1].role = "assistant"

\* If no save failed, every turn that got past its write-ahead is in the history
\* with an answer, a partial answer or the marker, or was dropped on purpose.
NothingLost ==
  fails = 0 /\ pc = "idle" => \A t \in asked : Answered(history, t) \/ t \in dropped

Sealed(h) == \A i \in DOMAIN h : h[i].kind = "marker" => h[i].turn \in cut

\* If no save failed, only a turn that a crash hit bears the marker.
SealedWasCut == fails = 0 => Sealed(history)

\* The history holds every turn once and in order, with its own answer, and the
\* marker stands only where a crash cut a turn off.
HistoryHolds == TurnsInOrder /\ NothingLost /\ SealedWasCut

\* Trimming and compaction never drop the latest turn (context.go:81-83, 97-99).
LatestTurnKept == \A t \in asked \cap dropped : \E u \in asked : u > t

Fits(n) == n <= 2 \/ n <= Budget

\* TruncateToFit keeps as many whole turns as fit, and at least the last one:
\* no longer suffix that begins with a user message would have done.
TrimIsLeast ==
  /\ Fits(Len(Trim(history))) /\ (history # <<>> => Trim(history)[1].role = "user")
  /\ \A i \in Users(history) :
       Fits(Len(history) - i + 1) => Len(Trim(history)) >= Len(history) - i + 1

\* What trimming and compaction drop is the oldest, no more than must go, and
\* never the latest turn.
TrimKeepsLatest == LatestTurnKept /\ TrimIsLeast

-----------------------------------------------------------------------------
(* The inductive invariant behind the tool results and SavedWhenIdle *)

\* What the results and the saves rest on; the history's own type is not
\* needed for either.
LoopTypes ==
  /\ ToolTypes
  /\ turn \in 0..MaxTurns /\ (Running => turn > 0)
  /\ calls \in Seq(CallIds) /\ (pc \in {"call", "wait"} => calls # <<>>)
  /\ fails \in 0..MaxFails

\* What lies in the buffer or on its way came during the running turn or
\* while none ran.
ResultsOfTurn == \A r \in pending \cup slot : r.during = 0 \/ (Running /\ r.during = turn)

\* If no save failed, only an answer that is about to be saved is missing in S3.
SavedBetween == fails = 0 /\ pc \notin {"save", "cold"} => stored = history

LoopInv == LoopTypes /\ WaiterIsLive /\ ResultsOfTurn /\ ResultsStayInTurn /\ SavedBetween

-----------------------------------------------------------------------------
(* The inductive invariant behind the history, beside that one *)

\* A history the loop may hold or load: it ends in no summary.
Sound(h) ==
  h \in Seq(Messages) /\ InOrder(h) /\ (h # <<>> => h[Len(h)] # Summary)

\* The write-ahead is behind, the answer still to come.
Asking == pc \in {"stream", "call", "wait", "fail"}

Awaits(h, t) == h # <<>> /\ h[Len(h)] = User(t)

\* What the histories hold and what was dropped are turns that were asked, each
\* once, and the running one as soon as its write-ahead is done; its answer
\* stands in memory before it is saved.
Asked ==
  /\ asked \subseteq 1..turn
  /\ TurnsOf(history) \cup TurnsOf(stored) \cup dropped \subseteq asked \cup {0}
  /\ pc \in {"prepare", "trim", "ahead"} => turn \notin asked
  /\ Asking => Awaits(history, turn)
  /\ pc = "save" => ~Dangling(history)

\* If no save failed, every turn asked has its answer, is dropped or is the one
\* that runs; in S3 it may also be the one a crash left without an answer.
Accounted ==
  fails = 0 =>
    /\ pc # "cold" =>
         \A t \in asked : Answered(history, t) \/ t \in dropped \/ (Asking /\ t = turn)
    /\ \A t \in asked : Answered(stored, t) \/ t \in dropped \/ Awaits(stored, t)

\* If no save failed, what stands unanswered in S3 is the running turn or one
\* that a crash cut off.
CutOff ==
  fails = 0 =>
    /\ Sealed(history) /\ Sealed(stored)
    /\ Dangling(stored) => \/ (Asking \/ pc = "save") /\ stored[Len(stored)].turn = turn
                           \/ pc = "cold" /\ stored[Len(stored)].turn \in cut

HistoryInv ==
  Sound(history) /\ Sound(stored) /\ Asked /\ Accounted /\ CutOff /\ LatestTurnKept

-----------------------------------------------------------------------------
(* Liveness *)

\* Every turn ends, whatever its tool calls wait for, or its node crashes.
TurnsFinish == Running ~> ~Running

-----------------------------------------------------------------------------
(* What the comments and docs say and the code does not keep *)

\* loop.go:210-213, 270-274: a failed save costs nothing as long as the node
\* lives, because the history in memory is authoritative.
MemoryIsAuthoritative ==
  [][pc # "cold" /\ pc' # "cold" =>
       \A t \in done : Answered(history, t) => Answered(history', t) \/ t \in dropped']_vars

\* README.md:110: a late result arriving after the turn has ended is never
\* consumed by a later turn.
LateIsNeverUsed == strays = {}

\* loop.go:355-358: the marker stands for a turn that never completed.
MarkedNeverAnswered ==
  \A i \in DOMAIN history : history[i].kind = "marker" => history[i].turn \notin done

=============================================================================

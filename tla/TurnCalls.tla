------------------------------- MODULE TurnCalls -------------------------------
(***************************************************************************)
(* One turn and everything remote it holds (agent/loop.go, RunTurn): the   *)
(* MCP servers are connected, the model is asked, the tools it calls are   *)
(* run one after the other, and the teardown closes what was opened.       *)
(* Composes Completion, McpServers and Shell under the turn's context; the *)
(* history the turn leaves behind is AgentLoop's.                          *)
(***************************************************************************)
EXTENDS Completion, McpServers, Shell

CONSTANT MaxSteps  \* maxTurnSteps

ASSUME TurnAssumption == MaxSteps \in Nat \ {0}

VARIABLES
  phase,  \* "connect", "ask", "tools", "close" (closeMCP), "over"
  step,   \* the step of the turn
  todo    \* tool calls of the answer not dispatched yet

turnVars == <<phase, step, todo>>
vars == <<ctx, turnVars, completionVars, mcpVars, shellVars>>

Busy == using # None \/ \E k \in Calls : InExecute(k)

TurnTypes ==
  /\ phase \in {"new", "connect", "ask", "tools", "close", "over"}
  /\ step \in 0..MaxSteps /\ todo \in Nat

TypeOK == TurnTypes /\ CompletionTypes /\ McpTypes /\ ShellTypes

Init ==
  /\ phase = "new" /\ step = 0 /\ todo = 0
  /\ ContextInit /\ CompletionInit /\ McpInit /\ ShellInit
-----------------------------------------------------------------------------
StartTurn ==
  /\ phase = "new" /\ phase' = "connect" /\ ConnectAll
  /\ UNCHANGED <<ctx, step, todo, completionVars, shellVars>>

\* wg.Wait: every server is mounted or failed.
ServersSettled ==
  /\ phase = "connect" /\ \A s \in Servers : Settled(s)
  /\ phase' = "ask" /\ Ask
  /\ UNCHANGED <<ctx, step, todo, mcpVars, shellVars>>

\* A plain answer, or none: the turn is over but for its teardown.
TurnAnswered ==
  /\ phase = "ask"
  /\ ask = "err" \/ (ask = "ok" /\ answer.calls = <<>>)
  /\ phase' = "close" /\ CloseAll /\ Rest
  /\ UNCHANGED <<ctx, step, todo, shellVars>>

ToolsCalled ==
  /\ phase = "ask" /\ ask = "ok" /\ answer.calls # <<>>
  /\ phase' = "tools" /\ todo' = Len(answer.calls) /\ Rest
  /\ UNCHANGED <<ctx, step, mcpVars, shellVars>>

\* dispatchTool: the shell, a tool of a server, anything that answers at once.
Dispatch ==
  /\ phase = "tools" /\ todo > 0 /\ ~Busy
  /\ todo' = todo - 1
  /\ \/ (\E k \in Calls, inBg \in BOOLEAN : Execute(k, inBg)) /\ UNCHANGED mcpVars
     \/ (\E s \in Servers : CallTool(s)) /\ UNCHANGED shellVars
     \/ UNCHANGED <<mcpVars, shellVars>>
  /\ UNCHANGED <<ctx, phase, step, completionVars>>

\* The results go back to the model, up to maxTurnSteps times.
NextStep ==
  /\ phase = "tools" /\ todo = 0 /\ ~Busy
  /\ step' = step + 1
  /\ IF step' < MaxSteps
     THEN phase' = "ask" /\ Ask /\ UNCHANGED mcpVars
     ELSE phase' = "close" /\ CloseAll /\ UNCHANGED completionVars
  /\ UNCHANGED <<ctx, todo, shellVars>>

\* RunTurn returns, and runTurn (controller/turn.go) cancels the context.
TurnOver ==
  /\ phase = "close" /\ closing = {}
  /\ phase' = "over" /\ ctx' = "ended"
  /\ UNCHANGED <<step, todo, completionVars, mcpVars, shellVars>>

Remote ==
  \/ phase = "ask" /\ CompletionStep /\ UNCHANGED <<mcpVars, shellVars>>
  \/ (ConnectStep \/ CloseStep \/ LinkStep \/ ToolReturns)
     /\ UNCHANGED <<completionVars, shellVars>>
  \/ ShellStep /\ UNCHANGED <<completionVars, mcpVars>>

Next ==
  \/ StartTurn \/ ServersSettled \/ TurnAnswered \/ ToolsCalled \/ Dispatch
  \/ NextStep \/ TurnOver
  \/ Remote /\ UNCHANGED <<ctx, turnVars>>
  \/ EndContext /\ UNCHANGED <<turnVars, completionVars, mcpVars, shellVars>>

Spec == Init /\ [][Next]_vars

\* What needs no peer: the loop, the timers, the end of calls whose context
\* ended, and the goroutines of the shell tool. Every behaviour is finite,
\* so that fairness of their disjunction is fairness of each.
Must ==
  \/ StartTurn \/ ServersSettled \/ TurnAnswered \/ ToolsCalled \/ Dispatch
  \/ NextStep \/ TurnOver
  \/ /\ \/ ConnectStep /\ UNCHANGED <<completionVars, shellVars>>
        \/ CloseStep /\ UNCHANGED <<completionVars, shellVars>>
        \/ Ended /\ ToolReturns /\ UNCHANGED <<completionVars, shellVars>>
        \/ /\ phase = "ask" /\ (BackoffEnds \/ (Ended /\ CompletionGivesUp))
           /\ UNCHANGED <<mcpVars, shellVars>>
        \/ ShellMust /\ UNCHANGED <<completionVars, mcpVars>>
     /\ UNCHANGED <<ctx, turnVars>>

FairSpec == Spec /\ WF_vars(Must)
-----------------------------------------------------------------------------
\* However its remote calls hang, a turn whose context ended is over soon:
\* a cancel, a DELETE and the turn timeout free the session (every remote
\* call of RunTurn is given the context or a timer).
EndedTurnIsOver == Ended ~> phase = "over"

\* A server that does not answer costs the turn its tools and no more: the
\* connects end by their timers alone (ConnectMCPServers).
ConnectEnds == phase = "connect" ~> phase # "connect"

\* No remote call holds a turn for ever.
TurnLetsGo == EndedTurnIsOver /\ ConnectEnds

\* When the turn is over, no session that was mounted was left to be cut by
\* the end of the context: Close was called for each, a cancelled turn
\* included (closeMCPSessions); and no command of the turn still runs but
\* those in the background.
TurnHoldsNothing ==
  phase = "over" =>
    /\ \A s \in Range(mounted) : link[Candidate(s)] # "open"
    /\ \A k \in Calls : Alive(k) => k \in watch \/ Cancelled(k)

\* No session to an external tool server outlives its use: not while the turn
\* runs, not after it.
LinksAreReleased == LinksAreOwned /\ TurnHoldsNothing
=============================================================================

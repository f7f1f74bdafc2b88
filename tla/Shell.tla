-------------------------------- MODULE Shell --------------------------------
(***************************************************************************)
(* The shell tool (agent/tools_sandbox.go): the call the model made, the   *)
(* goroutine that reads the command's event stream on a context of its     *)
(* own, the watcher of a command that moved to the background, and the     *)
(* command in the sandbox. The loop dispatches one call at a time, under   *)
(* the turn's context; commands in the background outlive call and turn.   *)
(*                                                                         *)
(* A command is the directory it ends in, its exit code, and whether it    *)
(* ran to its end or left the wrapper early (exit, a signal). The wrapper  *)
(* (buildShellWrapper) creates the log directory where it starts, and      *)
(* writes the exit code with a relative path, hence where the command      *)
(* ended; the code it exits with itself is that of this write. The file is *)
(* named for the call id, which providers repeat. The environment is       *)
(* threaded from call to call like the directory and left out. What        *)
(* ironhive does with a command is inferred from its use.                  *)
(***************************************************************************)
EXTENDS TurnContext, Integers, FiniteSets

CONSTANTS
  Calls,    \* tool call ids of shell calls
  Dirs,     \* directories of the sandbox
  Home,     \* its working directory: shellCwd = ""
  Nowhere,  \* no directory
  Files,    \* names of exit files: sanitized call ids
  FileOf,   \* the one a call writes and reads
  Codes     \* exit codes a command may have

ASSUME ShellAssumption ==
  /\ Home \in Dirs /\ Nowhere \notin Dirs
  /\ FileOf \in [Calls -> Files] /\ Codes \subseteq {0, 1}

VARIABLES
  sandbox,   \* "up" or "gone" (released, or its pod died)
  cwd,       \* shellCwd, the threaded working directory
  logs,      \* the directories that have a .agents/shell-logs
  call,      \* where Execute is
  bg,        \* the bg argument
  from,      \* the directory a command starts in
  cmd,       \* the command
  end,       \* how it ended
  exits,     \* the exit files
  run,       \* the goroutine that reads the event stream
  runctx,    \* its context: "live" or "cancelled"
  done,      \* its outcome in the buffered channel
  watch,     \* calls with a running watchBgProcess
  reply,     \* what Execute told the model
  shown,     \* the exit code in that reply
  notice,    \* the exit code in the exit notification
  pids,      \* calls whose pid event has come
  broke      \* history: event streams that failed unasked

shellVars == <<sandbox, cwd, logs, call, bg, from, cmd, end, exits, run, runctx,
               done, watch, reply, shown, notice, pids, broke>>

Unknown == -1
NoCode  == -2

\* The code, the directory it reports, and the code of the exit event.
Ends      == [code : Codes, dir : Dirs \cup {Nowhere}, event : {0, 1}]
NotEnded  == [code |-> NoCode, dir |-> Nowhere, event |-> NoCode]
NoOutcome == [err |-> FALSE, code |-> NoCode, dir |-> Nowhere]
Outcomes  == [err : BOOLEAN, code : {0, 1, Unknown}, dir : Dirs \cup {Nowhere}]

InExecute(k) == call[k] \in {"spawn", "window", "readback"}
Alive(k)     == cmd[k] \in {"starting", "running"}
Arrived(k)   == done[k] # NoOutcome

ShellTypes ==
  /\ sandbox \in {"up", "gone"} /\ cwd \in Dirs /\ logs \subseteq Dirs
  /\ call \in [Calls -> {"new", "spawn", "window", "readback", "over"}]
  /\ bg \in [Calls -> BOOLEAN] /\ from \in [Calls -> Dirs]
  /\ cmd \in [Calls -> {"none", "starting", "running", "exited", "killed", "lost"}]
  /\ end \in [Calls -> Ends \cup {NotEnded}]
  /\ exits \in [Dirs \X Files -> Codes \cup {NoCode}]
  /\ run \in [Calls -> {"none", "stream", "exitfile", "finished"}]
  /\ runctx \in [Calls -> {"live", "cancelled"}]
  /\ done \in [Calls -> Outcomes \cup {NoOutcome}]
  /\ watch \subseteq Calls /\ pids \subseteq Calls /\ broke \subseteq Calls
  /\ reply \in [Calls -> {"none", "foreground", "background", "error",
                          "aborted", "nopid"}]
  /\ shown \in [Calls -> {0, 1, Unknown, NoCode}]
  /\ notice \in [Calls -> {0, 1, Unknown, NoCode}]

ShellInit ==
  /\ sandbox = "up" /\ cwd = Home /\ logs = {}
  /\ call = [k \in Calls |-> "new"] /\ bg = [k \in Calls |-> FALSE]
  /\ from = [k \in Calls |-> Home] /\ cmd = [k \in Calls |-> "none"]
  /\ end = [k \in Calls |-> NotEnded]
  /\ exits = [f \in Dirs \X Files |-> NoCode] /\ run = [k \in Calls |-> "none"]
  /\ runctx = [k \in Calls |-> "live"] /\ done = [k \in Calls |-> NoOutcome]
  /\ watch = {} /\ reply = [k \in Calls |-> "none"]
  /\ shown = [k \in Calls |-> NoCode] /\ notice = [k \in Calls |-> NoCode]
  /\ pids = {} /\ broke = {}
-----------------------------------------------------------------------------
\* Execute.

\* The call reads the threaded directory under shellMu and starts the
\* goroutine, on a context that does not descend from the turn's.
Execute(k, inBg) ==
  /\ call[k] = "new" /\ \A j \in Calls : ~InExecute(j)
  /\ call' = [call EXCEPT ![k] = "spawn"]
  /\ bg' = [bg EXCEPT ![k] = inBg]
  /\ from' = [from EXCEPT ![k] = cwd]
  /\ cmd' = [cmd EXCEPT ![k] = IF sandbox = "up" THEN "starting" ELSE "lost"]
  /\ run' = [run EXCEPT ![k] = "stream"]
  /\ UNCHANGED <<sandbox, cwd, logs, end, exits, runctx, done, watch, reply, shown,
                 notice, pids, broke>>

Reply(k, what) ==
  /\ call' = [call EXCEPT ![k] = "over"]
  /\ reply' = [reply EXCEPT ![k] = what]

\* Fault: the call returns without killing its command.
GiveUpAlone(k, what) ==
  Reply(k, what) /\ UNCHANGED <<runctx, done, cwd, watch, shown>>

\* runCancel() and an error: no pid event within 10 s, or the turn ended.
GiveUp(k, what) ==
  /\ Reply(k, what)
  /\ runctx' = [runctx EXCEPT ![k] = "cancelled"]
  /\ UNCHANGED <<done, cwd, watch, shown>>

\* A failed stream is an error; a completed command hands its directory to
\* the next call (foregroundResult, under shellMu).
TakeOutcome(k) ==
  /\ Arrived(k)
  /\ done' = [done EXCEPT ![k] = NoOutcome]
  /\ \/ /\ done[k].err
        /\ Reply(k, "error") /\ UNCHANGED <<cwd, shown>>
     \/ /\ ~done[k].err
        /\ call' = [call EXCEPT ![k] = "readback"] /\ UNCHANGED reply
        /\ cwd' = IF done[k].dir = Nowhere THEN cwd ELSE done[k].dir
        /\ shown' = [shown EXCEPT ![k] = done[k].code]
  /\ UNCHANGED <<runctx, watch>>

MoveToBackground(k) ==
  /\ Reply(k, "background")
  /\ watch' = watch \cup {k}
  /\ UNCHANGED <<runctx, done, cwd, shown>>

\* The first select: the pid event, ...
GotPid(k) ==
  /\ call[k] = "spawn" /\ k \in pids
  /\ IF bg[k] THEN MoveToBackground(k)
     ELSE /\ call' = [call EXCEPT ![k] = "window"]
          /\ UNCHANGED <<runctx, done, cwd, watch, reply, shown>>

\* ... an outcome, no pid in time, the end of the turn.
EarlyOutcome(k) == call[k] = "spawn" /\ TakeOutcome(k)
PidTimeout(k)   == call[k] = "spawn" /\ GiveUp(k, "nopid")
AbortSpawn(k)   == call[k] = "spawn" /\ Ended /\ GiveUp(k, "aborted")

\* The second select, for a call in the foreground: an outcome, ...
WindowOutcome(k) == call[k] = "window" /\ TakeOutcome(k)

\* ... 30 s: what arrived by now still counts, else to the background; ...
WindowPasses(k) ==
  /\ call[k] = "window"
  /\ IF Arrived(k) THEN TakeOutcome(k) ELSE MoveToBackground(k)

\* ... the end of the turn.
AbortWindow(k) == call[k] = "window" /\ Ended /\ GiveUp(k, "aborted")

\* stdout and stderr are fetched under the turn's context.
ReadBack(k) ==
  /\ call[k] = "readback"
  /\ \/ Reply(k, "foreground") /\ UNCHANGED shown
     \/ Reply(k, "error") /\ shown' = [shown EXCEPT ![k] = NoCode]
  /\ UNCHANGED <<runctx, done, cwd, watch>>

ExecuteStep(k) ==
  /\ \/ GotPid(k) \/ EarlyOutcome(k) \/ PidTimeout(k) \/ AbortSpawn(k)
     \/ WindowOutcome(k) \/ WindowPasses(k) \/ AbortWindow(k) \/ ReadBack(k)
  /\ UNCHANGED <<sandbox, logs, bg, from, cmd, end, exits, run, notice, pids, broke>>
-----------------------------------------------------------------------------
\* The goroutine that reads the stream, and the watcher.

\* The stream closed after the exit, cwd and env events.
StreamEnds(k) ==
  /\ run[k] = "stream" /\ cmd[k] = "exited"
  /\ run' = [run EXCEPT ![k] = "exitfile"]
  /\ UNCHANGED <<runctx, done, broke>>

\* Fault: the channel has no buffer, and nobody receives any more.
FinishBlocks(k, outcome) ==
  /\ InExecute(k) \/ k \in watch
  /\ run' = [run EXCEPT ![k] = "finished"]
  /\ runctx' = [runctx EXCEPT ![k] = "cancelled"]
  /\ done' = [done EXCEPT ![k] = outcome]

Finish(k, outcome) ==
  /\ run' = [run EXCEPT ![k] = "finished"]
  /\ runctx' = [runctx EXCEPT ![k] = "cancelled"]
  /\ done' = [done EXCEPT ![k] = outcome]

\* The stream failed: cancelled, the sandbox gone, the connection broken.
StreamFails(k) ==
  /\ run[k] = "stream"
  /\ Finish(k, [err |-> TRUE, code |-> Unknown, dir |-> Nowhere])
  /\ broke' = IF runctx[k] = "cancelled" THEN broke ELSE broke \cup {k}

\* The exit file, looked for where the command started; failing that, the
\* exit event.
ReadExitFile(k) ==
  /\ run[k] = "exitfile"
  /\ \E read \in BOOLEAN :
       LET found == exits[<<from[k], FileOf[k]>>]
       IN  /\ read => found # NoCode /\ sandbox = "up" /\ runctx[k] = "live"
           /\ Finish(k, [err  |-> FALSE, dir |-> end[k].dir,
                         code |-> IF read THEN found ELSE end[k].event])
  /\ UNCHANGED broke

RunnerStep(k) ==
  /\ StreamEnds(k) \/ StreamFails(k) \/ ReadExitFile(k)
  /\ UNCHANGED <<sandbox, cwd, logs, call, bg, from, cmd, end, exits, watch, reply,
                 shown, notice, pids>>

\* watchBgProcess: a failed stream is not an exit.
Watch(k) ==
  /\ k \in watch /\ Arrived(k)
  /\ watch' = watch \ {k} /\ done' = [done EXCEPT ![k] = NoOutcome]
  /\ notice' = [notice EXCEPT ![k] = IF done[k].err THEN NoCode ELSE done[k].code]
  /\ UNCHANGED <<sandbox, cwd, logs, call, bg, from, cmd, end, exits, run, runctx,
                 reply, shown, pids, broke>>
-----------------------------------------------------------------------------
\* The sandbox.

Keep == UNCHANGED <<cwd, call, bg, from, run, runctx, done, watch, reply, shown,
                    notice, broke>>

Spawn(k) ==
  /\ cmd[k] = "starting"
  /\ cmd' = [cmd EXCEPT ![k] = "running"] /\ logs' = logs \cup {from[k]}
  /\ pids' = pids \cup {k} /\ UNCHANGED <<sandbox, end, exits>> /\ Keep

\* It runs to its end in dir, and the wrapper writes the exit file there, if
\* it can; the exit event has the code of that write.
CommandEnds(k, code, dir) ==
  /\ cmd[k] = "running"
  /\ cmd' = [cmd EXCEPT ![k] = "exited"]
  /\ end' = [end EXCEPT ![k] = [code |-> code, dir |-> dir,
                                event |-> IF dir \in logs THEN 0 ELSE 1]]
  /\ exits' = IF dir \in logs THEN [exits EXCEPT ![<<dir, FileOf[k]>>] = code]
                              ELSE exits
  /\ UNCHANGED <<sandbox, logs, pids>> /\ Keep

\* Or it leaves the wrapper with it, and may report no directory.
CommandLeaves(k, code, dir) ==
  /\ cmd[k] = "running"
  /\ cmd' = [cmd EXCEPT ![k] = "exited"]
  /\ end' = [end EXCEPT ![k] = [code |-> code, dir |-> dir, event |-> code]]
  /\ UNCHANGED <<sandbox, logs, exits, pids>> /\ Keep

\* Fault: the goroutine's context descends from the turn's.
CancelledWithTurn(k) == runctx[k] = "cancelled" \/ (run[k] = "stream" /\ Ended)

Cancelled(k) == runctx[k] = "cancelled"

\* ironhive kills the process group when the call it belongs to is aborted.
Kill(k) ==
  /\ Alive(k) /\ Cancelled(k)
  /\ cmd' = [cmd EXCEPT ![k] = "killed"]
  /\ UNCHANGED <<sandbox, logs, end, exits, pids>> /\ Keep

\* The session gave its sandbox back, or the pod died.
LoseSandbox ==
  /\ sandbox = "up" /\ sandbox' = "gone"
  /\ cmd' = [k \in Calls |-> IF Alive(k) THEN "lost" ELSE cmd[k]]
  /\ UNCHANGED <<logs, end, exits, pids>> /\ Keep

SandboxStep ==
  \/ \E k \in Calls : Spawn(k) \/ Kill(k)
  \/ \E k \in Calls, code \in Codes :
       \/ \E dir \in Dirs : CommandEnds(k, code, dir)
       \/ \E dir \in Dirs \cup {Nowhere} : CommandLeaves(k, code, dir)
  \/ LoseSandbox
-----------------------------------------------------------------------------
ShellStep ==
  \/ \E k \in Calls : ExecuteStep(k) \/ RunnerStep(k) \/ Watch(k)
  \/ SandboxStep

\* What happens without anybody's help: the timers and selects of Execute,
\* the end of the stream of a command that ended or lost its call or its
\* sandbox, the watcher, the kill.
ShellMust ==
  \E k \in Calls :
    \/ ExecuteStep(k) /\ (call[k] = "readback" => Ended)
    \/ RunnerStep(k) /\ (cmd[k] \in {"starting", "running"} => Cancelled(k))
    \/ Watch(k)
    \/ Kill(k)
-----------------------------------------------------------------------------
\* A command that runs is the business of somebody: the call that waits for
\* it, the watcher that will report its exit, or the cancelled context that
\* kills it (Execute: every return of it watches, cancels or has the outcome).
NoOrphan ==
  \A k \in Calls :
    Alive(k) => call[k] \in {"spawn", "window"} \/ k \in watch \/ Cancelled(k)

\* A command in the background is killed by nobody, the end of its turn
\* included, unless its stream broke ("Backgrounded processes keep running
\* even if the current turn ends").
BackgroundSurvives ==
  [][\A k \in Calls : cmd[k] # "killed" /\ cmd'[k] = "killed" =>
       reply[k] \in {"aborted", "nopid"} \/ k \in broke]_<<ctx, shellVars>>

\* Every command that ran to an exit is told to the model: in the reply of
\* its call (its output is being read back, under the turn's context) or by
\* a notification, unless its stream broke.
ExitIsTold ==
  \A k \in Calls : cmd[k] = "exited" ~>
    reply[k] \in {"foreground", "error", "aborted", "nopid"}
      \/ notice[k] # NoCode \/ k \in broke \/ call[k] = "readback"

\* A backgrounded command lives on until it exits, and its exit is reported.
BackgroundIsKept == BackgroundSurvives /\ ExitIsTold

\* The command of a call that was given up dies, and nobody is left waiting
\* for it: the outcome of a goroutine that nobody receives from any more
\* stays in its buffered channel.
AbortedDies ==
  \A k \in Calls : reply[k] \in {"aborted", "nopid"} ~>
    ~Alive(k) /\ run[k] = "finished"

\* What tools_sandbox.go:577-580 and 613-615 want of an exit code: the
\* command's own, or "unknown". Refuted: the wrapper writes it where the
\* command ended and with a name that calls may share.
ExitCodeIsReal ==
  \A k \in Calls : {shown[k], notice[k]} \subseteq {NoCode, Unknown, end[k].code}
=============================================================================

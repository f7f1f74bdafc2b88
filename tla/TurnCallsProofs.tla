--------------------------- MODULE TurnCallsProofs ---------------------------
(***************************************************************************)
(* What TLAPS proves of a turn's remote calls for any number of servers,   *)
(* shell calls, steps and pieces of a reply: no command is left that       *)
(* nobody waits for, reports or kills, no session to an external tool      *)
(* server outlives its use, and the model's answer is taken only whole.    *)
(***************************************************************************)
EXTENDS TurnCalls, SequenceTheorems, FiniteSetTheorems, TLAPS

\* The proofs are about steps: what an action does is always visible.
USE DEF completionVars, mcpVars, shellVars, turnVars, vars, Ended, EndContext

-----------------------------------------------------------------------------
(* The shell *)

\* The variables a command's fate hangs on have their types.
Threads ==
  /\ call \in [Calls -> {"new", "spawn", "window", "readback", "over"}]
  /\ cmd \in [Calls -> {"none", "starting", "running", "exited", "killed", "lost"}]
  /\ run \in [Calls -> {"none", "stream", "exitfile", "finished"}]
  /\ runctx \in [Calls -> {"live", "cancelled"}]
  /\ DOMAIN done = Calls

\* A goroutine starts with its call, an outcome comes from one that ended, and
\* its end cancelled its context.
OutcomeIsLast ==
  \A k \in Calls : /\ call[k] = "new" => run[k] = "none"
                   /\ Arrived(k) => run[k] = "finished"
                   /\ run[k] = "finished" => Cancelled(k)

ShellInv == Threads /\ OutcomeIsLast /\ NoOrphan

\* Starting a call keeps the others' commands accounted for.
LEMMA ExecuteKeeps ==
  ASSUME ShellInv, NEW k \in Calls, NEW inBg \in BOOLEAN, Execute(k, inBg)
  PROVE  ShellInv'
<1>1. Threads'
  BY DEF ShellInv, Threads, Execute
<1>2. OutcomeIsLast'
  BY DEF ShellInv, Threads, OutcomeIsLast, Arrived, Cancelled, Execute
<1>3. NoOrphan'
  BY DEF ShellInv, Threads, NoOrphan, Alive, Cancelled, Execute
<1> QED BY <1>1, <1>2, <1>3 DEF ShellInv

\* Every return of Execute has the outcome, watches or cancels.
LEMMA ExecuteStepKeeps ==
  ASSUME ShellInv, NEW k \in Calls, ExecuteStep(k)
  PROVE  ShellInv' /\ \A j \in Calls : InExecute(j)' => InExecute(j)
<1> USE DEF ShellInv, Threads, OutcomeIsLast, NoOrphan, Alive, Arrived, Cancelled,
            InExecute, Reply
<1>1. ASSUME NEW what, GiveUp(k, what), what \in {"nopid", "aborted"}, InExecute(k),
             UNCHANGED <<cmd, run>>
      PROVE  ShellInv' /\ \A j \in Calls : InExecute(j)' => InExecute(j)
  BY <1>1 DEF GiveUp
<1>2. ASSUME TakeOutcome(k), InExecute(k), UNCHANGED <<cmd, run>>
      PROVE  ShellInv' /\ \A j \in Calls : InExecute(j)' => InExecute(j)
  <2>1. run[k] = "finished" /\ runctx[k] = "cancelled" /\ runctx' = runctx /\ watch' = watch
        /\ done' = [done EXCEPT ![k] = NoOutcome]
    BY <1>2 DEF TakeOutcome
  <2>2. call' = [call EXCEPT ![k] = "over"] \/ call' = [call EXCEPT ![k] = "readback"]
    BY <1>2 DEF TakeOutcome
  <2> QED BY <1>2, <2>1, <2>2
<1>3. ASSUME MoveToBackground(k), InExecute(k), UNCHANGED <<cmd, run>>
      PROVE  ShellInv' /\ \A j \in Calls : InExecute(j)' => InExecute(j)
  BY <1>3 DEF MoveToBackground
<1>4. UNCHANGED <<cmd, run>>
  BY DEF ExecuteStep
<1>5. CASE GotPid(k)
  <2>1. CASE bg[k]
    BY <1>3, <1>4, <1>5, <2>1 DEF GotPid
  <2>2. CASE ~bg[k]
    BY <1>4, <1>5, <2>2 DEF GotPid
  <2> QED BY <2>1, <2>2
<1>6. CASE EarlyOutcome(k) \/ WindowOutcome(k)
  BY <1>2, <1>4, <1>6 DEF EarlyOutcome, WindowOutcome
<1>7. CASE PidTimeout(k) \/ AbortSpawn(k) \/ AbortWindow(k)
  BY <1>1, <1>4, <1>7 DEF PidTimeout, AbortSpawn, AbortWindow
<1>8. CASE WindowPasses(k)
  BY <1>2, <1>3, <1>4, <1>8 DEF WindowPasses
<1>9. CASE ReadBack(k)
  BY <1>4, <1>9 DEF ReadBack
<1> QED BY <1>5, <1>6, <1>7, <1>8, <1>9 DEF ExecuteStep

\* The goroutine, the watcher and the sandbox.
LEMMA ShellStepKeeps ==
  ASSUME ShellInv, ShellStep
  PROVE  ShellInv' /\ \A j \in Calls : InExecute(j)' => InExecute(j)
<1> USE DEF ShellInv, Threads, OutcomeIsLast, NoOrphan, Alive, Arrived, Cancelled
<1>1. ASSUME NEW k \in Calls, ExecuteStep(k)
      PROVE  ShellInv' /\ \A j \in Calls : InExecute(j)' => InExecute(j)
  BY <1>1, ExecuteStepKeeps
<1>2. ASSUME NEW k \in Calls, RunnerStep(k)
      PROVE  ShellInv' /\ \A j \in Calls : InExecute(j)' => InExecute(j)
  <2>1. UNCHANGED <<call, cmd, watch>>
    BY <1>2 DEF RunnerStep
  <2>2. CASE StreamEnds(k)
    BY <2>1, <2>2 DEF StreamEnds, InExecute
  <2>3. ASSUME NEW outcome, Finish(k, outcome), run[k] \in {"stream", "exitfile"}
        PROVE  ShellInv' /\ \A j \in Calls : InExecute(j)' => InExecute(j)
    BY <2>1, <2>3 DEF Finish, InExecute
  <2>4. CASE StreamFails(k)
    BY <2>3, <2>4 DEF StreamFails
  <2>5. CASE ReadExitFile(k)
    BY <2>3, <2>5 DEF ReadExitFile
  <2> QED BY <1>2, <2>2, <2>4, <2>5 DEF RunnerStep
<1>3. ASSUME NEW k \in Calls, Watch(k)
      PROVE  ShellInv' /\ \A j \in Calls : InExecute(j)' => InExecute(j)
  BY <1>3 DEF Watch, InExecute
<1>4. CASE SandboxStep
  <2>1. UNCHANGED <<call, run, runctx, done, watch>>
    BY <1>4 DEF SandboxStep, Spawn, Kill, CommandEnds, CommandLeaves, LoseSandbox, Keep
  <2> DEFINE states == {"none", "starting", "running", "exited", "killed", "lost"}
             Calmer == cmd' \in [Calls -> states] /\ \A k \in Calls : Alive(k)' => Alive(k)
  <2>2. ASSUME NEW k \in Calls, NEW what \in {"running", "exited", "killed"}, Alive(k),
               cmd' = [cmd EXCEPT ![k] = what]
        PROVE  Calmer
    BY <2>2
  <2>3. ASSUME LoseSandbox PROVE Calmer
    <3>1. cmd' = [k \in Calls |-> IF Alive(k) THEN "lost" ELSE cmd[k]]
      BY <2>3 DEF LoseSandbox
    <3>2. \A k \in Calls : cmd'[k] \in states
      BY <3>1
    <3>3. \A k \in Calls : ~Alive(k)'
      BY <3>1
    <3>4. cmd' \in [Calls -> states]
      BY <3>1, <3>2
    <3> QED BY <3>3, <3>4
  <2> HIDE DEF Calmer
  <2>6. ASSUME NEW k \in Calls, Spawn(k) \/ Kill(k) PROVE Calmer
    BY <2>2, <2>6 DEF Spawn, Kill
  <2>7. ASSUME NEW k \in Calls, NEW code, NEW dir,
               CommandEnds(k, code, dir) \/ CommandLeaves(k, code, dir)
        PROVE  Calmer
    BY <2>2, <2>7 DEF CommandEnds, CommandLeaves
  <2>8. Calmer
    <3>1. CASE \E k \in Calls : Spawn(k) \/ Kill(k)
      BY <3>1, <2>6
    <3>2. CASE \E k \in Calls, code \in Codes :
                 \/ \E dir \in Dirs : CommandEnds(k, code, dir)
                 \/ \E dir \in Dirs \cup {Nowhere} : CommandLeaves(k, code, dir)
      BY <3>2, <2>7
    <3> QED BY <1>4, <2>3, <3>1, <3>2 DEF SandboxStep
  <2> USE DEF Calmer
  <2>4. Threads' /\ OutcomeIsLast'
    BY <2>1, <2>8
  <2>5. NoOrphan'
    BY <2>1, <2>8
  <2> QED BY <2>1, <2>4, <2>5 DEF InExecute
<1> QED BY <1>1, <1>2, <1>3, <1>4 DEF ShellStep

-----------------------------------------------------------------------------
(* The servers *)

\* A server that is being listed or is mounted has had its session.
SessionsCame ==
  /\ \A s \in Servers : conn[s] = "list" => link[Candidate(s)] \notin {"none", "dialing"}
  /\ \A s \in Range(mounted) :
       conn[s] = "mounted" /\ link[Candidate(s)] \notin {"none", "dialing"}

ServersInv == McpTypes /\ SessionsCame /\ LinksAreOwned

\* Every candidate has its link, and after a candidate there is a next one or
\* none.
LEMMA Candidates ==
  ASSUME McpTypes, NEW s \in Servers
  PROVE  /\ cand[s] \in DOMAIN Transports[s] /\ Candidate(s) \in Links
         /\ Candidate(s)[1] = s
         /\ \A n \in DOMAIN Transports[s] : <<s, Transports[s][n]>> \in Links
         /\ cand[s] < Len(Transports[s]) => cand[s] + 1 \in DOMAIN Transports[s]
<1>1. cand[s] \in DOMAIN Transports[s]
  BY DEF McpTypes
<1>2. Transports[s] \in Seq(Kinds)
  <2>1. "streamable" \in Kinds /\ "sse" \in Kinds
    BY DEF Kinds
  <2>2. CASE Transports[s] = <<"streamable">>
    BY <2>1, <2>2
  <2>3. CASE Transports[s] = <<"sse">>
    BY <2>1, <2>3
  <2>4. CASE Transports[s] = <<"streamable", "sse">>
    BY <2>1, <2>4
  <2> QED BY McpAssumption, <2>2, <2>3, <2>4
<1>3. DOMAIN Transports[s] = 1..Len(Transports[s]) /\ Len(Transports[s]) \in Nat
      /\ \A n \in DOMAIN Transports[s] : Transports[s][n] \in Kinds
  BY <1>2, LenProperties, ElementOfSeq
<1>4. \A n \in DOMAIN Transports[s] : <<s, Transports[s][n]>> \in Links
  BY <1>3 DEF Links
<1> QED BY <1>1, <1>3, <1>4 DEF Candidate

\* Mounting adds a server to those that are mounted.
LEMMA Mounting ==
  ASSUME mounted \in Seq(Servers), NEW s \in Servers
  PROVE  /\ Append(mounted, s) \in Seq(Servers)
         /\ Range(Append(mounted, s)) = Range(mounted) \cup {s}
<1>1. /\ Append(mounted, s) \in Seq(Servers) /\ Len(mounted) \in Nat
      /\ Len(Append(mounted, s)) = Len(mounted) + 1
      /\ DOMAIN mounted = 1..Len(mounted)
      /\ DOMAIN Append(mounted, s) = 1..(Len(mounted) + 1)
      /\ \A i \in 1..Len(mounted) : Append(mounted, s)[i] = mounted[i] /\ mounted[i] \in Servers
      /\ Append(mounted, s)[Len(mounted) + 1] = s
  BY AppendProperties, LenProperties, ElementOfSeq
<1>2. 1..(Len(mounted) + 1) = 1..Len(mounted) \cup {Len(mounted) + 1}
  BY <1>1
<1> QED BY <1>1, <1>2 DEF Range

LEMMA AreServers == McpTypes => Range(mounted) \subseteq Servers
<1> SUFFICES ASSUME McpTypes PROVE Range(mounted) \subseteq Servers
  OBVIOUS
<1>1. DOMAIN mounted = 1..Len(mounted) /\ \A i \in 1..Len(mounted) : mounted[i] \in Servers
  BY LenProperties, ElementOfSeq DEF McpTypes
<1> QED BY <1>1 DEF Range

\* Before the turn nothing is connected.
Unconnected ==
  /\ mounted = <<>> /\ \A l \in Links : link[l] = "none"
  /\ \A s \in Servers : conn[s] = "rest"

LEMMA ConnectAllKeeps ==
  ASSUME ServersInv, Unconnected, ConnectAll
  PROVE  ServersInv'
<1>1. McpTypes'
  BY DEF ServersInv, McpTypes, ConnectAll
<1>2. \A s \in Servers : conn'[s] = "dial"
  BY DEF ConnectAll
<1>3. SessionsCame'
  BY <1>2 DEF SessionsCame, Unconnected, ConnectAll, Range
<1>4. \A l \in Links : l[1] \in Servers
  BY DEF Links
<1>5. LinksAreOwned'
  BY <1>2, <1>4 DEF LinksAreOwned, Unconnected, ConnectAll, Candidate, LinkEnded
<1> QED BY <1>1, <1>3, <1>5 DEF ServersInv

\* The next candidate leaves the last one's link with a cancelled context.
LEMMA NextCandidateKeeps ==
  ASSUME ServersInv, NEW s \in Servers, conn[s] = "dial", NextCandidate(s), ctx' = ctx
  PROVE  ServersInv'
<1>1. /\ McpTypes /\ s \notin Range(mounted) /\ Candidate(s) \in Links
      /\ cand[s] < Len(Transports[s]) => cand[s] + 1 \in DOMAIN Transports[s]
      /\ \A n \in DOMAIN Transports[s] : <<s, Transports[s][n]>> \in Links
      /\ \A r \in Servers : Candidate(r) \in Links /\ Candidate(r)[1] = r
      /\ \A l \in Links : l[1] \in Servers
  BY Candidates DEF ServersInv, SessionsCame, Links
<1>2. linkctx' = linkctx \cup {Candidate(s)} /\ UNCHANGED <<mounted, closing, using>>
  BY DEF NextCandidate
<1>3. Range(mounted) \subseteq Servers
  BY <1>1, AreServers
<1>4. CASE cand[s] < Len(Transports[s])
  <2> DEFINE n == cand[s] + 1
             new == <<s, Transports[s][n]>>
  <2>1. /\ conn' = [conn EXCEPT ![s] = "dial"] /\ cand' = [cand EXCEPT ![s] = n]
        /\ link' = [link EXCEPT ![new] = "dialing"]
    BY <1>4 DEF NextCandidate, Dial
  <2>2. n \in DOMAIN Transports[s] /\ new \in Links /\ new[1] = s
    BY <1>1, <1>4
  <2> HIDE DEF n
  <2>3. conn' = conn
    BY <2>1, <1>1 DEF McpTypes
  <2>4. \A r \in Servers \ {s} : Candidate(r)' = Candidate(r) /\ Candidate(r) # new
    BY <2>1, <2>2, <1>1 DEF Candidate, McpTypes
  <2>5. Candidate(s)' = new
    <3>1. cand'[s] = n
      BY <2>1, <1>1 DEF McpTypes
    <3> QED BY <3>1 DEF Candidate
  <2> HIDE DEF new
  <2>6. McpTypes'
    <3>1. link' \in [Links -> {"none", "dialing", "open", "closing", "closed", "dead"}]
      BY <2>1, <1>1 DEF McpTypes
    <3>2. DOMAIN cand' = Servers /\ \A r \in Servers : cand'[r] \in DOMAIN Transports[r]
      <4>1. \A r \in Servers : cand'[r] = IF r = s THEN n ELSE cand[r]
        BY <2>1, <1>1 DEF McpTypes
      <4>2. DOMAIN cand' = Servers
        BY <2>1, <1>1 DEF McpTypes
      <4> QED BY <4>1, <4>2, <2>2, <1>1 DEF McpTypes
    <3> QED BY <3>1, <3>2, <2>3, <1>1, <1>2 DEF McpTypes
  <2>7. SessionsCame'
    BY <2>1, <2>3, <2>4, <1>1, <1>2, <1>3 DEF ServersInv, SessionsCame, McpTypes
  <2>8. LinksAreOwned'
    <3> SUFFICES ASSUME NEW l \in Links, link'[l] \in {"dialing", "open"},
                        l \notin linkctx', ~Ended
                 PROVE  /\ l = Candidate(l[1])'
                        /\ conn'[l[1]] \in {"dial", "list"} \/ l[1] \in Range(mounted')
      BY DEF LinksAreOwned, LinkEnded
    <3>1. CASE l = new
      BY <3>1, <2>2, <2>3, <2>5
    <3>2. CASE l # new
      <4>1. link[l] \in {"dialing", "open"} /\ l \notin linkctx /\ l # Candidate(s)
        BY <3>2, <2>1, <1>1, <1>2 DEF McpTypes
      <4>2. /\ l = Candidate(l[1])
            /\ conn[l[1]] \in {"dial", "list"} \/ l[1] \in Range(mounted)
        BY <4>1 DEF ServersInv, LinksAreOwned, LinkEnded
      <4>3. l[1] \in Servers \ {s}
        BY <4>1, <4>2, <1>1
      <4> QED BY <4>2, <4>3, <2>3, <2>4, <1>2
    <3> QED BY <3>1, <3>2
  <2> QED BY <2>6, <2>7, <2>8 DEF ServersInv
<1>5. CASE ~(cand[s] < Len(Transports[s]))
  <2>1. conn' = [conn EXCEPT ![s] = "failed"] /\ UNCHANGED <<cand, link>>
    BY <1>5 DEF NextCandidate
  <2>2. \A r \in Servers : Candidate(r)' = Candidate(r)
    BY <2>1 DEF Candidate
  <2>3. McpTypes'
    BY <2>1, <1>1, <1>2 DEF McpTypes
  <2>4. SessionsCame'
    BY <2>1, <2>2, <1>1, <1>2, <1>3 DEF ServersInv, SessionsCame, McpTypes
  <2>5. LinksAreOwned'
    <3> SUFFICES ASSUME NEW l \in Links, link[l] \in {"dialing", "open"},
                        l \notin linkctx, l # Candidate(s), ~Ended
                 PROVE  /\ l = Candidate(l[1])'
                        /\ conn'[l[1]] \in {"dial", "list"} \/ l[1] \in Range(mounted)
      BY <2>1, <1>2 DEF LinksAreOwned, LinkEnded
    <3>1. /\ l = Candidate(l[1])
          /\ conn[l[1]] \in {"dial", "list"} \/ l[1] \in Range(mounted)
      BY DEF ServersInv, LinksAreOwned, LinkEnded
    <3>2. l[1] \in Servers \ {s}
      BY <3>1, <1>1
    <3> QED BY <3>1, <3>2, <2>1, <2>2, <1>1 DEF McpTypes
  <2> QED BY <2>3, <2>4, <2>5 DEF ServersInv
<1> QED BY <1>4, <1>5

\* One step of a server's goroutine.
LEMMA ConnectStepKeeps ==
  ASSUME ServersInv, ConnectStep, ctx' = ctx
  PROVE  ServersInv'
<1> PICK s \in Servers :
         Connected(s) \/ ConnectTimeout(s) \/ Listed(s) \/ ListFails(s) \/ Release(s)
  BY DEF ConnectStep
<1>1. /\ McpTypes /\ SessionsCame /\ LinksAreOwned /\ Range(mounted) \subseteq Servers
      /\ \A r \in Servers : Candidate(r) \in Links /\ Candidate(r)[1] = r
      /\ \A l \in Links : l[1] \in Servers
  BY Candidates, AreServers DEF ServersInv, Links
<1> DEFINE same == \A r \in Servers : Candidate(r)' = Candidate(r)
<1>2. cand' = cand => same
  BY DEF Candidate
<1>3. CASE ConnectTimeout(s) \/ (conn[s] = "dial" /\ NextCandidate(s))
  BY <1>3, NextCandidateKeeps DEF ConnectTimeout
<1>4. CASE conn[s] = "dial" /\ link[Candidate(s)] = "open"
           /\ conn' = [conn EXCEPT ![s] = "list"]
           /\ UNCHANGED <<cand, link, linkctx, mounted, closing, using>>
  <2>1. McpTypes'
    BY <1>1, <1>4 DEF McpTypes
  <2>2. SessionsCame' /\ LinksAreOwned'
    BY <1>1, <1>2, <1>4 DEF SessionsCame, LinksAreOwned, LinkEnded, McpTypes
  <2> QED BY <2>1, <2>2 DEF ServersInv
<1>5. CASE Listed(s)
  <2>1. /\ mounted' \in Seq(Servers) /\ Range(mounted') = Range(mounted) \cup {s}
    BY <1>1, <1>5, Mounting DEF Listed, McpTypes
  <2>2. McpTypes'
    BY <1>1, <1>5, <2>1 DEF Listed, McpTypes
  <2>3. SessionsCame'
    BY <1>1, <1>2, <1>5, <2>1 DEF Listed, SessionsCame, McpTypes
  <2>4. LinksAreOwned'
    BY <1>1, <1>2, <1>5, <2>1 DEF Listed, LinksAreOwned, LinkEnded, McpTypes
  <2> QED BY <2>2, <2>3, <2>4 DEF ServersInv
<1>6. CASE ListFails(s)
  <2> DEFINE mine == Candidate(s)
  <2>1. /\ conn[s] = "list" /\ conn' = [conn EXCEPT ![s] = "release"]
        /\ UNCHANGED <<cand, linkctx, mounted, closing, using>>
        /\ link' = [link EXCEPT ![mine] = IF link[mine] = "open" THEN "closing" ELSE link[mine]]
        /\ mine \in Links /\ mine[1] = s /\ link[mine] \notin {"none", "dialing"} /\ same
    BY <1>1, <1>2, <1>6 DEF ListFails, SessionsCame
  <2> HIDE DEF mine
  <2>2. link'[mine] \notin {"none", "dialing", "open"}
        /\ \A l \in Links \ {mine} : link'[l] = link[l]
        /\ link' \in [Links -> {"none", "dialing", "open", "closing", "closed", "dead"}]
    BY <1>1, <2>1 DEF McpTypes
  <2>3. McpTypes'
    BY <1>1, <2>1, <2>2 DEF McpTypes
  <2>4. SessionsCame'
    <3>1. \A r \in Servers \ {s} : Candidate(r) # mine
      BY <1>1, <2>1
    <3>2. s \notin Range(mounted)
      BY <1>1, <2>1 DEF SessionsCame
    <3> QED BY <1>1, <2>1, <2>2, <3>1, <3>2 DEF SessionsCame, McpTypes
  <2>5. LinksAreOwned'
    <3> SUFFICES ASSUME NEW l \in Links, link'[l] \in {"dialing", "open"},
                        l \notin linkctx, ~Ended
                 PROVE  /\ l = Candidate(l[1])'
                        /\ conn'[l[1]] \in {"dial", "list"} \/ l[1] \in Range(mounted)
      BY <2>1 DEF LinksAreOwned, LinkEnded
    <3>1. l # mine /\ link[l] \in {"dialing", "open"}
      BY <2>2
    <3>2. /\ l = Candidate(l[1])
          /\ conn[l[1]] \in {"dial", "list"} \/ l[1] \in Range(mounted)
      BY <1>1, <3>1 DEF LinksAreOwned, LinkEnded
    <3>3. l[1] \in Servers \ {s}
      BY <3>1, <3>2, <1>1 DEF mine
    <3> QED BY <3>2, <3>3, <2>1, <1>1 DEF McpTypes
  <2> QED BY <2>3, <2>4, <2>5 DEF ServersInv
<1>7. CASE Release(s)
  <2>1. /\ conn[s] = "release" /\ conn' = [conn EXCEPT ![s] = "failed"]
        /\ linkctx' = linkctx \cup {Candidate(s)} /\ Candidate(s) \in Links /\ same
        /\ UNCHANGED <<cand, link, mounted, closing, using>>
    BY <1>1, <1>2, <1>7 DEF Release
  <2>2. McpTypes'
    BY <1>1, <2>1 DEF McpTypes
  <2>3. SessionsCame'
    BY <1>1, <2>1 DEF SessionsCame, McpTypes
  <2>4. LinksAreOwned'
    BY <1>1, <2>1 DEF LinksAreOwned, LinkEnded, McpTypes
  <2> QED BY <2>2, <2>3, <2>4 DEF ServersInv
<1> QED BY <1>3, <1>4, <1>5, <1>6, <1>7 DEF Connected

\* A link that changes by itself does not begin to dial.
LEMMA LinkStepKeeps ==
  ASSUME ServersInv, LinkStep, ctx' = ctx
  PROVE  /\ ServersInv'
         /\ \A l \in Links : link'[l] = "open" => link[l] \in {"dialing", "open"}
<1> PICK l \in Links : LinkOpens(l) \/ LinkBreaks(l) \/ LinkCloses(l) \/ LinkDies(l)
  BY DEF LinkStep
<1>1. UNCHANGED <<conn, cand, linkctx, mounted, closing, using>>
  BY DEF LinkStep
<1>2. \E to \in {"open", "closed", "dead"} :
        /\ link' = [link EXCEPT ![l] = to] /\ link[l] \in {"dialing", "open", "closing"}
        /\ to = "open" => link[l] = "dialing"
  BY DEF LinkOpens, LinkBreaks, LinkCloses, LinkDies
<1> PICK to \in {"open", "closed", "dead"} :
        /\ link' = [link EXCEPT ![l] = to] /\ link[l] \in {"dialing", "open", "closing"}
        /\ to = "open" => link[l] = "dialing"
  BY <1>2
<1>3. McpTypes'
  BY <1>1 DEF ServersInv, McpTypes
<1>4. \A k \in Links : /\ link'[k] \in {"dialing", "open"} => link[k] \in {"dialing", "open"}
                       /\ link'[k] \in {"none", "dialing"} => link[k] \in {"none", "dialing"}
  BY DEF ServersInv, McpTypes
<1>5. \A s \in Servers : Candidate(s)' = Candidate(s) /\ Candidate(s) \in Links
  BY <1>1, Candidates DEF Candidate, ServersInv
<1>6. Range(mounted) \subseteq Servers /\ \A k \in Links : k[1] \in Servers
  BY AreServers DEF ServersInv, Links
<1>7. SessionsCame'
  BY <1>1, <1>4, <1>5, <1>6 DEF ServersInv, SessionsCame
<1>8. LinksAreOwned'
  BY <1>1, <1>4, <1>5, <1>6 DEF ServersInv, LinksAreOwned, LinkEnded
<1> QED BY <1>3, <1>4, <1>7, <1>8 DEF ServersInv

\* Closing a session, and its end.
LEMMA CloseKeeps ==
  ASSUME ServersInv, CloseAll \/ CloseStep, ctx' = ctx
  PROVE  ServersInv' /\ \A l \in Links : link'[l] = "open" => link[l] = "open"
<1>1. /\ UNCHANGED <<conn, cand, mounted, using>> /\ linkctx \subseteq linkctx'
      /\ closing' \subseteq Servers /\ linkctx' \subseteq Links
  <2>1. CASE CloseAll
    BY <2>1, AreServers DEF CloseAll, ServersInv, McpTypes
  <2>2. ASSUME NEW s \in Servers, SessionClosed(s)
        PROVE  /\ UNCHANGED <<conn, cand, mounted, using>> /\ linkctx \subseteq linkctx'
               /\ closing' \subseteq Servers /\ linkctx' \subseteq Links
    BY <2>2, Candidates DEF SessionClosed, ServersInv, McpTypes
  <2> QED BY <2>1, <2>2 DEF CloseStep
<1>2. /\ link' \in [Links -> {"none", "dialing", "open", "closing", "closed", "dead"}]
      /\ \A l \in Links : link'[l] = link[l] \/ (link[l] = "open" /\ link'[l] = "closing")
  BY DEF CloseAll, CloseStep, SessionClosed, ServersInv, McpTypes
<1>3. McpTypes'
  BY <1>1, <1>2 DEF ServersInv, McpTypes
<1>4. \A s \in Servers : Candidate(s)' = Candidate(s) /\ Candidate(s) \in Links
  BY <1>1, Candidates DEF Candidate, ServersInv
<1>5. Range(mounted) \subseteq Servers /\ \A k \in Links : k[1] \in Servers
  BY AreServers DEF ServersInv, Links
<1>6. SessionsCame'
  BY <1>1, <1>2, <1>4, <1>5 DEF ServersInv, SessionsCame
<1>7. LinksAreOwned'
  BY <1>1, <1>2, <1>4, <1>5 DEF ServersInv, LinksAreOwned, LinkEnded
<1> QED BY <1>2, <1>3, <1>6, <1>7 DEF ServersInv

-----------------------------------------------------------------------------
(* The turn *)

\* The phases: nothing before the turn, every server settled after its start,
\* a tool at work only among the tools, and nothing open after the teardown.
PhaseInv ==
  /\ phase \in {"new", "connect", "ask", "tools", "close", "over"}
  /\ phase = "new" => Unconnected
  /\ phase \notin {"new", "connect"} => \A s \in Servers : Settled(s)
  /\ phase # "tools" => using = None /\ \A k \in Calls : ~InExecute(k)
  /\ phase \in {"close", "over"} => \A s \in Range(mounted) : link[Candidate(s)] # "open"

CallsInv == ShellInv /\ ServersInv /\ PhaseInv

LEMMA CallsStep == CallsInv /\ [Next]_vars => CallsInv'
<1> SUFFICES ASSUME CallsInv, [Next]_vars PROVE CallsInv'
  OBVIOUS
<1>1. ShellInv /\ ServersInv /\ PhaseInv /\ Range(mounted) \subseteq Servers
      /\ \A s \in Servers : Candidate(s) \in Links
  BY AreServers, Candidates DEF CallsInv, ServersInv
<1>2. ASSUME UNCHANGED shellVars PROVE ShellInv' /\ \A k \in Calls : InExecute(k)' = InExecute(k)
  BY <1>1, <1>2 DEF ShellInv, Threads, OutcomeIsLast, NoOrphan, Alive, Arrived, Cancelled,
                    InExecute
<1>3. ASSUME UNCHANGED mcpVars, ctx' \in {ctx, "ended"}
      PROVE  /\ ServersInv' /\ \A s \in Servers : Candidate(s)' = Candidate(s) /\ Settled(s)' = Settled(s)
             /\ Unconnected' = Unconnected
  BY <1>1, <1>3 DEF ServersInv, McpTypes, SessionsCame, LinksAreOwned, LinkEnded, Candidate,
                    Settled, Unconnected
<1>4. CASE StartTurn
  <2>1. ServersInv'
    BY <1>1, <1>4, ConnectAllKeeps DEF StartTurn, PhaseInv
  <2>2. PhaseInv'
    BY <1>1, <1>2, <1>4 DEF StartTurn, ConnectAll, PhaseInv
  <2> QED BY <1>2, <1>4, <2>1, <2>2 DEF StartTurn, CallsInv
<1>5. CASE ServersSettled
  <2>1. PhaseInv'
    BY <1>1, <1>2, <1>3, <1>5 DEF ServersSettled, PhaseInv
  <2> QED BY <1>2, <1>3, <1>5, <2>1 DEF ServersSettled, CallsInv
<1>6. ASSUME CloseAll, phase \in {"ask", "tools"}, phase' = "close", UNCHANGED <<ctx, shellVars>>,
             ~Busy
      PROVE  CallsInv'
  <2>1. ServersInv'
    BY <1>1, <1>6, CloseKeeps
  <2>2. \A s \in Servers : Candidate(s)' = Candidate(s) /\ Settled(s)' = Settled(s)
    BY <1>6 DEF CloseAll, Candidate, Settled
  <2>3. \A s \in Range(mounted) : link'[Candidate(s)] # "open"
    <3> SUFFICES ASSUME NEW s \in Range(mounted) PROVE link'[Candidate(s)] # "open"
      OBVIOUS
    <3>1. Candidate(s) \in Links /\ Candidate(s)[1] = s
      BY <1>1, Candidates DEF ServersInv
    <3> QED BY <3>1, <1>6 DEF CloseAll
  <2>4. mounted' = mounted /\ using' = None /\ \A k \in Calls : ~InExecute(k)'
    BY <1>2, <1>6 DEF CloseAll, Busy
  <2>5. PhaseInv'
    BY <1>1, <1>6, <2>2, <2>3, <2>4 DEF PhaseInv
  <2> QED BY <1>2, <1>6, <2>1, <2>5 DEF CallsInv
<1>7. CASE TurnAnswered
  <2>1. ~Busy
    BY <1>1, <1>7 DEF TurnAnswered, PhaseInv, Busy
  <2> QED BY <1>6, <1>7, <2>1 DEF TurnAnswered
<1>8. CASE ToolsCalled
  <2>1. PhaseInv'
    BY <1>1, <1>3, <1>8 DEF ToolsCalled, PhaseInv
  <2> QED BY <1>2, <1>3, <1>8, <2>1 DEF ToolsCalled, CallsInv
<1>9. CASE Dispatch
  <2>1. phase = "tools" /\ UNCHANGED <<ctx, phase>>
    BY <1>9 DEF Dispatch
  <2>2. ASSUME NEW k \in Calls, NEW inBg \in BOOLEAN, Execute(k, inBg), UNCHANGED mcpVars
        PROVE  CallsInv'
    <3>1. ShellInv'
      BY <1>1, <2>2, ExecuteKeeps
    <3>2. PhaseInv'
      BY <1>1, <1>3, <2>1, <2>2 DEF PhaseInv
    <3> QED BY <1>3, <2>1, <2>2, <3>1, <3>2 DEF CallsInv
  <2>3. ASSUME NEW s \in Servers, CallTool(s), UNCHANGED shellVars PROVE CallsInv'
    <3>1. ServersInv' /\ \A r \in Servers : Settled(r)' = Settled(r)
      BY <1>1, <2>1, <2>3 DEF CallTool, ServersInv, McpTypes, SessionsCame, LinksAreOwned,
                              LinkEnded, Candidate, Settled
    <3>2. PhaseInv'
      BY <1>1, <2>1, <3>1 DEF PhaseInv
    <3> QED BY <1>2, <2>3, <3>1, <3>2 DEF CallsInv
  <2>4. CASE UNCHANGED <<mcpVars, shellVars>>
    <3>1. PhaseInv'
      BY <1>1, <1>3, <2>1, <2>4 DEF PhaseInv
    <3> QED BY <1>2, <1>3, <2>1, <2>4, <3>1 DEF CallsInv
  <2> QED BY <1>9, <2>2, <2>3, <2>4 DEF Dispatch
<1>10. CASE NextStep
  <2>1. phase = "tools" /\ ~Busy /\ UNCHANGED <<ctx, shellVars>>
    BY <1>10 DEF NextStep
  <2>2. CASE phase' = "ask" /\ UNCHANGED mcpVars
    <3>1. PhaseInv'
      BY <1>1, <1>2, <1>3, <2>1, <2>2 DEF PhaseInv, Busy
    <3> QED BY <1>2, <1>3, <2>1, <2>2, <3>1 DEF CallsInv
  <2>3. CASE phase' = "close" /\ CloseAll
    BY <1>6, <2>1, <2>3
  <2> QED BY <1>10, <2>2, <2>3 DEF NextStep
<1>11. CASE TurnOver
  <2>1. PhaseInv'
    BY <1>1, <1>2, <1>3, <1>11 DEF TurnOver, PhaseInv
  <2> QED BY <1>2, <1>3, <1>11, <2>1 DEF TurnOver, CallsInv
<1>12. CASE Remote /\ UNCHANGED <<ctx, turnVars>>
  <2>1. CASE UNCHANGED <<mcpVars, shellVars>>
    <3>1. PhaseInv'
      BY <1>1, <1>2, <1>3, <1>12, <2>1 DEF PhaseInv
    <3> QED BY <1>2, <1>3, <1>12, <2>1, <3>1 DEF CallsInv
  <2>2. CASE ShellStep /\ UNCHANGED mcpVars
    <3>1. ShellInv' /\ \A k \in Calls : InExecute(k)' => InExecute(k)
      BY <1>1, <2>2, ShellStepKeeps
    <3>2. PhaseInv'
      BY <1>1, <1>3, <1>12, <2>2, <3>1 DEF PhaseInv
    <3> QED BY <1>3, <1>12, <2>2, <3>1, <3>2 DEF CallsInv
  <2>3. CASE ConnectStep /\ UNCHANGED shellVars
    <3>1. ServersInv'
      BY <1>1, <1>12, <2>3, ConnectStepKeeps
    <3>2. \E s \in Servers : conn[s] # "rest" /\ ~Settled(s)
      BY <2>3 DEF ConnectStep, Connected, ConnectTimeout, Listed, ListFails, Release, Settled
    <3>3. phase = "connect" /\ phase' = "connect"
      BY <1>1, <1>12, <3>2 DEF PhaseInv, Unconnected
    <3>4. using' = using
      BY <2>3 DEF ConnectStep, Connected, ConnectTimeout, Listed, ListFails, Release,
                  NextCandidate
    <3>5. PhaseInv'
      BY <1>1, <1>2, <2>3, <3>3, <3>4 DEF PhaseInv
    <3> QED BY <1>2, <2>3, <3>1, <3>5 DEF CallsInv
  <2>4. CASE LinkStep /\ UNCHANGED shellVars
    <3>1. ServersInv' /\ \A l \in Links : link'[l] = "open" => link[l] \in {"dialing", "open"}
      BY <1>1, <1>12, <2>4, LinkStepKeeps
    <3>2. UNCHANGED <<conn, cand, mounted, using>> /\ phase' = phase
      BY <1>12, <2>4 DEF LinkStep
    <3>3. phase # "new"
      BY <1>1, <2>4 DEF LinkStep, LinkOpens, LinkBreaks, LinkCloses, LinkDies, PhaseInv,
                        Unconnected
    <3>4. \A s \in Servers : Candidate(s)' = Candidate(s) /\ Settled(s)' = Settled(s)
      BY <3>2 DEF Candidate, Settled
    <3>5. ASSUME phase \in {"close", "over"}, NEW s \in Range(mounted)
          PROVE  link'[Candidate(s)] # "open"
      <4>1. link[Candidate(s)] \notin {"dialing", "open"}
        BY <1>1, <3>5 DEF PhaseInv, ServersInv, SessionsCame
      <4> QED BY <1>1, <3>1, <3>5, <4>1
    <3>6. PhaseInv'
      BY <1>1, <1>2, <2>4, <3>2, <3>3, <3>4, <3>5 DEF PhaseInv
    <3> QED BY <1>2, <2>4, <3>1, <3>6 DEF CallsInv
  <2>5. CASE CloseStep /\ UNCHANGED shellVars
    <3>1. ServersInv'
      BY <1>1, <1>12, <2>5, CloseKeeps
    <3>2. UNCHANGED <<conn, cand, mounted, using, link>> /\ phase' = phase
      BY <1>12, <2>5 DEF CloseStep, SessionClosed
    <3>3. \A s \in Servers : Candidate(s)' = Candidate(s) /\ Settled(s)' = Settled(s)
      BY <3>2 DEF Candidate, Settled
    <3>4. PhaseInv'
      BY <1>1, <1>2, <2>5, <3>2, <3>3 DEF PhaseInv, Unconnected
    <3> QED BY <1>2, <2>5, <3>1, <3>4 DEF CallsInv
  <2>6. CASE ToolReturns /\ UNCHANGED shellVars
    <3>1. UNCHANGED <<conn, cand, link, linkctx, mounted, closing, ctx, phase>> /\ using' = None
      BY <1>12, <2>6 DEF ToolReturns
    <3>2. \A s \in Servers : Candidate(s)' = Candidate(s) /\ Settled(s)' = Settled(s)
      BY <3>1 DEF Candidate, Settled
    <3>3. ServersInv'
      <4>1. McpTypes'
        BY <1>1, <3>1 DEF ServersInv, McpTypes
      <4>2. SessionsCame'
        BY <1>1, <3>1, <3>2 DEF ServersInv, SessionsCame
      <4>3. LinksAreOwned'
        BY <1>1, <3>1 DEF ServersInv, LinksAreOwned, LinkEnded, Candidate
      <4> QED BY <4>1, <4>2, <4>3 DEF ServersInv
    <3>4. PhaseInv'
      BY <1>1, <1>2, <2>6, <3>1, <3>2 DEF PhaseInv, Unconnected
    <3> QED BY <1>2, <2>6, <3>3, <3>4 DEF CallsInv
  <2> QED BY <1>12, <2>1, <2>2, <2>3, <2>4, <2>5, <2>6 DEF Remote
<1>13. CASE EndContext /\ UNCHANGED <<turnVars, completionVars, mcpVars, shellVars>>
  <2>1. PhaseInv'
    BY <1>1, <1>2, <1>3, <1>13 DEF PhaseInv
  <2> QED BY <1>2, <1>3, <1>13, <2>1 DEF CallsInv
<1>14. CASE UNCHANGED vars
  <2>1. PhaseInv'
    BY <1>1, <1>2, <1>3, <1>14 DEF PhaseInv
  <2> QED BY <1>2, <1>3, <1>14, <2>1 DEF CallsInv
<1> QED BY <1>4, <1>5, <1>7, <1>8, <1>9, <1>10, <1>11, <1>12, <1>13, <1>14 DEF Next

-----------------------------------------------------------------------------
(* The theorems *)

\* CallsInv is an invariant of the turn with its servers and commands.
THEOREM CallsInvariance == Spec => []CallsInv
<1>1. Init => CallsInv
  <2> SUFFICES ASSUME Init PROVE CallsInv
    OBVIOUS
  <2>1. ShellInv
    BY DEF Init, ShellInit, ShellInv, Threads, OutcomeIsLast, NoOrphan, Alive, Arrived
  <2>2. mounted = <<>> /\ mounted \in Seq(Servers) /\ Range(mounted) = {}
    BY EmptySeq DEF Init, McpInit, Range
  <2>3. \A s \in Servers : 1 \in DOMAIN Transports[s]
    BY McpAssumption
  <2>4. McpTypes
    BY <2>2, <2>3 DEF Init, McpInit, McpTypes
  <2>5. ServersInv
    BY <2>2, <2>4 DEF Init, McpInit, ServersInv, SessionsCame, LinksAreOwned
  <2>6. PhaseInv
    BY <2>2 DEF Init, McpInit, ShellInit, PhaseInv, Unconnected, InExecute
  <2> QED BY <2>1, <2>5, <2>6 DEF CallsInv
<1> QED BY <1>1, CallsStep, PTL DEF Spec

\* For any number of shell calls, timeouts and ends of the turn: a command that
\* runs is awaited by its call, watched in the background or about to be killed
\* (Execute, watchBgProcess).
THEOREM NoCommandIsOrphaned == Spec => []NoOrphan
<1>1. CallsInv => NoOrphan
  BY DEF CallsInv, ShellInv
<1> QED BY <1>1, CallsInvariance, PTL

\* For any number of servers and candidates: a session on a live context is being
\* connected or is mounted, and when the turn is over none was left open
\* (connectMCPServer, closeMCPSessions).
THEOREM LinksReleased == Spec => []LinksAreReleased
<1>1. CallsInv => LinksAreReleased
  <2> SUFFICES ASSUME CallsInv PROVE LinksAreReleased
    OBVIOUS
  <2>1. LinksAreOwned /\ NoOrphan /\ PhaseInv
    BY DEF CallsInv, ServersInv, ShellInv
  <2>2. TurnHoldsNothing
    BY <2>1 DEF TurnHoldsNothing, PhaseInv, NoOrphan, InExecute
  <2> QED BY <2>1, <2>2 DEF LinksAreReleased
<1> QED BY <1>1, CallsInvariance, PTL

-----------------------------------------------------------------------------
(* Commands in the background *)

\* A call that was given up is over, an exit file is read of a command that
\* ended, and a running command whose context is cancelled was given up or lost
\* its stream.
KillInv ==
  /\ DOMAIN reply = Calls
  /\ \A k \in Calls :
       /\ reply[k] \in {"aborted", "nopid"} => call[k] = "over"
       /\ run[k] = "exitfile" => ~Alive(k)
       /\ call[k] = "new" => ~Cancelled(k)
       /\ Alive(k) /\ Cancelled(k) => reply[k] \in {"aborted", "nopid"} \/ k \in broke

LEMMA KillExecuteStep ==
  ASSUME Threads, KillInv, OutcomeIsLast, NEW k \in Calls, ExecuteStep(k)
  PROVE  KillInv'
<1> USE DEF Threads, KillInv, OutcomeIsLast, Alive, Arrived, Cancelled, Reply
<1>1. UNCHANGED <<cmd, run, broke>>
  BY DEF ExecuteStep
<1>2. ASSUME NEW what \in {"nopid", "aborted"}, GiveUp(k, what) PROVE KillInv'
  BY <1>1, <1>2 DEF GiveUp
<1>3. ASSUME TakeOutcome(k), call[k] \in {"spawn", "window"} PROVE KillInv'
  <2>1. runctx' = runctx
    BY <1>3 DEF TakeOutcome
  <2>2. \/ call' = [call EXCEPT ![k] = "over"] /\ reply' = [reply EXCEPT ![k] = "error"]
        \/ call' = [call EXCEPT ![k] = "readback"] /\ reply' = reply
    BY <1>3 DEF TakeOutcome
  <2>3. reply[k] \notin {"aborted", "nopid"}
    BY <1>3
  <2> QED BY <1>1, <1>3, <2>1, <2>2, <2>3
<1>4. ASSUME MoveToBackground(k), call[k] \in {"spawn", "window"} PROVE KillInv'
  BY <1>1, <1>4 DEF MoveToBackground
<1>5. CASE GotPid(k)
  <2>1. CASE bg[k]
    BY <1>4, <1>5, <2>1 DEF GotPid
  <2>2. CASE ~bg[k]
    BY <1>1, <1>5, <2>2 DEF GotPid
  <2> QED BY <2>1, <2>2
<1>6. CASE EarlyOutcome(k) \/ WindowOutcome(k)
  BY <1>3, <1>6 DEF EarlyOutcome, WindowOutcome
<1>7. CASE PidTimeout(k) \/ AbortSpawn(k) \/ AbortWindow(k)
  BY <1>2, <1>7 DEF PidTimeout, AbortSpawn, AbortWindow
<1>8. CASE WindowPasses(k)
  BY <1>3, <1>4, <1>8 DEF WindowPasses
<1>9. CASE ReadBack(k)
  BY <1>1, <1>9 DEF ReadBack
<1> QED BY <1>5, <1>6, <1>7, <1>8, <1>9 DEF ExecuteStep

LEMMA KillShellStep ==
  ASSUME Threads, KillInv, OutcomeIsLast, ShellStep
  PROVE  KillInv'
<1> USE DEF Threads, KillInv, OutcomeIsLast, Alive, Cancelled
<1>1. ASSUME NEW k \in Calls, ExecuteStep(k) PROVE KillInv'
  BY <1>1, KillExecuteStep
<1>2. ASSUME NEW k \in Calls, RunnerStep(k) PROVE KillInv'
  <2>1. UNCHANGED <<call, cmd, reply>>
    BY <1>2 DEF RunnerStep
  <2>2. CASE StreamEnds(k)
    BY <2>1, <2>2 DEF StreamEnds
  <2>3. CASE StreamFails(k)
    BY <2>1, <2>3 DEF StreamFails, Finish
  <2>4. CASE ReadExitFile(k)
    <3>1. /\ run' = [run EXCEPT ![k] = "finished"] /\ broke' = broke
          /\ runctx' = [runctx EXCEPT ![k] = "cancelled"] /\ run[k] = "exitfile"
      BY <2>4 DEF ReadExitFile, Finish
    <3> QED BY <2>1, <3>1
  <2> QED BY <1>2, <2>2, <2>3, <2>4 DEF RunnerStep
<1>3. ASSUME NEW k \in Calls, Watch(k) PROVE KillInv'
  BY <1>3 DEF Watch
<1>4. CASE SandboxStep
  <2>1. UNCHANGED <<call, run, runctx, reply, broke>>
    BY <1>4 DEF SandboxStep, Spawn, Kill, CommandEnds, CommandLeaves, LoseSandbox, Keep
  <2>2. ASSUME NEW k \in Calls, Spawn(k) \/ Kill(k) PROVE KillInv'
    BY <2>1, <2>2 DEF Spawn, Kill
  <2>3. ASSUME NEW k \in Calls, NEW code, NEW dir,
               CommandEnds(k, code, dir) \/ CommandLeaves(k, code, dir)
        PROVE  KillInv'
    BY <2>1, <2>3 DEF CommandEnds, CommandLeaves
  <2>4. CASE LoseSandbox
    <3>1. \A k \in Calls : Alive(k)' => Alive(k)
      BY <2>4 DEF LoseSandbox
    <3> QED BY <2>1, <3>1
  <2>5. CASE \E k \in Calls : Spawn(k) \/ Kill(k)
    BY <2>2, <2>5
  <2>6. CASE \E k \in Calls, code \in Codes :
               \/ \E dir \in Dirs : CommandEnds(k, code, dir)
               \/ \E dir \in Dirs \cup {Nowhere} : CommandLeaves(k, code, dir)
    BY <2>3, <2>6
  <2> QED BY <1>4, <2>4, <2>5, <2>6 DEF SandboxStep
<1> QED BY <1>1, <1>2, <1>3, <1>4 DEF ShellStep

\* Only the sandbox's kill makes a command killed.
LEMMA OnlyKillKills ==
  ASSUME Threads, ShellStep, NEW k \in Calls, cmd[k] # "killed", cmd'[k] = "killed"
  PROVE  Alive(k) /\ Cancelled(k)
<1>1. ASSUME NEW j \in Calls, ExecuteStep(j) \/ RunnerStep(j) \/ Watch(j) PROVE cmd' = cmd
  BY <1>1 DEF ExecuteStep, RunnerStep, Watch
<1>2. SandboxStep
  BY <1>1 DEF ShellStep
<1>3. ASSUME NEW j \in Calls, Spawn(j) \/ Kill(j) PROVE Alive(k) /\ Cancelled(k)
  BY <1>3 DEF Spawn, Kill, Threads
<1>4. ASSUME NEW j \in Calls, NEW code, NEW dir,
             CommandEnds(j, code, dir) \/ CommandLeaves(j, code, dir)
      PROVE  Alive(k) /\ Cancelled(k)
  BY <1>4 DEF CommandEnds, CommandLeaves, Threads
<1>5. ~LoseSandbox
  <2>1. ASSUME LoseSandbox PROVE FALSE
    <3>1. cmd' = [j \in Calls |-> IF Alive(j) THEN "lost" ELSE cmd[j]]
      BY <2>1 DEF LoseSandbox
    <3> QED BY <3>1
  <2> QED BY <2>1
<1>6. CASE \E j \in Calls : Spawn(j) \/ Kill(j)
  BY <1>3, <1>6
<1>7. CASE \E j \in Calls, code \in Codes :
             \/ \E dir \in Dirs : CommandEnds(j, code, dir)
             \/ \E dir \in Dirs \cup {Nowhere} : CommandLeaves(j, code, dir)
  BY <1>4, <1>7
<1> QED BY <1>2, <1>5, <1>6, <1>7 DEF SandboxStep

\* A step of the turn starts a command or is one of the shell's, or leaves the
\* shell alone.
LEMMA ShellMoves ==
  ASSUME [Next]_vars
  PROVE  \/ \E k \in Calls, inBg \in BOOLEAN : Execute(k, inBg)
         \/ ShellStep
         \/ UNCHANGED shellVars
BY DEF Next, StartTurn, ServersSettled, TurnAnswered, ToolsCalled, Dispatch, NextStep,
       TurnOver, Remote

\* Commands in the background keep running when the turn ends: only a call that
\* was given up, or a stream that broke, kills one (runCtx of Execute).
THEOREM BackgroundOutlivesTurn == Spec => BackgroundSurvives
<1>1. Init => KillInv
  BY DEF Init, ShellInit, KillInv, Alive, Cancelled
<1>2. CallsInv /\ KillInv /\ [Next]_vars => KillInv'
  <2> SUFFICES ASSUME CallsInv, KillInv, [Next]_vars PROVE KillInv'
    OBVIOUS
  <2>1. Threads /\ OutcomeIsLast
    BY DEF CallsInv, ShellInv
  <2>2. ASSUME NEW k \in Calls, NEW inBg \in BOOLEAN, Execute(k, inBg) PROVE KillInv'
    BY <2>1, <2>2 DEF Execute, Threads, KillInv, Alive, Cancelled
  <2>3. CASE UNCHANGED shellVars
    BY <2>3 DEF KillInv, Alive, Cancelled
  <2> QED BY <2>1, <2>2, <2>3, ShellMoves, KillShellStep
<1>3. CallsInv /\ KillInv /\ [Next]_vars =>
        [\A k \in Calls : cmd[k] # "killed" /\ cmd'[k] = "killed" =>
           reply[k] \in {"aborted", "nopid"} \/ k \in broke]_<<ctx, shellVars>>
  <2> SUFFICES ASSUME CallsInv, KillInv, [Next]_vars, NEW k \in Calls,
                      cmd[k] # "killed", cmd'[k] = "killed"
               PROVE  reply[k] \in {"aborted", "nopid"} \/ k \in broke
    OBVIOUS
  <2>1. Threads
    BY DEF CallsInv, ShellInv
  <2>2. ASSUME NEW j \in Calls, NEW inBg \in BOOLEAN, Execute(j, inBg) PROVE FALSE
    BY <2>1, <2>2 DEF Execute, Threads
  <2>3. ShellStep
    BY <2>2, ShellMoves
  <2> QED BY <2>1, <2>3, OnlyKillKills DEF KillInv
<1>4. Spec => [](CallsInv /\ KillInv)
  BY <1>1, <1>2, CallsInvariance, PTL DEF Spec
<1> QED BY <1>3, <1>4, PTL DEF Spec, BackgroundSurvives

-----------------------------------------------------------------------------
(* The model's answer *)

\* What a prefix of the pieces is.
LEMMA FirstOfFacts ==
  ASSUME NEW n \in Absent..MaxPieces
  PROVE  /\ FirstOf(n) \in Seq(1..MaxPieces)
         /\ Len(FirstOf(n)) = IF 0 <= n THEN n ELSE 0
         /\ \A i \in 1..n : FirstOf(n)[i] = i
<1>1. n \in Int /\ n <= MaxPieces /\ -1 <= n /\ MaxPieces \in Nat
  BY CompletionAssumption DEF Absent
<1>2. \A i \in 1..n : Pieces[i] = i /\ Pieces[i] \in 1..MaxPieces
  BY <1>1 DEF Pieces
<1>3. /\ SubSeq(Pieces, 1, n) \in Seq(1..MaxPieces)
      /\ Len(SubSeq(Pieces, 1, n)) = IF 1 <= n THEN n - 1 + 1 ELSE 0
      /\ \A i \in 1..(n - 1 + 1) : SubSeq(Pieces, 1, n)[i] = Pieces[1 + i - 1]
  BY <1>1, <1>2, SubSeqProperties
<1>4. /\ n - 1 + 1 = n
      /\ \A i \in 1..n : 1 + i - 1 = i
  BY <1>1
<1> QED BY <1>1, <1>2, <1>3, <1>4 DEF FirstOf

LEMMA FirstOfNone == FirstOf(0) = <<>> /\ FirstOf(Absent) = <<>>
BY SubSeqEmpty DEF FirstOf, Absent

\* The next piece makes the next prefix.
LEMMA OneMore ==
  ASSUME NEW n \in 0..MaxPieces, n < MaxPieces
  PROVE  /\ Append(FirstOf(n), n + 1) = FirstOf(n + 1)
         /\ FirstOf(n) \o <<n + 1>> = FirstOf(n + 1)
<1>1. MaxPieces \in Nat /\ n \in Nat /\ n + 1 \in 1..MaxPieces
      /\ n \in Absent..MaxPieces /\ n + 1 \in Absent..MaxPieces
  BY CompletionAssumption DEF Absent
<1>2. PICK s, t : s = FirstOf(n) /\ t = FirstOf(n + 1)
  OBVIOUS
<1>3. /\ s \in Seq(1..MaxPieces) /\ Len(s) = n /\ \A i \in 1..n : s[i] = i
      /\ t \in Seq(1..MaxPieces) /\ Len(t) = n + 1 /\ \A i \in 1..(n + 1) : t[i] = i
  BY <1>1, <1>2, FirstOfFacts
<1>4. /\ Append(s, n + 1) \in Seq(1..MaxPieces) /\ Len(Append(s, n + 1)) = n + 1
      /\ \A i \in 1..n : Append(s, n + 1)[i] = i
      /\ Append(s, n + 1)[n + 1] = n + 1
  BY <1>1, <1>3, AppendProperties
<1>5. \A i \in 1..(n + 1) : Append(s, n + 1)[i] = t[i]
  <2>1. \A i \in 1..(n + 1) : i \in 1..n \/ i = n + 1
    BY <1>1
  <2> QED BY <1>3, <1>4, <2>1
<1>6. Append(s, n + 1) = t
  BY <1>3, <1>4, <1>5, SeqEqual
<1>7. Append(s, n + 1) = s \o <<n + 1>>
  BY <1>1, <1>3, AppendIsConcat
<1> QED BY <1>2, <1>6, <1>7

\* The parts of a reply have a length each.
LEMMA AmountFacts ==
  ASSUME NEW a \in Amounts
  PROVE  /\ a.text \in 0..MaxPieces /\ a.text \in Absent..MaxPieces
         /\ a.args \in [Indexes -> Absent..MaxPieces]
         /\ a = [text |-> a.text, args |-> a.args]
BY CompletionAssumption DEF Amounts, Absent

LEMMA NothingFacts == Nothing \in Amounts /\ Opened(Nothing) = {}
BY CompletionAssumption DEF Nothing, Amounts, Opened, Absent

\* A request starts from nothing.
LEMMA FreshReply ==
  ASSUME Fresh, ask' \in {"idle", "post"}
  PROVE  ReplyInv'
<1>1. /\ attempt' = 0 /\ draft' = Nothing /\ sent' = Nothing /\ text' = <<>>
      /\ calls' = NoCalls /\ finish' = FALSE /\ heard' = <<>>
  BY DEF Fresh
<1>2. CompletionTypes'
  <2>1. <<>> \in Seq(1..MaxPieces)
    BY EmptySeq
  <2>2. DOMAIN NoCalls \subseteq Indexes
    BY DEF NoCalls
  <2>3. 0 \in 0..MaxRetries
    BY CompletionAssumption
  <2> QED BY <1>1, <2>1, <2>2, <2>3, NothingFacts DEF CompletionTypes
<1>3. text' = FirstOf(sent'.text)
  BY <1>1, FirstOfNone DEF Nothing
<1>4. calls' = [i \in Gathered' |-> FirstOf(sent'.args[i])]
  <2>1. Gathered' = {}
    BY <1>1, NothingFacts DEF Gathered
  <2> QED BY <1>1, <2>1 DEF NoCalls
<1>5. sent'.text <= draft'.text /\ \A i \in Indexes : sent'.args[i] <= draft'.args[i]
  BY <1>1, CompletionAssumption DEF Nothing, Absent
<1>6. ask' # "ok" /\ ask' # "backoff"
  OBVIOUS
<1> QED BY <1>1, <1>2, <1>3, <1>4, <1>5, <1>6 DEF ReplyInv, AnswersAreWhole

\* The indexes below one.
Below(S, i) == {j \in S : j < i}

\* Ordered sorts: every index has its place, before the greater ones.
LEMMA OrderedFacts ==
  ASSUME NEW S \in SUBSET Indexes
  PROVE  /\ Cardinality(S) \in Nat /\ DOMAIN Ordered(S) = 1..Cardinality(S)
         /\ \A n \in 1..Cardinality(S) : Ordered(S)[n] \in S
         /\ \A m, n \in 1..Cardinality(S) : m < n => Ordered(S)[m] < Ordered(S)[n]
<1>1. IsFiniteSet(S) /\ S \in SUBSET Int
  BY CompletionAssumption, FS_Subset
<1>2. PICK card : card = Cardinality(S)
  OBVIOUS
<1>3. card \in Nat
  BY <1>1, <1>2, FS_CardinalityType
<1>4. ASSUME NEW i \in S
      PROVE  /\ IsFiniteSet(Below(S, i)) /\ Cardinality(Below(S, i)) \in Nat
             /\ Cardinality(Below(S, i)) \in 0..(card - 1)
  <2>1. Below(S, i) \in SUBSET S /\ Below(S, i) # S
    BY <1>1 DEF Below
  <2>2. /\ IsFiniteSet(Below(S, i)) /\ Cardinality(Below(S, i)) <= card
        /\ Cardinality(Below(S, i)) # card
    BY <1>1, <1>2, <2>1, FS_Subset
  <2>3. Cardinality(Below(S, i)) \in Nat
    BY <2>2, FS_CardinalityType
  <2> QED BY <1>3, <2>2, <2>3
<1>5. ASSUME NEW i \in S, NEW j \in S, i < j
      PROVE  Cardinality(Below(S, i)) < Cardinality(Below(S, j))
  <2>1. Below(S, i) \in SUBSET Below(S, j) /\ i \in Below(S, j) /\ i \notin Below(S, i)
    <3>1. i \in Int /\ j \in Int /\ \A k \in S : k \in Int
      BY <1>1
    <3>2. ~(i < i) /\ \A k \in S : k < i => k < j
      BY <1>5, <3>1
    <3> QED BY <1>5, <3>2 DEF Below
  <2>2. /\ Cardinality(Below(S, i)) <= Cardinality(Below(S, j))
        /\ Cardinality(Below(S, i)) # Cardinality(Below(S, j))
    BY <1>4, <2>1, FS_Subset
  <2> QED BY <1>4, <2>2
<1>6. PICK rank : rank = [i \in S |-> Cardinality(Below(S, i))]
  OBVIOUS
<1>7. rank \in Injection(S, 0..(card - 1))
  <2>1. rank \in [S -> 0..(card - 1)]
    BY <1>4, <1>6
  <2>2. ASSUME NEW i \in S, NEW j \in S, rank[i] = rank[j] PROVE i = j
    <3>1. rank[i] \in Nat /\ rank[i] = Cardinality(Below(S, i)) /\ rank[j] = Cardinality(Below(S, j))
      BY <1>4, <1>6
    <3>2. PICK r : r = Cardinality(Below(S, i)) /\ r = Cardinality(Below(S, j))
      BY <2>2, <3>1
    <3>3. r \in Nat
      BY <1>4, <3>2
    <3>4. ~(r < r)
      BY <3>3
    <3>5. ~(i < j) /\ ~(j < i)
      BY <1>5, <3>2, <3>4
    <3>6. i \in Int /\ j \in Int
      BY <1>1
    <3> QED BY <3>5, <3>6
  <2> QED BY <2>1, <2>2 DEF Injection, IsInjective
<1>8. rank \in Surjection(S, 0..(card - 1))
  <2>1. 0 \in Int /\ card - 1 \in Int
    BY <1>3
  <2>2. IsFiniteSet(0..(card - 1))
    BY <2>1, FS_Interval
  <2>3. Cardinality(0..(card - 1)) = card
    <3>1. Cardinality(0..(card - 1)) = IF 0 > card - 1 THEN 0 ELSE card - 1 - 0 + 1
      BY <2>1, FS_Interval
    <3> QED BY <1>3, <3>1
  <2> QED BY <1>2, <1>7, <2>2, <2>3, FS_Injection
<1>9. ASSUME NEW n \in 1..card
      PROVE  Ordered(S)[n] \in S /\ Cardinality(Below(S, Ordered(S)[n])) = n - 1
  <2>1. n - 1 \in 0..(card - 1)
    BY <1>3
  <2>2. \E i \in S : rank[i] = n - 1
    BY <1>8, <2>1 DEF Surjection
  <2>3. \E i \in S : Cardinality(Below(S, i)) = n - 1
    BY <1>6, <2>2
  <2>4. Ordered(S)[n] = CHOOSE i \in S : Cardinality(Below(S, i)) = n - 1
    BY <1>2 DEF Ordered, Below
  <2> QED BY <2>3, <2>4
<1>10. ASSUME NEW m \in 1..card, NEW n \in 1..card, m < n
       PROVE  Ordered(S)[m] < Ordered(S)[n]
  <2>1. PICK i, j : i = Ordered(S)[m] /\ j = Ordered(S)[n]
    OBVIOUS
  <2>2. /\ i \in S /\ j \in S
        /\ Cardinality(Below(S, i)) = m - 1 /\ Cardinality(Below(S, j)) = n - 1
    BY <1>9, <2>1
  <2>3. m - 1 < n - 1 /\ ~(n - 1 < m - 1) /\ m - 1 # n - 1
    BY <1>3, <1>10
  <2>4. ~(j < i) /\ i # j
    BY <1>5, <2>2, <2>3
  <2> QED BY <1>1, <2>1, <2>2, <2>4
<1> QED BY <1>2, <1>3, <1>9, <1>10 DEF Ordered

\* No action but the end of the request touches what is put together.
LEMMA QuietReply ==
  ASSUME ReplyInv, UNCHANGED <<draft, sent, text, calls, finish, heard, answer>>,
         ask' \notin {"ok"}, ask' \in {"post", "backoff", "err"},
         ask \in {"post", "backoff", "stream"},
         ask' \in {"post", "backoff"} => ask \in {"post", "backoff"},
         attempt' \in 0..MaxRetries, ask' = "backoff" => attempt' < MaxRetries
  PROVE  ReplyInv'
<1>1. CompletionTypes'
  BY DEF ReplyInv, CompletionTypes
<1>2. Gathered' = Gathered
  BY DEF Gathered, Opened
<1>3. /\ text' = FirstOf(sent'.text) /\ heard' = text'
      /\ calls' = [i \in Gathered' |-> FirstOf(sent'.args[i])]
      /\ sent'.text <= draft'.text /\ \A i \in Indexes : sent'.args[i] <= draft'.args[i]
      /\ finish' => sent' = draft'
      /\ ask' \in {"post", "backoff"} => sent' = Nothing /\ ~finish'
  BY <1>2 DEF ReplyInv
<1> QED BY <1>1, <1>3 DEF ReplyInv, AnswersAreWhole

\* The provider's answer begins.
LEMMA OpensReply ==
  ASSUME ReplyInv, StreamOpens
  PROVE  ReplyInv'
<1>1. /\ sent = Nothing /\ ~finish /\ ask' = "stream" /\ draft' \in Amounts /\ attempt' = 0
      /\ UNCHANGED <<sent, text, calls, finish, heard, answer>>
  BY DEF ReplyInv, StreamOpens
<1>2. CompletionTypes'
  BY <1>1, CompletionAssumption DEF ReplyInv, CompletionTypes
<1>3. Gathered' = Gathered
  BY <1>1 DEF Gathered, Opened
<1>4. sent'.text <= draft'.text /\ \A i \in Indexes : sent'.args[i] <= draft'.args[i]
  <2>1. /\ draft'.text \in 0..MaxPieces
        /\ \A i \in Indexes : draft'.args[i] \in Absent..MaxPieces
    BY <1>1, AmountFacts
  <2>2. sent'.text = 0 /\ \A i \in Indexes : sent'.args[i] = Absent
    BY <1>1 DEF Nothing
  <2> QED BY <2>1, <2>2, CompletionAssumption DEF Absent
<1> QED BY <1>1, <1>2, <1>3, <1>4 DEF ReplyInv, AnswersAreWhole

\* A whole answer in one piece.
LEMMA JSONReply ==
  ASSUME ReplyInv, JSONAnswer
  PROVE  ReplyInv'
<1>1. /\ sent = Nothing /\ ~finish /\ ask' \in {"err", "ok"} /\ draft' \in Amounts
      /\ UNCHANGED <<attempt, sent, text, calls, finish, heard>>
  BY DEF ReplyInv, JSONAnswer
<1>2. CompletionTypes'
  BY <1>1 DEF ReplyInv, CompletionTypes
<1>3. Gathered' = Gathered
  BY <1>1 DEF Gathered, Opened
<1>4. sent'.text <= draft'.text /\ \A i \in Indexes : sent'.args[i] <= draft'.args[i]
  <2>1. /\ draft'.text \in 0..MaxPieces
        /\ \A i \in Indexes : draft'.args[i] \in Absent..MaxPieces
    BY <1>1, AmountFacts
  <2>2. sent'.text = 0 /\ \A i \in Indexes : sent'.args[i] = Absent
    BY <1>1 DEF Nothing
  <2> QED BY <2>1, <2>2, CompletionAssumption DEF Absent
<1>5. AnswersAreWhole'
  <2> SUFFICES ASSUME ask' = "ok" PROVE AnswersAreWhole'
    BY DEF AnswersAreWhole
  <2>1. /\ Opened(draft') \subseteq Nat
        /\ answer' = [text  |-> FirstOf(draft'.text),
                      calls |-> [n \in DOMAIN Ordered(Opened(draft')) |->
                         FirstOf(draft'.args[Ordered(Opened(draft'))[n]])]]
    BY DEF JSONAnswer
  <2>2. Valid' = Opened(draft') /\ Valid' \in SUBSET Indexes
    BY <2>1 DEF Valid, Opened
  <2>3. Cardinality(Valid') \in Nat /\ DOMAIN Ordered(Valid') = 1..Cardinality(Valid')
    BY <2>2, OrderedFacts
  <2>4. PICK card : card = Cardinality(Valid')
    OBVIOUS
  <2>5. answer'.calls = [n \in 1..card |-> FirstOf(draft'.args[Ordered(Valid')[n]])]
    BY <2>1, <2>2, <2>3, <2>4
  <2>6. card \in Nat
    BY <2>3, <2>4
  <2>7. Len(answer'.calls) = card /\ DOMAIN answer'.calls = 1..card
    BY <2>5, <2>6
  <2>8. answer'.text = FirstOf(draft'.text)
    BY <2>1
  <2> QED BY <2>4, <2>5, <2>7, <2>8 DEF AnswersAreWhole
<1>6. heard' = <<>> /\ ask' # "backoff" /\ ask' # "post"
  BY <1>1, FirstOfNone DEF ReplyInv, Nothing
<1> QED BY <1>1, <1>2, <1>3, <1>4, <1>5, <1>6 DEF ReplyInv

\* A piece of the text.
LEMMA TextReply ==
  ASSUME ReplyInv, TextChunk
  PROVE  ReplyInv'
<1>1. /\ ask = "stream" /\ ask' = ask /\ sent.text < draft.text
      /\ sent' = [sent EXCEPT !.text = @ + 1]
      /\ text' = Append(text, sent'.text) /\ heard' = Append(heard, sent'.text)
      /\ UNCHANGED <<attempt, draft, calls, finish, answer>>
  BY DEF TextChunk
<1>2. sent \in Amounts /\ draft \in Amounts
  BY DEF ReplyInv, CompletionTypes
<1>3. /\ sent.text \in 0..MaxPieces /\ draft.text \in 0..MaxPieces
      /\ sent.args \in [Indexes -> Absent..MaxPieces]
      /\ sent = [text |-> sent.text, args |-> sent.args]
  BY <1>2, AmountFacts
<1>4. PICK n : n = sent.text
  OBVIOUS
<1>5. n \in 0..MaxPieces /\ n < MaxPieces /\ n + 1 \in 0..MaxPieces /\ n + 1 <= draft.text
      /\ n + 1 \in Absent..MaxPieces
  <2>1. PICK whole : whole = draft.text
    OBVIOUS
  <2>2. n \in 0..MaxPieces /\ whole \in 0..MaxPieces /\ n < whole /\ MaxPieces \in Nat
    BY <1>1, <1>3, <1>4, <2>1, CompletionAssumption
  <2>3. n < MaxPieces /\ n + 1 \in 0..MaxPieces /\ n + 1 <= whole /\ n + 1 \in Absent..MaxPieces
    BY <2>2 DEF Absent
  <2> QED BY <2>1, <2>2, <2>3
<1>6. sent' = [text |-> n + 1, args |-> sent.args]
  BY <1>1, <1>3, <1>4
<1>7. sent' \in Amounts /\ sent'.text = n + 1 /\ sent'.args = sent.args
  BY <1>3, <1>5, <1>6 DEF Amounts
<1>8. text' = FirstOf(n + 1) /\ heard' = FirstOf(n + 1) /\ FirstOf(n + 1) \in Seq(1..MaxPieces)
  <2>1. text = FirstOf(n) /\ heard = FirstOf(n)
    BY <1>4 DEF ReplyInv
  <2> QED BY <1>1, <1>5, <1>7, <2>1, OneMore, FirstOfFacts
<1>9. Gathered' = Gathered
  BY <1>7 DEF Gathered, Opened
<1>10. ~finish
  BY <1>1, <1>2, <1>3, CompletionAssumption DEF ReplyInv
<1>11. CompletionTypes'
  BY <1>1, <1>2, <1>7, <1>8 DEF ReplyInv, CompletionTypes
<1> QED BY <1>1, <1>5, <1>7, <1>8, <1>9, <1>10, <1>11 DEF ReplyInv, AnswersAreWhole

\* A fragment of a call.
LEMMA CallReply ==
  ASSUME ReplyInv, NEW i \in Indexes, CallChunk(i)
  PROVE  ReplyInv'
<1>1. /\ ask = "stream" /\ ask' = ask /\ sent.args[i] < draft.args[i]
      /\ sent' = [sent EXCEPT !.args[i] = @ + 1]
      /\ Accumulate(i, IF sent.args[i] = Absent THEN <<>> ELSE <<sent'.args[i]>>)
      /\ UNCHANGED <<attempt, draft, text, finish, heard, answer>>
  BY DEF CallChunk
<1>2. sent \in Amounts /\ draft \in Amounts
  BY DEF ReplyInv, CompletionTypes
<1>3. /\ sent.text \in 0..MaxPieces
      /\ sent.args \in [Indexes -> Absent..MaxPieces]
      /\ draft.args \in [Indexes -> Absent..MaxPieces]
      /\ sent = [text |-> sent.text, args |-> sent.args]
  BY <1>2, AmountFacts
<1>4. PICK n : n = sent.args[i]
  OBVIOUS
<1>5. /\ n \in Absent..MaxPieces /\ n < MaxPieces /\ n + 1 \in Absent..MaxPieces
      /\ n + 1 <= draft.args[i] /\ n + 1 # Absent
      /\ n # Absent => n \in 0..MaxPieces
  <2>1. PICK whole : whole = draft.args[i]
    OBVIOUS
  <2>2. n \in Absent..MaxPieces /\ whole \in Absent..MaxPieces /\ n < whole /\ MaxPieces \in Nat
    BY <1>1, <1>3, <1>4, <2>1, CompletionAssumption
  <2>3. /\ n < MaxPieces /\ n + 1 \in Absent..MaxPieces /\ n + 1 <= whole /\ n + 1 # Absent
        /\ n # Absent => n \in 0..MaxPieces
    BY <2>2 DEF Absent
  <2> QED BY <2>1, <2>2, <2>3
<1>6. PICK args : args = [sent.args EXCEPT ![i] = n + 1]
  OBVIOUS
<1>7. sent' = [text |-> sent.text, args |-> args]
  BY <1>1, <1>3, <1>4, <1>6
<1>8. /\ sent' \in Amounts /\ sent'.text = sent.text
      /\ sent'.args[i] = n + 1
      /\ \A j \in Indexes : j # i => sent'.args[j] = sent.args[j]
  BY <1>3, <1>5, <1>6, <1>7 DEF Amounts
<1>9. Opened(sent') = Opened(sent) \cup {i}
  BY <1>5, <1>8 DEF Opened
<1>10. calls' = [j \in Gathered' |-> FirstOf(sent'.args[j])]
  <2>1. calls = [j \in Gathered |-> FirstOf(sent.args[j])] /\ DOMAIN calls = Gathered
    BY DEF ReplyInv
  <2>2. CASE i < 0
    <3>1. Gathered' = Gathered /\ i \notin Gathered
      BY <1>9, <2>2, CompletionAssumption DEF Gathered
    <3>2. calls' = calls
      BY <1>1, <2>2 DEF Accumulate
    <3>3. \A j \in Gathered : j \in Indexes /\ j # i
      BY <3>1 DEF Gathered, Opened
    <3> QED BY <1>8, <2>1, <3>1, <3>2, <3>3
  <2>3. CASE ~(i < 0)
    <3>1. Gathered' = Gathered \cup {i}
      BY <1>9, <2>3, CompletionAssumption DEF Gathered
    <3>2. PICK fragment : fragment = IF n = Absent THEN <<>> ELSE <<n + 1>>
      OBVIOUS
    <3>3. calls' = [j \in Gathered' |->
                     (IF j \in DOMAIN calls THEN calls[j] ELSE <<>>)
                     \o (IF j = i THEN fragment ELSE <<>>)]
      <4>1. fragment = IF sent.args[i] = Absent THEN <<>> ELSE <<sent'.args[i]>>
        BY <1>4, <1>8, <3>2
      <4>2. Accumulate(i, fragment)
        BY <1>1, <4>1
      <4>3. DOMAIN calls \cup {i} = Gathered'
        BY <2>1, <3>1
      <4> QED BY <2>3, <4>2, <4>3 DEF Accumulate
    <3>4. ASSUME NEW j \in Gathered'
          PROVE  (IF j \in DOMAIN calls THEN calls[j] ELSE <<>>)
                 \o (IF j = i THEN fragment ELSE <<>>) = FirstOf(sent'.args[j])
      <4>1. j \in Indexes
        BY <3>1 DEF Gathered, Opened
      <4>2. CASE j # i
        <5>1. j \in DOMAIN calls /\ calls[j] = FirstOf(sent.args[j])
          BY <2>1, <3>1, <4>2
        <5>2. FirstOf(sent.args[j]) \in Seq(1..MaxPieces)
          BY <1>3, <4>1, FirstOfFacts
        <5>3. FirstOf(sent.args[j]) \o <<>> = FirstOf(sent.args[j])
          BY <5>2, ConcatEmptySeq
        <5> QED BY <1>8, <4>1, <4>2, <5>1, <5>3
      <4>3. CASE j = i /\ n = Absent
        <5>1. i \notin DOMAIN calls
          BY <1>4, <2>1, <4>3 DEF Gathered, Opened
        <5>2. <<>> \o <<>> = <<>>
          BY EmptySeq, ConcatEmptySeq
        <5>3. FirstOf(sent'.args[i]) = <<>>
          BY <1>8, <4>3, FirstOfNone DEF Absent
        <5> QED BY <3>2, <4>3, <5>1, <5>2, <5>3
      <4>4. CASE j = i /\ n # Absent
        <5>1. i \in DOMAIN calls /\ calls[i] = FirstOf(n)
          BY <1>4, <2>1, <2>3, <4>4, CompletionAssumption DEF Gathered, Opened
        <5>2. FirstOf(n) \o <<n + 1>> = FirstOf(n + 1)
          BY <1>5, <4>4, OneMore
        <5> QED BY <1>8, <3>2, <4>4, <5>1, <5>2
      <4> QED BY <4>2, <4>3, <4>4
    <3> QED BY <3>3, <3>4
  <2> QED BY <2>2, <2>3
<1>11. ~finish
  BY <1>1, <1>3, <1>4, <1>5, CompletionAssumption DEF ReplyInv, Absent
<1>12. \A j \in Indexes : sent'.args[j] <= draft'.args[j]
  <2>1. \A j \in Indexes : j # i => sent'.args[j] <= draft'.args[j]
    BY <1>1, <1>8 DEF ReplyInv
  <2> QED BY <1>1, <1>5, <1>8, <2>1
<1>13. DOMAIN calls' \subseteq Indexes
  BY <1>10 DEF Gathered, Opened
<1>14. CompletionTypes'
  BY <1>1, <1>2, <1>8, <1>13 DEF ReplyInv, CompletionTypes
<1> QED BY <1>1, <1>8, <1>10, <1>11, <1>12, <1>14 DEF ReplyInv, AnswersAreWhole

\* The stream ends well: what was put together is the answer.
LEMMA EndReply ==
  ASSUME ReplyInv, StreamEndsHere
  PROVE  ReplyInv'
<1>1. /\ ask = "stream" /\ UNCHANGED <<attempt, draft, sent, text, calls, finish, heard>>
      /\ \/ ask' = "ok" /\ Assemble /\ sent = draft
         \/ ask' = "err" /\ UNCHANGED answer
  BY DEF StreamEndsHere, ReplyInv
<1>2. CASE ask' = "err"
  <2>1. UNCHANGED answer /\ attempt \in 0..MaxRetries
    BY <1>1, <1>2 DEF ReplyInv, CompletionTypes
  <2> QED BY <1>1, <1>2, <2>1, QuietReply
<1>3. CASE ask' = "ok"
  <2>1. Assemble /\ sent = draft
    BY <1>1, <1>3
  <2>2. CompletionTypes'
    BY <1>1, <1>3 DEF ReplyInv, CompletionTypes
  <2>3. Gathered' = Gathered /\ Valid' = Gathered /\ Gathered \in SUBSET Indexes
    BY <1>1, <2>1 DEF Gathered, Opened, Valid
  <2>4. PICK card, order : card = Cardinality(Gathered) /\ order = Ordered(Gathered)
    OBVIOUS
  <2>5. card \in Nat /\ DOMAIN order = 1..card
    BY <2>3, <2>4, OrderedFacts
  <2>6. calls = [i \in Gathered |-> FirstOf(sent.args[i])] /\ DOMAIN calls = Gathered
    BY DEF ReplyInv
  <2>7. /\ answer'.text = text
        /\ answer'.calls = [n \in 1..card |->
             IF calls[order[n]] = <<>> THEN EmptyJSON ELSE calls[order[n]]]
    BY <2>1, <2>4, <2>5, <2>6 DEF Assemble
  <2>8. Len(answer'.calls) = card /\ DOMAIN answer'.calls = 1..card
    BY <2>5, <2>7
  <2>9. \A n \in 1..card : order[n] \in Gathered
    BY <2>3, <2>4, <2>5, OrderedFacts
  <2>10. ASSUME NEW n \in 1..card
         PROVE  \/ answer'.calls[n] = FirstOf(draft'.args[order[n]])
                \/ FirstOf(draft'.args[order[n]]) = <<>> /\ answer'.calls[n] = EmptyJSON
    <3>1. calls[order[n]] = FirstOf(draft'.args[order[n]])
      BY <1>1, <2>1, <2>6, <2>9
    <3> QED BY <2>7, <3>1
  <2>11. text = FirstOf(draft'.text) /\ heard' = text
    BY <1>1, <2>1 DEF ReplyInv
  <2>12. AnswersAreWhole'
    BY <2>3, <2>4, <2>7, <2>8, <2>10, <2>11 DEF AnswersAreWhole
  <2> QED BY <1>1, <1>3, <2>1, <2>2, <2>3, <2>7, <2>11, <2>12 DEF ReplyInv
<1> QED BY <1>1, <1>2, <1>3

\* One step of a model call.
LEMMA ReplyStep ==
  ASSUME ReplyInv, CompletionStep
  PROVE  ReplyInv'
<1>1. attempt \in 0..MaxRetries /\ MaxRetries \in Nat
  BY CompletionAssumption DEF ReplyInv, CompletionTypes
<1>2. CASE PostFails \/ BackoffAborts \/ StreamBreaks
  BY <1>1, <1>2, QuietReply DEF PostFails, BackoffAborts, StreamBreaks
<1>3. CASE RateLimited
  BY <1>1, <1>3, QuietReply DEF RateLimited
<1>4. CASE BackoffEnds
  <2>1. attempt' \in 0..MaxRetries
    BY <1>1, <1>4 DEF BackoffEnds, ReplyInv
  <2> QED BY <1>4, <2>1, QuietReply DEF BackoffEnds
<1>5. CASE StreamOpens
  BY <1>5, OpensReply
<1>6. CASE JSONAnswer
  BY <1>6, JSONReply
<1>7. CASE TextChunk
  BY <1>7, TextReply
<1>8. CASE \E i \in Indexes : CallChunk(i)
  BY <1>8, CallReply
<1>9. CASE FinishChunk
  <2>1. /\ ask = "stream" /\ ask' = ask /\ sent = draft
        /\ UNCHANGED <<attempt, draft, sent, text, calls, heard, answer>> /\ finish' = TRUE
    BY <1>9 DEF FinishChunk
  <2>2. CompletionTypes' /\ Gathered' = Gathered
    BY <2>1 DEF ReplyInv, CompletionTypes, Gathered, Opened
  <2> QED BY <2>1, <2>2 DEF ReplyInv, AnswersAreWhole
<1>10. CASE StreamEndsHere
  BY <1>10, EndReply
<1> QED BY <1>2, <1>3, <1>4, <1>5, <1>6, <1>7, <1>8, <1>9, <1>10 DEF CompletionStep

\* Whatever the provider sends and wherever it breaks off, what has been put
\* together is a prefix of what it sends, and an answer all of it (consumeStream).
THEOREM ReplyInvariance == Spec => []ReplyInv
<1>1. Init => ReplyInv
  <2> SUFFICES ASSUME Init PROVE ReplyInv
    OBVIOUS
  <2>1. /\ ask = "idle" /\ attempt = 0 /\ draft = Nothing /\ sent = Nothing
        /\ text = <<>> /\ calls = NoCalls /\ finish = FALSE /\ heard = <<>>
    BY DEF Init, CompletionInit
  <2>2. CompletionTypes
    <3>1. <<>> \in Seq(1..MaxPieces)
      BY EmptySeq
    <3>2. DOMAIN NoCalls \subseteq Indexes /\ 0 \in 0..MaxRetries
      BY CompletionAssumption DEF NoCalls
    <3> QED BY <2>1, <3>1, <3>2, NothingFacts DEF CompletionTypes
  <2>3. text = FirstOf(sent.text)
    BY <2>1, FirstOfNone DEF Nothing
  <2>4. calls = [i \in Gathered |-> FirstOf(sent.args[i])]
    <3>1. Gathered = {}
      BY <2>1, NothingFacts DEF Gathered
    <3> QED BY <2>1, <3>1 DEF NoCalls
  <2>5. sent.text <= draft.text /\ \A i \in Indexes : sent.args[i] <= draft.args[i]
    BY <2>1, CompletionAssumption DEF Nothing, Absent
  <2> QED BY <2>1, <2>2, <2>3, <2>4, <2>5 DEF ReplyInv, AnswersAreWhole
<1>2. ReplyInv /\ [Next]_vars => ReplyInv'
  <2> SUFFICES ASSUME ReplyInv, [Next]_vars PROVE ReplyInv'
    OBVIOUS
  <2>1. CASE UNCHANGED completionVars
    <3>1. CompletionTypes' /\ Gathered' = Gathered
      BY <2>1 DEF ReplyInv, CompletionTypes, Gathered, Opened
    <3>2. AnswersAreWhole'
      BY <2>1 DEF ReplyInv, AnswersAreWhole, Valid, Opened
    <3> QED BY <2>1, <3>1, <3>2 DEF ReplyInv
  <2>2. CASE Ask \/ Rest
    BY <2>2, FreshReply DEF Ask, Rest
  <2>3. CASE CompletionStep
    BY <2>3, ReplyStep
  <2>4. Ask \/ Rest \/ CompletionStep \/ UNCHANGED completionVars
    BY DEF Next, StartTurn, ServersSettled, TurnAnswered, ToolsCalled, Dispatch, NextStep,
           TurnOver, Remote
  <2> QED BY <2>1, <2>2, <2>3, <2>4
<1> QED BY <1>1, <1>2, PTL DEF Spec

\* What the loop takes for the model's answer is the whole reply, and the client
\* was shown its text in order and once (Client.Stream, consumeStream).
THEOREM AnswersAreExact == Spec => []RepliesAreExact
<1>1. ReplyInv => RepliesAreExact
  <2> SUFFICES ASSUME ReplyInv PROVE IsPrefix(heard, Pieces)
    BY DEF ReplyInv, RepliesAreExact, HeardOnce
  <2>1. PICK n : n = sent.text
    OBVIOUS
  <2>2. n \in 0..MaxPieces /\ n \in Absent..MaxPieces /\ heard = FirstOf(n)
    BY <2>1, AmountFacts DEF ReplyInv, CompletionTypes
  <2>3. heard \in Seq(1..MaxPieces) /\ Len(heard) = n
    BY <2>2, FirstOfFacts
  <2>4. SubSeq(heard, 1, Len(heard)) = heard
    BY <2>3, SubSeqFull
  <2>5. Len(Pieces) = MaxPieces /\ n <= MaxPieces
    BY <2>2, CompletionAssumption DEF Pieces
  <2> QED BY <2>2, <2>3, <2>4, <2>5 DEF IsPrefix, FirstOf
<1> QED BY <1>1, ReplyInvariance, PTL
=============================================================================

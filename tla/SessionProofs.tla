--------------------------- MODULE SessionProofs ---------------------------
(***************************************************************************)
(* What TLAPS proves of Session for every set of turns, requests, commands *)
(* and sandboxes: SessionInv is inductive, and the safety properties of    *)
(* the session's turns and sandboxes follow from it. That no background    *)
(* exit is lost or told twice follows from ExitsInv.                       *)
(***************************************************************************)
EXTENDS Session, FiniteSetTheorems, TLAPS

\* The proofs are about steps: what an action does is always visible.
USE DEF vars, fieldVars, hubVars, turnVars, drainVars, procVars, requestVars,
        ironVars, historyVars, StartTurn, TurnFails, BuildStep, SandboxLive,
        LettingGo, CreateUnchanged, DrainUnchanged, CancelUnchanged,
        TearUnchanged, TearStep, SweepUnchanged, SweepStep, MessageLoad,
        MessageBusy, MessageAccepted, TurnStarted, TurnTimeout, RunDone,
        RunFails, PrepareFails, PublishFinished, TouchTurn, FinishTurn,
        EnsureLive, EnsureBuild, AllocateFails, BuildFails, StartRenewal,
        SetSandbox, SetSandboxRefused, Allocate, StopRenewal, ReleaseSandbox,
        CreateEnsured, CreateFails, CreateStored, CreateRollback, ProcExits,
        RecordExit, Background, TakeExits, DrainBusy, Requeue, DrainStarts,
        CancelLoad, CancelTurn, CancelNoTurn, CancelReplies, CancelAbandoned,
        TearLoad, TearUnmap, TearReadCancel, TearCancel, CloseSession,
        SweepTick, ReapTake, EvictVisit, EvictTake, EvictSkip, EvictUnmap,
        TimePasses

-----------------------------------------------------------------------------
(* Types *)

\* The session's flags stay Boolean.
LEMMA FieldTypesStep ==
  ASSUME TypeOK, [Next]_vars
  PROVE  FieldTypes'
  <1> USE  DEF TypeOK, FieldTypes
  <1>1. CASE MessageNext BY <1>1 DEF MessageNext
  <1>2. CASE TurnNext BY <1>2 DEF TurnNext, Active, Running, EnsureFailed
  <1>3. CASE BuildNext BY <1>3 DEF BuildNext
  <1>4. CASE ReleaseNext BY <1>4 DEF ReleaseNext
  <1>5. CASE CreateNext BY <1>5 DEF CreateNext, EnsureFailed
  <1>6. CASE ProcNext BY <1>6 DEF ProcNext, Running
  <1>7. CASE DrainNext BY <1>7 DEF DrainNext, Elems
  <1>8. CASE CancelNext BY <1>8 DEF CancelNext
  <1>9. CASE TearNext BY <1>9 DEF TearNext
  <1>10. CASE SweepNext BY <1>10 DEF SweepNext
  <1>11. CASE UNCHANGED vars BY <1>11
  <1>12. QED BY <1>1, <1>2, <1>3, <1>4, <1>5, <1>6, <1>7, <1>8, <1>9, <1>10,
         <1>11 DEF Next

\* Turn ids, pcs and statuses stay in range.
LEMMA TurnTypesStep ==
  ASSUME TypeOK, [Next]_vars
  PROVE  TurnTypes'
  <1> USE  DEF TypeOK, TurnTypes, ThreadTypes
  <1>1. CASE MessageNext
    <2>1. ASSUME NEW m \in Msgs, MessageLoad(m) PROVE TurnTypes'
      BY <2>1
    <2>2. ASSUME NEW m \in Msgs, MessageBusy(m) PROVE TurnTypes'
      BY <2>2
    <2>3. ASSUME NEW m \in Msgs, NEW t \in Turns, MessageAccepted(m, t) PROVE
         TurnTypes'
      BY <2>3
    <2>4. QED BY <1>1, <2>1, <2>2, <2>3 DEF MessageNext
  <1>2. CASE TurnNext
    <2>1. ASSUME NEW t \in Turns, TurnStarted(t) PROVE TurnTypes'
      BY <2>1
    <2>2. ASSUME NEW t \in Turns, TurnTimeout(t) PROVE TurnTypes'
      BY <2>2 DEF Active
    <2>3. ASSUME NEW t \in Turns, RunDone(t) PROVE TurnTypes'
      BY <2>3 DEF Running
    <2>4. ASSUME NEW t \in Turns, RunFails(t) PROVE TurnTypes'
      BY <2>4 DEF Running
    <2>5. ASSUME NEW t \in Turns, PrepareFails(t) PROVE TurnTypes'
      BY <2>5 DEF EnsureFailed
    <2>6. ASSUME NEW t \in Turns, PublishFinished(t) PROVE TurnTypes'
      BY <2>6
    <2>7. ASSUME NEW t \in Turns, TouchTurn(t) PROVE TurnTypes'
      BY <2>7
    <2>8. ASSUME NEW t \in Turns, FinishTurn(t) PROVE TurnTypes'
      BY <2>8
    <2>9. QED BY <1>2, <2>1, <2>2, <2>3, <2>4, <2>5, <2>6, <2>7, <2>8 DEF
           TurnNext
  <1>3. CASE BuildNext BY <1>3 DEF BuildNext
  <1>4. CASE ReleaseNext BY <1>4 DEF ReleaseNext
  <1>5. CASE CreateNext BY <1>5 DEF CreateNext, EnsureFailed
  <1>6. CASE ProcNext BY <1>6 DEF ProcNext, Running
  <1>7. CASE DrainNext
    <2>1. ASSUME NEW d \in Drainers, TakeExits(d) PROVE TurnTypes'
      BY <2>1
    <2>2. ASSUME NEW d \in Drainers, DrainBusy(d) PROVE TurnTypes'
      BY <2>2
    <2>3. ASSUME NEW d \in Drainers, Requeue(d) PROVE TurnTypes'
      BY <2>3 DEF Elems
    <2>4. ASSUME NEW d \in Drainers, NEW t \in Turns, DrainStarts(d, t) PROVE
         TurnTypes'
      BY <2>4
    <2>5. QED BY <1>7, <2>1, <2>2, <2>3, <2>4 DEF DrainNext
  <1>8. CASE CancelNext BY <1>8 DEF CancelNext
  <1>9. CASE TearNext BY <1>9 DEF TearNext
  <1>10. CASE SweepNext BY <1>10 DEF SweepNext
  <1>11. CASE UNCHANGED vars BY <1>11
  <1>12. QED BY <1>1, <1>2, <1>3, <1>4, <1>5, <1>6, <1>7, <1>8, <1>9, <1>10,
         <1>11 DEF Next

\* Requests, sweeper and creation stay in their phases.
LEMMA ThreadTypesStep ==
  ASSUME TypeOK, [Next]_vars
  PROVE  ThreadTypes'
  <1> USE  DEF TypeOK, TurnTypes, ThreadTypes
  <1>1. CASE MessageNext
    <2>1. ASSUME NEW m \in Msgs, MessageLoad(m) PROVE ThreadTypes'
      BY <2>1
    <2>2. ASSUME NEW m \in Msgs, MessageBusy(m) PROVE ThreadTypes'
      BY <2>2
    <2>3. ASSUME NEW m \in Msgs, NEW t \in Turns, MessageAccepted(m, t) PROVE
         ThreadTypes'
      BY <2>3
    <2>4. QED BY <1>1, <2>1, <2>2, <2>3 DEF MessageNext
  <1>2. CASE TurnNext BY <1>2 DEF TurnNext, Active, Running, EnsureFailed
  <1>3. CASE BuildNext BY <1>3 DEF BuildNext
  <1>4. CASE ReleaseNext BY <1>4 DEF ReleaseNext
  <1>5. CASE CreateNext BY <1>5 DEF CreateNext, EnsureFailed
  <1>6. CASE ProcNext BY <1>6 DEF ProcNext, Running
  <1>7. CASE DrainNext BY <1>7 DEF DrainNext, Elems
  <1>8. CASE CancelNext
    <2>1. ASSUME NEW k \in Cancels, CancelLoad(k) PROVE ThreadTypes'
      BY <2>1
    <2>2. ASSUME NEW k \in Cancels, CancelTurn(k) PROVE ThreadTypes'
      BY <2>2
    <2>3. ASSUME NEW k \in Cancels, CancelNoTurn(k) PROVE ThreadTypes'
      BY <2>3
    <2>4. ASSUME NEW k \in Cancels, CancelReplies(k) PROVE ThreadTypes'
      BY <2>4
    <2>5. ASSUME NEW k \in Cancels, CancelAbandoned(k) PROVE ThreadTypes'
      BY <2>5
    <2>6. QED BY <1>8, <2>1, <2>2, <2>3, <2>4, <2>5 DEF CancelNext
  <1>9. CASE TearNext
    <2>1. ASSUME NEW k \in Teardowns, TearLoad(k) PROVE ThreadTypes'
      BY <2>1
    <2>2. ASSUME NEW k \in Teardowns, TearUnmap(k) PROVE ThreadTypes'
      BY <2>2
    <2>3. ASSUME NEW k \in Teardowns, TearReadCancel(k) PROVE ThreadTypes'
      BY <2>3
    <2>4. ASSUME NEW k \in Teardowns, TearCancel(k) PROVE ThreadTypes'
      BY <2>4
    <2>5. ASSUME NEW k \in Teardowns, CloseSession(k) PROVE ThreadTypes'
      BY <2>5
    <2>6. QED BY <1>9, <2>1, <2>2, <2>3, <2>4, <2>5 DEF TearNext
  <1>10. CASE SweepNext BY <1>10 DEF SweepNext
  <1>11. CASE UNCHANGED vars BY <1>11
  <1>12. QED BY <1>1, <1>2, <1>3, <1>4, <1>5, <1>6, <1>7, <1>8, <1>9, <1>10,
         <1>11 DEF Next

\* Builds, sandboxes and hands stay in range; a build that starts a renewal
\* holds a sandbox.
LEMMA SandboxTypesStep ==
  ASSUME TypeOK, BuildPhases, [Next]_vars
  PROVE  SandboxTypes'
  <1> USE  DEF TypeOK, SandboxTypes, Builders, Holders
  <1>1. CASE MessageNext BY <1>1 DEF MessageNext
  <1>2. CASE TurnNext BY <1>2 DEF TurnNext, Active, Running, EnsureFailed
  <1>3. CASE BuildNext
    <2>1. ASSUME NEW b \in Builders, EnsureLive(b) PROVE SandboxTypes'
      BY <2>1
    <2>2. ASSUME NEW b \in Builders, EnsureBuild(b) PROVE SandboxTypes'
      BY <2>2
    <2>3. ASSUME NEW b \in Builders, AllocateFails(b) PROVE SandboxTypes'
      BY <2>3
    <2>4. ASSUME NEW b \in Builders, BuildFails(b) PROVE SandboxTypes'
      BY <2>4
    <2>5. ASSUME NEW b \in Builders, StartRenewal(b) PROVE SandboxTypes'
      <3>1. hand[b] \in Sandboxes
        BY <2>5 DEF BuildPhases
      <3>2. QED BY <2>5, <3>1
    <2>6. ASSUME NEW b \in Builders, SetSandbox(b) PROVE SandboxTypes'
      BY <2>6
    <2>7. ASSUME NEW b \in Builders, SetSandboxRefused(b) PROVE SandboxTypes'
      BY <2>7
    <2>8. ASSUME NEW b \in Builders, NEW s \in Sandboxes, Allocate(b, s) PROVE
         SandboxTypes'
      BY <2>8
    <2>9. QED BY SMTT(30), <1>3, <2>1, <2>2, <2>3, <2>4, <2>5, <2>6, <2>7, <2>8 DEF
           BuildNext
  <1>4. CASE ReleaseNext
    <2>1. ASSUME NEW h \in Holders, StopRenewal(h) PROVE SandboxTypes'
      BY <2>1
    <2>2. ASSUME NEW h \in Holders, ReleaseSandbox(h) PROVE SandboxTypes'
      BY <2>2
    <2>3. QED BY <1>4, <2>1, <2>2 DEF ReleaseNext
  <1>5. CASE CreateNext BY <1>5 DEF CreateNext, EnsureFailed
  <1>6. CASE ProcNext BY <1>6 DEF ProcNext, Running
  <1>7. CASE DrainNext BY <1>7 DEF DrainNext, Elems
  <1>8. CASE CancelNext BY <1>8 DEF CancelNext
  <1>9. CASE TearNext
    <2>1. ASSUME NEW k \in Teardowns, TearLoad(k) PROVE SandboxTypes'
      BY <2>1
    <2>2. ASSUME NEW k \in Teardowns, TearUnmap(k) PROVE SandboxTypes'
      BY <2>2
    <2>3. ASSUME NEW k \in Teardowns, TearReadCancel(k) PROVE SandboxTypes'
      BY <2>3
    <2>4. ASSUME NEW k \in Teardowns, TearCancel(k) PROVE SandboxTypes'
      BY <2>4
    <2>5. ASSUME NEW k \in Teardowns, CloseSession(k) PROVE SandboxTypes'
      BY <2>5
    <2>6. QED BY <1>9, <2>1, <2>2, <2>3, <2>4, <2>5 DEF TearNext
  <1>10. CASE SweepNext BY <1>10 DEF SweepNext
  <1>11. CASE UNCHANGED vars BY <1>11
  <1>12. QED BY <1>1, <1>2, <1>3, <1>4, <1>5, <1>6, <1>7, <1>8, <1>9, <1>10,
         <1>11 DEF Next

\* Queues and batches stay sequences of commands.
LEMMA ExitTypesStep ==
  ASSUME TypeOK, [Next]_vars
  PROVE  ExitTypes'
  <1> USE  DEF TypeOK, SandboxTypes, ExitTypes, Drainers
  <1>1. CASE MessageNext BY <1>1 DEF MessageNext
  <1>2. CASE TurnNext
    <2>1. ASSUME NEW t \in Turns, TurnStarted(t) PROVE ExitTypes'
      BY <2>1
    <2>2. ASSUME NEW t \in Turns, TurnTimeout(t) PROVE ExitTypes'
      BY <2>2 DEF Active
    <2>3. ASSUME NEW t \in Turns, RunDone(t) PROVE ExitTypes'
      BY <2>3 DEF Running
    <2>4. ASSUME NEW t \in Turns, RunFails(t) PROVE ExitTypes'
      BY <2>4 DEF Running
    <2>5. ASSUME NEW t \in Turns, PrepareFails(t) PROVE ExitTypes'
      BY <2>5 DEF EnsureFailed
    <2>6. ASSUME NEW t \in Turns, PublishFinished(t) PROVE ExitTypes'
      BY <2>6
    <2>7. ASSUME NEW t \in Turns, TouchTurn(t) PROVE ExitTypes'
      BY <2>7
    <2>8. ASSUME NEW t \in Turns, FinishTurn(t) PROVE ExitTypes'
      BY <2>8
    <2>9. QED BY <1>2, <2>1, <2>2, <2>3, <2>4, <2>5, <2>6, <2>7, <2>8 DEF
           TurnNext
  <1>3. CASE BuildNext
    <2>1. ASSUME NEW b \in Builders, EnsureLive(b) PROVE ExitTypes'
      BY <2>1
    <2>2. ASSUME NEW b \in Builders, EnsureBuild(b) PROVE ExitTypes'
      BY <2>2
    <2>3. ASSUME NEW b \in Builders, AllocateFails(b) PROVE ExitTypes'
      BY <2>3
    <2>4. ASSUME NEW b \in Builders, BuildFails(b) PROVE ExitTypes'
      BY <2>4
    <2>5. ASSUME NEW b \in Builders, StartRenewal(b) PROVE ExitTypes'
      BY <2>5
    <2>6. ASSUME NEW b \in Builders, SetSandbox(b) PROVE ExitTypes'
      BY <2>6
    <2>7. ASSUME NEW b \in Builders, SetSandboxRefused(b) PROVE ExitTypes'
      BY <2>7
    <2>8. ASSUME NEW b \in Builders, NEW s \in Sandboxes, Allocate(b, s) PROVE
         ExitTypes'
      BY <2>8
    <2>9. QED BY <1>3, <2>1, <2>2, <2>3, <2>4, <2>5, <2>6, <2>7, <2>8 DEF
           BuildNext
  <1>4. CASE ReleaseNext BY <1>4 DEF ReleaseNext
  <1>5. CASE CreateNext BY <1>5 DEF CreateNext, EnsureFailed
  <1>6. CASE ProcNext
    <2>1. ASSUME NEW p \in Procs, ProcExits(p) PROVE ExitTypes'
      BY <2>1
    <2>2. ASSUME NEW p \in Procs, RecordExit(p) PROVE ExitTypes'
      <3>1. Append(bgExited, p) \in Seq(Procs) /\ Append(recorded, p) \in Seq(Procs)
        OBVIOUS
      <3>2. CASE closed
        BY <2>2, <3>2
      <3>3. CASE ~closed
        BY <2>2, <3>1, <3>3
      <3>4. QED BY <3>2, <3>3
    <2>3. ASSUME NEW p \in Procs, NEW t \in Turns, Background(p, t) PROVE
         ExitTypes'
      BY <2>3 DEF Running
    <2>4. QED BY <1>6, <2>1, <2>2, <2>3 DEF ProcNext
  <1>7. CASE DrainNext
    <2>1. ASSUME NEW d \in Drainers, TakeExits(d) PROVE ExitTypes'
      <3>1. CASE closed \/ bgExited = <<>>
        BY <2>1, <3>1
      <3>2. CASE ~(closed \/ bgExited = <<>>)
        <4>1. batch' \in [Drainers -> Seq(Procs)]
          BY <2>1, <3>2
        <4>2. bgExited' \in Seq(Procs)
          BY <2>1, <3>2
        <4>3. drain' = [drain EXCEPT ![d] = "start"]
          BY <2>1, <3>2, Zenon
        <4>4. QED BY <2>1, <4>1, <4>2, <4>3
      <3>3. QED BY <3>1, <3>2
    <2>2. ASSUME NEW d \in Drainers, DrainBusy(d) PROVE ExitTypes'
      BY <2>2
    <2>3. ASSUME NEW d \in Drainers, Requeue(d) PROVE ExitTypes'
      <3>1. batch[d] \in Seq(Procs)
        OBVIOUS
      <3>2. Elems(batch[d]) \subseteq Procs
        BY <3>1 DEF Elems
      <3>3. batch[d] \o bgExited \in Seq(Procs)
        BY <3>1
      <3>4. batch' \in [Drainers -> Seq(Procs)]
        BY <2>3
      <3>5. CASE closed
        BY <2>3, <3>2, <3>4, <3>5
      <3>6. CASE ~closed
        BY <2>3, <3>3, <3>4, <3>6
      <3>7. QED BY <3>5, <3>6
    <2>4. ASSUME NEW d \in Drainers, NEW t \in Turns, DrainStarts(d, t) PROVE
         ExitTypes'
      BY <2>4
    <2>5. QED BY <1>7, <2>1, <2>2, <2>3, <2>4 DEF DrainNext
  <1>8. CASE CancelNext BY <1>8 DEF CancelNext
  <1>9. CASE TearNext BY <1>9 DEF TearNext
  <1>10. CASE SweepNext BY <1>10 DEF SweepNext
  <1>11. CASE UNCHANGED vars BY <1>11
  <1>12. QED BY <1>1, <1>2, <1>3, <1>4, <1>5, <1>6, <1>7, <1>8, <1>9, <1>10,
         <1>11 DEF Next

-----------------------------------------------------------------------------
(* Turns, builds and sandboxes *)

\* Two builds in progress are the same build: turns exclude each other, and
\* a creation in progress excludes every turn (ensureSandbox has no lock).
LEMMA OneBuilder ==
  ASSUME TypeOK, OneTurn, QuietCreation, BuildPhases,
         NEW b \in Builders, NEW c \in Builders, Building(b), Building(c)
  PROVE  b = c
  <1>1. MayBuild(b) /\ MayBuild(c)
    BY DEF BuildPhases
  <1>2. CASE b = Creator /\ c = Creator
    BY <1>2
  <1>3. CASE b \in Turns /\ c \in Turns
    BY <1>1, <1>3, DistinctNames DEF MayBuild, OneTurn, Active
  <1>4. ASSUME NEW t \in Turns, create = "ensure", turn[t] = "work" PROVE FALSE
    BY <1>4 DEF QuietCreation
  <1>5. QED
    BY <1>1, <1>2, <1>3, <1>4, DistinctNames DEF Builders, MayBuild

\* While no turn is active, none is inside RunTurn.
LEMMA IdleNoRun ==
  ASSUME OneTurn, turnID = None, NEW t \in Turns
  PROVE  ~Running(t)
  BY DistinctNames DEF OneTurn, Active, Running

\* Detaching the session's sandbox into an empty hand keeps its custody
\* (takeSandbox, takeSandboxIfIdle, takeIfCold, closeSession).
LEMMA Detach ==
  ASSUME TypeOK, SandboxOwned, NEW h \in Holders, hand[h] = None,
         hand' = [hand EXCEPT ![h] = sandbox], sandbox' = None,
         sbState' = sbState
  PROVE  SandboxOwned'
  <1> USE DistinctNames DEF TypeOK, SandboxTypes
  <1>1. \A g \in Holders : hand'[g] = IF g = h THEN sandbox ELSE hand[g]
    OBVIOUS
  <1>2. \A s \in Sandboxes :
          sbState'[s] = "live" <=> (sandbox' = s \/ \E g \in Holders : hand'[g] = s)
    BY <1>1 DEF SandboxOwned
  <1>3. \A g \in Holders : hand'[g] # None => hand'[g] # sandbox'
    OBVIOUS
  <1>4. \A f, g \in Holders : hand'[f] = hand'[g] /\ hand'[f] # None => f = g
    BY <1>1 DEF SandboxOwned
  <1>5. QED BY <1>2, <1>3, <1>4 DEF SandboxOwned

\* One turn at a time is kept.
LEMMA OneTurnStep ==
  ASSUME TypeOK, OneTurn, [Next]_vars
  PROVE  OneTurn'
  <1> USE DistinctNames DEF TypeOK, TurnTypes, OneTurn, Active
  <1>1. CASE MessageNext BY <1>1 DEF MessageNext
  <1>2. CASE TurnNext BY <1>2 DEF TurnNext, Running, EnsureFailed
  <1>3. CASE BuildNext BY <1>3 DEF BuildNext
  <1>4. CASE ReleaseNext BY <1>4 DEF ReleaseNext
  <1>5. CASE CreateNext BY <1>5 DEF CreateNext, EnsureFailed
  <1>6. CASE ProcNext BY <1>6 DEF ProcNext, Running
  <1>7. CASE DrainNext BY <1>7 DEF DrainNext, Elems
  <1>8. CASE CancelNext BY <1>8 DEF CancelNext
  <1>9. CASE TearNext BY <1>9 DEF TearNext
  <1>10. CASE SweepNext BY <1>10 DEF SweepNext
  <1>11. CASE UNCHANGED vars BY <1>11
  <1>12. QED BY <1>1, <1>2, <1>3, <1>4, <1>5, <1>6, <1>7, <1>8, <1>9, <1>10,
         <1>11 DEF Next

\* Nothing but the creation moves before the session is in the map.
LEMMA QuietCreationStep ==
  ASSUME TypeOK, QuietCreation, [Next]_vars
  PROVE  QuietCreation'
  <1> USE DistinctNames DEF TypeOK, TurnTypes, ThreadTypes, ExitTypes,
          QuietCreation, Drainers
  <1>1. CASE MessageNext BY <1>1 DEF MessageNext
  <1>2. CASE TurnNext BY <1>2 DEF TurnNext, Active, Running, EnsureFailed
  <1>3. CASE BuildNext BY <1>3 DEF BuildNext
  <1>4. CASE ReleaseNext BY <1>4 DEF ReleaseNext
  <1>5. CASE CreateNext BY <1>5 DEF CreateNext, EnsureFailed
  <1>6. CASE ProcNext BY <1>6 DEF ProcNext, Running
  <1>7. CASE DrainNext BY <1>7 DEF DrainNext, Elems
  <1>8. CASE CancelNext BY <1>8 DEF CancelNext
  <1>9. CASE TearNext BY <1>9 DEF TearNext
  <1>10. CASE SweepNext BY <1>10 DEF SweepNext
  <1>11. CASE UNCHANGED vars BY <1>11
  <1>12. QED BY <1>1, <1>2, <1>3, <1>4, <1>5, <1>6, <1>7, <1>8, <1>9, <1>10,
         <1>11 DEF Next

\* A build's phase goes with its runner and its hand.
LEMMA BuildPhasesStep ==
  ASSUME TypeOK, QuietCreation, BuildPhases, [Next]_vars
  PROVE  BuildPhases'
  <1> USE DistinctNames DEF TypeOK, SandboxTypes, TurnTypes, ThreadTypes,
          BuildPhases, Building, MayBuild, Builders, Holders
  <1>1. CASE MessageNext BY <1>1 DEF MessageNext
  <1>2. CASE TurnNext BY <1>2 DEF TurnNext, Active, Running, EnsureFailed
  <1>3. CASE BuildNext BY <1>3 DEF BuildNext
  <1>4. CASE ReleaseNext BY <1>4 DEF ReleaseNext
  <1>5. CASE CreateNext BY <1>5 DEF CreateNext, EnsureFailed
  <1>6. CASE ProcNext BY <1>6 DEF ProcNext, Running
  <1>7. CASE DrainNext BY <1>7 DEF DrainNext, Elems
  <1>8. CASE CancelNext BY <1>8 DEF CancelNext
  <1>9. CASE TearNext BY <1>9 DEF TearNext
  <1>10. CASE SweepNext BY <1>10 DEF SweepNext
  <1>11. CASE UNCHANGED vars BY <1>11
  <1>12. QED BY <1>1, <1>2, <1>3, <1>4, <1>5, <1>6, <1>7, <1>8, <1>9, <1>10,
         <1>11 DEF Next

\* Closing detaches and setSandbox refuses.
LEMMA ClosedHoldsNothingStep ==
  ASSUME TypeOK, ClosedHoldsNothing, [Next]_vars
  PROVE  ClosedHoldsNothing'
  <1> USE DistinctNames DEF ClosedHoldsNothing
  <1>1. CASE MessageNext BY <1>1 DEF MessageNext
  <1>2. CASE TurnNext BY <1>2 DEF TurnNext, Active, Running, EnsureFailed
  <1>3. CASE BuildNext BY <1>3 DEF BuildNext
  <1>4. CASE ReleaseNext BY <1>4 DEF ReleaseNext
  <1>5. CASE CreateNext BY <1>5 DEF CreateNext, EnsureFailed
  <1>6. CASE ProcNext BY <1>6 DEF ProcNext, Running
  <1>7. CASE DrainNext BY <1>7 DEF DrainNext, Elems
  <1>8. CASE CancelNext BY <1>8 DEF CancelNext
  <1>9. CASE TearNext BY <1>9 DEF TearNext
  <1>10. CASE SweepNext BY <1>10 DEF SweepNext
  <1>11. CASE UNCHANGED vars BY <1>11
  <1>12. QED BY <1>1, <1>2, <1>3, <1>4, <1>5, <1>6, <1>7, <1>8, <1>9, <1>10,
         <1>11 DEF Next

\* A build in progress is alone and finds nothing attached.
LEMMA BuildingDetachedStep ==
  ASSUME TypeOK, OneTurn, QuietCreation, BuildPhases, ClosedHoldsNothing,
         BuildingDetached, [Next]_vars
  PROVE  BuildingDetached'
  <1> USE DistinctNames DEF BuildingDetached, Building
  <1>1. CASE MessageNext BY <1>1 DEF MessageNext
  <1>2. CASE TurnNext BY <1>2 DEF TurnNext, Active, Running, EnsureFailed
  <1>3. CASE BuildNext
    <2>1. ASSUME NEW b \in Builders, EnsureLive(b) PROVE BuildingDetached'
      BY <2>1
    <2>2. ASSUME NEW b \in Builders, EnsureBuild(b) PROVE BuildingDetached'
      <3>1. sandbox = None
        BY <2>2 DEF ClosedHoldsNothing
      <3>2. QED BY <2>2, <3>1
    <2>3. ASSUME NEW b \in Builders, AllocateFails(b) PROVE BuildingDetached'
      BY <2>3
    <2>4. ASSUME NEW b \in Builders, BuildFails(b) PROVE BuildingDetached'
      BY <2>4
    <2>5. ASSUME NEW b \in Builders, StartRenewal(b) PROVE BuildingDetached'
      BY <2>5
    <2>6. ASSUME NEW b \in Builders, SetSandbox(b) PROVE BuildingDetached'
      <3>1. \A c \in Builders : Building(c) => c = b
        BY <2>6, OneBuilder
      <3>2. \A c \in Builders : ~Building(c)'
        BY <2>6, <3>1 DEF TypeOK, SandboxTypes
      <3>3. QED BY <3>2
    <2>7. ASSUME NEW b \in Builders, SetSandboxRefused(b) PROVE
         BuildingDetached'
      BY <2>7
    <2>8. ASSUME NEW b \in Builders, NEW s \in Sandboxes, Allocate(b, s) PROVE
         BuildingDetached'
      BY <2>8
    <2>9. QED BY <1>3, <2>1, <2>2, <2>3, <2>4, <2>5, <2>6, <2>7, <2>8 DEF
           BuildNext
  <1>4. CASE ReleaseNext BY <1>4 DEF ReleaseNext
  <1>5. CASE CreateNext BY <1>5 DEF CreateNext, EnsureFailed
  <1>6. CASE ProcNext BY <1>6 DEF ProcNext, Running
  <1>7. CASE DrainNext BY <1>7 DEF DrainNext, Elems
  <1>8. CASE CancelNext BY <1>8 DEF CancelNext
  <1>9. CASE TearNext BY <1>9 DEF TearNext
  <1>10. CASE SweepNext BY <1>10 DEF SweepNext
  <1>11. CASE UNCHANGED vars BY <1>11
  <1>12. QED BY <1>1, <1>2, <1>3, <1>4, <1>5, <1>6, <1>7, <1>8, <1>9, <1>10,
         <1>11 DEF Next

\* Custody of every live sandbox stays with one holder.
LEMMA SandboxOwnedStep ==
  ASSUME TypeOK, BuildPhases, BuildingDetached, SandboxOwned, [Next]_vars
  PROVE  SandboxOwned'
  <1> USE DistinctNames DEF TypeOK, SandboxTypes, SandboxOwned, Builders,
          Holders
  <1>1. CASE MessageNext BY <1>1 DEF MessageNext
  <1>2. CASE TurnNext BY <1>2 DEF TurnNext, Active, Running, EnsureFailed
  <1>3. CASE BuildNext
    <2>1. ASSUME NEW b \in Builders, EnsureLive(b) PROVE SandboxOwned'
      BY <2>1
    <2>2. ASSUME NEW b \in Builders, EnsureBuild(b) PROVE SandboxOwned'
      BY <2>2
    <2>3. ASSUME NEW b \in Builders, AllocateFails(b) PROVE SandboxOwned'
      BY <2>3
    <2>4. ASSUME NEW b \in Builders, BuildFails(b) PROVE SandboxOwned'
      BY <2>4
    <2>5. ASSUME NEW b \in Builders, StartRenewal(b) PROVE SandboxOwned'
      BY <2>5
    <2>6. ASSUME NEW b \in Builders, SetSandbox(b) PROVE SandboxOwned'
      <3>1. hand[b] # None /\ sandbox = None
        BY <2>6 DEF BuildPhases, BuildingDetached, Building
      <3>2. sandbox' = hand[b] /\ sbState' = sbState /\ \A h \in Holders :
              hand'[h] = IF h = b THEN None ELSE hand[h]
        BY <2>6
      <3>3. QED BY <3>1, <3>2
    <2>7. ASSUME NEW b \in Builders, SetSandboxRefused(b) PROVE SandboxOwned'
      BY <2>7
    <2>8. ASSUME NEW b \in Builders, NEW s \in Sandboxes, Allocate(b, s) PROVE
         SandboxOwned'
      <3>1. hand[b] = None /\ sandbox # s /\ \A h \in Holders : hand[h] # s
        BY <2>8 DEF BuildPhases
      <3>2. sandbox' = sandbox /\ \A h \in Holders :
              hand'[h] = IF h = b THEN s ELSE hand[h]
        BY <2>8
      <3>3. \A r \in Sandboxes :
              sbState'[r] = IF r = s THEN "live" ELSE sbState[r]
        BY <2>8
      <3>4. QED BY <3>1, <3>2, <3>3
    <2>9. QED BY SMTT(60), <1>3, <2>1, <2>2, <2>3, <2>4, <2>5, <2>6, <2>7, <2>8 DEF
           BuildNext
  <1>4. CASE ReleaseNext BY <1>4 DEF ReleaseNext
  <1>5. CASE CreateNext
    <2>1. ASSUME CreateEnsured PROVE SandboxOwned'
      BY <2>1
    <2>2. ASSUME CreateFails PROVE SandboxOwned'
      BY <2>2 DEF EnsureFailed
    <2>3. ASSUME CreateStored PROVE SandboxOwned'
      BY <2>3
    <2>4. ASSUME CreateRollback PROVE SandboxOwned'
      <3>1. hand[Creator] = None
        BY <2>4 DEF BuildPhases
      <3>2. QED BY <2>4, <3>1, Detach
    <2>5. QED BY <1>5, <2>1, <2>2, <2>3, <2>4 DEF CreateNext
  <1>6. CASE ProcNext BY <1>6 DEF ProcNext, Running
  <1>7. CASE DrainNext BY <1>7 DEF DrainNext, Elems
  <1>8. CASE CancelNext BY <1>8 DEF CancelNext
  <1>9. CASE TearNext
    <2>1. ASSUME NEW k \in Teardowns, TearLoad(k) PROVE SandboxOwned'
      BY <2>1
    <2>2. ASSUME NEW k \in Teardowns, TearUnmap(k) PROVE SandboxOwned'
      BY <2>2
    <2>3. ASSUME NEW k \in Teardowns, TearReadCancel(k) PROVE SandboxOwned'
      BY <2>3
    <2>4. ASSUME NEW k \in Teardowns, TearCancel(k) PROVE SandboxOwned'
      BY <2>4
    <2>5. ASSUME NEW k \in Teardowns, CloseSession(k) PROVE SandboxOwned'
      <3>1. hand[k] = None
        BY <2>5 DEF BuildPhases
      <3>2. QED BY <2>5, <3>1, Detach
    <2>6. QED BY <1>9, <2>1, <2>2, <2>3, <2>4, <2>5 DEF TearNext
  <1>10. CASE SweepNext BY <1>10 DEF SweepNext
  <1>11. CASE UNCHANGED vars BY <1>11
  <1>12. QED BY <1>1, <1>2, <1>3, <1>4, <1>5, <1>6, <1>7, <1>8, <1>9, <1>10,
         <1>11 DEF Next

\* A running turn of an open session keeps a sandbox.
LEMMA RunningKeepsSandboxStep ==
  ASSUME TypeOK, OneTurn, QuietCreation, BuildPhases, RunningKeepsSandbox,
         [Next]_vars
  PROVE  RunningKeepsSandbox'
  <1> USE DistinctNames DEF RunningKeepsSandbox, Running
  <1>1. CASE MessageNext
    <2>1. ASSUME NEW m \in Msgs, MessageLoad(m) PROVE RunningKeepsSandbox'
      BY <2>1
    <2>2. ASSUME NEW m \in Msgs, MessageBusy(m) PROVE RunningKeepsSandbox'
      BY <2>2
    <2>3. ASSUME NEW m \in Msgs, NEW t \in Turns, MessageAccepted(m, t) PROVE
         RunningKeepsSandbox'
      BY <2>3
    <2>4. QED BY <1>1, <2>1, <2>2, <2>3 DEF MessageNext
  <1>2. CASE TurnNext
    <2>1. ASSUME NEW t \in Turns, TurnStarted(t) PROVE RunningKeepsSandbox'
      <3>1. build[t] = "check"
        BY <2>1 DEF BuildPhases
      <3>2. \A u \in Turns : Running(u)' => Running(u)
        BY <2>1, <3>1 DEF TypeOK, TurnTypes
      <3>3. QED BY <2>1, <3>2
    <2>2. ASSUME NEW t \in Turns, TurnTimeout(t) PROVE RunningKeepsSandbox'
      BY <2>2 DEF Active
    <2>3. ASSUME NEW t \in Turns, RunDone(t) PROVE RunningKeepsSandbox'
      BY <2>3
    <2>4. ASSUME NEW t \in Turns, RunFails(t) PROVE RunningKeepsSandbox'
      BY <2>4
    <2>5. ASSUME NEW t \in Turns, PrepareFails(t) PROVE RunningKeepsSandbox'
      BY <2>5 DEF EnsureFailed
    <2>6. ASSUME NEW t \in Turns, PublishFinished(t) PROVE
         RunningKeepsSandbox'
      BY <2>6
    <2>7. ASSUME NEW t \in Turns, TouchTurn(t) PROVE RunningKeepsSandbox'
      BY <2>7
    <2>8. ASSUME NEW t \in Turns, FinishTurn(t) PROVE RunningKeepsSandbox'
      BY <2>8
    <2>9. QED BY <1>2, <2>1, <2>2, <2>3, <2>4, <2>5, <2>6, <2>7, <2>8 DEF
           TurnNext
  <1>3. CASE BuildNext
    <2>1. ASSUME NEW b \in Builders, EnsureLive(b) PROVE RunningKeepsSandbox'
      <3>1. sandbox' = sandbox /\ sandbox # None
        BY <2>1
      <3>2. QED BY <3>1
    <2>2. ASSUME NEW b \in Builders, EnsureBuild(b) PROVE RunningKeepsSandbox'
      BY <2>2
    <2>3. ASSUME NEW b \in Builders, AllocateFails(b) PROVE
         RunningKeepsSandbox'
      BY <2>3
    <2>4. ASSUME NEW b \in Builders, BuildFails(b) PROVE RunningKeepsSandbox'
      BY <2>4
    <2>5. ASSUME NEW b \in Builders, StartRenewal(b) PROVE
         RunningKeepsSandbox'
      BY <2>5
    <2>6. ASSUME NEW b \in Builders, SetSandbox(b) PROVE RunningKeepsSandbox'
      <3>1. sandbox' # None
        BY <2>6 DEF BuildPhases
      <3>2. QED BY <3>1
    <2>7. ASSUME NEW b \in Builders, SetSandboxRefused(b) PROVE
         RunningKeepsSandbox'
      BY <2>7
    <2>8. ASSUME NEW b \in Builders, NEW s \in Sandboxes, Allocate(b, s) PROVE
         RunningKeepsSandbox'
      BY <2>8
    <2>9. QED BY <1>3, <2>1, <2>2, <2>3, <2>4, <2>5, <2>6, <2>7, <2>8 DEF
           BuildNext
  <1>4. CASE ReleaseNext BY <1>4 DEF ReleaseNext
  <1>5. CASE CreateNext
    <2>1. ASSUME CreateEnsured PROVE RunningKeepsSandbox'
      BY <2>1
    <2>2. ASSUME CreateFails PROVE RunningKeepsSandbox'
      BY <2>2 DEF EnsureFailed
    <2>3. ASSUME CreateStored PROVE RunningKeepsSandbox'
      BY <2>3
    <2>4. ASSUME CreateRollback PROVE RunningKeepsSandbox'
      <3>1. \A t \in Turns : turn'[t] = "new"
        BY <2>4 DEF QuietCreation
      <3>2. QED BY <3>1
    <2>5. QED BY <1>5, <2>1, <2>2, <2>3, <2>4 DEF CreateNext
  <1>6. CASE ProcNext BY <1>6 DEF ProcNext
  <1>7. CASE DrainNext
    <2>1. ASSUME NEW d \in Drainers, TakeExits(d) PROVE RunningKeepsSandbox'
      BY <2>1
    <2>2. ASSUME NEW d \in Drainers, DrainBusy(d) PROVE RunningKeepsSandbox'
      BY <2>2
    <2>3. ASSUME NEW d \in Drainers, Requeue(d) PROVE RunningKeepsSandbox'
      BY <2>3 DEF Elems
    <2>4. ASSUME NEW d \in Drainers, NEW t \in Turns, DrainStarts(d, t) PROVE
         RunningKeepsSandbox'
      BY <2>4
    <2>5. QED BY <1>7, <2>1, <2>2, <2>3, <2>4 DEF DrainNext
  <1>8. CASE CancelNext BY <1>8 DEF CancelNext
  <1>9. CASE TearNext BY <1>9 DEF TearNext
  <1>10. CASE SweepNext
    <2>1. ASSUME SweepTick PROVE RunningKeepsSandbox'
      BY <2>1
    <2>2. ASSUME ReapTake PROVE RunningKeepsSandbox'
      <3>1. CASE turnID # None \/ ~idle
        BY <2>2, <3>1
      <3>2. CASE turnID = None
        <4>1. \A t \in Turns : ~Running(t)
          BY <3>2, IdleNoRun
        <4>2. UNCHANGED <<turn, build>>
          BY <2>2
        <4>3. QED BY <4>1, <4>2
      <3>3. QED BY <3>1, <3>2
    <2>3. ASSUME EvictVisit PROVE RunningKeepsSandbox'
      BY <2>3
    <2>4. ASSUME EvictTake PROVE RunningKeepsSandbox'
      BY <2>4
    <2>5. ASSUME EvictSkip PROVE RunningKeepsSandbox'
      BY <2>5
    <2>6. ASSUME EvictUnmap PROVE RunningKeepsSandbox'
      BY <2>6
    <2>7. ASSUME TimePasses PROVE RunningKeepsSandbox'
      BY <2>7
    <2>8. QED BY <1>10, <2>1, <2>2, <2>3, <2>4, <2>5, <2>6, <2>7 DEF SweepNext
  <1>11. CASE UNCHANGED vars BY <1>11
  <1>12. QED BY <1>1, <1>2, <1>3, <1>4, <1>5, <1>6, <1>7, <1>8, <1>9, <1>10,
         <1>11 DEF Next

\* Renewals follow the sandboxes.
LEMMA RenewalFollowsSandboxStep ==
  ASSUME TypeOK, BuildPhases, SandboxOwned, AttachingRenewed,
         RenewalFollowsSandbox, [Next]_vars
  PROVE  RenewalFollowsSandbox'
  <1> USE DistinctNames DEF TypeOK, SandboxTypes, RenewalFollowsSandbox,
          Holders
  <1>1. CASE MessageNext BY <1>1 DEF MessageNext
  <1>2. CASE TurnNext BY <1>2 DEF TurnNext, Active, Running, EnsureFailed
  <1>3. CASE BuildNext
    <2>1. ASSUME NEW b \in Builders, EnsureLive(b) PROVE
         RenewalFollowsSandbox'
      BY <2>1
    <2>2. ASSUME NEW b \in Builders, EnsureBuild(b) PROVE
         RenewalFollowsSandbox'
      BY <2>2
    <2>3. ASSUME NEW b \in Builders, AllocateFails(b) PROVE
         RenewalFollowsSandbox'
      BY <2>3
    <2>4. ASSUME NEW b \in Builders, BuildFails(b) PROVE
         RenewalFollowsSandbox'
      BY <2>4
    <2>5. ASSUME NEW b \in Builders, StartRenewal(b) PROVE
         RenewalFollowsSandbox'
      <3>1. hand[b] \in Sandboxes /\ sbState[hand[b]] = "live"
        BY <2>5 DEF BuildPhases, SandboxOwned, Builders
      <3>2. QED BY <2>5, <3>1
    <2>6. ASSUME NEW b \in Builders, SetSandbox(b) PROVE
         RenewalFollowsSandbox'
      <3>1. hand[b] \in renewing
        BY <2>6 DEF AttachingRenewed
      <3>2. QED BY <2>6, <3>1
    <2>7. ASSUME NEW b \in Builders, SetSandboxRefused(b) PROVE
         RenewalFollowsSandbox'
      BY <2>7
    <2>8. ASSUME NEW b \in Builders, NEW s \in Sandboxes, Allocate(b, s) PROVE
         RenewalFollowsSandbox'
      BY <2>8
    <2>9. QED BY <1>3, <2>1, <2>2, <2>3, <2>4, <2>5, <2>6, <2>7, <2>8 DEF
           BuildNext
  <1>4. CASE ReleaseNext
    <2>1. ASSUME NEW h \in Holders, StopRenewal(h) PROVE
         RenewalFollowsSandbox'
      <3>1. hand[h] # None /\ hand[h] # sandbox
        BY <2>1 DEF SandboxOwned
      <3>2. QED BY <2>1, <3>1
    <2>2. ASSUME NEW h \in Holders, ReleaseSandbox(h) PROVE
         RenewalFollowsSandbox'
      BY <2>2
    <2>3. QED BY <1>4, <2>1, <2>2 DEF ReleaseNext
  <1>5. CASE CreateNext BY <1>5 DEF CreateNext, EnsureFailed
  <1>6. CASE ProcNext BY <1>6 DEF ProcNext, Running
  <1>7. CASE DrainNext BY <1>7 DEF DrainNext, Elems
  <1>8. CASE CancelNext BY <1>8 DEF CancelNext
  <1>9. CASE TearNext BY <1>9 DEF TearNext
  <1>10. CASE SweepNext BY <1>10 DEF SweepNext
  <1>11. CASE UNCHANGED vars BY <1>11
  <1>12. QED BY <1>1, <1>2, <1>3, <1>4, <1>5, <1>6, <1>7, <1>8, <1>9, <1>10,
         <1>11 DEF Next

\* A sandbox about to be attached is renewed.
LEMMA AttachingRenewedStep ==
  ASSUME TypeOK, BuildPhases, SandboxOwned, AttachingRenewed, [Next]_vars
  PROVE  AttachingRenewed'
  <1> USE DistinctNames DEF TypeOK, SandboxTypes, AttachingRenewed, Holders
  <1>1. CASE MessageNext BY <1>1 DEF MessageNext
  <1>2. CASE TurnNext BY <1>2 DEF TurnNext, Active, Running, EnsureFailed
  <1>3. CASE BuildNext BY <1>3 DEF BuildNext
  <1>4. CASE ReleaseNext
    <2>1. ASSUME NEW h \in Holders, StopRenewal(h) PROVE AttachingRenewed'
      <3> SUFFICES ASSUME NEW b \in Builders, build[b] = "attach"
                   PROVE  hand[b] \in renewing'
        BY <2>1
      <3>1. hand[b] \in renewing /\ h # b /\ hand[h] # None
        BY <2>1
      <3>2. hand[b] # hand[h]
        BY <3>1 DEF SandboxOwned, Builders
      <3>3. QED BY <2>1, <3>1, <3>2
    <2>2. ASSUME NEW h \in Holders, ReleaseSandbox(h) PROVE AttachingRenewed'
      BY <2>2
    <2>3. QED BY <1>4, <2>1, <2>2 DEF ReleaseNext
  <1>5. CASE CreateNext BY <1>5 DEF CreateNext, EnsureFailed
  <1>6. CASE ProcNext BY <1>6 DEF ProcNext, Running
  <1>7. CASE DrainNext BY <1>7 DEF DrainNext, Elems
  <1>8. CASE CancelNext BY <1>8 DEF CancelNext
  <1>9. CASE TearNext
    <2>1. ASSUME NEW k \in Teardowns, TearLoad(k) PROVE AttachingRenewed'
      BY <2>1
    <2>2. ASSUME NEW k \in Teardowns, TearUnmap(k) PROVE AttachingRenewed'
      BY <2>2
    <2>3. ASSUME NEW k \in Teardowns, TearReadCancel(k) PROVE
         AttachingRenewed'
      BY <2>3
    <2>4. ASSUME NEW k \in Teardowns, TearCancel(k) PROVE AttachingRenewed'
      BY <2>4
    <2>5. ASSUME NEW k \in Teardowns, CloseSession(k) PROVE AttachingRenewed'
      <3>1. k \notin Builders
        BY DEF Builders
      <3>2. \A b \in Builders : hand'[b] = hand[b]
        BY <2>5, <3>1
      <3>3. QED BY <2>5, <3>2
    <2>6. QED BY <1>9, <2>1, <2>2, <2>3, <2>4, <2>5 DEF TearNext
  <1>10. CASE SweepNext BY <1>10 DEF SweepNext
  <1>11. CASE UNCHANGED vars BY <1>11
  <1>12. QED BY <1>1, <1>2, <1>3, <1>4, <1>5, <1>6, <1>7, <1>8, <1>9, <1>10,
         <1>11 DEF Next

\* The hub's current turn is still open.
LEMMA HubTurnOpenStep ==
  ASSUME TypeOK, OneTurn, HubTurnOpen, [Next]_vars
  PROVE  HubTurnOpen'
  <1> USE DistinctNames DEF TypeOK, TurnTypes, HubTurnOpen, OneTurn, Active
  <1>1. CASE MessageNext BY <1>1 DEF MessageNext
  <1>2. CASE TurnNext BY <1>2 DEF TurnNext, Running, EnsureFailed
  <1>3. CASE BuildNext BY <1>3 DEF BuildNext
  <1>4. CASE ReleaseNext BY <1>4 DEF ReleaseNext
  <1>5. CASE CreateNext BY <1>5 DEF CreateNext, EnsureFailed
  <1>6. CASE ProcNext BY <1>6 DEF ProcNext, Running
  <1>7. CASE DrainNext BY <1>7 DEF DrainNext, Elems
  <1>8. CASE CancelNext BY <1>8 DEF CancelNext
  <1>9. CASE TearNext BY <1>9 DEF TearNext
  <1>10. CASE SweepNext BY <1>10 DEF SweepNext
  <1>11. CASE UNCHANGED vars BY <1>11
  <1>12. QED BY <1>1, <1>2, <1>3, <1>4, <1>5, <1>6, <1>7, <1>8, <1>9, <1>10,
         <1>11 DEF Next

\* A recorded cause names the running turn.
LEMMA CauseIsCurrentStep ==
  ASSUME TypeOK, CauseIsCurrent, [Next]_vars
  PROVE  CauseIsCurrent'
  <1> USE DistinctNames DEF TypeOK, TurnTypes, CauseIsCurrent
  <1>1. CASE MessageNext BY <1>1 DEF MessageNext
  <1>2. CASE TurnNext
    <2>1. ASSUME NEW t \in Turns, TurnStarted(t) PROVE CauseIsCurrent'
      BY <2>1
    <2>2. ASSUME NEW t \in Turns, TurnTimeout(t) PROVE CauseIsCurrent'
      BY <2>2 DEF Active
    <2>3. ASSUME NEW t \in Turns, RunDone(t) PROVE CauseIsCurrent'
      BY <2>3 DEF Running
    <2>4. ASSUME NEW t \in Turns, RunFails(t) PROVE CauseIsCurrent'
      BY <2>4 DEF Running
    <2>5. ASSUME NEW t \in Turns, PrepareFails(t) PROVE CauseIsCurrent'
      BY <2>5 DEF EnsureFailed
    <2>6. ASSUME NEW t \in Turns, PublishFinished(t) PROVE CauseIsCurrent'
      BY <2>6
    <2>7. ASSUME NEW t \in Turns, TouchTurn(t) PROVE CauseIsCurrent'
      BY <2>7
    <2>8. ASSUME NEW t \in Turns, FinishTurn(t) PROVE CauseIsCurrent'
      BY <2>8
    <2>9. QED BY <1>2, <2>1, <2>2, <2>3, <2>4, <2>5, <2>6, <2>7, <2>8 DEF
           TurnNext
  <1>3. CASE BuildNext BY <1>3 DEF BuildNext
  <1>4. CASE ReleaseNext BY <1>4 DEF ReleaseNext
  <1>5. CASE CreateNext
    <2>1. ASSUME CreateEnsured PROVE CauseIsCurrent'
      BY <2>1
    <2>2. ASSUME CreateFails PROVE CauseIsCurrent'
      BY <2>2 DEF EnsureFailed
    <2>3. ASSUME CreateStored PROVE CauseIsCurrent'
      BY <2>3
    <2>4. ASSUME CreateRollback PROVE CauseIsCurrent'
      BY <2>4
    <2>5. QED BY <1>5, <2>1, <2>2, <2>3, <2>4 DEF CreateNext
  <1>6. CASE ProcNext BY <1>6 DEF ProcNext, Running
  <1>7. CASE DrainNext BY <1>7 DEF DrainNext, Elems
  <1>8. CASE CancelNext BY <1>8 DEF CancelNext
  <1>9. CASE TearNext BY <1>9 DEF TearNext
  <1>10. CASE SweepNext
    <2>1. ASSUME SweepTick PROVE CauseIsCurrent'
      BY <2>1
    <2>2. ASSUME ReapTake PROVE CauseIsCurrent'
      BY <2>2
    <2>3. ASSUME EvictVisit PROVE CauseIsCurrent'
      BY <2>3
    <2>4. ASSUME EvictTake PROVE CauseIsCurrent'
      BY <2>4
    <2>5. ASSUME EvictSkip PROVE CauseIsCurrent'
      BY <2>5
    <2>6. ASSUME EvictUnmap PROVE CauseIsCurrent'
      BY <2>6
    <2>7. ASSUME TimePasses PROVE CauseIsCurrent'
      BY <2>7
    <2>8. QED BY <1>10, <2>1, <2>2, <2>3, <2>4, <2>5, <2>6, <2>7 DEF SweepNext
  <1>11. CASE UNCHANGED vars BY <1>11
  <1>12. QED BY <1>1, <1>2, <1>3, <1>4, <1>5, <1>6, <1>7, <1>8, <1>9, <1>10,
         <1>11 DEF Next

\* Only a cancelled turn says cancelled.
LEMMA CancelledOnlyIfAskedStep ==
  ASSUME TypeOK, OneTurn, CauseIsCurrent, CancelledOnlyIfAsked, [Next]_vars
  PROVE  CancelledOnlyIfAsked'
  <1> USE DistinctNames DEF TypeOK, TurnTypes, CancelledOnlyIfAsked
  <1>1. CASE MessageNext BY <1>1 DEF MessageNext
  <1>2. CASE TurnNext
    <2>1. ASSUME NEW t \in Turns, TurnStarted(t) PROVE CancelledOnlyIfAsked'
      BY <2>1
    <2>2. ASSUME NEW t \in Turns, TurnTimeout(t) PROVE CancelledOnlyIfAsked'
      BY <2>2 DEF Active
    <2>3. ASSUME NEW t \in Turns, RunDone(t) PROVE CancelledOnlyIfAsked'
      BY <2>3 DEF Running
    <2>4. ASSUME NEW t \in Turns, RunFails(t) PROVE CancelledOnlyIfAsked'
      <3>1. turnID = t
        BY <2>4 DEF OneTurn, Active, Running
      <3>2. cause => t \in asked
        BY <3>1 DEF CauseIsCurrent
      <3>3. asked' = asked /\ \A u \in Turns :
              status'[u] = IF u = t THEN IF cause THEN "cancelled" ELSE "error"
                                    ELSE status[u]
        BY <2>4
      <3>4. QED BY <3>2, <3>3
    <2>5. ASSUME NEW t \in Turns, PrepareFails(t) PROVE CancelledOnlyIfAsked'
      <3>1. turnID = t
        BY <2>5 DEF OneTurn, Active, Running
      <3>2. cause => t \in asked
        BY <3>1 DEF CauseIsCurrent
      <3>3. asked' = asked /\ \A u \in Turns :
              status'[u] = IF u = t THEN IF cause THEN "cancelled" ELSE "error"
                                    ELSE status[u]
        BY <2>5
      <3>4. QED BY <3>2, <3>3
    <2>6. ASSUME NEW t \in Turns, PublishFinished(t) PROVE
         CancelledOnlyIfAsked'
      BY <2>6
    <2>7. ASSUME NEW t \in Turns, TouchTurn(t) PROVE CancelledOnlyIfAsked'
      BY <2>7
    <2>8. ASSUME NEW t \in Turns, FinishTurn(t) PROVE CancelledOnlyIfAsked'
      BY <2>8
    <2>9. QED BY <1>2, <2>1, <2>2, <2>3, <2>4, <2>5, <2>6, <2>7, <2>8 DEF
           TurnNext
  <1>3. CASE BuildNext BY <1>3 DEF BuildNext
  <1>4. CASE ReleaseNext BY <1>4 DEF ReleaseNext
  <1>5. CASE CreateNext BY <1>5 DEF CreateNext, EnsureFailed
  <1>6. CASE ProcNext BY <1>6 DEF ProcNext, Running
  <1>7. CASE DrainNext BY <1>7 DEF DrainNext, Elems
  <1>8. CASE CancelNext BY <1>8 DEF CancelNext
  <1>9. CASE TearNext BY <1>9 DEF TearNext
  <1>10. CASE SweepNext BY <1>10 DEF SweepNext
  <1>11. CASE UNCHANGED vars BY <1>11
  <1>12. QED BY <1>1, <1>2, <1>3, <1>4, <1>5, <1>6, <1>7, <1>8, <1>9, <1>10,
         <1>11 DEF Next

-----------------------------------------------------------------------------
(* The invariant holds initially and every step keeps it *)

\* A session under creation or just adopted satisfies the invariant.
LEMMA SessionInit == Init => SessionInv
  <1> SUFFICES ASSUME Init PROVE SessionInv
    OBVIOUS
  <1> USE DistinctNames DEF Init
  <1>1. TypeOK
    <2>1. FieldTypes /\ TurnTypes
      BY DEF FieldTypes, TurnTypes
    <2>2. ThreadTypes
      BY DEF ThreadTypes
    <2>3. SandboxTypes
      BY DEF SandboxTypes
    <2>4. ExitTypes
      BY DEF ExitTypes
    <2>5. QED BY <2>1, <2>2, <2>3, <2>4 DEF TypeOK
  <1>2. OneTurn /\ QuietCreation
    BY DEF OneTurn, Active, QuietCreation
  <1>3. BuildPhases /\ BuildingDetached
    BY DEF BuildPhases, BuildingDetached, Building, Builders, Holders
  <1>4. SandboxOwned
    BY DEF SandboxOwned
  <1>5. RunningKeepsSandbox /\ ClosedHoldsNothing
    BY DEF RunningKeepsSandbox, Running, ClosedHoldsNothing
  <1>6. RenewalFollowsSandbox /\ AttachingRenewed
    BY DEF RenewalFollowsSandbox, AttachingRenewed
  <1>7. HubTurnOpen /\ CauseIsCurrent /\ CancelledOnlyIfAsked
    BY DEF HubTurnOpen, CauseIsCurrent, CancelledOnlyIfAsked
  <1>8. QED
    BY <1>1, <1>2, <1>3, <1>4, <1>5, <1>6, <1>7 DEF SessionInv

\* Every step of every goroutine keeps the invariant.
LEMMA SessionStep == SessionInv /\ [Next]_vars => SessionInv'
  <1> SUFFICES ASSUME SessionInv, [Next]_vars PROVE SessionInv'
    OBVIOUS
  <1> USE DEF SessionInv
  <1>1. TypeOK'
    BY FieldTypesStep, TurnTypesStep, ThreadTypesStep, SandboxTypesStep,
       ExitTypesStep DEF TypeOK
  <1>2. OneTurn' /\ QuietCreation' /\ BuildPhases'
    BY OneTurnStep, QuietCreationStep, BuildPhasesStep
  <1>3. ClosedHoldsNothing' /\ BuildingDetached' /\ SandboxOwned'
    BY ClosedHoldsNothingStep, BuildingDetachedStep, SandboxOwnedStep
  <1>4. RunningKeepsSandbox' /\ RenewalFollowsSandbox' /\ AttachingRenewed'
    BY RunningKeepsSandboxStep, RenewalFollowsSandboxStep,
       AttachingRenewedStep
  <1>5. HubTurnOpen' /\ CauseIsCurrent' /\ CancelledOnlyIfAsked'
    BY HubTurnOpenStep, CauseIsCurrentStep, CancelledOnlyIfAskedStep
  <1>6. QED BY <1>1, <1>2, <1>3, <1>4, <1>5

\* The inductive invariant holds in every reachable state.
THEOREM Invariance == Spec => []SessionInv
  BY SessionInit, SessionStep, PTL DEF Spec

-----------------------------------------------------------------------------
(* What follows for the session *)

\* Every variable of the session, its goroutines and the sandbox service
\* always has its type.
THEOREM TypeCorrect == Spec => []TypeOK
  <1>1. SessionInv => TypeOK
    BY DEF SessionInv
  <1>2. QED BY <1>1, Invariance, PTL

\* A session never runs two turns, however messages, drains and finishing
\* turns interleave (startTurn, finishTurn).
THEOREM TurnsExclude == Spec => []OneTurn
  <1>1. SessionInv => OneTurn
    BY DEF SessionInv
  <1>2. QED BY <1>1, Invariance, PTL

\* No sandbox leaks and none is released twice, for any number of turns,
\* teardowns and sandboxes (setSandbox, take*, closeSession, releaseSandbox).
THEOREM NoSandboxLeak == Spec => []SandboxOwned
  <1>1. SessionInv => SandboxOwned
    BY DEF SessionInv
  <1>2. QED BY <1>1, Invariance, PTL

\* A turn that got the lock first never loses its sandbox to the reaper
\* (takeSandboxIfIdle, takeIfCold).
THEOREM TurnKeepsSandbox == Spec => []RunningKeepsSandbox
  <1>1. SessionInv => RunningKeepsSandbox
    BY DEF SessionInv
  <1>2. QED BY <1>1, Invariance, PTL

\* No rebuild attaches a sandbox to a closed session (setSandbox).
THEOREM ClosedStaysDetached == Spec => []ClosedHoldsNothing
  <1>1. SessionInv => ClosedHoldsNothing
    BY DEF SessionInv
  <1>2. QED BY <1>1, Invariance, PTL

\* The attached sandbox is renewed and no renewal outlives its sandbox
\* (ensureSandbox, stopRenew).
THEOREM RenewalBounded == Spec => []RenewalFollowsSandbox
  <1>1. SessionInv => RenewalFollowsSandbox
    BY DEF SessionInv
  <1>2. QED BY <1>1, Invariance, PTL

\* The hub never shows a turn the session does not run (publish, startTurn).
THEOREM HubAgrees == Spec => []HubShowsRunningTurn
  <1>1. SessionInv => HubShowsRunningTurn
    BY DistinctNames DEF SessionInv, TypeOK, TurnTypes, HubTurnOpen, OneTurn,
       Active, HubShowsRunningTurn
  <1>2. QED BY <1>1, Invariance, PTL

\* A turn closes as cancelled only when a cancel named it (startTurn resets
\* turnCancelCause).
THEOREM CancelledWasAsked == Spec => []CancelledOnlyIfAsked
  <1>1. SessionInv => CancelledOnlyIfAsked
    BY DEF SessionInv
  <1>2. QED BY <1>1, Invariance, PTL

\* A session runs one turn at a time, and it is the one its event stream shows
\* (startTurn, finishTurn, hub.publish).
THEOREM TurnsShown == Spec => []TurnsAreShown
  <1>1. OneTurn /\ HubShowsRunningTurn => TurnsAreShown
    BY DEF TurnsAreShown
  <1>2. QED BY <1>1, TurnsExclude, HubAgrees, PTL

\* However turns, reaps, evictions, deletes and rebuilds interleave, every
\* sandbox has one owner, the running turn keeps its own, a renewal ends with
\* its sandbox and a closed session holds none.
THEOREM SandboxesAccountedFor == Spec => []SandboxesAccounted
  <1>1. SandboxOwned /\ RunningKeepsSandbox /\ RenewalFollowsSandbox
          /\ ClosedHoldsNothing => SandboxesAccounted
    BY DEF SandboxesAccounted
  <1>2. QED BY <1>1, NoSandboxLeak, TurnKeepsSandbox, RenewalBounded,
               ClosedStaysDetached, PTL

-----------------------------------------------------------------------------
(* Background exits *)

Distinct(q) == \A i, j \in DOMAIN q : q[i] = q[j] => i = j

\* Who can still start a drain, and what it then finds empty.
DrainPhases ==
  /\ \A d \in Drainers : drain[d] \notin {"start", "requeue"} => batch[d] = <<>>
  /\ \A t \in Turns : drain[t] # "off" => turn[t] = "end"
  /\ \A p \in Procs : drain[p] # "off" => proc[p] = "reported"
  /\ \A t \in Turns : turn[t] = "new" => content[t] = <<>>
  /\ \A p \in Elems(recorded) \cup dropped : proc[p] = "reported"

\* No exit is twice in one place ...
NoneTwice == Distinct(bgExited) /\ \A d \in Drainers : Distinct(batch[d])

\* ... or in two ...
Apart ==
  /\ \A d \in Drainers : Elems(bgExited) \cap Elems(batch[d]) = {}
  /\ \A t \in Turns : Elems(bgExited) \cap Elems(content[t]) = {}
  /\ Elems(bgExited) \cap dropped = {}
  /\ \A d, e \in Drainers : d # e => Elems(batch[d]) \cap Elems(batch[e]) = {}
  /\ \A d \in Drainers, t \in Turns : Elems(batch[d]) \cap Elems(content[t]) = {}
  /\ \A d \in Drainers : Elems(batch[d]) \cap dropped = {}
  /\ \A t, u \in Turns : t # u => Elems(content[t]) \cap Elems(content[u]) = {}
  /\ \A t \in Turns : Elems(content[t]) \cap dropped = {}

\* ... and those that are in one are the known ones.
Placed(p) ==
  \/ p \in Elems(bgExited) \/ p \in dropped
  \/ \E d \in Drainers : p \in Elems(batch[d])
  \/ \E t \in Turns : p \in Elems(content[t])
AllPlaced == \A p \in Procs : Placed(p) <=> p \in Elems(recorded) \cup dropped

ExitsInv == DrainPhases /\ NoneTwice /\ Apart /\ AllPlaced

LEMMA ElemsOfEmpty == Elems(<<>>) = {} /\ Distinct(<<>>)
  BY DEF Elems, Distinct

LEMMA ElemsOfAppend ==
  ASSUME NEW S, NEW q \in Seq(S), NEW e \in S
  PROVE  /\ Elems(Append(q, e)) = Elems(q) \cup {e}
         /\ Distinct(q) /\ e \notin Elems(q) => Distinct(Append(q, e))
  <1>1. /\ DOMAIN Append(q, e) = 1..(Len(q) + 1) /\ DOMAIN q = 1..Len(q) /\ Len(q) \in Nat
        /\ \A i \in 1..Len(q) : Append(q, e)[i] = q[i]
        /\ Append(q, e)[Len(q) + 1] = e
    OBVIOUS
  <1>2. 1..(Len(q) + 1) = (1..Len(q)) \cup {Len(q) + 1}
    BY <1>1
  <1>3. QED BY <1>1, <1>2 DEF Elems, Distinct

LEMMA ElemsOfConcat ==
  ASSUME NEW S, NEW q \in Seq(S), NEW r \in Seq(S)
  PROVE  /\ Elems(q \o r) = Elems(q) \cup Elems(r)
         /\ Distinct(q) /\ Distinct(r) /\ Elems(q) \cap Elems(r) = {} => Distinct(q \o r)
  <1>1. /\ DOMAIN (q \o r) = 1..(Len(q) + Len(r)) /\ Len(q) \in Nat /\ Len(r) \in Nat
        /\ DOMAIN q = 1..Len(q) /\ DOMAIN r = 1..Len(r)
        /\ \A i \in 1..Len(q) : (q \o r)[i] = q[i]
        /\ \A i \in 1..Len(r) : (q \o r)[Len(q) + i] = r[i]
    OBVIOUS
  <1>2. \A i \in 1..(Len(q) + Len(r)) : i \in 1..Len(q) \/ \E j \in 1..Len(r) : i = Len(q) + j
    <2>1. ASSUME NEW i \in 1..(Len(q) + Len(r)), i \notin 1..Len(q)
          PROVE  \E j \in 1..Len(r) : i = Len(q) + j
      <3>1. i - Len(q) \in 1..Len(r) /\ i = Len(q) + (i - Len(q))
        BY <1>1, <2>1
      <3>2. QED BY <3>1
    <2>2. QED BY <2>1
  <1>3. \A i \in 1..Len(q) : i \in 1..(Len(q) + Len(r))
    BY <1>1
  <1>4. \A j \in 1..Len(r) : Len(q) + j \in 1..(Len(q) + Len(r))
    BY <1>1
  <1>5. Elems(q \o r) = Elems(q) \cup Elems(r)
    <2>1. ASSUME NEW x \in Elems(q \o r) PROVE x \in Elems(q) \cup Elems(r)
      <3>1. PICK i \in 1..(Len(q) + Len(r)) : x = (q \o r)[i]
        BY <1>1, <2>1 DEF Elems
      <3>2. CASE i \in 1..Len(q)
        BY <1>1, <3>1, <3>2 DEF Elems
      <3>3. CASE i \notin 1..Len(q)
        <4>1. PICK j \in 1..Len(r) : i = Len(q) + j
          BY <1>2, <3>3
        <4>2. x = r[j] /\ j \in DOMAIN r
          BY <1>1, <3>1, <4>1
        <4>3. QED BY <4>2 DEF Elems
      <3>4. QED BY <3>2, <3>3
    <2>2. ASSUME NEW x \in Elems(q) PROVE x \in Elems(q \o r)
      BY <1>1, <1>3, <2>2 DEF Elems
    <2>3. ASSUME NEW x \in Elems(r) PROVE x \in Elems(q \o r)
      <3>1. PICK j \in 1..Len(r) : x = r[j]
        BY <1>1, <2>3 DEF Elems
      <3>2. x = (q \o r)[Len(q) + j] /\ Len(q) + j \in DOMAIN (q \o r)
        BY <1>1, <1>4, <3>1
      <3>3. QED BY <3>2 DEF Elems
    <2>4. QED BY <2>1, <2>2, <2>3
  <1>6. ASSUME Distinct(q), Distinct(r), Elems(q) \cap Elems(r) = {},
               NEW i \in 1..(Len(q) + Len(r)), NEW j \in 1..(Len(q) + Len(r)),
               (q \o r)[i] = (q \o r)[j]
        PROVE  i = j
    <2>1. \A a \in 1..Len(q), b \in 1..Len(r) : q[a] # r[b]
      BY <1>1, <1>6 DEF Elems
    <2>2. CASE i \in 1..Len(q) /\ j \in 1..Len(q)
      BY <1>1, <1>6, <2>2 DEF Distinct
    <2>3. CASE i \in 1..Len(q) /\ j \notin 1..Len(q)
      BY <1>1, <1>2, <1>6, <2>1, <2>3
    <2>4. CASE i \notin 1..Len(q) /\ j \in 1..Len(q)
      BY <1>1, <1>2, <1>6, <2>1, <2>4
    <2>5. CASE i \notin 1..Len(q) /\ j \notin 1..Len(q)
      <3>1. PICK a \in 1..Len(r) : i = Len(q) + a
        BY <1>2, <2>5
      <3>2. PICK b \in 1..Len(r) : j = Len(q) + b
        BY <1>2, <2>5
      <3>3. r[a] = r[b]
        BY <1>1, <1>6, <3>1, <3>2
      <3>4. a = b
        BY <1>1, <1>6, <3>3 DEF Distinct
      <3>5. QED BY <3>1, <3>2, <3>4
    <2>6. QED BY <2>2, <2>3, <2>4, <2>5
  <1>7. QED BY <1>1, <1>5, <1>6 DEF Distinct

\* A step that moves no exit, brings no drain out of its turn and forgets no
\* report.
LEMMA ExitsRest ==
  ASSUME ExitsInv, UNCHANGED <<bgExited, content, batch, recorded, dropped>>,
         \A d \in Drainers : drain[d] \in {"start", "requeue"} =>
                             drain'[d] \in {"start", "requeue"},
         \A t \in Turns : drain'[t] # "off" => drain[t] # "off" \/ turn'[t] = "end",
         \A t \in Turns : turn[t] = "end" => turn'[t] = "end",
         \A t \in Turns : turn'[t] = "new" => turn[t] = "new",
         \A p \in Procs : drain'[p] # "off" => drain[p] # "off",
         \A p \in Procs : proc[p] = "reported" => proc'[p] = "reported",
         TypeOK
  PROVE  ExitsInv'
  <1>1. \A p \in Elems(recorded) \cup dropped : p \in Procs
    BY DEF TypeOK, ExitTypes, Elems
  <1>2. DrainPhases'
    <2>1. \A d \in Drainers : drain'[d] \notin {"start", "requeue"} => batch'[d] = <<>>
      BY DEF ExitsInv, DrainPhases
    <2>2. \A t \in Turns : drain'[t] # "off" => turn'[t] = "end"
      BY DEF ExitsInv, DrainPhases
    <2>3. \A p \in Procs : drain'[p] # "off" => proc'[p] = "reported"
      BY DEF ExitsInv, DrainPhases
    <2>4. \A t \in Turns : turn'[t] = "new" => content'[t] = <<>>
      BY DEF ExitsInv, DrainPhases
    <2>5. \A p \in Elems(recorded') \cup dropped' : proc'[p] = "reported"
      BY <1>1 DEF ExitsInv, DrainPhases
    <2>6. QED BY <2>1, <2>2, <2>3, <2>4, <2>5 DEF DrainPhases, Elems
  <1>3. NoneTwice'
    BY DEF ExitsInv, NoneTwice, Distinct
  <1>4. Apart'
    BY DEF ExitsInv, Apart
  <1>5. AllPlaced'
    BY DEF ExitsInv, AllPlaced, Placed, Elems
  <1>6. QED BY <1>2, <1>3, <1>4, <1>5 DEF ExitsInv

\* The exit a watcher reports was reported nowhere before.
LEMMA ExitsRecord ==
  ASSUME TypeOK, ExitsInv, NEW p \in Procs, RecordExit(p)
  PROVE  ExitsInv'
  <1> DEFINE known == Elems(recorded) \cup dropped
  <1>1. /\ bgExited \in Seq(Procs) /\ recorded \in Seq(Procs)
        /\ batch \in [Drainers -> Seq(Procs)] /\ content \in [Turns -> Seq(Procs)]
    BY DEF TypeOK, ExitTypes
  <1>2. /\ \A q \in Procs : proc'[q] = IF q = p THEN "reported" ELSE proc[q]
        /\ \A d \in Drainers : drain'[d] = IF d = p THEN "take" ELSE drain[d]
        /\ turn' = turn /\ batch' = batch /\ content' = content
    BY DEF TypeOK, ExitTypes
  <1>3. p \notin known /\ drain[p] = "off" /\ p \notin Turns /\ p \in Drainers
    BY DistinctNames DEF ExitsInv, DrainPhases, Drainers
  <1>4. ~Placed(p)
    BY <1>3 DEF ExitsInv, AllPlaced
  <1>5. \A q \in known : q \in Procs
    BY <1>1 DEF TypeOK, ExitTypes, Elems
  <1>6. Elems(recorded') \cup dropped' = known \cup {p}
    <2>1. CASE closed
      BY <2>1
    <2>2. CASE ~closed
      <3>1. recorded' = Append(recorded, p) /\ dropped' = dropped
        BY <2>2
      <3>2. Elems(Append(recorded, p)) = Elems(recorded) \cup {p}
        BY <1>1, ElemsOfAppend
      <3>3. QED BY <3>1, <3>2
    <2>3. QED BY <2>1, <2>2
  <1>7. /\ Elems(bgExited') \cup dropped' = Elems(bgExited) \cup dropped \cup {p}
        /\ Elems(bgExited') \cap dropped' = {}
        /\ Distinct(bgExited')
    <2>1. Elems(bgExited) \cap dropped = {} /\ Distinct(bgExited)
          /\ p \notin Elems(bgExited) /\ p \notin dropped
      BY <1>4 DEF ExitsInv, Apart, NoneTwice, Placed
    <2>2. CASE closed
      BY <2>1, <2>2
    <2>3. CASE ~closed
      <3>1. bgExited' = Append(bgExited, p) /\ dropped' = dropped
        BY <2>3
      <3>2. /\ Elems(Append(bgExited, p)) = Elems(bgExited) \cup {p}
            /\ Distinct(Append(bgExited, p))
        BY <1>1, <2>1, ElemsOfAppend
      <3>3. QED BY <2>1, <3>1, <3>2
    <2>4. QED BY <2>2, <2>3
  <1> HIDE DEF known
  <1>8. DrainPhases'
    <2>1. \A d \in Drainers : drain'[d] \notin {"start", "requeue"} => batch'[d] = <<>>
      BY <1>2, <1>3 DEF ExitsInv, DrainPhases
    <2>2. \A t \in Turns : drain'[t] # "off" => turn'[t] = "end"
      BY <1>2, <1>3 DEF ExitsInv, DrainPhases, Drainers
    <2>3. \A q \in Procs : drain'[q] # "off" => proc'[q] = "reported"
      BY <1>2 DEF ExitsInv, DrainPhases, Drainers
    <2>4. \A t \in Turns : turn'[t] = "new" => content'[t] = <<>>
      BY <1>2 DEF ExitsInv, DrainPhases
    <2>5. \A q \in known : proc[q] = "reported"
      BY DEF ExitsInv, DrainPhases, known
    <2>6. \A q \in Elems(recorded') \cup dropped' : proc'[q] = "reported"
      BY <1>2, <1>5, <1>6, <2>5
    <2>7. QED BY <2>1, <2>2, <2>3, <2>4, <2>6 DEF DrainPhases, Elems
  <1>9. NoneTwice'
    BY <1>2, <1>7 DEF ExitsInv, NoneTwice, Distinct
  <1>10. Apart'
    <2>1. /\ \A d \in Drainers : p \notin Elems(batch[d])
          /\ \A t \in Turns : p \notin Elems(content[t])
      BY <1>4 DEF Placed
    <2>2. \A x : x \in Elems(bgExited') \cup dropped' => x = p \/ x \in Elems(bgExited) \cup dropped
      BY <1>7
    <2>3. Apart
      BY DEF ExitsInv
    <2>4. \A d \in Drainers : (Elems(bgExited') \cup dropped') \cap Elems(batch[d]) = {}
      BY <2>1, <2>2, <2>3 DEF Apart
    <2>5. \A t \in Turns : (Elems(bgExited') \cup dropped') \cap Elems(content[t]) = {}
      BY <2>1, <2>2, <2>3 DEF Apart
    <2>6. \A d, e \in Drainers : d # e => Elems(batch'[d]) \cap Elems(batch'[e]) = {}
      BY <1>2, <2>3 DEF Apart
    <2>7. \A d \in Drainers, t \in Turns : Elems(batch'[d]) \cap Elems(content'[t]) = {}
      BY <1>2, <2>3 DEF Apart
    <2>8. \A t, u \in Turns : t # u => Elems(content'[t]) \cap Elems(content'[u]) = {}
      BY <1>2, <2>3 DEF Apart
    <2>9. QED BY <1>2, <1>7, <2>4, <2>5, <2>6, <2>7, <2>8 DEF Apart
  <1>11. AllPlaced'
    <2>1. ASSUME NEW q \in Procs PROVE Placed(q)' <=> Placed(q) \/ q = p
      BY <1>2, <1>7 DEF Placed, Elems
    <2>2. \A q \in Procs : Placed(q) <=> q \in known
      BY DEF ExitsInv, AllPlaced, known
    <2>3. \A q \in Procs : q \in Elems(recorded') \cup dropped' <=> q \in known \/ q = p
      BY <1>6
    <2>4. QED BY <2>1, <2>2, <2>3 DEF AllPlaced, Elems
  <1>12. QED BY <1>8, <1>9, <1>10, <1>11 DEF ExitsInv

\* The facts about the sequences every move of exits needs.
LEMMA ExitSequences ==
  ASSUME TypeOK
  PROVE  /\ bgExited \in Seq(Procs) /\ dropped \subseteq Procs
         /\ \A d \in Drainers : batch[d] \in Seq(Procs)
         /\ \A t \in Turns : content[t] \in Seq(Procs)
         /\ \A p \in Elems(recorded) \cup dropped : p \in Procs
  BY DEF TypeOK, ExitTypes, Elems

\* A drain takes the whole queue in hand.
LEMMA ExitsTaken ==
  ASSUME TypeOK, ExitsInv, NEW d \in Drainers, TakeExits(d)
  PROVE  ExitsInv'
  <1>1. CASE closed \/ bgExited = <<>>
    <2>1. UNCHANGED <<bgExited, content, batch, recorded, dropped, turn, proc>>
      BY <1>1
    <2>2. drain[d] = "take" /\ \A e \in Drainers : drain'[e] = IF e = d THEN "end" ELSE drain[e]
      BY <1>1 DEF TypeOK, ExitTypes
    <2>3. QED BY <2>1, <2>2, ExitsRest DEF Drainers, ExitsInv, DrainPhases
  <1>2. CASE ~(closed \/ bgExited = <<>>)
    <2>1. /\ UNCHANGED <<content, recorded, dropped, turn, proc>> /\ bgExited' = <<>>
          /\ drain[d] = "take" /\ batch' = [batch EXCEPT ![d] = bgExited]
          /\ drain' = [drain EXCEPT ![d] = "start"]
      BY <1>2
    <2>2. /\ \A e \in Drainers : drain'[e] = IF e = d THEN "start" ELSE drain[e]
          /\ \A e \in Drainers : batch'[e] = IF e = d THEN bgExited ELSE batch[e]
      BY <2>1 DEF TypeOK, ExitTypes
    <2>3. Elems(batch[d]) = {} /\ Elems(bgExited') = {} /\ Distinct(bgExited')
      BY <2>1, ElemsOfEmpty DEF ExitsInv, DrainPhases
    <2>4. DrainPhases'
      <3>1. \A e \in Drainers : drain'[e] \notin {"start", "requeue"} => batch'[e] = <<>>
        BY <2>2 DEF ExitsInv, DrainPhases
      <3>2. \A t \in Turns : drain'[t] # "off" => turn'[t] = "end"
        BY <2>1, <2>2 DEF ExitsInv, DrainPhases, Drainers
      <3>3. \A p \in Procs : drain'[p] # "off" => proc'[p] = "reported"
        BY <2>1, <2>2 DEF ExitsInv, DrainPhases, Drainers
      <3>4. QED BY <2>1, <3>1, <3>2, <3>3 DEF ExitsInv, DrainPhases
    <2>5. NoneTwice'
      BY <2>2, <2>3 DEF ExitsInv, NoneTwice
    <2>6. Apart'
      <3>1. batch'[d] = bgExited /\ \A e \in Drainers : e # d => batch'[e] = batch[e]
        BY <2>2
      <3>2. Apart
        BY DEF ExitsInv
      <3>3. ASSUME NEW e \in Drainers, NEW f \in Drainers, e # f
            PROVE  Elems(batch'[e]) \cap Elems(batch'[f]) = {}
        <4>1. CASE e = d
          BY <3>1, <3>2, <3>3, <4>1 DEF Apart
        <4>2. CASE f = d
          BY <3>1, <3>2, <3>3, <4>2 DEF Apart
        <4>3. CASE e # d /\ f # d
          BY <3>1, <3>2, <3>3, <4>3 DEF Apart
        <4>4. QED BY <4>1, <4>2, <4>3
      <3>4. ASSUME NEW e \in Drainers
            PROVE  /\ \A t \in Turns : Elems(batch'[e]) \cap Elems(content[t]) = {}
                   /\ Elems(batch'[e]) \cap dropped = {}
        <4>1. CASE e = d
          BY <3>1, <3>2, <4>1 DEF Apart
        <4>2. CASE e # d
          BY <3>1, <3>2, <4>2 DEF Apart
        <4>3. QED BY <4>1, <4>2
      <3>5. QED BY <2>1, <2>3, <3>2, <3>3, <3>4 DEF Apart
    <2>7. AllPlaced'
      <3>1. ASSUME NEW p \in Procs PROVE Placed(p)' <=> Placed(p)
        BY <2>1, <2>2, <2>3 DEF Placed
      <3>2. QED BY <2>1, <3>1 DEF ExitsInv, AllPlaced
    <2>8. QED BY <2>4, <2>5, <2>6, <2>7 DEF ExitsInv
  <1>3. QED BY <1>1, <1>2

\* A turn is started to tell of a batch.
LEMMA ExitsTold ==
  ASSUME TypeOK, ExitsInv, NEW d \in Drainers, NEW t \in Turns, DrainStarts(d, t)
  PROVE  ExitsInv'
  <1>1. /\ UNCHANGED <<bgExited, recorded, dropped, proc>>
        /\ drain[d] = "start" /\ turn[t] = "new"
        /\ content' = [content EXCEPT ![t] = batch[d]] /\ batch' = [batch EXCEPT ![d] = <<>>]
        /\ turn' = [turn EXCEPT ![t] = "started"] /\ drain' = [drain EXCEPT ![d] = "end"]
    OBVIOUS
  <1>2. /\ \A e \in Drainers : drain'[e] = IF e = d THEN "end" ELSE drain[e]
        /\ \A e \in Drainers : batch'[e] = IF e = d THEN <<>> ELSE batch[e]
        /\ \A u \in Turns : content'[u] = IF u = t THEN batch[d] ELSE content[u]
        /\ \A u \in Turns : turn'[u] = IF u = t THEN "started" ELSE turn[u]
    BY <1>1 DEF TypeOK, ExitTypes, TurnTypes
  <1>3. Elems(content[t]) = {} /\ Elems(<<>>) = {} /\ Distinct(<<>>)
    BY <1>1, ElemsOfEmpty DEF ExitsInv, DrainPhases
  <1>4. DrainPhases'
    <2>1. \A e \in Drainers : drain'[e] \notin {"start", "requeue"} => batch'[e] = <<>>
      BY <1>2 DEF ExitsInv, DrainPhases
    <2>2. \A u \in Turns : drain'[u] # "off" => turn'[u] = "end"
      BY <1>1, <1>2 DEF ExitsInv, DrainPhases, Drainers
    <2>3. \A p \in Procs : drain'[p] # "off" => proc'[p] = "reported"
      BY <1>1, <1>2 DEF ExitsInv, DrainPhases, Drainers
    <2>4. \A u \in Turns : turn'[u] = "new" => content'[u] = <<>>
      BY <1>2 DEF ExitsInv, DrainPhases
    <2>5. QED BY <1>1, <2>1, <2>2, <2>3, <2>4 DEF ExitsInv, DrainPhases
  <1>5. NoneTwice'
    BY <1>1, <1>2, <1>3 DEF ExitsInv, NoneTwice
  <1>6. Apart'
    <2>1. /\ Elems(batch'[d]) = {} /\ \A e \in Drainers : e # d => batch'[e] = batch[e]
          /\ content'[t] = batch[d] /\ \A u \in Turns : u # t => content'[u] = content[u]
      BY <1>2, <1>3
    <2>2. Apart
      BY DEF ExitsInv
    <2>3. ASSUME NEW e \in Drainers
          PROVE  /\ Elems(bgExited) \cap Elems(batch'[e]) = {}
                 /\ Elems(batch'[e]) \cap dropped = {}
                 /\ \A f \in Drainers : e # f => Elems(batch'[e]) \cap Elems(batch'[f]) = {}
      <3>1. CASE e = d
        BY <2>1, <3>1
      <3>2. CASE e # d
        <4>1. ASSUME NEW f \in Drainers, e # f PROVE Elems(batch'[e]) \cap Elems(batch'[f]) = {}
          <5>1. CASE f = d
            BY <2>1, <5>1
          <5>2. CASE f # d
            BY <2>1, <2>2, <3>2, <4>1, <5>2 DEF Apart
          <5>3. QED BY <5>1, <5>2
        <4>2. Elems(bgExited) \cap Elems(batch'[e]) = {} /\ Elems(batch'[e]) \cap dropped = {}
          BY <2>1, <2>2, <3>2 DEF Apart
        <4>3. QED BY <4>1, <4>2
      <3>3. QED BY <3>1, <3>2
    <2>4. ASSUME NEW u \in Turns
          PROVE  /\ Elems(bgExited) \cap Elems(content'[u]) = {}
                 /\ Elems(content'[u]) \cap dropped = {}
      <3>1. CASE u = t
        BY <2>1, <2>2, <3>1 DEF Apart
      <3>2. CASE u # t
        BY <2>1, <2>2, <3>2 DEF Apart
      <3>3. QED BY <3>1, <3>2
    <2>5. ASSUME NEW u \in Turns, NEW v \in Turns, u # v
          PROVE  Elems(content'[u]) \cap Elems(content'[v]) = {}
      <3>1. CASE u = t
        BY <2>1, <2>2, <2>5, <3>1 DEF Apart
      <3>2. CASE v = t
        BY <2>1, <2>2, <2>5, <3>2 DEF Apart
      <3>3. CASE u # t /\ v # t
        BY <2>1, <2>2, <2>5, <3>3 DEF Apart
      <3>4. QED BY <3>1, <3>2, <3>3
    <2>6. ASSUME NEW e \in Drainers, NEW u \in Turns
          PROVE  Elems(batch'[e]) \cap Elems(content'[u]) = {}
      <3>1. CASE e = d
        BY <2>1, <3>1
      <3>2. CASE e # d /\ u = t
        BY <2>1, <2>2, <3>2 DEF Apart
      <3>3. CASE e # d /\ u # t
        BY <2>1, <2>2, <3>3 DEF Apart
      <3>4. QED BY <3>1, <3>2, <3>3
    <2>7. QED BY <1>1, <2>2, <2>3, <2>4, <2>5, <2>6 DEF Apart
  <1>7. AllPlaced'
    <2>1. ASSUME NEW p \in Procs PROVE Placed(p)' <=> Placed(p)
      BY <1>1, <1>2, <1>3 DEF Placed
    <2>2. QED BY <1>1, <2>1 DEF ExitsInv, AllPlaced
  <1>8. QED BY <1>4, <1>5, <1>6, <1>7 DEF ExitsInv

\* A batch goes back to the queue, or is dropped by a session that was closed.
LEMMA ExitsRequeued ==
  ASSUME TypeOK, ExitsInv, NEW d \in Drainers, Requeue(d)
  PROVE  ExitsInv'
  <1>1. /\ UNCHANGED <<content, recorded, turn, proc>> /\ drain[d] = "requeue"
        /\ batch' = [batch EXCEPT ![d] = <<>>] /\ drain' = [drain EXCEPT ![d] = "end"]
        /\ \/ bgExited' = bgExited /\ dropped' = dropped \cup Elems(batch[d])
           \/ bgExited' = batch[d] \o bgExited /\ dropped' = dropped
    OBVIOUS
  <1>2. /\ \A e \in Drainers : drain'[e] = IF e = d THEN "end" ELSE drain[e]
        /\ \A e \in Drainers : batch'[e] = IF e = d THEN <<>> ELSE batch[e]
    BY <1>1 DEF TypeOK, ExitTypes
  <1>3. Apart /\ NoneTwice /\ DrainPhases /\ AllPlaced
    BY DEF ExitsInv
  <1>4. /\ Elems(batch'[d]) = {} /\ \A e \in Drainers : e # d => batch'[e] = batch[e]
        /\ \A e \in Drainers : Distinct(batch'[e])
    <2>1. batch'[d] = <<>> /\ \A e \in Drainers : e # d => batch'[e] = batch[e]
      BY <1>2
    <2>2. QED BY <1>3, <2>1, ElemsOfEmpty DEF NoneTwice
  <1>5. /\ Elems(bgExited') \cup dropped' = Elems(bgExited) \cup dropped \cup Elems(batch[d])
        /\ Elems(bgExited') \cap dropped' = {}
        /\ Distinct(bgExited')
    <2>1. /\ Elems(bgExited) \cap Elems(batch[d]) = {} /\ Elems(bgExited) \cap dropped = {}
          /\ Elems(batch[d]) \cap dropped = {} /\ Distinct(bgExited) /\ Distinct(batch[d])
      BY <1>3 DEF Apart, NoneTwice
    <2>2. CASE bgExited' = bgExited /\ dropped' = dropped \cup Elems(batch[d])
      BY <2>1, <2>2
    <2>3. CASE bgExited' = batch[d] \o bgExited /\ dropped' = dropped
      <3>1. bgExited \in Seq(Procs) /\ batch[d] \in Seq(Procs)
        BY ExitSequences
      <3>2. /\ Elems(batch[d] \o bgExited) = Elems(batch[d]) \cup Elems(bgExited)
            /\ Distinct(batch[d] \o bgExited)
        BY <2>1, <3>1, ElemsOfConcat
      <3>3. QED BY <2>1, <2>3, <3>2
    <2>4. QED BY <1>1, <2>2, <2>3
  <1>6. \A p \in Procs : Placed(p)' <=> Placed(p)
    <2>1. ASSUME NEW p \in Procs PROVE Placed(p)' <=> Placed(p)
      BY <1>1, <1>4, <1>5 DEF Placed
    <2>2. QED BY <2>1
  <1>7. Elems(recorded') \cup dropped' = Elems(recorded) \cup dropped
    <2>1. \A p \in Elems(batch[d]) : p \in Procs /\ p \in Elems(recorded) \cup dropped
      <3>1. \A p \in Elems(batch[d]) : p \in Procs
        BY ExitSequences DEF Elems
      <3>2. QED BY <1>3, <3>1 DEF AllPlaced, Placed
    <2>2. CASE dropped' = dropped
      BY <1>1, <2>2
    <2>3. CASE dropped' = dropped \cup Elems(batch[d])
      <3>1. Elems(recorded') = Elems(recorded)
        BY <1>1
      <3>2. QED BY <2>1, <2>3, <3>1
    <2>4. QED BY <1>1, <2>2, <2>3
  <1>8. DrainPhases'
    <2>1. \A e \in Drainers : drain'[e] \notin {"start", "requeue"} => batch'[e] = <<>>
      BY <1>2, <1>3 DEF DrainPhases
    <2>2. \A u \in Turns : drain'[u] # "off" => turn'[u] = "end"
      BY <1>1, <1>2, <1>3 DEF DrainPhases, Drainers
    <2>3. \A p \in Procs : drain'[p] # "off" => proc'[p] = "reported"
      BY <1>1, <1>2, <1>3 DEF DrainPhases, Drainers
    <2>4. \A p \in Elems(recorded') \cup dropped' : proc'[p] = "reported"
      BY <1>1, <1>3, <1>7 DEF DrainPhases
    <2>5. QED BY <1>1, <1>3, <2>1, <2>2, <2>3, <2>4 DEF DrainPhases
  <1>9. NoneTwice'
    BY <1>4, <1>5 DEF NoneTwice
  <1>10. Apart'
    <2>1. \A x : x \in Elems(bgExited') \cup dropped' =>
            x \in Elems(bgExited) \cup dropped \cup Elems(batch[d])
      BY <1>5
    <2>2. ASSUME NEW e \in Drainers PROVE (Elems(bgExited') \cup dropped') \cap Elems(batch'[e]) = {}
      <3>1. CASE e = d
        BY <1>4, <3>1
      <3>2. CASE e # d
        BY <1>3, <1>4, <2>1, <3>2 DEF Apart
      <3>3. QED BY <3>1, <3>2
    <2>3. \A u \in Turns : (Elems(bgExited') \cup dropped') \cap Elems(content[u]) = {}
      BY <1>3, <2>1 DEF Apart
    <2>4. ASSUME NEW e \in Drainers, NEW f \in Drainers, e # f
          PROVE  Elems(batch'[e]) \cap Elems(batch'[f]) = {}
      <3>1. CASE e = d \/ f = d
        BY <1>4, <3>1
      <3>2. CASE e # d /\ f # d
        BY <1>3, <1>4, <2>4, <3>2 DEF Apart
      <3>3. QED BY <3>1, <3>2
    <2>5. ASSUME NEW e \in Drainers, NEW u \in Turns
          PROVE  Elems(batch'[e]) \cap Elems(content[u]) = {}
      <3>1. CASE e = d
        BY <1>4, <3>1
      <3>2. CASE e # d
        BY <1>3, <1>4, <3>2 DEF Apart
      <3>3. QED BY <3>1, <3>2
    <2>6. \A u, v \in Turns : u # v => Elems(content[u]) \cap Elems(content[v]) = {}
      BY <1>3 DEF Apart
    <2>7. content' = content
      BY <1>1
    <2>8. QED BY <1>5, <2>2, <2>3, <2>4, <2>5, <2>6, <2>7 DEF Apart
  <1>11. AllPlaced'
    BY <1>3, <1>6, <1>7 DEF AllPlaced
  <1>12. QED BY <1>8, <1>9, <1>10, <1>11 DEF ExitsInv

\* All other steps leave the exits where they are; a turn that ends begins its
\* first drain.
LEMMA ExitsStep ==
  ASSUME TypeOK, ExitsInv, [Next]_vars
  PROVE  ExitsInv'
  <1>1. ASSUME UNCHANGED <<bgExited, content, batch, recorded, dropped, drain, proc, turn>>
        PROVE  ExitsInv'
    BY <1>1, ExitsRest
  <1>2. ASSUME UNCHANGED <<bgExited, content, batch, recorded, dropped, drain, proc>>,
               NEW t \in Turns, NEW x, turn[t] # "end", x # "new",
               turn' = [turn EXCEPT ![t] = x]
        PROVE  ExitsInv'
    <2>1. \A u \in Turns : turn'[u] = IF u = t THEN x ELSE turn[u]
      BY <1>2 DEF TypeOK, TurnTypes
    <2>2. QED BY <1>2, <2>1, ExitsRest
  <1>3. ASSUME UNCHANGED <<bgExited, content, batch, recorded, dropped, drain, turn>>,
               NEW p \in Procs, NEW x, proc[p] # "reported", proc' = [proc EXCEPT ![p] = x]
        PROVE  ExitsInv'
    <2>1. \A q \in Procs : proc[q] = "reported" => proc'[q] = "reported"
      BY <1>3 DEF TypeOK, ExitTypes
    <2>2. QED BY <1>3, <2>1, ExitsRest
  <1>4. CASE MessageNext
    <2>1. ASSUME NEW m \in Msgs, MessageLoad(m) \/ MessageBusy(m) PROVE ExitsInv'
      BY <1>1, <2>1
    <2>2. ASSUME NEW m \in Msgs, NEW t \in Turns, MessageAccepted(m, t) PROVE ExitsInv'
      BY <1>2, <2>2
    <2>3. QED BY <1>4, <2>1, <2>2 DEF MessageNext
  <1>5. CASE TurnNext
    <2> SUFFICES ASSUME NEW t \in Turns,
                   \/ TurnStarted(t) \/ TurnTimeout(t) \/ RunDone(t) \/ RunFails(t)
                   \/ PrepareFails(t) \/ PublishFinished(t) \/ TouchTurn(t) \/ FinishTurn(t)
                 PROVE  ExitsInv'
      BY <1>5 DEF TurnNext
    <2>1. CASE TurnTimeout(t)
      BY <1>1, <2>1
    <2>2. CASE TurnStarted(t) \/ PublishFinished(t) \/ TouchTurn(t)
      BY <1>2, <2>2
    <2>3. CASE RunDone(t) \/ RunFails(t) \/ PrepareFails(t)
      BY <1>2, <2>3 DEF Running
    <2>4. CASE FinishTurn(t)
      <3>1. /\ UNCHANGED <<bgExited, content, batch, recorded, dropped, proc>>
            /\ turn' = [turn EXCEPT ![t] = "end"] /\ drain' = [drain EXCEPT ![t] = "take"]
            /\ turn[t] = "finish" /\ t \in Drainers /\ t \notin Procs
        BY <2>4, DistinctNames DEF Drainers
      <3>2. /\ \A u \in Turns : turn'[u] = IF u = t THEN "end" ELSE turn[u]
            /\ \A d \in Drainers : drain'[d] = IF d = t THEN "take" ELSE drain[d]
        BY <3>1 DEF TypeOK, TurnTypes, ExitTypes
      <3>3. drain[t] = "off"
        BY <3>1 DEF ExitsInv, DrainPhases
      <3>4. QED BY <3>1, <3>2, <3>3, ExitsRest DEF Drainers
    <2>5. QED BY <2>1, <2>2, <2>3, <2>4
  <1>6. CASE BuildNext
    <2>1. ASSUME NEW b \in Builders,
            \/ EnsureLive(b) \/ EnsureBuild(b) \/ AllocateFails(b) \/ BuildFails(b)
            \/ StartRenewal(b) \/ SetSandbox(b) \/ SetSandboxRefused(b)
          PROVE ExitsInv'
      BY <1>1, <2>1
    <2>2. ASSUME NEW b \in Builders, NEW s \in Sandboxes, Allocate(b, s) PROVE ExitsInv'
      BY <1>1, <2>2
    <2>3. QED BY <1>6, <2>1, <2>2 DEF BuildNext
  <1>7. CASE ReleaseNext
    BY <1>1, <1>7 DEF ReleaseNext
  <1>8. CASE CreateNext
    BY <1>1, <1>8 DEF CreateNext
  <1>9. CASE ProcNext
    <2>1. ASSUME NEW p \in Procs, ProcExits(p) PROVE ExitsInv'
      BY <1>3, <2>1
    <2>2. ASSUME NEW p \in Procs, NEW t \in Turns, Background(p, t) PROVE ExitsInv'
      BY <1>3, <2>2
    <2>3. QED BY <1>9, <2>1, <2>2, ExitsRecord DEF ProcNext
  <1>10. CASE DrainNext
    <2>1. ASSUME NEW d \in Drainers, DrainBusy(d) PROVE ExitsInv'
      <3>1. /\ UNCHANGED <<bgExited, content, batch, recorded, dropped, turn, proc>>
            /\ drain' = [drain EXCEPT ![d] = "requeue"] /\ drain[d] = "start"
        BY <2>1
      <3>2. \A e \in Drainers : drain'[e] = IF e = d THEN "requeue" ELSE drain[e]
        BY <3>1 DEF TypeOK, ExitTypes
      <3>3. QED BY <3>1, <3>2, ExitsRest DEF Drainers
    <2>2. QED BY <1>10, <2>1, ExitsTaken, ExitsTold, ExitsRequeued DEF DrainNext
  <1>11. CASE CancelNext
    BY <1>1, <1>11 DEF CancelNext
  <1>12. CASE TearNext
    BY <1>1, <1>12 DEF TearNext
  <1>13. CASE SweepNext
    BY <1>1, <1>13 DEF SweepNext
  <1>14. CASE UNCHANGED vars
    BY <1>1, <1>14
  <1>15. QED BY <1>4, <1>5, <1>6, <1>7, <1>8, <1>9, <1>10, <1>11, <1>12, <1>13, <1>14 DEF Next

LEMMA ExitsInit == Init => ExitsInv
  <1> SUFFICES ASSUME Init PROVE ExitsInv
    OBVIOUS
  <1>1. /\ bgExited = <<>> /\ recorded = <<>> /\ dropped = {}
        /\ \A d \in Drainers : batch[d] = <<>> /\ drain[d] = "off"
        /\ \A t \in Turns : content[t] = <<>>
    BY DEF Init
  <1>2. DrainPhases
    BY <1>1, ElemsOfEmpty DEF DrainPhases, Drainers
  <1>3. NoneTwice /\ Apart
    BY <1>1, ElemsOfEmpty DEF NoneTwice, Apart
  <1>4. AllPlaced
    BY <1>1, ElemsOfEmpty DEF AllPlaced, Placed
  <1>5. QED BY <1>2, <1>3, <1>4 DEF ExitsInv

\* What the invariant says of places: at most one, and one if the exit is known.
LEMMA OnePlace ==
  ASSUME TypeOK, ExitsInv, NEW p \in Procs
  PROVE  Cardinality(Places(p)) = IF p \in Elems(recorded) \cup dropped THEN 1 ELSE 0
  <1>1. \A x : x \in Places(p) <=>
          \/ \E i \in DOMAIN bgExited : bgExited[i] = p /\ x = <<"queue", i>>
          \/ \E d \in Drainers : p \in Elems(batch[d]) /\ x = <<"batch", d>>
          \/ \E t \in Turns : p \in Elems(content[t]) /\ x = <<"turn", t>>
          \/ p \in dropped /\ x = <<"dropped">>
    BY DEF Places
  <1>2. /\ \A i, j \in DOMAIN bgExited : bgExited[i] = p /\ bgExited[j] = p => i = j
        /\ (\E i \in DOMAIN bgExited : bgExited[i] = p) <=> p \in Elems(bgExited)
    BY DEF ExitsInv, NoneTwice, Distinct, Elems
  <1>3. Apart /\ AllPlaced
    BY DEF ExitsInv
  <1>4. (\E x : x \in Places(p)) <=> Placed(p)
    BY <1>1, <1>2 DEF Placed
  <1>5. ASSUME NEW x \in Places(p), NEW y \in Places(p) PROVE x = y
    <2>1. CASE p \in Elems(bgExited)
      <3>1. p \notin dropped /\ (\A d \in Drainers : p \notin Elems(batch[d]))
            /\ \A t \in Turns : p \notin Elems(content[t])
        BY <1>3, <2>1 DEF Apart
      <3>2. QED BY <1>1, <1>2, <3>1
    <2>2. ASSUME NEW d \in Drainers, p \in Elems(batch[d]) PROVE x = y
      <3>1. p \notin dropped /\ p \notin Elems(bgExited)
            /\ (\A e \in Drainers : p \in Elems(batch[e]) => e = d)
            /\ \A t \in Turns : p \notin Elems(content[t])
        BY <1>3, <2>2 DEF Apart
      <3>2. QED BY <1>1, <1>2, <3>1
    <2>3. ASSUME NEW t \in Turns, p \in Elems(content[t]) PROVE x = y
      <3>1. p \notin dropped /\ p \notin Elems(bgExited)
            /\ (\A d \in Drainers : p \notin Elems(batch[d]))
            /\ \A u \in Turns : p \in Elems(content[u]) => u = t
        BY <1>3, <2>3 DEF Apart
      <3>2. QED BY <1>1, <1>2, <3>1
    <2>4. CASE /\ p \notin Elems(bgExited) /\ (\A d \in Drainers : p \notin Elems(batch[d]))
               /\ \A t \in Turns : p \notin Elems(content[t])
      BY <1>1, <1>2, <2>4
    <2>5. QED BY <2>1, <2>2, <2>3, <2>4
  <1>6. CASE Placed(p)
    <2>1. PICK x : x \in Places(p)
      BY <1>4, <1>6
    <2>2. Places(p) = {x}
      BY <1>5, <2>1
    <2>3. Cardinality(Places(p)) = 1
      BY <2>2, FS_Singleton
    <2>4. QED BY <1>3, <1>6, <2>3 DEF AllPlaced
  <1>7. CASE ~Placed(p)
    <2>1. Places(p) = {}
      BY <1>4, <1>7
    <2>2. Cardinality(Places(p)) = 0
      BY <2>1, FS_EmptySet
    <2>3. QED BY <1>3, <1>7, <2>2 DEF AllPlaced
  <1>8. QED BY <1>6, <1>7

\* However drains race turns and each other, and whenever the session closes,
\* every background exit it was told of is in the queue, in one drain's hands,
\* in one turn, or dropped, and nowhere twice (recordBackgroundExit,
\* takeBackgroundExits, requeueBackgroundExits).
THEOREM ExitsAreConserved == Spec => []ExitsConserved
  <1>1. Init => ExitsInv
    BY ExitsInit
  <1>2. TypeOK /\ ExitsInv /\ [Next]_vars => ExitsInv'
    BY ExitsStep
  <1>3. TypeOK /\ ExitsInv => ExitsConserved
    BY OnePlace DEF ExitsConserved
  <1>4. QED BY <1>1, <1>2, <1>3, TypeCorrect, PTL DEF Spec

=============================================================================

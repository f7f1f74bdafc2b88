-------------------------- MODULE SessionFilesProofs --------------------------
(***************************************************************************)
(* What TLAPS proves of SessionFiles for every set of requests, names and  *)
(* paths, every cap, and any number of crashes and failures: FilesInv is   *)
(* inductive, and the safety properties follow from it.                    *)
(***************************************************************************)
EXTENDS SessionFiles, FiniteSetTheorems, TLAPS

\* The proofs are about steps: what an action does is always visible.
USE DEF vars, s3Vars, memVars, sandboxVars, turnVars, attachVars, ghostVars,
        boundVars, Here, Goto, Fail, Refuse, NoSandbox, Forget, Find, Lock,
        LockClosed, InjectOne, InjectFails, RefuseTooMany, RecordOne, Snapshot,
        SaveManifest, StartTurn, Check, Gather, BuildFails, SetSandbox, EndTurn,
        Upload, Persist, PersistFails, Reap, Evict, Crash, Adopt, Delete

-----------------------------------------------------------------------------
(* Names *)

\* What has few names has few of them left without some.
LEMMA FewerNames ==
  ASSUME NEW S \in SUBSET Names, NEW T \in SUBSET S, Few(S)
  PROVE  Few(T)
  <1>1. IsFiniteSet(S)
    BY FS_Subset, FilesAssumption
  <1>2. Cardinality(T) <= Cardinality(S) /\ Cardinality(T) \in Nat /\ Cardinality(S) \in Nat
    BY <1>1, FS_Subset, FS_CardinalityType
  <1>3. QED BY <1>2, FilesAssumption DEF Few

\* An empty list has few names.
LEMMA NoNames == Known(Empty) = {} /\ Few(Known(Empty))
  <1>1. Known(Empty) = {}
    BY DEF Known, Empty
  <1>2. QED BY <1>1, FS_EmptySet, FilesAssumption DEF Few

-----------------------------------------------------------------------------
(* Every step keeps every part of FilesInv *)

\* Every variable keeps its type.
LEMMA TypeOKStep ==
  ASSUME FilesInv, [Next]_vars
  PROVE  TypeOK'
  <1> USE FilesAssumption DEF FilesInv, TypeOK, Lists, Paths, Empty, Known, InFlight
  <1>0. /\ Bare \in [Paths -> Paths \cup {None}]
        /\ Restored \in [Paths -> Paths \cup {None}]
        /\ Listed \subseteq Paths
    BY DEF Bare, Restored, Listed
  <1>1. ASSUME NEW a \in Attachers, AttachStep(a) PROVE TypeOK'
    <2>1. ASSUME NEW names \in SUBSET Names \ {{}}, Find(a, names) PROVE TypeOK'
      BY <2>1
    <2>2. CASE Lock(a) BY <2>2
    <2>3. CASE LockClosed(a) BY <2>3
    <2>4. ASSUME NEW n \in Names, InjectOne(a, n) PROVE TypeOK'
      <3>1. disk' \in Lists
        BY <2>4
      <3>2. at' \in [Attachers -> InFlight \cup {"new", "done", "refused", "lost"}]
        <4>1. at' = at \/ at' = [at EXCEPT ![a] = "record"]
          BY <2>4
        <4>2. "record" \in InFlight /\ at \in [Attachers -> InFlight \cup {"new", "done", "refused", "lost"}]
          OBVIOUS
        <4>3. QED BY <4>1, <4>2
      <3>3. todo' \in [Attachers -> SUBSET Names]
        <4>1. todo' = [todo EXCEPT ![a] = batch[a]] \/ todo' = [todo EXCEPT ![a] = @ \ {n}]
          BY <2>4
        <4>2. batch[a] \in SUBSET Names /\ todo[a] \ {n} \in SUBSET Names
          OBVIOUS
        <4>3. CASE todo' = [todo EXCEPT ![a] = batch[a]]
          BY <4>2, <4>3
        <4>4. CASE todo' = [todo EXCEPT ![a] = @ \ {n}]
          BY <4>2, <4>4
        <4>5. QED BY <4>1, <4>3, <4>4
      <3>4. QED BY <2>4, <3>1, <3>2, <3>3
    <2>5. CASE InjectFails(a) BY <2>5
    <2>6. CASE RefuseTooMany(a) BY <2>6
    <2>7. ASSUME NEW n \in Names, RecordOne(a, n) PROVE TypeOK'
      BY <2>7
    <2>8. CASE Snapshot(a) BY <2>8
    <2>9. CASE SaveManifest(a)
      <3>1. stale' \in BOOLEAN
        BY <2>9
      <3>2. manifest' \in Lists /\ fails' \in 0..MaxFails
        BY <2>9
      <3>3. QED BY <2>9, <3>1, <3>2
    <2>10. QED
      BY <1>1, <2>1, <2>2, <2>3, <2>4, <2>5, <2>6, <2>7, <2>8, <2>9 DEF AttachStep
  <1>2. CASE TurnStep
    <2>1. CASE StartTurn BY <2>1
    <2>2. CASE Check BY <2>2
    <2>3. CASE Gather BY <2>3
    <2>4. CASE BuildFails BY <2>4
    <2>5. CASE SetSandbox BY <1>0, <2>5
    <2>6. CASE EndTurn BY <2>6
    <2>7. ASSUME NEW p \in Paths, Persist(p) \/ PersistFails(p) PROVE TypeOK'
      <3>1. Strip[p] \in RelPaths /\ p \in Paths \cup {None}
        OBVIOUS
      <3>2. /\ objects' \in [RelPaths -> Paths \cup {None}]
            /\ there' \in [Paths -> Paths \cup {None}]
        <4>1. objects' = [objects EXCEPT ![Strip[p]] = p] /\ there' = [there EXCEPT ![p] = p]
          BY <2>7
        <4>2. [objects EXCEPT ![Strip[p]] = p] \in [RelPaths -> Paths \cup {None}]
          BY <3>1
        <4>3. [there EXCEPT ![p] = p] \in [Paths -> Paths \cup {None}]
          BY <3>1
        <4>4. QED BY <4>1, <4>2, <4>3
      <3>3. persisted' \subseteq Paths /\ kept' \subseteq Paths /\ fails' \in 0..MaxFails
        BY <2>7
      <3>4. QED BY <2>7, <3>2, <3>3
    <2>8. QED BY <1>2, <2>1, <2>2, <2>3, <2>4, <2>5, <2>6, <2>7 DEF TurnStep
  <1>3. CASE LifeStep
    <2>1. CASE Reap BY <1>0, <2>1
    <2>2. CASE Evict BY <1>0, <2>2
    <2>3. CASE Crash
      <3>1. at' \in [Attachers -> InFlight \cup {"new", "done", "refused", "lost"}]
        BY <2>3
      <3>2. files' \in Lists /\ disk' \in Lists /\ loadDisk' \in Lists
        BY <2>3
      <3>3. crashes' \in 0..MaxCrashes /\ turn' = "none" /\ filesMu' = None /\ due' = {}
        BY <2>3
      <3>4. QED BY <1>0, <2>3, <3>1, <3>2, <3>3
    <2>4. CASE Adopt BY <1>0, <2>4
    <2>5. CASE Delete BY <1>0, <2>5
    <2>6. QED BY <1>3, <2>1, <2>2, <2>3, <2>4, <2>5 DEF LifeStep
  <1>4. CASE UNCHANGED vars BY <1>4
  <1>5. QED BY <1>1, <1>2, <1>3, <1>4 DEF Next

\* The lock is held by the attach that injects or records, and by no other.
LEMMA LockInvStep ==
  ASSUME FilesInv, [Next]_vars
  PROVE  LockInv'
  <1> USE FilesAssumption DEF FilesInv, TypeOK, LockInv, InFlight, AtStart
  <1>1. ASSUME NEW a \in Attachers, AttachStep(a) PROVE LockInv'
    <2>1. ASSUME NEW names \in SUBSET Names \ {{}}, Find(a, names) PROVE LockInv'
      BY <2>1
    <2>2. CASE Lock(a) BY <2>2
    <2>3. CASE LockClosed(a) BY <2>3
    <2>4. ASSUME NEW n \in Names, InjectOne(a, n) PROVE LockInv'
      BY <2>4
    <2>5. CASE InjectFails(a) BY <2>5
    <2>6. CASE RefuseTooMany(a) BY <2>6
    <2>7. ASSUME NEW n \in Names, RecordOne(a, n) PROVE LockInv'
      BY <2>7
    <2>8. CASE Snapshot(a) BY <2>8
    <2>9. CASE SaveManifest(a) BY <2>9
    <2>10. QED
      BY <1>1, <2>1, <2>2, <2>3, <2>4, <2>5, <2>6, <2>7, <2>8, <2>9 DEF AttachStep
  <1>2. CASE TurnStep BY <1>2 DEF TurnStep
  <1>3. CASE LifeStep BY <1>3 DEF LifeStep
  <1>4. CASE UNCHANGED vars BY <1>4
  <1>5. QED BY <1>1, <1>2, <1>3, <1>4 DEF Next

\* A turn builds only without a sandbox and works only with one.
LEMMA BuildInvStep ==
  ASSUME FilesInv, [Next]_vars
  PROVE  BuildInv'
  <1> USE FilesAssumption DEF FilesInv, TypeOK, BuildInv, LockInv
  <1>1. ASSUME NEW a \in Attachers, AttachStep(a) PROVE BuildInv'
    <2>1. ASSUME NEW names \in SUBSET Names \ {{}}, Find(a, names) PROVE BuildInv'
      BY <2>1
    <2>2. CASE Lock(a) BY <2>2
    <2>3. CASE LockClosed(a) BY <2>3
    <2>4. ASSUME NEW n \in Names, InjectOne(a, n) PROVE BuildInv'
      BY <2>4
    <2>5. CASE InjectFails(a) BY <2>5
    <2>6. CASE RefuseTooMany(a) BY <2>6
    <2>7. ASSUME NEW n \in Names, RecordOne(a, n) PROVE BuildInv'
      BY <2>7
    <2>8. CASE Snapshot(a) BY <2>8
    <2>9. CASE SaveManifest(a) BY <2>9
    <2>10. QED
      BY <1>1, <2>1, <2>2, <2>3, <2>4, <2>5, <2>6, <2>7, <2>8, <2>9 DEF AttachStep
  <1>2. CASE TurnStep BY <1>2 DEF TurnStep
  <1>3. CASE LifeStep BY <1>3 DEF LifeStep
  <1>4. CASE UNCHANGED vars BY <1>4
  <1>5. QED BY <1>1, <1>2, <1>3, <1>4 DEF Next

\* The sandbox an attach found is not reaped, evicted or replaced under it.
LEMMA AimInvStep ==
  ASSUME FilesInv, [Next]_vars
  PROVE  AimInv'
  <1> USE FilesAssumption DEF FilesInv, TypeOK, LockInv, BuildInv, AimInv, InFlight
  <1>1. ASSUME NEW a \in Attachers, AttachStep(a) PROVE AimInv'
    <2>1. ASSUME NEW names \in SUBSET Names \ {{}}, Find(a, names) PROVE AimInv'
      BY <2>1
    <2>2. CASE Lock(a) BY <2>2
    <2>3. CASE LockClosed(a) BY <2>3
    <2>4. ASSUME NEW n \in Names, InjectOne(a, n) PROVE AimInv'
      BY <2>4
    <2>5. CASE InjectFails(a) BY <2>5
    <2>6. CASE RefuseTooMany(a) BY <2>6
    <2>7. ASSUME NEW n \in Names, RecordOne(a, n) PROVE AimInv'
      BY <2>7
    <2>8. CASE Snapshot(a) BY <2>8
    <2>9. CASE SaveManifest(a) BY <2>9
    <2>10. QED
      BY <1>1, <2>1, <2>2, <2>3, <2>4, <2>5, <2>6, <2>7, <2>8, <2>9 DEF AttachStep
  <1>2. CASE TurnStep BY <1>2 DEF TurnStep
  <1>3. CASE LifeStep BY <1>3 DEF LifeStep
  <1>4. CASE UNCHANGED vars BY <1>4
  <1>5. QED BY <1>1, <1>2, <1>3, <1>4 DEF Next

\* What was injected stays injected while its attach goes on.
LEMMA CarriedInvStep ==
  ASSUME FilesInv, [Next]_vars
  PROVE  CarriedInv'
  <1> USE FilesAssumption DEF FilesInv, TypeOK, LockInv, BuildInv, AimInv, CarriedInv, InFlight, Lists
  <1>1. ASSUME NEW a \in Attachers, AttachStep(a) PROVE CarriedInv'
    <2>1. ASSUME NEW names \in SUBSET Names \ {{}}, Find(a, names) PROVE CarriedInv'
      BY <2>1
    <2>2. CASE Lock(a) BY <2>2
    <2>3. CASE LockClosed(a) BY <2>3
    <2>4. ASSUME NEW n \in Names, InjectOne(a, n) PROVE CarriedInv'
      <3>1. filesMu = a /\ sandbox /\ aimed[a]
        BY <2>4
      <3>2. \A m \in Names : disk'[m] = IF m = n THEN a ELSE disk[m]
        BY <2>4
      <3>3. \A b \in Attachers \ {a} : at'[b] = at[b] /\ at[b] \notin {"inject", "record"}
        BY <2>4, <3>1
      <3>4. CASE todo[a] = {n}
        BY <2>4, <3>1, <3>2, <3>3, <3>4
      <3>5. CASE todo[a] # {n}
        BY <2>4, <3>1, <3>2, <3>3, <3>5
      <3>6. QED BY <3>4, <3>5
    <2>5. CASE InjectFails(a) BY <2>5
    <2>6. CASE RefuseTooMany(a) BY <2>6
    <2>7. ASSUME NEW n \in Names, RecordOne(a, n) PROVE CarriedInv'
      BY <2>7
    <2>8. CASE Snapshot(a) BY <2>8
    <2>9. CASE SaveManifest(a) BY <2>9
    <2>10. QED
      BY <1>1, <2>1, <2>2, <2>3, <2>4, <2>5, <2>6, <2>7, <2>8, <2>9 DEF AttachStep
  <1>2. CASE TurnStep
    <2>1. CASE StartTurn BY <2>1
    <2>2. CASE Check BY <2>2
    <2>3. CASE Gather BY <2>3
    <2>4. CASE BuildFails BY <2>4
    <2>5. CASE SetSandbox BY <2>5
    <2>6. CASE EndTurn BY <2>6
    <2>7. ASSUME NEW p \in Paths, Persist(p) \/ PersistFails(p) PROVE CarriedInv'
      <3>1. UNCHANGED <<files, sandbox, disk, attachVars, missed, spilled>>
        BY <2>7
      <3>2. QED BY <3>1
    <2>8. QED BY <1>2, <2>1, <2>2, <2>3, <2>4, <2>5, <2>6, <2>7 DEF TurnStep
  <1>3. CASE LifeStep BY <1>3 DEF LifeStep
  <1>4. CASE UNCHANGED vars BY <1>4
  <1>5. QED BY <1>1, <1>2, <1>3, <1>4 DEF Next

\* Disk and list differ only in names that are on their way.
LEMMA DiskInvStep ==
  ASSUME FilesInv, [Next]_vars
  PROVE  DiskInv'
  <1> USE FilesAssumption DEF FilesInv, TypeOK, LockInv, BuildInv, AimInv, CarriedInv, DiskInv, Same, InFlight, AtStart, Lists
  <1>1. ASSUME NEW a \in Attachers, AttachStep(a) PROVE DiskInv'
    <2>1. ASSUME NEW names \in SUBSET Names \ {{}}, Find(a, names) PROVE DiskInv'
      BY <2>1
    <2>2. CASE Lock(a) BY <2>2
    <2>3. CASE LockClosed(a) BY <2>3
    <2>4. ASSUME NEW n \in Names, InjectOne(a, n) PROVE DiskInv'
      BY <2>4
    <2>5. CASE InjectFails(a) BY SMTT(30), <2>5
    <2>6. CASE RefuseTooMany(a) BY <2>6
    <2>7. ASSUME NEW n \in Names, RecordOne(a, n) PROVE DiskInv'
      <3>1. filesMu = a /\ \A b \in Attachers \ {a} : at[b] \notin {"inject", "record"}
        BY <2>7
      <3>2. \A m \in Names \ {n} : files'[m] = files[m] /\ (m \in missed \cup spilled =>
                                     m \in missed' \cup spilled')
        BY <2>7
      <3>3. ASSUME NEW m \in Names, sandbox, m # n
            PROVE  Same(m)' \/ (at'[a] = "record" /\ aimed'[a] /\ m \in todo'[a])
        BY <2>7, <3>1, <3>2, <3>3
      <3>4. sandbox => Same(n)'
        <4>1. files'[n] = a /\ disk' = disk
          BY <2>7
        <4>2. CASE aimed[a] BY <2>7, <3>1, <4>1, <4>2
        <4>3. CASE ~aimed[a] BY <2>7, <3>1, <4>3
        <4>4. QED BY <4>2, <4>3
      <3>5. QED BY <2>7, <3>3, <3>4
    <2>8. CASE Snapshot(a) BY <2>8
    <2>9. CASE SaveManifest(a) BY <2>9
    <2>10. QED
      BY <1>1, <2>1, <2>2, <2>3, <2>4, <2>5, <2>6, <2>7, <2>8, <2>9 DEF AttachStep
  <1>2. CASE TurnStep
    <2>1. CASE StartTurn BY <2>1
    <2>2. CASE Check BY <2>2
    <2>3. CASE Gather BY <2>3
    <2>4. CASE BuildFails BY <2>4
    <2>5. CASE SetSandbox BY <2>5
    <2>6. CASE EndTurn BY <2>6
    <2>7. ASSUME NEW p \in Paths, Persist(p) \/ PersistFails(p) PROVE DiskInv'
      <3>1. UNCHANGED <<files, sandbox, disk, attachVars, missed, spilled>>
        BY <2>7
      <3>2. QED BY <3>1
    <2>8. QED BY <1>2, <2>1, <2>2, <2>3, <2>4, <2>5, <2>6, <2>7 DEF TurnStep
  <1>3. CASE LifeStep BY <1>3 DEF LifeStep
  <1>4. CASE UNCHANGED vars BY <1>4
  <1>5. QED BY <1>1, <1>2, <1>3, <1>4 DEF Next

\* No list grows past the cap.
LEMMA CapInvStep ==
  ASSUME FilesInv, [Next]_vars
  PROVE  CapInv'
  <1> USE FilesAssumption DEF FilesInv, TypeOK, LockInv, CapInv, InFlight, AtStart, Lists
  <1>1. ASSUME NEW a \in Attachers, AttachStep(a) PROVE CapInv'
    <2>1. ASSUME NEW names \in SUBSET Names \ {{}}, Find(a, names) PROVE CapInv'
      BY <2>1
    <2>2. CASE Lock(a) BY <2>2
    <2>3. CASE LockClosed(a) BY <2>3
    <2>4. ASSUME NEW n \in Names, InjectOne(a, n) PROVE CapInv'
      BY <2>4
    <2>5. CASE InjectFails(a) BY <2>5
    <2>6. CASE RefuseTooMany(a) BY <2>6
    <2>7. ASSUME NEW n \in Names, RecordOne(a, n) PROVE CapInv'
      <3>1. filesMu = a /\ \A b \in Attachers \ {a} : at[b] \notin {"inject", "record"}
        BY <2>7
      <3>2. Few(Known(files) \cup batch[a])
        <4>1. IsFiniteSet(Known(files) \cup batch[a])
          BY FS_Subset DEF Known
        <4>2. Cardinality(Known(files) \cup batch[a]) \in Nat
          BY <4>1, FS_CardinalityType
        <4>3. QED BY <2>7, <4>2 DEF TooMany, Few
      <3>3. Known(files') = Known(files) \cup {n} /\ n \in batch[a]
        BY <2>7 DEF Known
      <3>4. Few(Known(files'))
        BY <3>2, <3>3, FewerNames DEF Known
      <3>5. Known(files') \cup batch[a] = Known(files) \cup batch[a]
        BY <3>3
      <3>6. UNCHANGED <<manifest, snap, batch>> /\ \A b \in Attachers \ {a} : at'[b] # "record"
        BY <2>7, <3>1
      <3>7. QED BY <3>2, <3>4, <3>5, <3>6
    <2>8. CASE Snapshot(a) BY <2>8
    <2>9. CASE SaveManifest(a)
      <3>1. Few(Known(manifest'))
        BY <2>9
      <3>2. \A b \in Attachers : Few(Known(snap'[b]))
        <4> TAKE b \in Attachers
        <4>1. CASE b = a
          <5>1. snap'[a] = Empty BY <2>9
          <5>2. QED BY <4>1, <5>1, NoNames
        <4>2. CASE b # a
          <5>1. snap'[b] = snap[b] BY <2>9, <4>2
          <5>2. QED BY <5>1
        <4>3. QED BY <4>1, <4>2
      <3>3. UNCHANGED <<files, batch, todo>>
            /\ \A b \in Attachers : at'[b] = "record" => at[b] = "record"
        BY <2>9
      <3>4. QED BY <3>1, <3>2, <3>3 DEF Known
    <2>10. QED
      BY <1>1, <2>1, <2>2, <2>3, <2>4, <2>5, <2>6, <2>7, <2>8, <2>9 DEF AttachStep
  <1>2. CASE TurnStep BY <1>2 DEF TurnStep
  <1>3. CASE LifeStep
    <2>1. CASE Reap BY <2>1
    <2>2. CASE Evict
      <3>1. Few(Known(files'))
        BY <2>2, NoNames
      <3>2. \A b \in Attachers : Few(Known(snap'[b])) /\ at'[b] # "record"
        BY <2>2
      <3>3. QED BY <2>2, <3>1, <3>2 DEF Known
    <2>3. CASE Crash
      <3>1. Few(Known(files'))
        BY <2>3, NoNames
      <3>2. \A b \in Attachers : at'[b] # "record"
        BY <2>3
      <3>3. \A b \in Attachers : Few(Known(snap'[b]))
        BY <2>3, NoNames
      <3>4. UNCHANGED manifest BY <2>3
      <3>5. QED BY <3>1, <3>2, <3>3, <3>4 DEF Known
    <2>4. CASE Adopt BY <2>4
    <2>5. CASE Delete BY <2>5
    <2>6. QED BY <1>3, <2>1, <2>2, <2>3, <2>4, <2>5 DEF LifeStep
  <1>4. CASE UNCHANGED vars BY <1>4
  <1>5. QED BY <1>1, <1>2, <1>3, <1>4 DEF Next

\* As long as no save fails or is outdated, S3 follows memory.
LEMMA SavedInvStep ==
  ASSUME FilesInv, [Next]_vars
  PROVE  SavedInv'
  <1> USE FilesAssumption DEF FilesInv, TypeOK, LockInv, SavedInv, InFlight, AtStart
  <1>1. ASSUME NEW a \in Attachers, AttachStep(a) PROVE SavedInv'
    <2>1. ASSUME NEW names \in SUBSET Names \ {{}}, Find(a, names) PROVE SavedInv'
      BY <2>1
    <2>2. CASE Lock(a) BY <2>2
    <2>3. CASE LockClosed(a) BY <2>3
    <2>4. ASSUME NEW n \in Names, InjectOne(a, n) PROVE SavedInv'
      BY <2>4
    <2>5. CASE InjectFails(a) BY <2>5
    <2>6. CASE RefuseTooMany(a) BY <2>6
    <2>7. ASSUME NEW n \in Names, RecordOne(a, n) PROVE SavedInv'
      BY <2>7
    <2>8. CASE Snapshot(a) BY <2>8
    <2>9. CASE SaveManifest(a)
      <3>1. CASE fails' = fails /\ manifest' = snap[a]
                 /\ stale' = (stale \/ (Here /\ snap[a] # files))
        BY <2>9, <3>1
      <3>2. CASE fails' = fails + 1
        BY <2>9, <3>2
      <3>3. QED BY <2>9, <3>1, <3>2
    <2>10. QED
      BY <1>1, <2>1, <2>2, <2>3, <2>4, <2>5, <2>6, <2>7, <2>8, <2>9 DEF AttachStep
  <1>2. CASE TurnStep BY <1>2 DEF TurnStep
  <1>3. CASE LifeStep BY <1>3 DEF LifeStep
  <1>4. CASE UNCHANGED vars BY <1>4
  <1>5. QED BY <1>1, <1>2, <1>3, <1>4 DEF Next

\* Persisted files are objects, listed, and in the sandbox.
LEMMA KeptInvStep ==
  ASSUME FilesInv, [Next]_vars
  PROVE  KeptInv'
  <1> USE FilesAssumption DEF FilesInv, TypeOK, BuildInv, KeptInv, Paths, Bare
  <1>1. ASSUME NEW a \in Attachers, AttachStep(a) PROVE KeptInv'
    <2>1. UNCHANGED <<objects, persisted, kept, sandbox, there, where>>
      BY <1>1 DEF AttachStep
    <2>2. QED BY <2>1 DEF Current
  <1>2. CASE TurnStep
    <2>1. CASE StartTurn \/ Check \/ Gather \/ BuildFails \/ EndTurn
      BY <2>1 DEF Current
    <2>2. CASE SetSandbox
      <3>1. there' = Restored /\ UNCHANGED <<objects, persisted, kept>> /\ Here
        BY <2>2
      <3>2. ASSUME NEW p \in kept, Current(p)
            PROVE  there'[p] = p \/ (p \notin persisted /\ there'[Strip[p]] = p)
        <4>1. p \in Paths /\ Strip[p] \in Paths /\ Strip[Strip[p]] = Strip[p]
          OBVIOUS
        <4>2. p \in persisted \/ Strip[p] \in persisted
          BY <3>1
        <4>3. p \in persisted => there'[p] = p
          BY <3>1, <3>2, <4>1 DEF Restored, Current
        <4>4. Strip[p] \in persisted => there'[Strip[p]] = p
          BY <3>1, <3>2, <4>1 DEF Restored, Current
        <4>5. QED BY <4>2, <4>3, <4>4
      <3>3. QED BY <2>2, <3>1, <3>2 DEF Current
    <2>3. ASSUME NEW q \in Paths, Persist(q) \/ PersistFails(q) PROVE KeptInv'
      <3>1. /\ \A k \in RelPaths : objects'[k] = IF k = Strip[q] THEN q ELSE objects[k]
            /\ \A p \in Paths : there'[p] = IF p = q THEN q ELSE there[p]
            /\ q # None /\ UNCHANGED <<sandbox, where>> /\ Here
        BY <2>3
      <3>2. \/ persisted' = persisted \cup {q} /\ kept' = kept \cup {q}
            \/ persisted' = persisted /\ kept' = kept
        BY <2>3
      <3>3. \A p \in kept' : objects'[Strip[p]] # None
        BY <3>1, <3>2
      <3>4. \A p \in kept' : p \in persisted' \/ Strip[p] \in persisted'
        BY <3>1, <3>2
      <3>5. ASSUME NEW p \in kept', sandbox, Current(p)'
            PROVE  there'[p] = p \/ (p \notin persisted' /\ there'[Strip[p]] = p)
        <4>1. CASE p = q
          BY <3>1, <4>1
        <4>2. CASE p # q
          <5>1. p \in kept /\ p \in Paths /\ Strip[p] \in RelPaths
            BY <3>2, <4>2
          <5>2. Strip[p] # Strip[q] /\ Current(p)
            BY <3>1, <3>5, <4>2, <5>1 DEF Current
          <5>3. Strip[p] # q
            <6>1. Strip[Strip[p]] = Strip[p]
              BY <5>1
            <6>2. QED BY <5>2, <6>1
          <5>4. there'[p] = there[p] /\ there'[Strip[p]] = there[Strip[p]]
            BY <3>1, <4>2, <5>1, <5>3
          <5>5. QED BY <3>2, <3>5, <4>2, <5>1, <5>2, <5>4
        <4>3. QED BY <4>1, <4>2
      <3>6. QED BY <3>1, <3>3, <3>4, <3>5
    <2>4. QED BY <1>2, <2>1, <2>2, <2>3 DEF TurnStep
  <1>3. CASE LifeStep
    <2>1. CASE Reap \/ Evict \/ Crash \/ Delete
      BY <2>1
    <2>2. CASE Adopt
      <3>1. /\ persisted' = Listed /\ UNCHANGED <<objects, kept, sandbox, there>>
            /\ ~sandbox
        BY <2>2
      <3>2. \A p \in kept : Strip[p] \in persisted'
        BY <3>1 DEF Listed
      <3>3. QED BY <3>1, <3>2
    <2>3. QED BY <1>3, <2>1, <2>2 DEF LifeStep
  <1>4. CASE UNCHANGED vars BY <1>4 DEF Current
  <1>5. QED BY <1>1, <1>2, <1>3, <1>4 DEF Next

-----------------------------------------------------------------------------
(* The theorems *)

\* FilesInv is an invariant: the parts above, put together.
THEOREM FilesInvariance == Spec => []FilesInv
  <1>1. Init => FilesInv
    <2> SUFFICES ASSUME Init PROVE FilesInv
      OBVIOUS
    <2> USE FilesAssumption DEF Init
    <2>1. TypeOK
      <3>1. Empty \in Lists
        BY DEF Lists, Empty
      <3>2. at \in [Attachers -> InFlight \cup {"new", "done", "refused", "lost"}]
        BY DEF InFlight
      <3>3. snap \in [Attachers -> Lists] /\ todo \in [Attachers -> SUBSET Names]
            /\ batch \in [Attachers -> SUBSET Names] /\ aimed \in [Attachers -> BOOLEAN]
        BY <3>1
      <3>4. crashes \in 0..MaxCrashes /\ fails \in 0..MaxFails
        OBVIOUS
      <3>5. /\ objects \in [RelPaths -> Paths \cup {None}]
            /\ there \in [Paths -> Paths \cup {None}]
        BY DEF Bare
      <3>6. QED BY <3>1, <3>2, <3>3, <3>4, <3>5 DEF TypeOK
    <2>2. LockInv /\ BuildInv /\ AimInv /\ SavedInv /\ KeptInv
      BY DEF LockInv, BuildInv, AimInv, SavedInv, KeptInv
    <2>3. CarriedInv /\ DiskInv
      BY DEF CarriedInv, DiskInv, Same
    <2>4. CapInv
      BY NoNames DEF CapInv
    <2>5. QED BY <2>1, <2>2, <2>3, <2>4 DEF FilesInv
  <1>2. FilesInv /\ [Next]_vars => FilesInv'
    BY TypeOKStep, LockInvStep, BuildInvStep, AimInvStep, CarriedInvStep,
       DiskInvStep, CapInvStep, SavedInvStep, KeptInvStep DEF FilesInv
  <1>3. QED BY <1>1, <1>2, PTL DEF Spec

\* Every variable keeps its type.
THEOREM TypeCorrect == Spec => []TypeOK
  <1>1. FilesInv => TypeOK
    BY DEF FilesInv
  <1>2. QED BY <1>1, FilesInvariance, PTL

\* For any number of requests and names: a sandbox holds the files the session
\* lists, but for the three exceptions DiskAgrees names (attachFiles,
\* ensureSandbox).
THEOREM DiskHoldsFiles == Spec => []DiskAgrees
  <1>1. FilesInv => DiskAgrees
    BY FilesAssumption DEF FilesInv, TypeOK, LockInv, DiskInv, DiskAgrees, Same
  <1>2. QED BY <1>1, FilesInvariance, PTL

\* Reaper and eviction never take the sandbox an attach injects into (filesMu).
THEOREM TargetLives == Spec => []InjectionTargetLives
  <1>1. FilesInv => InjectionTargetLives
    BY FilesAssumption DEF FilesInv, TypeOK, LockInv, AimInv, InjectionTargetLives
  <1>2. QED BY <1>1, FilesInvariance, PTL

\* However many requests attach at once, the cap holds, in memory and in S3.
THEOREM CapKept == Spec => []CapHeld
  <1>1. FilesInv => CapHeld
    BY DEF FilesInv, CapInv, CapHeld, Few
  <1>2. QED BY <1>1, FilesInvariance, PTL

\* If no save failed or was outdated, a session at rest loses no file to
\* eviction, crash and adoption (saveFilesManifest, loadAdoptableSession).
THEOREM ListIsSaved == Spec => []ManifestCurrent
  <1>1. FilesInv => ManifestCurrent
    BY DEF FilesInv, SavedInv, ManifestCurrent
  <1>2. QED BY <1>1, FilesInvariance, PTL

\* For any paths and keys: a file the agent was told is persisted is in every later
\* sandbox with its content, unless another file took its key
\* (sandboxPersist.Execute, RestorePersisted, listPersistedObjects).
THEOREM PersistedComesBack == Spec => []PersistedReturns
  <1>1. FilesInv => PersistedReturns
    BY DEF FilesInv, BuildInv, KeptInv, PersistedReturns
  <1>2. QED BY <1>1, FilesInvariance, PTL

=============================================================================

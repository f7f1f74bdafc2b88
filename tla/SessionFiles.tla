----------------------------- MODULE SessionFiles -----------------------------
(***************************************************************************)
(* The files of one session: those its user attaches (controller/files.go) *)
(* and those its agent persists (agent/tools_persist.go), and how they get *)
(* into the sandbox, through idle reaps and rebuilds, cold evictions,      *)
(* crashes and adoptions. Concurrent are the requests that attach files,   *)
(* the running turn, which builds the sandbox, the sweeper and DELETE.     *)
(* filesMu is held across an attach and across a detach by the sweeper,    *)
(* but neither by a build nor by DELETE. The content of an attached file   *)
(* is named after the request that brought it, that of a persisted file    *)
(* after the path it had in the sandbox.                                   *)
(***************************************************************************)
EXTENDS Integers, FiniteSets

CONSTANTS
  Names,      \* names of attached files
  Attachers,  \* requests that attach files
  NameCap,    \* filesNameCountCap
  RelPaths,   \* paths the agent persists: relative to the working directory ...
  AbsPaths,   \* ... and absolute ones
  Strip,      \* a path without its leading "/"
  None,
  MaxCrashes, \* bound: crashes
  MaxFails    \* bound: failed transfers, builds and S3 calls

Paths == RelPaths \cup AbsPaths

ASSUME FilesAssumption ==
  /\ IsFiniteSet(Names) /\ None \notin Attachers \cup Paths /\ NameCap \in Nat
  /\ MaxCrashes \in Nat /\ MaxFails \in Nat
  /\ Strip \in [Paths -> RelPaths] /\ \A p \in RelPaths : Strip[p] = p

VARIABLES
  where,      \* the session is in the memory of a node, cold, or deleted
  files,      \* Session.files
  persisted,  \* Session.persisted
  manifest,   \* files.json in S3
  objects,    \* what the objects under persisted/ in S3 hold
  sandbox,    \* the session holds a sandbox
  disk,       \* attached files in the sandbox
  there,      \* persisted files in the sandbox: what is at a path
  turn,       \* where the running turn is
  loadDisk,   \* what the build put into the sandbox it has not attached yet
  filesMu,    \* who holds the lock
  at, batch,  \* where each attach is, and the names it brings
  todo,       \* names it has yet to inject or to record
  aimed,      \* it found a live sandbox
  snap,       \* the list it is about to save
  missed,     \* history: names recorded while a build was under way
  spilled,    \* history: names injected by an attach that was then refused
  stale,      \* history: a save wrote another list than the session's
  kept,       \* history: paths the agent was told are persisted
  due,        \* history: names attached before the running turn's message
  crashes, fails

s3Vars      == <<manifest, objects>>
memVars     == <<where, files, persisted>>
sandboxVars == <<sandbox, disk, there>>
turnVars    == <<turn, loadDisk, due>>
attachVars  == <<filesMu, at, batch, todo, aimed, snap>>
ghostVars   == <<missed, spilled, stale, kept>>
boundVars   == <<crashes, fails>>
vars == <<s3Vars, memVars, sandboxVars, turnVars, attachVars, ghostVars, boundVars>>

Lists == [Names -> Attachers \cup {None}]
Empty == [n \in Names |-> None]
Known(list) == {n \in Names : list[n] # None}
Bare == [p \in Paths |-> None]

Here == where = "here"
InFlight == {"found", "inject", "record", "recorded", "save"}

TypeOK ==
  /\ where \in {"here", "cold", "deleted"}
  /\ files \in Lists /\ manifest \in Lists /\ disk \in Lists /\ loadDisk \in Lists
  /\ persisted \subseteq Paths /\ kept \subseteq Paths
  /\ objects \in [RelPaths -> Paths \cup {None}] /\ there \in [Paths -> Paths \cup {None}]
  /\ sandbox \in BOOLEAN /\ stale \in BOOLEAN
  /\ turn \in {"none", "check", "gather", "built", "work"}
  /\ filesMu \in Attachers \cup {None}
  /\ at \in [Attachers -> InFlight \cup {"new", "done", "refused", "lost"}]
  /\ batch \in [Attachers -> SUBSET Names] /\ todo \in [Attachers -> SUBSET Names]
  /\ aimed \in [Attachers -> BOOLEAN] /\ snap \in [Attachers -> Lists]
  /\ missed \subseteq Names /\ spilled \subseteq Names /\ due \subseteq Names
  /\ crashes \in 0..MaxCrashes /\ fails \in 0..MaxFails

\* The session was just created, with its sandbox.
Init ==
  /\ where = "here" /\ files = Empty /\ persisted = {}
  /\ manifest = Empty /\ objects = [k \in RelPaths |-> None]
  /\ sandbox = TRUE /\ disk = Empty /\ there = Bare
  /\ turn = "none" /\ loadDisk = Empty /\ due = {}
  /\ filesMu = None
  /\ at = [a \in Attachers |-> "new"] /\ batch = [a \in Attachers |-> {}]
  /\ todo = [a \in Attachers |-> {}] /\ aimed = [a \in Attachers |-> FALSE]
  /\ snap = [a \in Attachers |-> Empty]
  /\ missed = {} /\ spilled = {} /\ stale = FALSE /\ kept = {}
  /\ crashes = 0 /\ fails = 0

Fail == fails < MaxFails /\ fails' = fails + 1 /\ UNCHANGED crashes

-----------------------------------------------------------------------------
(* handleCreateFiles and attachFiles *)

Goto(a, to) == at' = [at EXCEPT ![a] = to]

\* The request found the session in the map.
Find(a, names) ==
  /\ at[a] = "new" /\ Here
  /\ Goto(a, "found") /\ batch' = [batch EXCEPT ![a] = names]
  /\ UNCHANGED <<s3Vars, memVars, sandboxVars, turnVars, filesMu, todo, aimed, snap,
                 ghostVars, boundVars>>

\* Fault: an attach never looks for a sandbox.
LockBlind(a) ==
  /\ at[a] = "found" /\ filesMu = None /\ Here
  /\ filesMu' = a /\ Goto(a, "record")
  /\ todo' = [todo EXCEPT ![a] = batch[a]] /\ aimed' = [aimed EXCEPT ![a] = FALSE]
  /\ UNCHANGED <<s3Vars, memVars, sandboxVars, turnVars, batch, snap, ghostVars, boundVars>>

\* It takes filesMu and looks for a live sandbox.
Lock(a) ==
  /\ at[a] = "found" /\ filesMu = None /\ Here
  /\ filesMu' = a /\ Goto(a, IF sandbox THEN "inject" ELSE "record")
  /\ todo' = [todo EXCEPT ![a] = batch[a]] /\ aimed' = [aimed EXCEPT ![a] = sandbox]
  /\ UNCHANGED <<s3Vars, memVars, sandboxVars, turnVars, batch, snap, ghostVars, boundVars>>

\* The session was deleted meanwhile.
LockClosed(a) ==
  /\ at[a] = "found" /\ where = "deleted"
  /\ Goto(a, "refused")
  /\ UNCHANGED <<s3Vars, memVars, sandboxVars, turnVars, filesMu, batch, todo, aimed, snap,
                 ghostVars, boundVars>>

\* InjectFiles: the sandbox fetches one file after the other ...
InjectOne(a, n) ==
  /\ at[a] = "inject" /\ n \in todo[a] /\ sandbox
  /\ disk' = [disk EXCEPT ![n] = a]
  /\ IF todo[a] = {n}
     THEN Goto(a, "record") /\ todo' = [todo EXCEPT ![a] = batch[a]]
     ELSE todo' = [todo EXCEPT ![a] = @ \ {n}] /\ UNCHANGED at
  /\ UNCHANGED <<s3Vars, memVars, sandbox, there, turnVars, filesMu, batch, aimed, snap,
                 ghostVars, boundVars>>

\* The request is over, and what it had in hand is gone.
Refuse(a, injected) ==
  /\ Goto(a, "refused") /\ filesMu' = None
  /\ spilled' = spilled \cup injected
  /\ todo' = [todo EXCEPT ![a] = {}] /\ batch' = [batch EXCEPT ![a] = {}]
  /\ aimed' = [aimed EXCEPT ![a] = FALSE]
  /\ UNCHANGED <<s3Vars, memVars, sandboxVars, turnVars, snap,
                 missed, stale, kept>>

\* ... and one of them fails, or the sandbox was released by DELETE.
InjectFails(a) ==
  /\ at[a] = "inject"
  /\ IF sandbox THEN Fail ELSE UNCHANGED boundVars
  /\ Refuse(a, batch[a] \ todo[a])

\* Nothing recorded yet: the batch may be too much.
AtStart(a) == at[a] = "record" /\ todo[a] = batch[a]

\* Fault: the names the session has already are not counted.
TooManyAlone(a) == Cardinality(batch[a]) > NameCap

TooMany(a) == Cardinality(Known(files) \cup batch[a]) > NameCap

RefuseTooMany(a) ==
  /\ AtStart(a) /\ TooMany(a)
  /\ Refuse(a, IF aimed[a] THEN batch[a] ELSE {})
  /\ UNCHANGED boundVars

\* recordFile, one name after the other; with the last one the lock is released.
RecordOne(a, n) ==
  /\ at[a] = "record" /\ n \in todo[a] /\ ~(AtStart(a) /\ TooMany(a))
  /\ files' = [files EXCEPT ![n] = a]
  /\ todo' = [todo EXCEPT ![a] = @ \ {n}]
  /\ IF todo[a] = {n} THEN Goto(a, "recorded") /\ filesMu' = None
                      ELSE UNCHANGED <<at, filesMu>>
  /\ IF aimed[a] THEN missed' = missed \ {n} /\ spilled' = spilled \ {n}
                 ELSE UNCHANGED <<missed, spilled>>
  /\ aimed' = [aimed EXCEPT ![a] = @ /\ todo[a] # {n}]
  /\ UNCHANGED <<s3Vars, where, persisted, sandboxVars, turnVars, batch, snap,
                 stale, kept, boundVars>>

\* The list to save is read ...
Snapshot(a) ==
  /\ at[a] = "recorded"
  /\ Goto(a, "save") /\ snap' = [snap EXCEPT ![a] = files]
  /\ UNCHANGED <<s3Vars, memVars, sandboxVars, turnVars, filesMu, batch, todo, aimed,
                 ghostVars, boundVars>>

\* ... and written, without any lock. A failure is only logged.
SaveManifest(a) ==
  /\ at[a] = "save"
  /\ \/ manifest' = snap[a] /\ stale' = (stale \/ (Here /\ snap[a] # files)) /\ UNCHANGED boundVars
     \/ Fail /\ UNCHANGED <<manifest, stale>>
  /\ Goto(a, "done") /\ snap' = [snap EXCEPT ![a] = Empty]
  /\ UNCHANGED <<objects, memVars, sandboxVars, turnVars, filesMu, batch, todo, aimed,
                 missed, spilled, kept>>

-----------------------------------------------------------------------------
(* The turn: ensureSandbox, the persist tool *)

StartTurn ==
  /\ Here /\ turn = "none"
  /\ turn' = "check"
  /\ due' = {n \in Known(files) : at[files[n]] = "done"}
  /\ UNCHANGED <<s3Vars, memVars, sandboxVars, loadDisk, attachVars, ghostVars, boundVars>>

\* ensureSandbox finds a live sandbox or allocates one.
Check ==
  /\ turn = "check"
  /\ turn' = IF sandbox THEN "work" ELSE "gather"
  /\ UNCHANGED <<s3Vars, memVars, sandboxVars, loadDisk, due, attachVars, ghostVars, boundVars>>

\* The session's lists are read for RestorePersisted and InjectFiles. The
\* transfers take their time; filesMu is not held.
Gather ==
  /\ turn = "gather"
  /\ turn' = "built" /\ loadDisk' = files
  /\ UNCHANGED <<s3Vars, memVars, sandboxVars, due, attachVars, ghostVars, boundVars>>

BuildFails ==
  /\ turn \in {"gather", "built"} /\ (IF Here THEN Fail ELSE UNCHANGED boundVars)
  /\ turn' = "none" /\ loadDisk' = Empty /\ due' = {}
  /\ UNCHANGED <<s3Vars, memVars, sandboxVars, attachVars, ghostVars>>

\* Fault: persisted files are not restored.
SetSandboxBare ==
  /\ turn = "built" /\ Here
  /\ turn' = "work" /\ sandbox' = TRUE /\ disk' = loadDisk /\ there' = Bare
  /\ loadDisk' = Empty
  /\ missed' = {n \in Names : files[n] # loadDisk[n]}
               \cup (IF filesMu = None THEN {} ELSE batch[filesMu])
  /\ UNCHANGED <<s3Vars, memVars, due, attachVars, spilled, stale, kept, boundVars>>

\* RestorePersisted: each path on record gets what the object of its key holds.
Restored == [p \in Paths |-> IF p \in persisted THEN objects[Strip[p]] ELSE None]

\* The sandbox is attached.
SetSandbox ==
  /\ turn = "built" /\ Here
  /\ turn' = "work" /\ sandbox' = TRUE /\ disk' = loadDisk /\ there' = Restored
  /\ loadDisk' = Empty
  /\ missed' = {n \in Names : files[n] # loadDisk[n]}
               \cup (IF filesMu = None THEN {} ELSE batch[filesMu])
  /\ UNCHANGED <<s3Vars, memVars, due, attachVars, spilled, stale, kept, boundVars>>

\* The persist tool uploads the file at p. The key drops the leading "/", so
\* that p shares its object with Strip[p].
Upload(p) ==
  /\ turn = "work" /\ Here
  /\ objects' = [objects EXCEPT ![Strip[p]] = p] /\ there' = [there EXCEPT ![p] = p]
  /\ UNCHANGED <<manifest, where, files, sandbox, disk, turnVars, attachVars,
                 missed, spilled, stale>>

\* ... and the session records it under its path.
Persist(p) ==
  /\ Upload(p)
  /\ persisted' = persisted \cup {p} /\ kept' = kept \cup {p}
  /\ UNCHANGED boundVars

\* The answer to an upload is lost: the tool reports an error.
PersistFails(p) == Upload(p) /\ Fail /\ UNCHANGED <<persisted, kept>>

EndTurn ==
  /\ turn = "work"
  /\ turn' = "none" /\ due' = {}
  /\ UNCHANGED <<s3Vars, memVars, sandboxVars, loadDisk, attachVars, ghostVars, boundVars>>

-----------------------------------------------------------------------------
(* Sweeper, DELETE, crash, adoption *)

NoSandbox == sandbox' = FALSE /\ disk' = Empty /\ there' = Bare

\* Fault: the reaper does not take filesMu.
ReapUnlocked ==
  /\ Here /\ turn = "none" /\ sandbox
  /\ NoSandbox /\ missed' = {} /\ spilled' = {}
  /\ UNCHANGED <<s3Vars, memVars, turnVars, attachVars, stale, kept, boundVars>>

\* reapIdleSandboxes
Reap ==
  /\ Here /\ turn = "none" /\ sandbox /\ filesMu = None
  /\ NoSandbox /\ missed' = {} /\ spilled' = {}
  /\ UNCHANGED <<s3Vars, memVars, turnVars, attachVars, stale, kept, boundVars>>

\* Everything in memory goes.
Forget ==
  /\ where' = "cold" /\ files' = Empty /\ persisted' = {} /\ NoSandbox
  /\ missed' = {} /\ spilled' = {}
  /\ UNCHANGED <<s3Vars, stale, kept>>

\* evictColdSessions: requests that hold the session find it closed, or save the
\* list it had.
Evict ==
  /\ Here /\ turn = "none" /\ filesMu = None
  /\ Forget
  /\ at' = [a \in Attachers |-> CASE at[a] = "found" -> "refused"
                                  [] at[a] = "recorded" -> "save"
                                  [] OTHER -> at[a]]
  /\ snap' = [a \in Attachers |-> IF at[a] = "recorded" THEN files ELSE snap[a]]
  /\ UNCHANGED <<filesMu, turnVars, boundVars, batch, todo, aimed>>

\* The node crashes, and with it its requests, its turn and what they had in hand.
Crash ==
  /\ Here /\ crashes < MaxCrashes
  /\ crashes' = crashes + 1
  /\ Forget /\ filesMu' = None /\ turn' = "none" /\ due' = {} /\ loadDisk' = Empty
  /\ at' = [a \in Attachers |-> IF at[a] \in InFlight THEN "lost" ELSE at[a]]
  /\ snap' = [a \in Attachers |-> Empty] /\ UNCHANGED fails
  /\ batch' = [a \in Attachers |-> IF at[a] \in InFlight THEN {} ELSE batch[a]]
  /\ todo' = [a \in Attachers |-> {}] /\ aimed' = [a \in Attachers |-> FALSE]

\* listPersistedObjects: the path is taken from the key.
Listed == {k \in RelPaths : objects[k] # None}

\* Fault: adoption starts without attached files.
AdoptBare ==
  /\ where = "cold"
  /\ where' = "here" /\ files' = Empty /\ persisted' = Listed
  /\ UNCHANGED <<s3Vars, sandboxVars, turnVars, attachVars, ghostVars, boundVars>>

\* loadAdoptableSession: the manifest is read, persisted files are listed.
Adopt ==
  /\ where = "cold"
  /\ where' = "here" /\ files' = manifest /\ persisted' = Listed
  /\ UNCHANGED <<s3Vars, sandboxVars, turnVars, attachVars, ghostVars, boundVars>>

\* handleDeleteSession does not take filesMu.
Delete ==
  /\ Here
  /\ where' = "deleted" /\ NoSandbox /\ missed' = {} /\ spilled' = {}
  /\ UNCHANGED <<s3Vars, files, persisted, turnVars, attachVars, stale, kept, boundVars>>

-----------------------------------------------------------------------------

AttachStep(a) ==
  \/ \E names \in SUBSET Names \ {{}} : Find(a, names)
  \/ Lock(a) \/ LockClosed(a) \/ InjectFails(a) \/ RefuseTooMany(a)
  \/ Snapshot(a) \/ SaveManifest(a)
  \/ \E n \in Names : InjectOne(a, n) \/ RecordOne(a, n)

TurnStep ==
  \/ StartTurn \/ Check \/ Gather \/ BuildFails \/ SetSandbox \/ EndTurn
  \/ \E p \in Paths : Persist(p) \/ PersistFails(p)

LifeStep == Reap \/ Evict \/ Crash \/ Adopt \/ Delete

Next == (\E a \in Attachers : AttachStep(a)) \/ TurnStep \/ LifeStep

Spec == Init /\ [][Next]_vars

-----------------------------------------------------------------------------
(* Safety *)

\* An attached sandbox holds just the recorded files, in their latest version,
\* but for those recorded while it was built (attachFiles saw no sandbox, the
\* build no record), those of refused requests, and those being attached.
DiskAgrees ==
  sandbox => \A n \in Names :
    \/ disk[n] = files[n] \/ n \in missed \cup spilled
    \/ filesMu # None /\ n \in batch[filesMu]

\* While an attach injects, the reaper and the eviction leave the sandbox alone
\* (session.go:64-68): only DELETE takes it away.
InjectionTargetLives == \A a \in Attachers : at[a] = "inject" => sandbox \/ where = "deleted"

\* However requests, evictions and adoptions overlap, a session never has more
\* names than the cap, in memory or in S3.
CapHeld == Cardinality(Known(files)) <= NameCap /\ Cardinality(Known(manifest)) <= NameCap

\* Unless a save failed or wrote an outdated list, a session at rest has in S3
\* the list it has in memory: eviction, crash and adoption lose no file.
ManifestCurrent ==
  /\ Here /\ fails = 0 /\ ~stale
  /\ \A a \in Attachers : at[a] \notin {"record", "recorded", "save"}
  => manifest = files

\* Nobody uploaded another file under the key since.
Current(p) == objects[Strip[p]] = p

\* A file the agent was told is persisted is in every later sandbox with its
\* content, unless another path with the same key was uploaded since: under its
\* path as long as the session has it on record there, under the path its key
\* encodes after an adoption.
PersistedReturns ==
  Here /\ turn = "work" => \A p \in kept : Current(p) =>
    there[p] = p \/ (p \notin persisted /\ there[Strip[p]] = p)

-----------------------------------------------------------------------------
(* The inductive invariant behind the safety properties *)

Same(n) == disk[n] = files[n] \/ n \in missed \cup spilled

\* The lock is held just while an attach injects and records, never by a
\* request of a session that left the memory of its node.
LockInv ==
  /\ \A a \in Attachers : at[a] \in {"inject", "record"} <=> filesMu = a
  /\ filesMu # None => where # "cold"
  /\ \A a \in Attachers : at[a] \in {"inject", "record"} => todo[a] \subseteq batch[a]

\* A turn that builds a sandbox has none, one that works has one; a session out
\* of memory has neither turn nor sandbox.
BuildInv ==
  /\ turn \in {"gather", "built"} => ~sandbox
  /\ Here /\ turn = "work" => sandbox
  /\ sandbox => Here
  /\ where = "cold" => turn = "none"

\* An attach that found a sandbox keeps it until DELETE takes it.
AimInv ==
  \A a \in Attachers :
    /\ at[a] = "inject" => aimed[a]
    /\ filesMu = a /\ aimed[a] => sandbox \/ where = "deleted"

\* What an attach has injected carries its content; what it records without a
\* sandbox, while one is built, is missed.
CarriedInv ==
  sandbox => \A a \in Attachers :
    /\ at[a] = "inject" => \A n \in batch[a] \ todo[a] : disk[n] = a
    /\ at[a] = "record" /\ aimed[a] => \A n \in batch[a] : disk[n] = a
    /\ at[a] = "record" /\ ~aimed[a] => batch[a] \subseteq missed

\* Disk and list differ in names an attach has injected and not recorded yet.
DiskInv ==
  sandbox => \A n \in Names :
    \/ Same(n)
    \/ \E a \in Attachers : at[a] = "inject" /\ n \in batch[a] \ todo[a]
    \/ \E a \in Attachers : at[a] = "record" /\ aimed[a] /\ n \in todo[a]

Few(names) == Cardinality(names) <= NameCap

\* An attach that has begun to record has room for its whole batch.
CapInv ==
  /\ Few(Known(files)) /\ Few(Known(manifest))
  /\ \A a \in Attachers : Few(Known(snap[a]))
  /\ \A a \in Attachers : at[a] = "record" /\ todo[a] # batch[a] =>
       Few(Known(files) \cup batch[a])

\* Only an attach that has recorded something can put the saved list behind.
SavedInv ==
  /\ Here /\ fails = 0 /\ ~stale
  /\ \A a \in Attachers : at[a] \notin {"recorded", "save"} /\ (at[a] = "record" => AtStart(a))
  => manifest = files

\* Whatever was persisted has an object, is listed under its path or that of its
\* key, and is in the sandbox if the object is still its own.
KeptInv ==
  /\ \A p \in kept : objects[Strip[p]] # None
  /\ Here => \A p \in kept : p \in persisted \/ Strip[p] \in persisted
  /\ sandbox => \A p \in kept : Current(p) =>
       there[p] = p \/ (p \notin persisted /\ there[Strip[p]] = p)

FilesInv ==
  /\ TypeOK /\ LockInv /\ BuildInv /\ AimInv /\ CarriedInv /\ DiskInv
  /\ CapInv /\ SavedInv /\ KeptInv

-----------------------------------------------------------------------------
(* What the comments and docs say and the code does not keep *)

\* files.go:192-193: a message sent after the attach always finds the files on
\* disk.
MessageFindsFiles == Here /\ turn = "work" => \A n \in due : disk[n] # None

\* README.md:76: the list is persisted, and files are restored after a crash or
\* an eviction; no S3 call need fail for a file to be lost.
AcceptedSurvives ==
  Here /\ fails = 0 /\ (\A a \in Attachers : at[a] \notin InFlight) =>
    \A a \in Attachers : at[a] = "done" => \A n \in batch[a] : manifest[n] # None

\* tools_persist.go:48-49: persisted files come back at their original paths.
PersistedInPlace == Here /\ turn = "work" => \A p \in kept : there[p] # None

\* tools_persist.go:150-151: a persisted file survives the sandbox. Of two paths
\* with one key the one uploaded last survives, under both paths.
PersistedSurvives ==
  Here /\ turn = "work" => \A p \in kept : p \in {there[p], there[Strip[p]]}

\* files.go:213-214: a rejected request leaves no partial state.
RejectedLeavesNothing == spilled = {}

=============================================================================

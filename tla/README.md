# Formal models of turnhive

turnhive runs LLM agent sessions on a cluster of nodes. A session lives in the
memory of one owner node, which an etcd record names; it runs one turn at a
time against an ironhive sandbox, publishes its events over SSE, and keeps its
spec, its history and the list of its files in S3, so that any node can adopt
it. This directory holds TLA+ modules of that program, TLC configurations that
check them on small instances, and theorems that the TLA+ proof system checks
for every value of the constants.

- [The system](#the-system)
- [The modules](#the-modules): what is modelled, and how it corresponds to the code
- [The runs](#the-runs): what TLC checks, within which bounds
- [Fairness](#fairness)
- [What is proved](#what-is-proved)
- [What the code does not keep](#what-the-code-does-not-keep)
- [What is not modelled](#what-is-not-modelled)
- [Plan](#plan)

To check a run, `tlc -config <run>.cfg <module>`; to check the proofs,
`tlapm <module>Proofs.tla`. `PROJECT.json` lists the runs, the code lines every
definition stands for, and for every property a mutation of the model that
breaks it (an operator marked `Fault:` in its module).

## The system

Paths are relative to `src/`.

| Part | State | Operations | Talks to |
|---|---|---|---|
| Session state and turns: `controller/session.go`, `turn.go` | the `Session` fields under `mu`: closed, sandbox, turnID, cancel func and cause, lastActive, pending background exits, pending tool results and waiters | startTurn, finishTurn, CancelTurn, cancelTurn, closeSession, setSandbox, takeSandboxIfIdle, takeIfCold, recordBackgroundExit, take/requeueBackgroundExits, AddToolResult, WaitToolResult | handlers, turn goroutine, drains and sweeper, all through `mu`; hub; agent loop |
| Sandbox lifecycle: `controller/sandbox.go`, `sweeper.go` | the attached sandbox, its renewal goroutine | ensureSandbox, startRenewal, releaseSandbox, reapIdleSandboxes, evictColdSessions | ironhive; session; files; agent loop (rebuilt with the sandbox) |
| Handlers: `controller/controller.go` | the `sessions` map | create (with its rollback), delete, events, Close | all of the above |
| Event hub and stream: `controller/hub.go`, `sse.go` | seq, replay buffer, current turn, subscribers | publish, subscribe, unsubscribe, closeAll; the SSE handler | turn (publishes), clients |
| User files: `controller/files.go`, `agent/files.go` | `Session.files`, `filesMu`, `files.json` in S3, the sandbox's disk | attachFiles, restore on build, load on adoption | sandbox build, reap, evict, DELETE |
| Persisted files: `agent/tools_persist.go` | `Session.persisted`, objects in S3 | the persist tool, restore, listing on adoption | sandbox build |
| Agent loop: `agent/loop.go`, `history.go`, `context.go` | history in memory, `history.jsonl` in S3 | RunTurn, saveHistory, trim, compact, failTurn, SealInterrupted | LLM, tools, S3 |
| External tools: `agent/tools_external.go` | the session's waiters and pending results | Execute (wait with timeout), tool_results handler | client |
| Routing and adoption: `controller/routing.go`, `adopt.go` | `adopting` map | routeSession, proxy, adoptSession, claim | registry, S3, peers |
| Registry: `registry/registry.go` | lease, node and session records in etcd | RegisterNode, keepalive recovery, ClaimSession, Register/UnregisterSession, SessionOwner | etcd |
| LLM client: `llm/llm.go` | the reply being assembled, the retries left | Stream: POST, back-off on 429, SSE or plain JSON | provider |
| MCP tools: `agent/tools_mcp.go` | one connection per server and turn | connect over candidate transports, list, mount, call, close | MCP servers |
| Sandbox tools: `agent/tools_sandbox.go` | shell directory and environment, watched commands | shell (foreground, background, kill), apply_patch, read, write, edit | ironhive; session (exits) |
| Algorithms: `agent/patch.go`, `truncate.go` | none | parse and apply a patch, truncate output | sandbox tools |
| Go SDK: `client.go`, `stream.go` | the reader's goroutine, its channel, the error it ended with | requests, Stream, Close | HTTP API |
| Process: `cmd/turnhive/main.go` | none of its own | start-up, signal, shutdown order | everything |
| `config`, `storage`, `controller/spec.go` | none | parsing, validation, S3 requests | S3 |

What is hard in it, and what has to hold:

- **Session and sandbox.** Handlers, the turn's goroutine, the sweeper and the
  drain of background exits interleave wherever `mu` is released; the sandbox is
  built outside of it. At most one turn; a sandbox is never leaked, released
  twice, taken from a running turn or attached to a closed session; every turn
  ends; every exit of a background command is reported, and once.
- **Events.** A slow subscriber is dropped in mid fan-out and comes back with
  the last number it saw. No hole, no repeat, nothing lost that is in the buffer.
- **Ownership.** Owners crash, leases lapse, two nodes adopt at once, evictions
  and DELETEs outlast the routing decision that led to them. One node serves,
  etcd names it, and a session is revived on access.
- **Agent loop.** The node can crash between any two of write-ahead, reply and
  save; saves are best effort; results come early, late, twice or never. The
  history stays in order and loses nothing but what is dropped on purpose; no
  result reaches a turn it was not made for; every turn ends.
- **Files.** Attaching, building, reaping, evicting and deleting overlap, and
  only some of them take `filesMu`. Disk, memory and S3 agree, and the cap holds.

- **Remote calls of a turn.** A provider that cuts its stream or answers 429, tool
  servers that accept and never answer, commands that hang or move to the
  background, a context that may end between any two steps. An answer is taken only
  whole; nothing the turn opened is left to nobody; a turn whose context ended is
  over soon.
- **Patches.** A removed line can look like a file header, hunks can overlap or go
  back, a file can end without a newline. A patch does what it says or is refused.
- **Shutdown.** Streams, turns, creations and the sweeper go on while main disconnects,
  waits, closes and revokes. The node exits, and leaves nothing if its requests ended.
- **SDK reader.** The reader blocks on a consumer that may have stopped, while Close
  comes from another goroutine. The reader ends and says truthfully how.

`PROJECT.json` lists these hazards one by one, with the line of code where each
bites and the properties that would catch it going wrong.

## The modules

One action is one critical section of a mutex, or one call to etcd, S3 or
ironhive: that is where the Go program can be interleaved. Handlers, goroutines
and requests have a program counter each. Definitions carry the names of the
code; `map` in `PROJECT.json` gives the lines.

**Session** (`MCSession`, `SessionProofs`) is one session on its owner node:
creation, messages, turns, cancel, background commands and the drain of their
exits, the sandbox build, renewal and release, DELETE and Close, the sweeper.
`turn[t]` and `build[b]` follow the turn's goroutine and the build it runs;
`hand[h]` is the sandbox a goroutine holds outside of the session, between the
take or the allocation and the attachment or the release. `TimePasses` ages the
session, which is all that matters of idle_timeout and cold_timeout. An event
of the turn is only its turn_started and turn_finished; what RunTurn does in
between is AgentLoop. A 202 of the cancel handler that waited for the turn's end
and one that gave up waiting are told apart by `cxl`. A release that fails is only
logged (sandbox.go:163-164) and leaves the sandbox to its lease, so `released` means
that the node let go of it.

**EventHub** is the hub on its own, under any use of it: its
six variables and publish, subscribe, unsubscribe, closeAll, and receiving from a
channel. **EventStream** (`MCEventStream`, `EventStreamProofs`) extends it with
what uses it: a turn that publishes, one SSE handler per connection that writes
sync frame, backlog and live events, connections that break at any point, the
cold eviction, and two kinds of clients: one that resumes from the last id it
saw, and one that, like the SDK, resets its number from the sync frame. Payloads
are left out.

**Ownership** (`MCOwnership`, `OwnershipProofs`) is one session in the cluster,
call by call: every request routes (map, adoption in progress, owner record, node
record), forwards, adopts (spec, claim, history), waits for another's adoption or
serves; evictions and DELETEs unmap and unregister; nodes crash and restart; every
call to etcd or S3 may fail. `watcher[n]` is where the keepalive goroutine of a node
is: the keepalive is lost, a new lease is granted and published, the node record is
put under it, a new keepalive starts. Each of these calls may fail, which starts the
registration over with one more lease, and the lease may expire before any of them.
`restore[n][l]` is the OnReconnected of the registration that was granted lease `l`:
it visits the session, RegisterSession reads the lease id, and puts the record, while
the watcher may already have lost the keepalive again. **Tenure** is what
that promises: a single tenant, who changes only by passing through nobody.
Ownership is checked and proved to implement it.
A graceful stop is a crash whose lease expires at once. RegisterSession's read of
the lease id and its put are one action for a session that is being created: no
request knows it yet, and of what is checked only `HeldIsRecorded`, which is refuted
anyhow, could tell the difference. A start-up whose registration fails exits (main.go:44-46), which
is a node that is still down. The crash of a node that forwards loses only the reply.
What DELETE forgets of files and turns is modelled in Session and SessionFiles.

**ToolResults** is the meeting of a loop that waits for an external tool's result
and the client that posts it, each step a critical section of `mu` or a branch of
the waiter's select. **AgentLoop** (`MCAgentLoop`, `AgentLoopProofs`) extends it with the turns of one
session: user message, trimming and compaction, write-ahead, streaming, the calls
of a message one by one, saves, failTurn, and what becomes of the history when the
sandbox is reaped (the loop is rebuilt and reads S3 again), the session evicted,
or the node crashes and another adopts and seals. A message is one token, so a
window is a number of messages. A turn in the history is its user message and its
answer: calls and their results are in the turn's working copy (loop.go:229-300),
which is neither saved nor kept. Trimming may drop the summary of an earlier
compaction, as it may in the code. A write to S3 fails or takes effect.

**SessionFiles** (`MCSessionFiles`, `SessionFilesProofs`) is files: requests that
attach, one name at a time, in the order inject, check the cap, record, save; a
turn that builds a sandbox from the lists it read, and persists files; reap, evict,
DELETE, crash and adoption. A file's content is the request that brought it. Object
keys drop the leading slash (`Strip`), so an absolute path and a relative one
may have the same key: the second upload then overwrites the first. So a persisted
file has a content, the path it was persisted from; `objects` is what S3 holds under
each key and `there` what the sandbox has at each path, which a restore fills from the
objects. Four history variables name the windows in which disk,
memory and S3 may differ: `missed`, `spilled`, `stale`, `due`.

**TurnCalls** (`MCTurnCalls`, `TurnCallsProofs`) is the inside of one RunTurn: connect
the tool servers, ask the model, run its calls one by one, close what was opened. It
composes four modules. **TurnContext** is the context everything runs under, which
ends at any moment and once. **Completion** is one model call: the POST, the back-off
on 429, the fragments of a reply keyed by the index the provider gives them, the plain
JSON answer of an endpoint that ignores `stream`. The provider is external: the pieces
of one text or call come in order, finish_reason after all of them, and the connection
may break anywhere. **McpServers** is a goroutine per server, with a link (a
`client.Connect` and the session it may come back with) per candidate transport,
each on a context of its own. **Shell** is the call, the goroutine that reads the
command's stream, the watcher of a command in the background, and the command with its
exit file. What the MCP library and ironhive do is inferred from the code that uses
them. A reply's ids, names, reasoning and usage, tool names and the shell's
environment are left out.

**PatchTool** (`MCPatchTool`, `PatchToolProofs`) is apply_patch: the parser, line by
line, and the applier, line by line and file by file. A line is its first character and
a text; a text is a lead (`-- `, `++ ` or neither) and a word, which is what it
takes for `--- x` to be a header or a removed line; `Blank` is the empty word, and the
op `@@?` a line that begins a hunk and does not parse, which is refused. The
intended patch is state too,
so that the result can be compared with what it means. Reading or writing a file may
fail. The code's own rules show: a new
file never ends in a newline, a hunk that only inserts goes in one line early, a last
section without hunks is swallowed by the parser, a file left with one empty line loses
its newline, a patch whose second file fails leaves the first one changed, and a hunk
behind one that points past the end slices the file out of its range (`OutOfRange`),
a panic that nobody on the path recovers: the reply is then `panic`, and nothing is
written.

**StreamReader** is the Go SDK's event reader: `Stream.run`, `parseLine`, the dispatch to
a bounded channel, `finish`, and Close in its three steps; the network delivers what was
written up to where it breaks. **Shutdown** (`MCShutdown`, `ShutdownProofs`) runs main's stop (signal,
CloseSubscribers, srv.Shutdown and its ten seconds, Controller.Close, revoke, exit)
against an event stream read by a StreamReader, messages, a creation, a relayed stream,
a turn, background exits, the sweeper and the lapse of the lease. It extends EventHub;
of a session it keeps who has to release its sandbox (`holders`) and how far its turn
is. `Mixes` bounds which of these happen together. A listener that fails, which exits
without any of this (`errCh`, main.go:70-84), is left out. Session, EventStream and Ownership
know a stop as Close, broken connections and a crash whose lease expires at once.

The modules are views of the same session, kept apart because their product is
out of reach: Ownership says that there is one owner, and the others describe
that owner; Session says that there is one turn, and EventStream, AgentLoop and
SessionFiles describe that turn; TurnCalls is what happens inside of AgentLoop's calls.

## The runs

Every run finishes in about three minutes on two cores.

| Run | Asks | Bounds |
|---|---|---|
| `session_turns` | One turn at a time, and the hub shows it (`TurnsAreShown`); cancelled only if asked (`CancelledOnlyIfAsked`); every exit in exactly one place (`ExitsConserved`) | 2 turns, 2 messages, a cancel, a background command, 1 sandbox; symmetric |
| `session_live` | No sandbox leaks, is released twice, is taken from a running turn or attached to a closed session, and renewals follow sandboxes (`SandboxesAccounted`); every turn ends (`TurnEnds`); closing and idleness free the sandboxes (`SandboxesFreed`) | 1 turn, a message, a teardown, the creation, the sweeper, 2 sandboxes |
| `stream` | Buffer and channels skip nothing (`HubIsGapless`), backlog and live events join (`StreamGapless`), a resuming client gets every event once but what left the buffer (`ExactlyOnce`), the client's view of the turn is the hub's (`ViewAgrees`), events arrive (`EventsArrive`) | 4 events, buffer of 2, channel of 1, one client of each kind, 1 broken connection, a last_seq that is 1 too high |
| `own_server` | One node serves, and etcd names it (`ServerIsTheRecorded`); waits are for adoptions somebody performs (`AdoptionsHaveAdopters`); Ownership implements Tenure (`TenureSpec`) | 2 nodes, 2 messages, 2 evictions, 1 crash, 1 failed call |
| `own_live` | The message is served in the end (`Revived`), every request is answered (`RequestsEnd`) | 2 nodes, a message retried for ever, a DELETE, 1 crash, 1 eviction, 1 failed call |
| `own_lapse` | A registered node is routed to, it is again after every loss, and the record of the session in memory comes back unless RegisterSession itself failed (`LapseHeals`) | 2 nodes, a message, 2 lapses at any step of a registration, 4 leases, 1 failed call |
| `agent` | Results reach their call or none (`ResultsFindTheirCall`); the history is in order, complete, and sealed only where cut (`HistoryHolds`); saved when idle (`SavedWhenIdle`); trimming and compaction drop the oldest, no more than they must (`TrimKeepsLatest`); turns end (`TurnsFinish`) | 4 turns, 2 call ids, 2 calls in a message, 1 step with calls, window of 4 messages, 2 turns kept, buffer of 1 result, 1 crash, 1 failed save or build |
| `files` | Disk and list agree (`DiskAgrees`), an injection keeps its sandbox (`InjectionTargetLives`), the cap holds (`CapHeld`), the saved list is current (`ManifestCurrent`), a persisted file whose object is still its own comes back with its content (`PersistedReturns`) | 2 requests, 3 names, cap of 2, a relative and an absolute path of one key, 1 crash, 1 failure; symmetric |
| `turn` | Only whole answers are used, and shown once (`RepliesAreExact`); no command and no connection is left to nobody (`NoOrphan`, `LinksAreReleased`); background commands live on and are reported (`BackgroundIsKept`), given-up ones die (`AbortedDies`); a turn whose context ended is over soon (`TurnLetsGo`) | 1 server that tries two transports, 1 shell call, 1 step with calls, 1 piece per text or call, 1 retry, indexes -1, 0 and 1 |
| `shell_exit_code` | refutes `ExitCodeIsReal` | at most 2 calls with one id (one call that changes the directory is enough), 2 directories, exit codes 0 and 1 |
| `patch` | A regular patch does what its text says or is refused, and does not panic (`PatchMeansWhatItSays`); no patch whose hunks go forward writes a file that lost or repeats a line (`LinesSurvive`) | 1 or 2 sections, 1 or 2 hunks, bodies of up to 3 lines, blank lines and bad headers among them, 4 old files; all combinations |
| `shutdown` | What the SDK's reader reports is true (`StreamIsHonest`); a disconnected subscriber gets all it was owed (`FarewellIsWhole`); nothing is left behind if the requests ended in time (`StopIsClean`); reader and node end (`ReaderEnds`, `StopEnds`) | 3 events, a replay buffer of 2, channels of 2 and 1, no lines in flight; four mixes of what happens together |

Why the bounds are enough. Two of a kind is what it takes to interleave: two turns
for a cause or an exit to leak from one into the next, two sandboxes for a rebuild
to race a release, two nodes for an adoption to race the owner or another adopter,
two attaches for two saves, two transports for a late connect to race its successor.
A third name is needed where two batches exceed a cap neither exceeds alone (`files`),
four turns where compaction (two turns kept) and trimming (two turns fit) both have
something to drop (`agent`). Four events overflow a buffer of two and a channel of one,
both within one connection and across a reconnect; in `shutdown` three events overflow a
buffer of two, so that what a late subscriber is owed is less than all. Calls of a turn run one at a
time, so one shell call meets the end of its turn at every step; background commands of
several calls share nothing but the exit files, which `shell_exit_code` is about. In
`patch` a hunk can touch, overlap or precede another, point before the first line or
past the last, and contain each look-alike of a header. A single crash, loss or failure
at every possible point shows what one fault does; two leases per node let it come back,
and in `own_lapse` two lapses and a failed call use up three, so that the fourth is always
there. For what is proved, the bounds do
not matter.

Deadlock is not checked: all modules are bounded (turns, requests, events run
out), so behaviours end. Where something must go on, a liveness property says so.

More configurations are kept to be run by hand. `session_exits.cfg` checks
`ExitsConserved` with two commands and without a cancel, and passes. The others each
refute one property, and are described [below](#what-the-code-does-not-keep). The type
invariants are proved where the next section says so; `TypeOK` of TurnCalls and
Shutdown holds when it is added to the run's configuration. So does every inductive
invariant that the proofs use (`SessionInv`, `StreamInv`, `HistoryInv`, `ReplyInv`,
`StopInv`, `ReaderInv`, `FarewellInv` and the others): each was checked before it was
proved. `MeaningInv` is the exception: it speaks of functions that TLC cannot choose, and
what TLC checks is the property it is for.

## Fairness

- **Session.** Weak fairness of each goroutine's next step: turns, builds,
  releases, drains, accepted requests, the sweeper's ticks. A turn's context times
  out (`turnTimeout`, turn.go) and RunTurn returns after its context has ended,
  because its calls to the provider, the sandbox and the waiter all take it. That a
  turn succeeds, that a command exits, and that requests come is never assumed.
- **EventStream.** Clients reconnect and handlers write. The turn is not obliged to
  publish, nor a connection to hold.
- **Ownership.** Handlers run (each etcd and S3 call has a timeout), the message's
  client retries, evictions go on, the recovery loop goes on, and a lease without
  keepalive expires (`FairSpec`). Crashes, restarts, losses, evictions and failures are
  never forced. `own_lapse` needs much less and runs under `RecoverySpec`: the
  watcher's goroutine retries with a back-off and never gives up (registry.go:112-134),
  and the call to OnReconnected goes on. That failures end is the bound `MaxFails`.
- **AgentLoop.** The goroutine of the turn runs: streams, saves and waits have
  timeouts. The client is never obliged to post a result, and nobody to start a turn.
- **TurnCalls.** Whatever must happen whether or not a remote party moves (`Must`): the
  turn's own steps, timers, and, once the context has ended, the return of every call
  that was given it. All its behaviours are finite, so weak fairness of the disjunction
  is enough. No provider, server or command is obliged to answer or to end, and the
  context need not end. `ExitIsTold` is about commands that do exit.
- **Shutdown.** main's steps, the sweeper, the handler of the stream, the client's
  reader, and a consumer that has not stalled. Turns, requests and creations need not
  move: srv.Shutdown has its timeout. The releases of Controller.Close succeed.
- **SessionFiles** and **PatchTool** have no liveness property.

Weak fairness is enough everywhere: whatever is waited for (the end of a turn,
room, an adoption) stays enabled until it is taken, or another action takes its
place.

## What is proved

The theorems hold for every value of the constants that the `ASSUME`s of the
modules allow: any number of turns, requests, nodes, subscribers, servers, commands,
files and lines, any capacity, any number of faults.

**Session** (`SessionProofs`): `TypeOK`, `TurnsAreShown`, `SandboxesAccounted`,
`CancelledOnlyIfAsked` and `ExitsConserved`, the conjuncts also one by one. None but the
types is inductive on its own; `SessionInv` (in `Session`) is. That a take or an attachment cannot lose a
sandbox rests on what the lock does not say: a build starts only on a session
without a sandbox and, because only the one running turn or the creation builds,
stays alone (`BuildingDetached`, `BuildPhases`); before the session is in the map
nobody but its creation touches it (`QuietCreation`); what is about to be attached
is already renewed (`AttachingRenewed`). The hub's turn is open between its two
events (`HubTurnOpen`), and a cause on record is of the running turn
(`CauseIsCurrent`). There is one lemma per conjunct, with one step per action.
`ExitsConserved` has an invariant of its own, `ExitsInv`: no sequence of exits repeats
one (`NoneTwice`), no two places share one (`Apart`), what is in a place is what was
recorded or dropped (`AllPlaced`), and a drain that has nothing in hand cannot hand
anything on (`DrainPhases`).

**EventHub** and **EventStream** (`EventStreamProofs`): `HubInv`, that is, the buffer
is the gapless window of the latest events and no channel skips one, is inductive
under any use of the hub. `StreamImplementsHub` shows that EventStream uses it only
through its operations, so that `HubIsGapless` holds there too. `StreamGapless`,
`ExactlyOnce` and `ViewAgrees` speak of what is still on its way to a client, backlog
and channel together. `StreamInv` says where that stands: the backlog ends where the
channel begins (`Joins`); all before the event due next was received or had left the
buffer, and nothing from it on was received; and what is on its way leads the client's
view from the turn it shows to the one the hub runs. What subscribe returns is a suffix
of the buffer by a lemma of its own (`FilterIsSuffix`).

**Ownership** (`OwnershipProofs`): `TypeOK`; and, provided that no keepalive is lost
(`MaxLapses = 0`) and nobody deletes the session (`Deletes = {}`), `ServerIsTheRecorded`
and that Ownership implements Tenure. The invariant `TenureInv` is about holders
instead of servers: an evicting node that has unmapped the session and not yet
unregistered it serves nobody, but its record is what keeps others from adopting.
Exactly one of holding, taking over and evicting is under way (`OneTenure`), and the
record names it (`HolderRecorded`). Both provisos are needed, as the refutations
[below](#what-the-code-does-not-keep) show. `AdoptionsHaveAdopters` needs neither and
is inductive with the types: an adopter stays in adoptSession and on its node until
it wakes those who wait there. `RegisteredIsRouted` (`NodeIsRouted`, the safety part of
`LapseHeals`) needs neither as well: a watcher counts itself registered only after it
put the node record under the lease it then holds, and only the end of that lease takes
the record away.

**AgentLoop** (`AgentLoopProofs`): `ResultsFindTheirCall` and `SavedWhenIdle`, whatever
the provider's call ids, the client's timing, and whatever trimming and compaction make
of the history. `LoopInv` adds that what lies in the buffer or in a waiter's channel
came during the running turn or while none ran (`ResultsOfTurn`: a turn that starts
finds the buffer without results of earlier turns), and that between turns only an
answer about to be saved is missing in S3 (`SavedBetween`). `HistoryHolds` and
`TrimKeepsLatest` rest on `HistoryInv`, which says of both histories, the one in memory
and the one in S3, that they are in order, what each may lack (the other's last turn,
turns dropped on purpose), and where a marker may stand. `Trim` is a recursive function;
what it returns is found by looking for the least suffix it could be (`CutFacts`).

**SessionFiles** (`SessionFilesProofs`): all five properties of the run `files`.
`FilesInv` says how far an attach has come: an attach that found a sandbox keeps it
until DELETE takes it (`AimInv`), because a build starts only without a sandbox
(`BuildInv`) and reap and eviction need the lock (`LockInv`); what it has injected
carries its content and what it records during a build is missed (`CarriedInv`); so
disk and list differ in names on their way only (`DiskInv`). One that has begun to
record has room for its whole batch (`CapInv`); only one that has recorded something
can put the saved list behind (`SavedInv`); what was persisted has an object and is
listed, and what an object holds is in the sandbox, under the path that was persisted or
the one its key encodes (`KeptInv`). `PersistedComesBack` therefore speaks of files
whose object nobody overwrote (`Current`): of two paths with one key only the last is
kept (`PersistedSurvives` [below](#what-the-code-does-not-keep)). `Names` is assumed finite, for the cap to count them.

**TurnCalls** (`TurnCallsProofs`): `NoOrphan`, `LinksAreReleased` and
`BackgroundSurvives`, the safety half of `BackgroundIsKept`. `CallsInv` composes what
each part keeps: the threads of a shell call agree with each other, and the outcome its
reader sends is its last word (`ShellInv`); a link is open only for a server that
waits for it, is mounted or is being closed (`ServersInv`); and each phase of the turn
says which servers and calls may be under way (`PhaseInv`), so that the teardown finds
nothing it does not know. A watched command is not killed because the call that could
have cancelled it has returned (`KillInv`). `RepliesAreExact` rests on `ReplyInv`: at every
moment the text and the calls put together are the prefixes that were sent, nothing was
sent before the response is established, and `finish` means that all was. `Indexes` is
assumed finite, as the numbers a Go int holds are; `OrderedFacts` shows that the order
of an answer's calls is that of their indexes.

**PatchTool** (`PatchToolProofs`): `LinesSurvive`, for every patch and every file, which
TLC shows for hunks of up to three lines only. It speaks of results that are written: a
patch that panics writes none. `PatchInv` follows the cursor through
the old lines: what lies behind it is untouched, what lies before it was copied once or
removed (`LinesInv`), and what was copied is in order. The parser is used for its types
alone: the applier keeps lines whatever the parser makes of a patch.

`PatchesAreExact` is `PatchMeansWhatItSays`, for regular patches of any number of
sections, hunks and lines. `PatchLayout` and `HunkLayout` say where each section, hunk
and line lies in the patch (`Cut` is the length of the first k of a sequence of
sequences, joined). `MeaningInv` has two parts. `ParsePlace`: the parser is at the header
of a section, at a hunk, within one, or behind the last line, and has found the sections
before; that a look-alike does not lead it astray is `LookAlike`, which needs the line
behind it, and `DeletedHere`, for the hunks of a deleted file, of which the code only
says that they are walked past (parseUnifiedDiff). `ApplyPlace`: the lines made of the
file in hand are those that the hunks so far ask for (`Made`), and a line that does not
match is one that makes the section impossible; `Expected` says what the files are.
`Regular` is the domain of the property, `Usual /\ NoLookAlike`: what the hunks say, and
where a removed and an added line may read as a file header (anywhere within a hunk,
and at the very end of a patch that ends in a newline, patch_test.go:242-265; at the end
of another hunk the parser takes them for a header, `CornerIsRejected` below). That a
regular patch never panics is part of the theorem. That hunks start at a line and go forward is
what makes `Replaced` the meaning of a patch; without any other of its conditions TLC
refutes the property in the run. The attempt to prove it showed that one was missing: the
hunks of a deleted file must add nothing, because those lines are skipped by
`isFileHeader` alone, and a removed `-- x` before an added `++ y` is taken for the header
of the next file (`DeletionsAreSkipped` [below](#what-the-code-does-not-keep)).

**StreamReader** and **Shutdown** (`ShutdownProofs`): all three safety properties of the
run `shutdown`, for any number of events, any capacities and any mix of what happens
together. `StopIsClean`: `StopInv` follows each sandbox to the party that has to release
it, and each party through the stop, so that whoever holds one when the node exits is a
turn that was building. `StreamIsHonest`: `ReaderInv` counts the data lines that are not
read yet (`Unread`): what was taken, what lies in the channel, the frame in hand and
those lines are together what was written, and the cause of the end is the one the body
ended with. `FarewellIsWhole`: `FarewellInv` says that of what the subscriber is owed the
backlog goes on where the wire ends, the channel where the backlog ends, and that a
channel that was closed holds the rest.

Induction over data is carried out where a proof needs it, though the library's theorems
for it take an operator as a parameter: `WFMin` does not, so a lemma about the least
element of a set of naturals (`LeastElement`) does the work, and a recursive function is
known by exhibiting the function its definition chooses.

**Model-checked only.** Every safety property of the runs that pass is stated by a
theorem. Liveness under fairness and anything about `ENABLED` are beyond TLAPS:
`TurnEnds`, `SandboxesFreed`, `EventsArrive`, `Revived`, `RequestsEnd`, `LapseHeals`,
`TurnsFinish`, `BackgroundIsKept`, `AbortedDies`, `TurnLetsGo`, `ReaderEnds` and
`StopEnds` are only checked (of `BackgroundIsKept` and `LapseHeals` the safety half is proved), and
so are the refutations of the next section.

## What the code does not keep

One run, the configurations kept to be run by hand, and some properties that can be
added to the configuration of a run show statements of comments, docs and tests that the
program does not keep.

| Configuration | Statement | What happens |
|---|---|---|
| `shell_exit_code` (run) | tools_sandbox.go:577-580, 613-615: the exit code told is the command's, or unknown (`ExitCodeIsReal`) | The exit file is written where the command ended and read where it started, under a name made of the call id, which repeats: another call's code is read, or the wrapper's |
| `session_lost_wakeup` | turn.go:124-130: exits queued while busy are drained when the turn completes (`ExitsReported`) | The drain takes the queue, finds the session busy and requeues after the turn drained an empty queue |
| `session_requeue_order` | session.go:272-274: requeued exits keep their order (`RequeueKeepsOrder`) | Two drains put their batches back in either order |
| `session_escaped_turn` | turn.go:80-84, controller.go:274-276: DELETE and Close abort the turn (`TeardownAbortsTurn`) | A message that found the session starts a turn between cancelTurn and closeSession |
| `session_cancel_reply` | session.go:332-333: a cancel answered 202 cancelled its turn (`CancelReplyIsTrue`) | A cancel between turn_finished and finishTurn is accepted for a turn that ended otherwise |
| `stream_sync_loss` | stream.go:22-26, hub.go:15-18: a client that follows the sync frame loses nothing (`SyncClientMissesNothing`) | It breaks off in the backlog, which comes after the frame that announced the latest number |
| `stream_late_subscriber` | sweeper.go:36-39, hub.go:104-107: after an eviction every SSE handler returns (`RetiredHubIsSilent`) | A handler that had found the session subscribes afterwards |
| `own_ghost` | README.md:121: an evicted session is revived on access (`Revived`) | A re-registration that overlaps an eviction puts back the record of a session nobody holds |
| `own_resurrect` | controller.go:249-250: a deleted session is not adopted again (`DeletedStaysDeleted`) | It is, between the deletion of the record and that of the spec |
| `own_resurrect` + `OneServer` | one owner | A second DELETE unregisters the record of the session's next owner |
| `own_lapse` with `Spec` + `OneServer` | one owner | After a lost lease an adopter serves beside the owner |
| `own_lapse` with `FairSpec` + `HeldIsRecorded` | registry.go:81-85, sweeper.go:75-78: a held session is recorded again after a lost lease | One that enters the map after ReregisterSessions walked it is not; nor is one whose RegisterSession read the lease of a registration that failed afterwards |
| `own_server` + `ExistingIsFound` | README.md:81: an existing session is not reported as unknown | A request is forwarded by the record to a node that has already unmapped the session |
| `agent_rebuild` | loop.go:210-213: a failed save costs nothing, memory is authoritative (`MemoryIsAuthoritative`) | The next loop, built with the next sandbox, reads S3 |
| `agent_late_result` | README.md:110: a late result is not consumed by a later turn (`LateIsNeverUsed`) | One that comes when no turn runs is kept, and used by a turn that reuses its id |
| `agent_marked_answer` | loop.go:355-358: the marker stands for a turn that did not complete (`MarkedNeverAnswered`) | The client is told that the turn is done before the answer is saved; a crash comes in between |
| `files_missed` | files.go:191-193: a message after the attach finds the files (`MessageFindsFiles`) | An attach during a build sees no sandbox, and the build no record |
| `files_lost_save` | README.md:76: the list of files survives (`AcceptedSurvives`) | Two saves land in the other order |
| `files` + `PersistedInPlace` | tools_persist.go:48-49: persisted files come back at their paths | An absolute path comes back as a relative one after an adoption |
| `files` + `PersistedSurvives` | tools_persist.go:150-151: a persisted file survives the sandbox | `/x` and `x` have one object key (tools_persist.go:126-128): the second upload overwrites the first, and a restore gives both paths the second's content |
| `files` + `RejectedLeavesNothing` | files.go:213-214: a rejected request leaves nothing | The files were injected before the cap was checked |
| `patch` + `LinesSurviveAnyOrder` | patch.go:23: content outside the hunks is preserved verbatim | A hunk that starts before the end of the one before it copies lines twice |
| `patch` + `DeletionsAreSkipped` | patch.go:77-79: the hunk lines of a deleted file are not `--- ` lines and are walked past | A removed `-- x` before an added `++ y` is, and is taken for the header of a file to change |
| `patch` + `CornerIsRejected` | patch.go:146-148: a pair that only looks like a header but ends a section is rejected rather than applied silently | The hunk is cut before the pair, and what comes before it is applied and written; only the section that the pair seems to begin is rejected |
| `patch` + `PatchNeverPanics` | patch.go:218-220: a hunk that starts past the end of the file fails at its first context or `-` line | One that only adds lines has none, and the next hunk further on slices `existingLines[copiedCursor:end]` with `copiedCursor > end` (patch.go:221-223): the program panics |
| `shutdown` + `SubscribersAreKicked` | main.go:91-94: with the subscribers kicked, no events handler keeps Shutdown until its timeout | A relayed stream, or one whose handler subscribes late, does; the node then exits with an error |
| `shutdown` + `RecordsOutliveSessions` | main.go:106-108: the records go with the revocation, after the sessions were closed | The signal ends the context of the keepalive (registry.go:73-75), and the lease can run out before |

Two more facts of the stop that no statement denies. The turn's goroutine is not awaited:
failTurn's last save races the exit, and a turn that is building a sandbox leaves it to
its lease. After a timed-out srv.Shutdown, Close runs while handlers are alive, and a
session created while it walks the map may be missed.

## What is not modelled

- `storage`, `config`, `controller/spec.go`: S3 requests, parsing and validation
  without shared state. A call to S3 fails or takes effect.
- `agent/skills.go`, `tools_media.go`: uploads and reads.
- `agent/truncate.go`, and the read, write and edit tools of `tools_sandbox.go`: one
  request each and the wording of its result.
- `client.go` but for the event stream: request wrappers.
- In the LLM client: ids, names, reasoning, usage, the length of a back-off.
- Token estimates, texts and encodings; reporters; metrics and logs.
- Evictions during a stop: Shutdown has the reaper but not the cold eviction, which
  EventStream and Ownership have.

Five hazards of `PROJECT.json` have no property, because the code does not protect itself
against them. What follows is in the section before (a DELETE that unregisters another
owner's record, two saves of the list that land in the other order, the lapse of the lease
during the stop), is left to a lease (a failed unregistration), or to the client (a
`last_seq` ahead of the server's, whose missing events look read to the hub).

## Plan

Done: Session; EventHub and EventStream; Ownership and Tenure; ToolResults and AgentLoop;
SessionFiles; Completion, McpServers and Shell under TurnCalls; PatchTool; StreamReader
and Shutdown; the proofs above. To go on with, in this order:

1. An abstract session (idle, running, closed, with or without a sandbox) which
   Session implements, by a refinement mapping, and which the other modules assume.
2. Two shell calls beside each other in `turn`, one in the background, and the cold
   eviction in Shutdown, when their state spaces have been cut down.

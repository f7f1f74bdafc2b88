------------------------------ MODULE Ownership ------------------------------
(***************************************************************************)
(* One session in the cluster: who holds it in memory, whom etcd records   *)
(* as its owner, and whether its spec is in S3. The requests that route,   *)
(* forward, adopt and delete it (controller/routing.go, adopt.go,          *)
(* controller.go) interleave call by call with cold eviction (sweeper.go)  *)
(* and with the node leases (registry/registry.go). Nodes crash and come   *)
(* back; a lease lapses when its keepalive is lost; calls to etcd and S3   *)
(* fail. One etcd or S3 call is one action. What a turn does to the        *)
(* session is Session's; a graceful stop is a crash whose lease ends at    *)
(* once.                                                                   *)
(***************************************************************************)
EXTENDS Integers

CONSTANTS
  Nodes,
  Creates, Messages, Cancels, Deletes,   \* client requests by endpoint
  NoNode, NoReq,
  MaxLeases,     \* bound: leases a node is granted
  MaxCrashes,    \* bound: crashes
  MaxLapses,     \* bound: keepalive losses
  MaxEvictions,  \* bound: cold evictions
  MaxFails       \* bound: failed calls to etcd or S3

Reqs == Creates \cup Messages \cup Cancels \cup Deletes

ASSUME OwnershipAssumption ==
  /\ NoNode \notin Nodes /\ NoReq \notin Reqs
  /\ MaxLeases \in Nat \ {0}
  /\ {MaxCrashes, MaxLapses, MaxEvictions, MaxFails} \subseteq Nat

ASSUME RequestAssumption ==
  /\ \A r, q \in Creates : r = q      \* a session id is created once
  /\ Creates \cap (Messages \cup Cancels \cup Deletes) = {}
  /\ Messages \cap (Cancels \cup Deletes) = {}
  /\ Cancels \cap Deletes = {}

VARIABLES
  alive,      \* the node's process runs
  sess,       \* the node holds the session: Controller.sessions
  adopting,   \* the request adopting it there: Controller.adopting
  evicting,   \* the sweeper has unmapped it and not yet unregistered it
  lease,      \* Registry.leaseID
  live,       \* the node's leases etcd holds
  nodeRec,    \* lease of the node record in etcd, 0 for none
  watcher,    \* where the keepalive goroutine is
  restore,    \* per registration: where its OnReconnected is
  restoreLid, \* ... and the lease id its RegisterSession read
  record,     \* the session's ownership record in etcd
  spec,       \* the session's spec is in S3
  pc, at,     \* per request: its next step, the node it is on
  forwarded,  \* X-Turnhive-Forwarded
  seen,       \* the owner SessionOwner read
  lid,        \* the lease id the claim read
  reply,      \* the last answer
  created,    \* history: the create call was answered 201
  deleted,    \* history: a DELETE was answered 204
  crashes, lapses, evictions, fails

nodeVars  == <<alive, sess, adopting, evicting>>
restoreVars == <<restore, restoreLid>>
leaseVars == <<lease, live, nodeRec, watcher, restoreVars>>
storeVars == <<record, spec>>
reqVars   == <<pc, at, forwarded, seen, lid, reply>>
histVars  == <<created, deleted, crashes, lapses, evictions, fails>>
vars == <<nodeVars, leaseVars, storeVars, reqVars, histVars>>

Leases   == 1..MaxLeases
NoRecord == [owner |-> NoNode, lease |-> 0]
Records  == [owner : Nodes, lease : Leases] \cup {NoRecord}

Steps == {"idle", "spec", "register", "undo", "store",
          "load", "peek", "wait", "woken", "owner", "node",
          "adopt", "waitadopt", "wokenadopt", "loadspec", "leaseid", "claim",
          "history", "unclaim", "adopted", "lost", "owner2", "node2",
          "serve", "unregister", "unspec"}

RestoreTypes ==
  /\ restore \in [Nodes -> [Leases -> {"none", "visit", "put", "failed"}]]
  /\ restoreLid \in [Nodes -> [Leases -> Leases]]

TypeOK ==
  /\ alive \in [Nodes -> BOOLEAN] /\ sess \in [Nodes -> BOOLEAN]
  /\ adopting \in [Nodes -> Reqs \cup {NoReq}]
  /\ evicting \in [Nodes -> BOOLEAN]
  /\ lease \in [Nodes -> Leases] /\ live \in [Nodes -> SUBSET Leases]
  /\ nodeRec \in [Nodes -> 0..MaxLeases]
  /\ watcher \in [Nodes -> {"ok", "lost", "granted", "keep"}]
  /\ RestoreTypes
  /\ record \in Records /\ spec \in BOOLEAN
  /\ pc \in [Reqs -> Steps] /\ at \in [Reqs -> Nodes]
  /\ forwarded \in [Reqs -> BOOLEAN] /\ seen \in [Reqs -> Nodes]
  /\ lid \in [Reqs -> Leases]
  /\ reply \in [Reqs -> {"none", "ok", "notfound", "badgateway"}]
  /\ created \in BOOLEAN /\ deleted \in BOOLEAN
  /\ crashes \in 0..MaxCrashes /\ lapses \in 0..MaxLapses
  /\ evictions \in 0..MaxEvictions /\ fails \in 0..MaxFails

Init ==
  /\ alive = [n \in Nodes |-> TRUE] /\ sess = [n \in Nodes |-> FALSE]
  /\ adopting = [n \in Nodes |-> NoReq]
  /\ evicting = [n \in Nodes |-> FALSE]
  /\ lease = [n \in Nodes |-> 1] /\ live = [n \in Nodes |-> {1}]
  /\ nodeRec = [n \in Nodes |-> 1] /\ watcher = [n \in Nodes |-> "ok"]
  /\ restore = [n \in Nodes |-> [l \in Leases |-> "none"]]
  /\ restoreLid = [n \in Nodes |-> [l \in Leases |-> 1]]
  /\ record = NoRecord /\ spec = FALSE
  /\ pc = [r \in Reqs |-> "idle"]
  /\ \E n \in Nodes : at = [r \in Reqs |-> n] /\ seen = at
  /\ forwarded = [r \in Reqs |-> FALSE]
  /\ lid = [r \in Reqs |-> 1] /\ reply = [r \in Reqs |-> "none"]
  /\ created = FALSE /\ deleted = FALSE
  /\ crashes = 0 /\ lapses = 0 /\ evictions = 0 /\ fails = 0

-----------------------------------------------------------------------------
(* Requests *)

At(r, step)   == pc[r] = step
Goto(r, step) == pc' = [pc EXCEPT ![r] = step] /\ UNCHANGED reply
Answer(r, a)  == pc' = [pc EXCEPT ![r] = "idle"]
                 /\ reply' = [reply EXCEPT ![r] = a]

\* A call to etcd or S3 fails or times out.
CallFails == fails < MaxFails /\ fails' = fails + 1
             /\ UNCHANGED <<created, deleted, crashes, lapses, evictions>>

\* The client sends a request to some node; a session id is known once the
\* create call was answered. A client sends one create and one DELETE.
Issue(r, n) ==
  /\ At(r, "idle") /\ alive[n]
  /\ IF r \in Creates THEN ~created ELSE created
  /\ r \in Creates \cup Deletes => reply[r] = "none"
  /\ pc' = [pc EXCEPT ![r] = IF r \in Creates THEN "spec" ELSE "load"]
  /\ at' = [at EXCEPT ![r] = n]
  /\ forwarded' = [forwarded EXCEPT ![r] = FALSE]
  /\ reply' = [reply EXCEPT ![r] = "none"]
  /\ seen' = [seen EXCEPT ![r] = n] /\ lid' = [lid EXCEPT ![r] = 1]
  /\ UNCHANGED <<nodeVars, leaseVars, storeVars, histVars>>

\* UnregisterSession deletes the record whoever wrote it.
Unregister == record' = NoRecord

\* The adoption is over: adopting.Delete and close(ch) wake the waiters.
Finish(r, step) ==
  /\ adopting' = [adopting EXCEPT ![at[r]] = NoReq]
  /\ pc' = [q \in Reqs |->
       CASE q = r -> step
         [] q # r /\ at[q] = at[r] /\ pc[q] = "wait" -> "woken"
         [] q # r /\ at[q] = at[r] /\ pc[q] = "waitadopt" -> "wokenadopt"
         [] OTHER -> pc[q]]
  /\ UNCHANGED <<alive, evicting>>

FinishAnswer(r, a) == Finish(r, "idle") /\ reply' = [reply EXCEPT ![r] = a]
                      /\ UNCHANGED sess
FinishGoto(r, step) == Finish(r, step) /\ UNCHANGED <<sess, reply>>

-----------------------------------------------------------------------------
(* POST /v1/sessions: handleCreateSession *)

CreateSpec(r) ==
  /\ At(r, "spec")
  /\ \/ spec' = TRUE /\ Goto(r, "register") /\ UNCHANGED histVars
     \/ CallFails /\ Answer(r, "badgateway") /\ UNCHANGED spec
  /\ UNCHANGED <<nodeVars, leaseVars, record, at, forwarded, seen, lid>>

CreateRegister(r) ==
  /\ At(r, "register")
  /\ \/ /\ lease[at[r]] \in live[at[r]]
        /\ record' = [owner |-> at[r], lease |-> lease[at[r]]]
        /\ Goto(r, "store") /\ UNCHANGED histVars
     \/ lease[at[r]] \notin live[at[r]] /\ Goto(r, "undo")
        /\ UNCHANGED <<record, histVars>>
     \/ CallFails /\ Goto(r, "undo") /\ UNCHANGED record
  /\ UNCHANGED <<nodeVars, leaseVars, spec, at, forwarded, seen, lid>>

CreateUndo(r) ==
  /\ At(r, "undo")
  /\ \/ spec' = FALSE /\ UNCHANGED histVars
     \/ CallFails /\ UNCHANGED spec
  /\ Answer(r, "badgateway")
  /\ UNCHANGED <<nodeVars, leaseVars, record, at, forwarded, seen, lid>>

CreateStore(r) ==
  /\ At(r, "store")
  /\ sess' = [sess EXCEPT ![at[r]] = TRUE]
  /\ created' = TRUE /\ Answer(r, "ok")
  /\ UNCHANGED <<alive, adopting, evicting, leaseVars, storeVars, at, forwarded,
                 seen, lid, deleted, crashes, lapses, evictions, fails>>

-----------------------------------------------------------------------------
(* routeSessionMode *)

\* The session is in memory here.
RouteLoad(r) ==
  /\ At(r, "load")
  /\ Goto(r, IF sess[at[r]] THEN "serve" ELSE "peek")
  /\ UNCHANGED <<nodeVars, leaseVars, storeVars, at, forwarded, seen, lid, histVars>>

\* A request forwarded once is not forwarded again.
NotHere(r) == IF forwarded[r] THEN Answer(r, "notfound") ELSE Goto(r, "owner")

\* An adoption in flight on this node is waited for.
RoutePeek(r) ==
  /\ At(r, "peek")
  /\ IF adopting[at[r]] # NoReq THEN Goto(r, "wait") ELSE NotHere(r)
  /\ UNCHANGED <<nodeVars, leaseVars, storeVars, at, forwarded, seen, lid, histVars>>

RouteWoken(r) ==
  /\ At(r, "woken")
  /\ IF sess[at[r]] THEN Goto(r, "serve") ELSE NotHere(r)
  /\ UNCHANGED <<nodeVars, leaseVars, storeVars, at, forwarded, seen, lid, histVars>>

\* The proxy to the owner; a node that is down answers nothing.
Forward(r, n) ==
  IF alive[n]
  THEN /\ Goto(r, "load")
       /\ at' = [at EXCEPT ![r] = n]
       /\ forwarded' = [forwarded EXCEPT ![r] = TRUE]
  ELSE Answer(r, "badgateway") /\ UNCHANGED <<at, forwarded>>

\* No owner: adopt, or 404 for the cancel endpoint and for a second lookup.
NoOwner(r) ==
  /\ IF r \in Cancels \/ pc[r] \in {"owner2", "node2"}
     THEN Answer(r, "notfound") ELSE Goto(r, "adopt")
  /\ UNCHANGED <<at, forwarded>>

\* SessionOwner reads the session record; this node's own address it knows.
LookupOwner(r) ==
  /\ pc[r] \in {"owner", "owner2"}
  /\ \/ record.owner = NoNode /\ NoOwner(r) /\ UNCHANGED <<seen, histVars>>
     \/ record.owner = at[r] /\ Forward(r, at[r]) /\ UNCHANGED <<seen, histVars>>
     \/ /\ record.owner \notin {NoNode, at[r]}
        /\ seen' = [seen EXCEPT ![r] = record.owner]
        /\ Goto(r, IF pc[r] = "owner" THEN "node" ELSE "node2")
        /\ UNCHANGED <<at, forwarded, histVars>>
     \/ CallFails /\ Answer(r, IF pc[r] = "owner" THEN "badgateway" ELSE "notfound")
        /\ UNCHANGED <<seen, at, forwarded>>
  /\ UNCHANGED <<nodeVars, leaseVars, storeVars, lid>>

\* ... and then the owner's node record.
LookupNode(r) ==
  /\ pc[r] \in {"node", "node2"}
  /\ \/ nodeRec[seen[r]] = 0 /\ NoOwner(r) /\ UNCHANGED histVars
     \/ nodeRec[seen[r]] # 0 /\ Forward(r, seen[r]) /\ UNCHANGED histVars
     \/ CallFails /\ Answer(r, IF pc[r] = "node" THEN "badgateway" ELSE "notfound")
        /\ UNCHANGED <<at, forwarded>>
  /\ UNCHANGED <<nodeVars, leaseVars, storeVars, seen, lid>>

-----------------------------------------------------------------------------
(* adoptSession *)

\* Concurrent adoptions on this node collapse onto the first.
AdoptStart(r) ==
  /\ At(r, "adopt")
  /\ IF adopting[at[r]] # NoReq
     THEN Goto(r, "waitadopt") /\ UNCHANGED adopting
     ELSE Goto(r, "loadspec") /\ adopting' = [adopting EXCEPT ![at[r]] = r]
  /\ UNCHANGED <<alive, sess, evicting, leaseVars, storeVars, at, forwarded, seen,
                 lid, histVars>>

AdoptWoken(r) ==
  /\ At(r, "wokenadopt")
  /\ IF sess[at[r]] THEN Goto(r, "serve") ELSE Answer(r, "notfound")
  /\ UNCHANGED <<nodeVars, leaseVars, storeVars, at, forwarded, seen, lid, histVars>>

\* A waiter's client or timeout gives up.
WaitExpires(r) ==
  /\ pc[r] \in {"wait", "waitadopt"}
  /\ CallFails /\ Answer(r, "badgateway")
  /\ UNCHANGED <<nodeVars, leaseVars, storeVars, at, forwarded, seen, lid>>

\* loadAdoptableSession.
AdoptLoad(r) ==
  /\ At(r, "loadspec")
  /\ \/ spec /\ Goto(r, "leaseid") /\ UNCHANGED <<nodeVars, histVars>>
     \/ ~spec /\ FinishAnswer(r, "notfound") /\ UNCHANGED histVars
     \/ CallFails /\ FinishAnswer(r, "badgateway")
  /\ UNCHANGED <<leaseVars, storeVars, at, forwarded, seen, lid>>

\* ClaimSession reads the lease under its lock, and then asks etcd.
ClaimLease(r) ==
  /\ At(r, "leaseid")
  /\ lid' = [lid EXCEPT ![r] = lease[at[r]]]
  /\ Goto(r, "claim")
  /\ UNCHANGED <<nodeVars, leaseVars, storeVars, at, forwarded, seen, histVars>>

Claimed(r) == record' = [owner |-> at[r], lease |-> lid[r]]

\* Fault: the claim puts the record without comparing.
ClaimAlways(r) ==
  /\ At(r, "claim") /\ lid[r] \in live[at[r]]
  /\ Claimed(r) /\ Goto(r, "history")
  /\ UNCHANGED <<nodeVars, leaseVars, spec, at, forwarded, seen, lid, histVars>>

\* Put-if-absent; an error may hide a claim that was committed.
ClaimCommit(r) ==
  /\ At(r, "claim")
  /\ \/ /\ record = NoRecord /\ lid[r] \in live[at[r]]
        /\ Claimed(r) /\ Goto(r, "history") /\ UNCHANGED <<nodeVars, histVars>>
     \/ /\ record # NoRecord
        /\ FinishGoto(r, "lost") /\ UNCHANGED <<record, histVars>>
     \/ /\ record = NoRecord /\ lid[r] \notin live[at[r]]
        /\ FinishAnswer(r, "badgateway") /\ UNCHANGED <<record, histVars>>
     \/ /\ CallFails /\ FinishAnswer(r, "badgateway")
        /\ \/ UNCHANGED record
           \/ record = NoRecord /\ lid[r] \in live[at[r]] /\ Claimed(r)
  /\ UNCHANGED <<leaseVars, spec, at, forwarded, seen, lid>>

\* LoadHistory; a failure gives the claim back.
AdoptHistory(r) ==
  /\ At(r, "history")
  /\ \/ Goto(r, "adopted") /\ UNCHANGED histVars
     \/ CallFails /\ Goto(r, "unclaim")
  /\ UNCHANGED <<nodeVars, leaseVars, storeVars, at, forwarded, seen, lid>>

AdoptUnclaim(r) ==
  /\ At(r, "unclaim")
  /\ \/ Unregister /\ UNCHANGED histVars
     \/ CallFails /\ UNCHANGED record
  /\ FinishAnswer(r, "badgateway")
  /\ UNCHANGED <<leaseVars, spec, at, forwarded, seen, lid>>

\* Fault: those who wait for the adoption are not woken.
AdoptStoreSilent(r) ==
  /\ At(r, "adopted")
  /\ sess' = [sess EXCEPT ![at[r]] = TRUE]
  /\ adopting' = [adopting EXCEPT ![at[r]] = NoReq]
  /\ Goto(r, "serve")
  /\ UNCHANGED <<alive, evicting, leaseVars, storeVars, at, forwarded, seen, lid,
                 histVars>>

AdoptStore(r) ==
  /\ At(r, "adopted")
  /\ sess' = [sess EXCEPT ![at[r]] = TRUE]
  /\ Finish(r, "serve")
  /\ UNCHANGED <<leaseVars, storeVars, at, forwarded, seen, lid, reply, histVars>>

\* errClaimLost: served here if this node won meanwhile.
AdoptLost(r) ==
  /\ At(r, "lost")
  /\ Goto(r, IF sess[at[r]] THEN "serve" ELSE "owner2")
  /\ UNCHANGED <<nodeVars, leaseVars, storeVars, at, forwarded, seen, lid, histVars>>

-----------------------------------------------------------------------------
(* The handler behind the route *)

\* Message and cancel look the session up once more.
Serve(r) ==
  /\ At(r, "serve") /\ r \notin Deletes
  /\ Answer(r, IF sess[at[r]] THEN "ok" ELSE "notfound")
  /\ UNCHANGED <<nodeVars, leaseVars, storeVars, at, forwarded, seen, lid, histVars>>

\* Fault: DELETE leaves the session in the map.
DeleteKeepsMap(r) ==
  /\ At(r, "serve") /\ r \in Deletes
  /\ Goto(r, "unregister")
  /\ UNCHANGED <<nodeVars, leaseVars, storeVars, at, forwarded, seen, lid, histVars>>

\* handleDeleteSession goes on even when the session has gone.
DeleteUnmap(r) ==
  /\ At(r, "serve") /\ r \in Deletes
  /\ sess' = [sess EXCEPT ![at[r]] = FALSE]
  /\ Goto(r, "unregister")
  /\ UNCHANGED <<alive, adopting, evicting, leaseVars, storeVars, at, forwarded,
                 seen, lid, histVars>>

DeleteUnregister(r) ==
  /\ At(r, "unregister")
  /\ \/ Unregister /\ UNCHANGED histVars
     \/ CallFails /\ UNCHANGED record
  /\ Goto(r, "unspec")
  /\ UNCHANGED <<nodeVars, leaseVars, spec, at, forwarded, seen, lid>>

DeleteSpec(r) ==
  /\ At(r, "unspec")
  /\ \/ /\ spec' = FALSE /\ deleted' = TRUE
        /\ UNCHANGED <<created, crashes, lapses, evictions, fails>>
     \/ CallFails /\ UNCHANGED spec
  /\ Answer(r, "ok")
  /\ UNCHANGED <<nodeVars, leaseVars, record, at, forwarded, seen, lid>>

-----------------------------------------------------------------------------
(* Cold eviction *)

\* Fault: the session is unregistered before it leaves the map.
EvictKeepsMap(n) ==
  /\ sess[n] /\ ~evicting[n] /\ evictions < MaxEvictions
  /\ evicting' = [evicting EXCEPT ![n] = TRUE]
  /\ evictions' = evictions + 1
  /\ UNCHANGED <<alive, sess, adopting, leaseVars, storeVars, reqVars, created,
                 deleted, crashes, lapses, fails>>

\* evictColdSessions takes a cold session out of the map ...
EvictUnmap(n) ==
  /\ sess[n] /\ ~evicting[n] /\ evictions < MaxEvictions
  /\ sess' = [sess EXCEPT ![n] = FALSE]
  /\ evicting' = [evicting EXCEPT ![n] = TRUE]
  /\ evictions' = evictions + 1
  /\ UNCHANGED <<alive, adopting, leaseVars, storeVars, reqVars, created, deleted,
                 crashes, lapses, fails>>

\* Fault: the record is left to the lease.
EvictForgets(n) ==
  /\ evicting[n]
  /\ evicting' = [evicting EXCEPT ![n] = FALSE]
  /\ UNCHANGED <<alive, sess, adopting, leaseVars, storeVars, reqVars, histVars>>

\* ... and unregisters it.
EvictUnregister(n) ==
  /\ evicting[n]
  /\ \/ Unregister /\ UNCHANGED histVars
     \/ CallFails /\ UNCHANGED record
  /\ evicting' = [evicting EXCEPT ![n] = FALSE]
  /\ UNCHANGED <<alive, sess, adopting, leaseVars, spec, reqVars>>

-----------------------------------------------------------------------------
(* Nodes and leases *)

\* A crash takes the memory and the requests on the node with it.
Crash(n) ==
  /\ alive[n] /\ crashes < MaxCrashes
  /\ \E m \in Nodes \ {n} : alive[m]
  /\ alive' = [alive EXCEPT ![n] = FALSE]
  /\ sess' = [sess EXCEPT ![n] = FALSE]
  /\ adopting' = [adopting EXCEPT ![n] = NoReq]
  /\ evicting' = [evicting EXCEPT ![n] = FALSE]
  /\ watcher' = [watcher EXCEPT ![n] = "ok"]
  /\ restore' = [restore EXCEPT ![n] = [l \in Leases |-> "none"]]
  /\ restoreLid' = [restoreLid EXCEPT ![n] = [l \in Leases |-> 1]]
  /\ pc' = [r \in Reqs |-> IF at[r] = n THEN "idle" ELSE pc[r]]
  /\ reply' = [r \in Reqs |-> IF at[r] = n /\ pc[r] # "idle"
                              THEN "badgateway" ELSE reply[r]]
  /\ crashes' = crashes + 1
  /\ UNCHANGED <<lease, live, nodeRec, storeVars, at, forwarded, seen, lid, created,
                 deleted, lapses, evictions, fails>>

\* The process comes back under a new lease before it serves; one whose
\* registration fails exits (main.go:44-46), which is a crash at once.
Restart(n) ==
  /\ ~alive[n] /\ lease[n] < MaxLeases
  /\ alive' = [alive EXCEPT ![n] = TRUE]
  /\ lease' = [lease EXCEPT ![n] = @ + 1]
  /\ live' = [live EXCEPT ![n] = @ \cup {lease[n] + 1}]
  /\ nodeRec' = [nodeRec EXCEPT ![n] = lease[n] + 1]
  /\ UNCHANGED <<sess, adopting, evicting, watcher, restoreVars, storeVars, reqVars,
                 histVars>>

CountLapse == lapses < MaxLapses /\ lapses' = lapses + 1
              /\ UNCHANGED <<created, deleted, crashes, evictions, fails>>

\* The keepalive channel closes: the etcd client has given up on the lease.
KeepaliveLost(n) ==
  /\ alive[n] /\ watcher[n] = "ok" /\ CountLapse
  /\ watcher' = [watcher EXCEPT ![n] = "lost"]
  /\ UNCHANGED <<nodeVars, lease, live, nodeRec, restoreVars, storeVars, reqVars>>

\* An expired lease takes down the records put under it.
Expire(n, l) ==
  /\ l \in live[n]
  /\ live' = [live EXCEPT ![n] = @ \ {l}]
  /\ nodeRec' = [nodeRec EXCEPT ![n] = IF @ = l THEN 0 ELSE @]
  /\ record' = IF record = [owner |-> n, lease |-> l] THEN NoRecord ELSE record
  /\ UNCHANGED <<nodeVars, lease, watcher, restoreVars, spec, reqVars>>

\* A lease nobody keeps alive.
Unkept(n, l) == l # lease[n] \/ ~alive[n] \/ watcher[n] = "lost"

LeaseExpires(n, l) == Unkept(n, l) /\ Expire(n, l) /\ UNCHANGED histVars

\* A lease expires before its node notices, at any step of its registration too.
LeaseLapses(n) ==
  alive[n] /\ watcher[n] # "lost" /\ Expire(n, lease[n]) /\ CountLapse

\* ... and the keepalive of a lease that has gone is answered so.
KeepaliveEnds(n) ==
  /\ alive[n] /\ watcher[n] = "ok" /\ lease[n] \notin live[n]
  /\ watcher' = [watcher EXCEPT ![n] = "lost"]
  /\ UNCHANGED <<nodeVars, lease, live, nodeRec, restoreVars, storeVars, reqVars,
                 histVars>>

\* RegisterNode again, after the backoff: the new lease is published before
\* anything else. Whichever of its calls fails, it starts over.
Regrant(n) ==
  /\ watcher[n] = "lost"
  /\ \/ /\ lease[n] < MaxLeases
        /\ lease' = [lease EXCEPT ![n] = @ + 1]
        /\ live' = [live EXCEPT ![n] = @ \cup {lease[n] + 1}]
        /\ watcher' = [watcher EXCEPT ![n] = "granted"] /\ UNCHANGED histVars
     \/ CallFails /\ UNCHANGED <<lease, live, watcher>>
  /\ UNCHANGED <<nodeVars, nodeRec, restoreVars, storeVars, reqVars>>

PutNode(n) ==
  /\ watcher[n] = "granted"
  /\ \/ /\ lease[n] \in live[n]
        /\ nodeRec' = [nodeRec EXCEPT ![n] = lease[n]]
        /\ watcher' = [watcher EXCEPT ![n] = "keep"] /\ UNCHANGED histVars
     \/ /\ lease[n] \notin live[n]
        /\ watcher' = [watcher EXCEPT ![n] = "lost"] /\ UNCHANGED <<nodeRec, histVars>>
     \/ /\ CallFails
        /\ watcher' = [watcher EXCEPT ![n] = "lost"] /\ UNCHANGED nodeRec
  /\ UNCHANGED <<nodeVars, lease, live, restoreVars, storeVars, reqVars>>

\* A new goroutine watches the new keepalive; the old one calls OnReconnected.
StartKeepalive(n) ==
  /\ watcher[n] = "keep"
  /\ \/ /\ watcher' = [watcher EXCEPT ![n] = "ok"]
        /\ restore' = [restore EXCEPT ![n][lease[n]] = "visit"] /\ UNCHANGED histVars
     \/ /\ CallFails
        /\ watcher' = [watcher EXCEPT ![n] = "lost"] /\ UNCHANGED restore
  /\ UNCHANGED <<nodeVars, lease, live, nodeRec, restoreLid, storeVars, reqVars>>

\* Fault: OnReconnected is not set.
ReregisterNothing(n, l) ==
  /\ restore[n][l] = "visit"
  /\ restore' = [restore EXCEPT ![n][l] = "none"]
  /\ UNCHANGED <<nodeVars, lease, live, nodeRec, watcher, restoreLid, storeVars,
                 reqVars, histVars>>

\* ReregisterSessions visits the session if it is in the map, and
\* RegisterSession reads the lease ...
Reregister(n, l) ==
  /\ restore[n][l] = "visit"
  /\ IF sess[n]
     THEN /\ restore' = [restore EXCEPT ![n][l] = "put"]
          /\ restoreLid' = [restoreLid EXCEPT ![n][l] = lease[n]]
     ELSE restore' = [restore EXCEPT ![n][l] = "none"] /\ UNCHANGED restoreLid
  /\ UNCHANGED <<nodeVars, lease, live, nodeRec, watcher, storeVars, reqVars, histVars>>

\* ... and puts the record, whoever is recorded. Its failure is only logged.
ReregisterPut(n, l) ==
  /\ restore[n][l] = "put"
  /\ \/ /\ restoreLid[n][l] \in live[n]
        /\ record' = [owner |-> n, lease |-> restoreLid[n][l]]
        /\ restore' = [restore EXCEPT ![n][l] = "none"] /\ UNCHANGED histVars
     \/ /\ restoreLid[n][l] \notin live[n]
        /\ restore' = [restore EXCEPT ![n][l] = "none"]
        /\ UNCHANGED <<record, histVars>>
     \/ /\ CallFails
        /\ restore' = [restore EXCEPT ![n][l] = "failed"] /\ UNCHANGED record
  /\ restoreLid' = [restoreLid EXCEPT ![n][l] = 1]
  /\ UNCHANGED <<nodeVars, lease, live, nodeRec, watcher, spec, reqVars>>

-----------------------------------------------------------------------------
(* The specification *)

CreateStep(r) == CreateSpec(r) \/ CreateRegister(r) \/ CreateUndo(r) \/ CreateStore(r)
RouteStep(r)  == RouteLoad(r) \/ RoutePeek(r) \/ RouteWoken(r)
                 \/ LookupOwner(r) \/ LookupNode(r)
AdoptStep(r)  == AdoptStart(r) \/ AdoptWoken(r) \/ AdoptLoad(r) \/ ClaimLease(r)
                 \/ ClaimCommit(r) \/ AdoptHistory(r) \/ AdoptUnclaim(r)
                 \/ AdoptStore(r) \/ AdoptLost(r)
ServeStep(r)  == Serve(r) \/ DeleteUnmap(r) \/ DeleteUnregister(r) \/ DeleteSpec(r)
Handle(r)     == CreateStep(r) \/ RouteStep(r) \/ AdoptStep(r) \/ ServeStep(r)

Evict(n)    == EvictUnmap(n) \/ EvictUnregister(n)
Recover(n)  == KeepaliveEnds(n) \/ Regrant(n) \/ PutNode(n) \/ StartKeepalive(n)
Restore(n, l) == Reregister(n, l) \/ ReregisterPut(n, l)
NodeStep(n) == Evict(n) \/ Crash(n) \/ Restart(n) \/ KeepaliveLost(n)
               \/ LeaseLapses(n) \/ Recover(n)

Next ==
  \/ \E r \in Reqs : Handle(r) \/ WaitExpires(r) \/ \E n \in Nodes : Issue(r, n)
  \/ \E n \in Nodes :
       NodeStep(n) \/ \E l \in Leases : LeaseExpires(n, l) \/ Restore(n, l)

Spec == Init /\ [][Next]_vars

\* The goroutines of the registry run: a lost keepalive is recovered from, and
\* OnReconnected is called.
RecoverySpec ==
  /\ Spec
  /\ \A n \in Nodes :
       WF_vars(Recover(n)) /\ WF_vars(\E l \in Leases : Restore(n, l))

\* Handlers and the sweeper run as well, leases nobody keeps expire, and clients
\* retry messages. Crashes, lapses and restarts are never forced.
FairSpec ==
  /\ RecoverySpec
  /\ \A r \in Reqs : WF_vars(Handle(r))
  /\ \A r \in Messages : WF_vars(\E n \in Nodes : Issue(r, n))
  /\ \A n \in Nodes : /\ WF_vars(EvictUnregister(n))
                      /\ WF_vars(\E l \in Leases : LeaseExpires(n, l))

-----------------------------------------------------------------------------
(* Safety *)

\* A request whose claim was won: its node will serve the session, or undoes
\* the claim.
Claimer(r) == pc[r] \in {"store", "history", "unclaim", "adopted"}

Serving(n) == sess[n] \/ \E r \in Reqs : at[r] = n /\ Claimer(r)

\* At most one node holds the session or is taking it over: the guard of
\* ClaimSession (registry.go:189-193).
OneServer == \A n, m \in Nodes : Serving(n) /\ Serving(m) => n = m

\* Etcd names the node that serves, under a lease it keeps alive, so that a
\* request that arrives elsewhere is forwarded and does not adopt.
RecordNamesServer ==
  \A n \in Nodes : Serving(n) =>
    record = [owner |-> n, lease |-> lease[n]] /\ lease[n] \in live[n]

\* Whatever crashes, evictions, adoptions and failed calls do, at most one node
\* serves the session, and etcd names it under a lease it keeps.
ServerIsTheRecorded == OneServer /\ RecordNamesServer

\* An adoption that nobody performs any more blocks nobody: what the adopting
\* map names is a request in the middle of adoptSession on that node, and
\* whoever waits on a node waits for such a one.
AdoptionsHaveAdopters ==
  /\ \A n \in Nodes : adopting[n] # NoReq =>
       /\ at[adopting[n]] = n
       /\ pc[adopting[n]] \in {"loadspec", "leaseid", "claim", "history",
                               "unclaim", "adopted"}
  /\ \A r \in Reqs : pc[r] \in {"wait", "waitadopt"} => adopting[at[r]] # NoReq

\* The node record stands, under the node's own lease.
Routed(n) == lease[n] \in live[n] /\ nodeRec[n] = lease[n]

\* A node that counts itself registered is found by its peers for as long as
\* etcd holds its lease (RegisterNode).
NodeIsRouted ==
  \A n \in Nodes : alive[n] /\ watcher[n] = "ok" /\ lease[n] \in live[n] => Routed(n)

-----------------------------------------------------------------------------
(* Refinement *)

\* The node that serves, for Tenure: the session is nobody's between two
\* servers.
server == IF \E n \in Nodes : Serving(n)
          THEN CHOOSE n \in Nodes : Serving(n) ELSE NoNode

Abstract == INSTANCE Tenure WITH tenant <- server

TenureSpec == Abstract!Spec

-----------------------------------------------------------------------------
(* Liveness *)

\* Every request is answered: routes, adoptions and the waits for them end.
RequestsEnd == \A r \in Reqs : pc[r] # "idle" ~> pc[r] = "idle"

DeleteSent == \E r \in Deletes : pc[r] # "idle" \/ reply[r] # "none"

\* A client that keeps sending its message gets it served in the end, after a
\* crash of the owner or a cold eviction (README.md:121), as long as no lease is
\* lost, no call to etcd or S3 fails and nobody deletes the session.
Revived ==
  \A r \in Messages : created ~> (reply[r] = "ok" \/ fails > 0 \/ DeleteSent)

\* A node that lost its lease is found again under a lease it holds, whichever
\* call of a registration fails and whenever the new lease lapses as well
\* (registry.go:112-134).
RoutedAgain ==
  \A n \in Nodes : ~Routed(n) ~> (Routed(n) \/ ~alive[n])

\* The session that was in memory when the keepalive was lost is recorded again
\* under the node's own lease, unless it is given up or RegisterSession fails,
\* which nobody retries (sweeper.go:75-88).
RestoredAfterLoss ==
  \A n \in Nodes :
    (watcher[n] = "lost" /\ sess[n]) ~>
      (\/ record = [owner |-> n, lease |-> lease[n]] /\ lease[n] \in live[n]
          /\ watcher[n] = "ok"
       \/ ~sess[n]
       \/ \E l \in Leases : restore[n][l] = "failed")

\* A lost lease heals: the node is found whenever it counts itself registered,
\* it is found again after every loss, and the record of the session it holds
\* comes back.
LapseHeals == []NodeIsRouted /\ RoutedAgain /\ RestoredAfterLoss

\* A session that is in memory when the registry has recovered from a lost
\* lease is recorded again (registry.go:81-85, sweeper.go:75-78).
HeldIsRecorded ==
  (\E n \in Nodes : alive[n] /\ sess[n]) ~>
    (record # NoRecord \/ \A n \in Nodes : ~sess[n])

-----------------------------------------------------------------------------
(* What the docs promise and the code does not keep *)

\* README.md:81: an existing session is revived on access, never reported as
\* not found; with neither crash nor DELETE nor failed call.
ExistingIsFound == created => \A r \in Messages : reply[r] # "notfound"

\* controller.go:249-250: a deleted session is not adopted again.
DeletedStaysDeleted == deleted => \A n \in Nodes : ~Serving(n)

=============================================================================

-------------------------- MODULE OwnershipProofs --------------------------
(***************************************************************************)
(* What holds of Ownership for any number of nodes, requests, crashes,     *)
(* evictions and failed calls. TypeOK is inductive as it stands. That one  *)
(* node serves at a time is shown for a cluster in which no keepalive is   *)
(* lost and nobody deletes the session: TLC refutes it otherwise. OneServer *)
(* says nothing of the record, so TenureInv adds what the code relies on:  *)
(* whoever serves, takes over or evicts is the one recorded, under the     *)
(* lease its node keeps, and on that node only one of the three is under   *)
(* way. That a registered node is routed holds with lapses as well.        *)
(***************************************************************************)
EXTENDS Ownership, TLAPS

USE OwnershipAssumption, RequestAssumption

\* Only the recovery of a lease touches the variables of OnReconnected.
LEMMA RestoreTypesKept == RestoreTypes /\ UNCHANGED restoreVars => RestoreTypes'
<1> QED BY DEF RestoreTypes, restoreVars

USE RestoreTypesKept

\* One entry of a table changes.
LEMMA TableUpdate ==
  ASSUME NEW S, NEW T, NEW V, NEW f \in [S -> [T -> V]],
         NEW a \in S, NEW b \in T, NEW x \in V
  PROVE  [f EXCEPT ![a][b] = x] \in [S -> [T -> V]]
<1>1. [f[a] EXCEPT ![b] = x] \in [T -> V]
  OBVIOUS
<1> QED BY <1>1

\* The initial values have their types.
LEMMA TypesInit == Init => TypeOK
<1> SUFFICES ASSUME Init PROVE TypeOK
  OBVIOUS
<1>1. /\ lease \in [Nodes -> Leases] /\ live \in [Nodes -> SUBSET Leases]
      /\ nodeRec \in [Nodes -> 0..MaxLeases] /\ lid \in [Reqs -> Leases]
      /\ RestoreTypes
  BY DEF Init, Leases, RestoreTypes
<1>2. record \in Records /\ spec \in BOOLEAN /\ created \in BOOLEAN
      /\ deleted \in BOOLEAN
  BY DEF Init, Records, NoRecord
<1>3. /\ alive \in [Nodes -> BOOLEAN] /\ sess \in [Nodes -> BOOLEAN]
      /\ evicting \in [Nodes -> BOOLEAN] /\ forwarded \in [Reqs -> BOOLEAN]
  BY DEF Init
<1>4. /\ adopting \in [Nodes -> Reqs \cup {NoReq}]
      /\ watcher \in [Nodes -> {"ok", "lost", "granted", "keep"}]
      /\ pc \in [Reqs -> Steps] /\ at \in [Reqs -> Nodes]
      /\ seen \in [Reqs -> Nodes]
      /\ reply \in [Reqs -> {"none", "ok", "notfound", "badgateway"}]
  BY DEF Init, Steps
<1>5. /\ crashes \in 0..MaxCrashes /\ lapses \in 0..MaxLapses
      /\ evictions \in 0..MaxEvictions /\ fails \in 0..MaxFails
  BY DEF Init
<1> QED BY <1>1, <1>2, <1>3, <1>4, <1>5 DEF TypeOK

\* The records etcd can hold.
LEMMA RecordTypes == /\ NoRecord \in Records
                     /\ \A n \in Nodes, l \in Leases : [owner |-> n, lease |-> l] \in Records
                     /\ \A x \in Records : x.owner # NoNode => x.owner \in Nodes
BY DEF Records, NoRecord

USE DEF nodeVars, leaseVars, restoreVars, storeVars, reqVars, histVars, At, Goto, Answer, CallFails

\* The create handler's steps keep the types.
LEMMA TypesCreate ==
  ASSUME TypeOK, NEW r \in Reqs, CreateStep(r) PROVE TypeOK'
<1>1. CASE CreateSpec(r)
  <2>1. CASE CallFails
    BY <1>1, <2>1 DEF CreateSpec, TypeOK, Steps
  <2>2. CASE spec' = TRUE /\ UNCHANGED histVars
    BY <1>1, <2>2 DEF CreateSpec, TypeOK, Steps
  <2> QED BY <1>1, <2>1, <2>2 DEF CreateSpec
<1>2. CASE CreateRegister(r)
  BY SMTT(30), <1>2, RecordTypes DEF CreateRegister, TypeOK, Steps
<1>3. CASE CreateUndo(r)
  <2>1. CASE CallFails /\ UNCHANGED spec
    BY <1>3, <2>1 DEF CreateUndo, TypeOK, Steps
  <2>2. CASE spec' = FALSE /\ UNCHANGED histVars
    BY <1>3, <2>2 DEF CreateUndo, TypeOK, Steps
  <2> QED BY <1>3, <2>1, <2>2 DEF CreateUndo
<1>4. CASE CreateStore(r)
  BY <1>4 DEF CreateStore, TypeOK, Steps
<1> QED BY <1>1, <1>2, <1>3, <1>4 DEF CreateStep

\* So does handing a request to another node ...
LEMMA TypesForward ==
  ASSUME TypeOK, NEW r \in Reqs, NEW n \in Nodes, Forward(r, n)
  PROVE  /\ pc' \in [Reqs -> Steps] /\ at' \in [Reqs -> Nodes]
         /\ forwarded' \in [Reqs -> BOOLEAN]
         /\ reply' \in [Reqs -> {"none", "ok", "notfound", "badgateway"}]
<1>1. CASE alive[n]
  <2>1. forwarded' = [forwarded EXCEPT ![r] = TRUE]
    BY <1>1 DEF Forward
  <2>2. forwarded' \in [Reqs -> BOOLEAN]
    BY <2>1 DEF TypeOK
  <2>3. /\ pc' \in [Reqs -> Steps] /\ at' \in [Reqs -> Nodes]
        /\ reply' \in [Reqs -> {"none", "ok", "notfound", "badgateway"}]
    BY <1>1 DEF Forward, TypeOK, Steps
  <2> QED BY <2>2, <2>3
<1>2. CASE ~alive[n]
  BY <1>2 DEF Forward, TypeOK, Steps
<1> QED BY <1>1, <1>2

\* ... or finding that nobody owns the session.
LEMMA TypesNoOwner ==
  ASSUME TypeOK, NEW r \in Reqs, NoOwner(r)
  PROVE  /\ pc' \in [Reqs -> Steps] /\ at' = at /\ forwarded' = forwarded
         /\ reply' \in [Reqs -> {"none", "ok", "notfound", "badgateway"}]
BY SMTT(30) DEF NoOwner, TypeOK, Steps

\* The steps of routeSessionMode keep the types.
LEMMA TypesRoute ==
  ASSUME TypeOK, NEW r \in Reqs, RouteStep(r) PROVE TypeOK'
<1>1. CASE RouteLoad(r)
  BY <1>1 DEF RouteLoad, TypeOK, Steps
<1>2. CASE RoutePeek(r)
  BY <1>2 DEF RoutePeek, NotHere, TypeOK, Steps
<1>3. CASE RouteWoken(r)
  BY <1>3 DEF RouteWoken, NotHere, TypeOK, Steps
<1>4. CASE LookupOwner(r)
  <2>1. CASE record.owner = NoNode /\ NoOwner(r) /\ UNCHANGED <<seen, histVars>>
    BY <1>4, <2>1, TypesNoOwner DEF LookupOwner, TypeOK
  <2>2. CASE record.owner = at[r] /\ Forward(r, at[r]) /\ UNCHANGED <<seen, histVars>>
    <3>1. at[r] \in Nodes
      BY DEF TypeOK
    <3> QED BY <1>4, <2>2, <3>1, TypesForward DEF LookupOwner, TypeOK
  <2>3. CASE /\ record.owner \notin {NoNode, at[r]}
             /\ seen' = [seen EXCEPT ![r] = record.owner]
             /\ Goto(r, IF pc[r] = "owner" THEN "node" ELSE "node2")
             /\ UNCHANGED <<at, forwarded, histVars>>
    <3>1. record.owner \in Nodes
      BY <2>3, RecordTypes DEF TypeOK
    <3> QED BY <1>4, <2>3, <3>1 DEF LookupOwner, TypeOK, Steps
  <2>4. CASE CallFails /\ UNCHANGED <<seen, at, forwarded>>
             /\ Answer(r, IF pc[r] = "owner" THEN "badgateway" ELSE "notfound")
    BY <1>4, <2>4 DEF LookupOwner, TypeOK, Steps
  <2> QED BY <1>4, <2>1, <2>2, <2>3, <2>4 DEF LookupOwner
<1>5. CASE LookupNode(r)
  <2>1. CASE NoOwner(r) /\ UNCHANGED histVars
    BY <1>5, <2>1, TypesNoOwner DEF LookupNode, TypeOK
  <2>2. CASE Forward(r, seen[r]) /\ UNCHANGED histVars
    <3>1. seen[r] \in Nodes
      BY DEF TypeOK
    <3> QED BY <1>5, <2>2, <3>1, TypesForward DEF LookupNode, TypeOK
  <2>3. CASE CallFails /\ UNCHANGED <<at, forwarded>>
             /\ Answer(r, IF pc[r] = "node" THEN "badgateway" ELSE "notfound")
    BY <1>5, <2>3 DEF LookupNode, TypeOK, Steps
  <2> QED BY <1>5, <2>1, <2>2, <2>3 DEF LookupNode
<1> QED BY <1>1, <1>2, <1>3, <1>4, <1>5 DEF RouteStep

\* So does waking those who wait for an adoption.
LEMMA TypesFinish ==
  ASSUME TypeOK, NEW r \in Reqs, NEW step \in Steps, Finish(r, step)
  PROVE  pc' \in [Reqs -> Steps] /\ adopting' \in [Nodes -> Reqs \cup {NoReq}]
         /\ alive' = alive /\ evicting' = evicting
BY DEF Finish, TypeOK, Steps

\* The steps of adoptSession keep the types.
LEMMA TypesAdopt ==
  ASSUME TypeOK, NEW r \in Reqs, AdoptStep(r) PROVE TypeOK'
<1>1. CASE AdoptStart(r)
  BY <1>1 DEF AdoptStart, TypeOK, Steps
<1>2. CASE AdoptWoken(r)
  BY <1>2 DEF AdoptWoken, TypeOK, Steps
<1>3. CASE AdoptLoad(r)
  BY SMTT(30), <1>3, TypesFinish DEF AdoptLoad, FinishAnswer, TypeOK, Steps
<1>4. CASE ClaimLease(r)
  BY <1>4 DEF ClaimLease, TypeOK, Steps
<1>5. CASE ClaimCommit(r)
  <2>1. record' \in Records
    <3>1. at[r] \in Nodes /\ lid[r] \in Leases /\ record \in Records
      BY DEF TypeOK
    <3> QED BY <1>5, <3>1, RecordTypes DEF ClaimCommit, Claimed
  <2>2. CASE Goto(r, "history") /\ UNCHANGED <<nodeVars, histVars>>
    BY <1>5, <2>1, <2>2 DEF ClaimCommit, TypeOK, Steps
  <2>3. CASE FinishGoto(r, "lost") /\ UNCHANGED histVars
    BY <1>5, <2>1, <2>3, TypesFinish DEF ClaimCommit, FinishGoto, TypeOK, Steps
  <2>4. CASE FinishAnswer(r, "badgateway") /\ (CallFails \/ UNCHANGED histVars)
    BY <1>5, <2>1, <2>4, TypesFinish DEF ClaimCommit, FinishAnswer, TypeOK, Steps
  <2> QED BY <1>5, <2>2, <2>3, <2>4 DEF ClaimCommit
<1>6. CASE AdoptHistory(r)
  BY <1>6 DEF AdoptHistory, TypeOK, Steps
<1>7. CASE AdoptUnclaim(r)
  BY <1>7, TypesFinish, RecordTypes
     DEF AdoptUnclaim, Unregister, FinishAnswer, TypeOK, Steps
<1>8. CASE AdoptStore(r)
  BY <1>8, TypesFinish DEF AdoptStore, TypeOK, Steps
<1>9. CASE AdoptLost(r)
  BY <1>9 DEF AdoptLost, TypeOK, Steps
<1> QED BY <1>1, <1>2, <1>3, <1>4, <1>5, <1>6, <1>7, <1>8, <1>9 DEF AdoptStep

\* The handlers behind the route keep them.
LEMMA TypesServe ==
  ASSUME TypeOK, NEW r \in Reqs, ServeStep(r) PROVE TypeOK'
<1>1. CASE Serve(r)
  BY <1>1 DEF Serve, TypeOK, Steps
<1>2. CASE DeleteUnmap(r)
  BY <1>2 DEF DeleteUnmap, TypeOK, Steps
<1>3. CASE DeleteUnregister(r)
  BY <1>3, RecordTypes DEF DeleteUnregister, Unregister, TypeOK, Steps
<1>4. CASE DeleteSpec(r)
  <2>1. CASE CallFails /\ UNCHANGED spec
    BY <1>4, <2>1 DEF DeleteSpec, TypeOK, Steps
  <2>2. CASE spec' = FALSE /\ deleted' = TRUE
             /\ UNCHANGED <<created, crashes, lapses, evictions, fails>>
    BY <1>4, <2>2 DEF DeleteSpec, TypeOK, Steps
  <2> QED BY <1>4, <2>1, <2>2 DEF DeleteSpec
<1> QED BY <1>1, <1>2, <1>3, <1>4 DEF ServeStep

\* A new request keeps them.
LEMMA TypesIssue ==
  ASSUME TypeOK, NEW r \in Reqs, \/ WaitExpires(r)
                                 \/ \E n \in Nodes : Issue(r, n)
  PROVE TypeOK'
<1>1. CASE WaitExpires(r)
  BY <1>1 DEF WaitExpires, TypeOK, Steps
<1>2. CASE \E n \in Nodes : Issue(r, n)
  <2>1. 1 \in Leases
    BY DEF Leases
  <2> QED BY <1>2, <2>1 DEF Issue, TypeOK, Steps
<1> QED BY <1>1, <1>2

\* Eviction, crash, restart and the registry's recovery keep them.
LEMMA TypesNode ==
  ASSUME TypeOK, NEW n \in Nodes,
         NodeStep(n) \/ \E l \in Leases : LeaseExpires(n, l) \/ Restore(n, l)
  PROVE TypeOK'
<1>1. CASE EvictUnmap(n)
  BY <1>1 DEF EvictUnmap, TypeOK
<1>2. CASE EvictUnregister(n)
  BY <1>2, RecordTypes DEF EvictUnregister, Unregister, TypeOK
<1>3. CASE Crash(n)
  <2>1. 1 \in Leases
    BY DEF Leases
  <2>2. RestoreTypes'
    BY <1>3, <2>1 DEF Crash, TypeOK, RestoreTypes
  <2> QED BY <1>3, <2>2 DEF Crash, TypeOK, Steps
<1>4. CASE Restart(n)
  BY <1>4 DEF Restart, TypeOK, Leases
<1>5. CASE KeepaliveLost(n)
  BY <1>5 DEF KeepaliveLost, CountLapse, TypeOK
<1>6. CASE LeaseLapses(n)
  BY <1>6, RecordTypes DEF LeaseLapses, Expire, CountLapse, TypeOK, Leases
<1>7. CASE KeepaliveEnds(n)
  BY <1>7 DEF KeepaliveEnds, TypeOK
<1>8. CASE Regrant(n)
  <2>1. CASE CallFails
    BY <1>8, <2>1 DEF Regrant, TypeOK
  <2>2. CASE lease[n] < MaxLeases /\ lease' = [lease EXCEPT ![n] = @ + 1]
    <3>1. lease[n] + 1 \in Leases
      BY <2>2 DEF TypeOK, Leases
    <3>2. lease' \in [Nodes -> Leases]
      BY <2>2, <3>1 DEF TypeOK
    <3>3. live' \in [Nodes -> SUBSET Leases]
      <4>1. live[n] \cup {lease[n] + 1} \in SUBSET Leases
        BY <3>1 DEF TypeOK
      <4>2. live' = live \/ live' = [live EXCEPT ![n] = @ \cup {lease[n] + 1}]
        BY <1>8 DEF Regrant
      <4> QED BY <4>1, <4>2 DEF TypeOK
    <3>4. watcher' \in [Nodes -> {"ok", "lost", "granted", "keep"}]
      BY <1>8 DEF Regrant, TypeOK
    <3>5. fails' \in 0..MaxFails /\ UNCHANGED <<created, deleted, crashes, lapses, evictions>>
      BY <1>8 DEF Regrant, TypeOK
    <3> HIDE DEF CallFails
    <3> QED BY <1>8, <3>2, <3>3, <3>4, <3>5 DEF Regrant, TypeOK
  <2> QED BY <1>8, <2>1, <2>2 DEF Regrant
<1>9. CASE PutNode(n)
  BY <1>9 DEF PutNode, TypeOK, Leases
<1>10. CASE StartKeepalive(n)
  <2>1. RestoreTypes'
    <3>1. restore \in [Nodes -> [Leases -> {"none", "visit", "put", "failed"}]]
          /\ restoreLid' \in [Nodes -> [Leases -> Leases]] /\ lease[n] \in Leases
      BY <1>10 DEF StartKeepalive, TypeOK, RestoreTypes
    <3>2. restore' \in {restore, [restore EXCEPT ![n][lease[n]] = "visit"]}
      BY <1>10 DEF StartKeepalive
    <3>3. [restore EXCEPT ![n][lease[n]] = "visit"]
            \in [Nodes -> [Leases -> {"none", "visit", "put", "failed"}]]
      BY <3>1, TableUpdate
    <3> QED BY <3>1, <3>2, <3>3 DEF RestoreTypes
  <2> QED BY <1>10, <2>1 DEF StartKeepalive, TypeOK
<1>11. CASE \E l \in Leases : LeaseExpires(n, l)
  BY <1>11, RecordTypes DEF LeaseExpires, Expire, TypeOK, Leases
<1>12. CASE \E l \in Leases : Restore(n, l)
  <2> PICK l \in Leases : Restore(n, l)
    BY <1>12
  <2>1. 1 \in Leases
    BY DEF Leases
  <2>2. RestoreTypes'
    <3>1. /\ restore \in [Nodes -> [Leases -> {"none", "visit", "put", "failed"}]]
          /\ restoreLid \in [Nodes -> [Leases -> Leases]] /\ lease[n] \in Leases
      BY DEF TypeOK, RestoreTypes
    <3>2. \E x \in {"none", "put", "failed"} : restore' = [restore EXCEPT ![n][l] = x]
      BY DEF Restore, Reregister, ReregisterPut
    <3>3. \/ restoreLid' = restoreLid
          \/ \E x \in Leases : restoreLid' = [restoreLid EXCEPT ![n][l] = x]
      BY <2>1, <3>1 DEF Restore, Reregister, ReregisterPut
    <3>4. restore' \in [Nodes -> [Leases -> {"none", "visit", "put", "failed"}]]
      BY <3>1, <3>2, TableUpdate
    <3>5. restoreLid' \in [Nodes -> [Leases -> Leases]]
      <4>1. ASSUME NEW x \in Leases
            PROVE  [restoreLid EXCEPT ![n][l] = x] \in [Nodes -> [Leases -> Leases]]
        BY <3>1, TableUpdate
      <4> QED BY <3>1, <3>3, <4>1
    <3> QED BY <3>4, <3>5 DEF RestoreTypes
  <2>3. CASE Reregister(n, l)
    BY <2>2, <2>3 DEF Reregister, TypeOK
  <2>4. CASE ReregisterPut(n, l)
    <3>1. restoreLid[n][l] \in Leases
      BY DEF TypeOK, RestoreTypes
    <3> QED BY <2>2, <2>4, <3>1, RecordTypes DEF ReregisterPut, TypeOK
  <2> QED BY <2>3, <2>4 DEF Restore
<1> QED BY <1>1, <1>2, <1>3, <1>4, <1>5, <1>6, <1>7, <1>8, <1>9, <1>10, <1>11, <1>12
        DEF NodeStep, Evict, Recover

\* TypeOK is inductive.
LEMMA TypesStep == TypeOK /\ [Next]_vars => TypeOK'
<1> SUFFICES ASSUME TypeOK, [Next]_vars PROVE TypeOK'
  OBVIOUS
<1>1. CASE UNCHANGED vars
  BY <1>1 DEF vars, TypeOK
<1>2. CASE Next
  BY <1>2, TypesCreate, TypesRoute, TypesAdopt, TypesServe, TypesIssue, TypesNode
     DEF Next, Handle
<1> QED BY <1>1, <1>2

\* Every variable keeps its type, whatever fails, crashes or lapses.
THEOREM TypeCorrect == Spec => []TypeOK
<1> QED BY TypesInit, TypesStep, PTL DEF Spec

-----------------------------------------------------------------------------
(* Adoptions on one node *)

Adopting == {"loadspec", "leaseid", "claim", "history", "unclaim", "adopted"}
Waiting  == {"wait", "waitadopt"}

\* A step of one request that ends no adoption: an adopter stays one, on its
\* node, and whoever begins to wait finds an adoption to wait for.
LEMMA AdoptersGoOn ==
  ASSUME TypeOK, AdoptionsHaveAdopters, NEW r \in Reqs, adopting' = adopting,
         \A q \in Reqs : q # r => pc'[q] = pc[q] /\ at'[q] = at[q],
         pc[r] \in Adopting => at'[r] = at[r] /\ pc'[r] \in Adopting,
         pc'[r] \in Waiting => adopting[at'[r]] # NoReq
  PROVE  AdoptionsHaveAdopters'
<1>1. ASSUME NEW n \in Nodes, adopting'[n] # NoReq
      PROVE  at'[adopting'[n]] = n /\ pc'[adopting'[n]] \in Adopting
  <2>1. adopting[n] \in Reqs
    BY <1>1 DEF TypeOK
  <2>2. at[adopting[n]] = n /\ pc[adopting[n]] \in Adopting
    BY <1>1 DEF AdoptionsHaveAdopters, Adopting
  <2>3. CASE adopting[n] = r
    BY <2>2, <2>3
  <2>4. CASE adopting[n] # r
    BY <2>1, <2>2, <2>4
  <2> QED BY <2>3, <2>4
<1>2. ASSUME NEW q \in Reqs, pc'[q] \in Waiting PROVE adopting'[at'[q]] # NoReq
  BY <1>2 DEF AdoptionsHaveAdopters, Waiting
<1> QED BY <1>1, <1>2 DEF AdoptionsHaveAdopters, Adopting, Waiting

\* What most steps do: they move one request, which adopts nothing.
LEMMA AdoptersStay ==
  ASSUME TypeOK, AdoptionsHaveAdopters, NEW r \in Reqs, adopting' = adopting,
         NEW x, pc' = [pc EXCEPT ![r] = x],
         \A q \in Reqs : q # r => at'[q] = at[q],
         pc[r] \notin Adopting, x \notin Waiting
  PROVE  AdoptionsHaveAdopters'
<1>1. pc'[r] = x /\ \A q \in Reqs : q # r => pc'[q] = pc[q]
  BY DEF TypeOK
<1> QED BY <1>1, AdoptersGoOn

\* The end of an adoption wakes all who wait on its node.
LEMMA AdoptersFinish ==
  ASSUME TypeOK, AdoptionsHaveAdopters, NEW r \in Reqs, NEW x,
         x \notin Waiting, Finish(r, x), at' = at
  PROVE  AdoptionsHaveAdopters'
<1>1. /\ at \in [Reqs -> Nodes] /\ adopting \in [Nodes -> Reqs \cup {NoReq}]
      /\ adopting' = [adopting EXCEPT ![at[r]] = NoReq]
  BY DEF TypeOK, Finish
<1>2. /\ pc'[r] = x
      /\ \A q \in Reqs : q # r /\ at[q] = at[r] /\ pc[q] \in Waiting =>
                           pc'[q] \in {"woken", "wokenadopt"}
      /\ \A q \in Reqs : q # r /\ ~(at[q] = at[r] /\ pc[q] \in Waiting) => pc'[q] = pc[q]
  BY DEF Finish, Waiting
<1>3. ASSUME NEW n \in Nodes, adopting'[n] # NoReq
      PROVE  at'[adopting'[n]] = n /\ pc'[adopting'[n]] \in Adopting
  <2>1. n # at[r] /\ adopting'[n] = adopting[n] /\ adopting[n] \in Reqs
    BY <1>1, <1>3
  <2>2. at[adopting[n]] = n /\ pc[adopting[n]] \in Adopting
    BY <1>3, <2>1 DEF AdoptionsHaveAdopters, Adopting
  <2>3. pc'[adopting[n]] = pc[adopting[n]]
    BY <1>2, <2>1, <2>2
  <2> QED BY <2>1, <2>2, <2>3
<1>4. ASSUME NEW q \in Reqs, pc'[q] \in Waiting PROVE adopting'[at'[q]] # NoReq
  <2>1. q # r /\ at[q] # at[r] /\ pc[q] \in Waiting
    BY <1>2, <1>4 DEF Waiting
  <2>2. adopting[at[q]] # NoReq
    BY <2>1 DEF AdoptionsHaveAdopters, Waiting
  <2> QED BY <1>1, <2>1, <2>2
<1> QED BY <1>3, <1>4 DEF AdoptionsHaveAdopters, Adopting, Waiting

\* The steps of adoptSession.
LEMMA AdoptersAdopt ==
  ASSUME TypeOK, AdoptionsHaveAdopters, NEW r \in Reqs, AdoptStep(r)
  PROVE  AdoptionsHaveAdopters'
<1>1. CASE AdoptStart(r)
  <2>1. at[r] \in Nodes /\ at' = at
    BY <1>1 DEF AdoptStart, TypeOK
  <2>2. CASE adopting[at[r]] # NoReq
    <3>1. adopting' = adopting /\ pc' = [pc EXCEPT ![r] = "waitadopt"] /\ pc[r] = "adopt"
      BY <1>1, <2>2 DEF AdoptStart
    <3>2. pc'[r] = "waitadopt" /\ \A q \in Reqs : q # r => pc'[q] = pc[q]
      BY <3>1 DEF TypeOK
    <3> QED BY <2>1, <2>2, <3>1, <3>2, AdoptersGoOn DEF Adopting
  <2>3. CASE adopting[at[r]] = NoReq
    <3>1. /\ adopting' = [adopting EXCEPT ![at[r]] = r]
          /\ pc' = [pc EXCEPT ![r] = "loadspec"] /\ pc[r] = "adopt"
      BY <1>1, <2>3 DEF AdoptStart
    <3>2. /\ pc'[r] = "loadspec" /\ \A q \in Reqs : q # r => pc'[q] = pc[q]
          /\ adopting'[at[r]] = r /\ \A n \in Nodes : n # at[r] => adopting'[n] = adopting[n]
          /\ r # NoReq /\ at \in [Reqs -> Nodes] /\ adopting \in [Nodes -> Reqs \cup {NoReq}]
      BY <2>1, <3>1, OwnershipAssumption DEF TypeOK
    <3>3. ASSUME NEW n \in Nodes, adopting'[n] # NoReq
          PROVE  at'[adopting'[n]] = n /\ pc'[adopting'[n]] \in Adopting
      <4>1. CASE n = at[r]
        BY <2>1, <3>2, <4>1 DEF Adopting
      <4>2. CASE n # at[r]
        BY <2>1, <3>2, <3>3, <4>2 DEF AdoptionsHaveAdopters, Adopting
      <4> QED BY <4>1, <4>2
    <3>4. ASSUME NEW q \in Reqs, pc'[q] \in Waiting PROVE adopting'[at'[q]] # NoReq
      BY <2>1, <3>2, <3>4 DEF AdoptionsHaveAdopters, Waiting
    <3> QED BY <3>3, <3>4 DEF AdoptionsHaveAdopters, Adopting, Waiting
  <2> QED BY <2>2, <2>3
<1>2. CASE AdoptWoken(r) \/ AdoptLost(r)
  <2>1. PICK x \in {"serve", "idle", "owner2"} : pc' = [pc EXCEPT ![r] = x]
    BY <1>2 DEF AdoptWoken, AdoptLost
  <2> QED BY <1>2, <2>1, AdoptersStay DEF AdoptWoken, AdoptLost, Adopting, Waiting
<1>3. ASSUME NEW x \in Adopting, pc[r] \in Adopting, pc' = [pc EXCEPT ![r] = x],
             adopting' = adopting, at' = at
      PROVE  AdoptionsHaveAdopters'
  <2>1. pc'[r] = x /\ \A q \in Reqs : q # r => pc'[q] = pc[q]
    BY <1>3 DEF TypeOK
  <2> QED BY <1>3, <2>1, AdoptersGoOn DEF Adopting, Waiting
<1>4. CASE AdoptLoad(r)
  <2>1. CASE FinishAnswer(r, "notfound") \/ FinishAnswer(r, "badgateway")
    BY <1>4, <2>1, AdoptersFinish DEF AdoptLoad, FinishAnswer, Waiting
  <2>2. CASE Goto(r, "leaseid") /\ UNCHANGED nodeVars
    BY <1>3, <1>4, <2>2 DEF AdoptLoad, Adopting
  <2> QED BY <1>4, <2>1, <2>2 DEF AdoptLoad
<1>5. CASE ClaimLease(r)
  BY <1>3, <1>5 DEF ClaimLease, Adopting
<1>6. CASE ClaimCommit(r)
  <2>1. CASE FinishGoto(r, "lost") \/ FinishAnswer(r, "badgateway")
    BY <1>6, <2>1, AdoptersFinish DEF ClaimCommit, FinishAnswer, FinishGoto, Waiting
  <2>2. CASE Goto(r, "history") /\ UNCHANGED nodeVars
    BY <1>3, <1>6, <2>2 DEF ClaimCommit, Adopting
  <2> QED BY <1>6, <2>1, <2>2 DEF ClaimCommit
<1>7. CASE AdoptHistory(r)
  BY <1>3, <1>7 DEF AdoptHistory, Adopting
<1>8. CASE AdoptUnclaim(r)
  BY <1>8, AdoptersFinish DEF AdoptUnclaim, FinishAnswer, Waiting
<1>9. CASE AdoptStore(r)
  BY <1>9, AdoptersFinish DEF AdoptStore, Waiting
<1> QED BY <1>1, <1>2, <1>4, <1>5, <1>6, <1>7, <1>8, <1>9 DEF AdoptStep

\* The other steps of a request.
LEMMA AdoptersRequest ==
  ASSUME TypeOK, AdoptionsHaveAdopters, NEW r \in Reqs,
         \/ CreateStep(r) \/ RouteStep(r) \/ ServeStep(r) \/ WaitExpires(r)
         \/ \E n \in Nodes : Issue(r, n)
  PROVE  AdoptionsHaveAdopters'
<1>1. CASE RoutePeek(r) /\ adopting[at[r]] # NoReq
  <2>1. pc' = [pc EXCEPT ![r] = "wait"] /\ pc[r] = "peek" /\ adopting' = adopting /\ at' = at
    BY <1>1 DEF RoutePeek
  <2>2. pc'[r] = "wait" /\ \A q \in Reqs : q # r => pc'[q] = pc[q]
    BY <2>1 DEF TypeOK
  <2> QED BY <1>1, <2>1, <2>2, AdoptersGoOn DEF Adopting
<1>2. ASSUME NEW x \in Steps \ Waiting, pc' = [pc EXCEPT ![r] = x], pc[r] \notin Adopting,
             adopting' = adopting, at' = at \/ \E n \in Nodes : at' = [at EXCEPT ![r] = n]
      PROVE  AdoptionsHaveAdopters'
  <2>1. \A q \in Reqs : q # r => at'[q] = at[q]
    BY <1>2 DEF TypeOK
  <2> QED BY <1>2, <2>1, AdoptersStay
<1>3. CASE CreateStep(r)
  BY <1>2, <1>3 DEF CreateStep, CreateSpec, CreateRegister, CreateUndo, CreateStore,
                    Adopting, Waiting, Steps
<1>4. CASE ServeStep(r)
  BY <1>2, <1>4 DEF ServeStep, Serve, DeleteUnmap, DeleteUnregister, DeleteSpec,
                    Adopting, Waiting, Steps
<1>5. CASE WaitExpires(r) \/ \E n \in Nodes : Issue(r, n)
  BY <1>2, <1>5 DEF WaitExpires, Issue, Adopting, Waiting, Steps
<1>6. CASE RouteLoad(r) \/ RouteWoken(r) \/ (RoutePeek(r) /\ adopting[at[r]] = NoReq)
  BY <1>2, <1>6 DEF RouteLoad, RoutePeek, RouteWoken, NotHere, Adopting, Waiting, Steps
<1>7. CASE LookupOwner(r) \/ LookupNode(r)
  <2>1. pc[r] \notin Adopting /\ adopting' = adopting
    BY <1>7 DEF LookupOwner, LookupNode, Adopting
  <2>2. ASSUME NEW n \in Nodes, Forward(r, n) PROVE AdoptionsHaveAdopters'
    BY <1>2, <2>1, <2>2 DEF Forward, Waiting, Steps
  <2>3. ASSUME NoOwner(r) PROVE AdoptionsHaveAdopters'
    BY <1>2, <2>1, <2>3 DEF NoOwner, Waiting, Steps
  <2>4. at[r] \in Nodes /\ seen[r] \in Nodes
    BY DEF TypeOK
  <2>5. CASE LookupOwner(r)
    BY <1>2, <2>1, <2>2, <2>3, <2>4, <2>5 DEF LookupOwner, Waiting, Steps
  <2>6. CASE LookupNode(r)
    BY <1>2, <2>1, <2>2, <2>3, <2>4, <2>6 DEF LookupNode, Waiting, Steps
  <2> QED BY <1>7, <2>5, <2>6
<1> QED BY <1>1, <1>3, <1>4, <1>5, <1>6, <1>7 DEF RouteStep

\* A crash ends the adoption and the waiting on its node; the sweeper and the
\* registry touch neither.
LEMMA AdoptersNode ==
  ASSUME TypeOK, AdoptionsHaveAdopters, NEW n \in Nodes,
         NodeStep(n) \/ \E l \in Leases : LeaseExpires(n, l) \/ Restore(n, l)
  PROVE  AdoptionsHaveAdopters'
<1>1. CASE Crash(n)
  <2>1. /\ adopting' = [adopting EXCEPT ![n] = NoReq] /\ at' = at
        /\ \A q \in Reqs : pc'[q] = IF at[q] = n THEN "idle" ELSE pc[q]
        /\ at \in [Reqs -> Nodes] /\ adopting \in [Nodes -> Reqs \cup {NoReq}]
    BY <1>1 DEF Crash, TypeOK
  <2>2. ASSUME NEW m \in Nodes, adopting'[m] # NoReq
        PROVE  at'[adopting'[m]] = m /\ pc'[adopting'[m]] \in Adopting
    <3>1. m # n /\ adopting'[m] = adopting[m] /\ adopting[m] \in Reqs
      BY <2>1, <2>2
    <3>2. at[adopting[m]] = m /\ pc[adopting[m]] \in Adopting
      BY <2>2, <3>1 DEF AdoptionsHaveAdopters, Adopting
    <3> QED BY <2>1, <3>1, <3>2
  <2>3. ASSUME NEW q \in Reqs, pc'[q] \in Waiting PROVE adopting'[at'[q]] # NoReq
    <3>1. at[q] # n /\ pc[q] \in Waiting
      BY <2>1, <2>3 DEF Waiting
    <3>2. adopting[at[q]] # NoReq
      BY <3>1 DEF AdoptionsHaveAdopters, Waiting
    <3> QED BY <2>1, <3>1, <3>2
  <2> QED BY <2>2, <2>3 DEF AdoptionsHaveAdopters, Adopting, Waiting
<1>2. CASE ~Crash(n)
  <2>1. adopting' = adopting /\ pc' = pc /\ at' = at
    BY <1>2 DEF NodeStep, Evict, EvictUnmap, EvictUnregister, Restart, KeepaliveLost,
                LeaseLapses, LeaseExpires, Expire, Recover, KeepaliveEnds, Regrant, PutNode,
                StartKeepalive, Restore, Reregister, ReregisterPut
  <2> QED BY <2>1 DEF AdoptionsHaveAdopters
<1> QED BY <1>1, <1>2

\* An adoption on record has somebody who performs it, and who waits for one
\* will be woken by it, whatever is lost, deleted, evicted or crashes
\* (adoptSession, routeSessionMode).
THEOREM AdoptionsArePerformed == Spec => []AdoptionsHaveAdopters
<1>1. Init => AdoptionsHaveAdopters
  BY DEF Init, AdoptionsHaveAdopters
<1>2. TypeOK /\ AdoptionsHaveAdopters /\ [Next]_vars => AdoptionsHaveAdopters'
  <2> SUFFICES ASSUME TypeOK, AdoptionsHaveAdopters, [Next]_vars PROVE AdoptionsHaveAdopters'
    OBVIOUS
  <2>1. CASE UNCHANGED vars
    BY <2>1 DEF vars, AdoptionsHaveAdopters
  <2>2. CASE Next
    BY <2>2, AdoptersAdopt, AdoptersRequest, AdoptersNode DEF Next, Handle
  <2> QED BY <2>1, <2>2
<1> QED BY <1>1, <1>2, TypeCorrect, PTL DEF Spec

-----------------------------------------------------------------------------
(* The inductive invariant *)

\* No keepalive is ever lost, and a live node's lease is held.
LeasesKept == \A n \in Nodes :
  watcher[n] = "ok" /\ (alive[n] => lease[n] \in live[n])

\* A node that is down has no memory and no requests.
DeadIsEmpty == \A n \in Nodes : ~alive[n] =>
  ~sess[n] /\ ~evicting[n] /\ \A r \in Reqs : at[r] = n => pc[r] = "idle"

\* Which steps a request of each endpoint takes.
StepsByEndpoint == \A r \in Reqs :
  /\ r \in Creates => pc[r] \in {"idle", "spec", "register", "undo", "store"}
  /\ r \notin Creates => pc[r] \notin {"spec", "register", "undo", "store",
                                       "unregister", "unspec"}

\* Until the create call is answered nobody else knows the session.
CreatedFirst ==
  /\ ~created => /\ \A n \in Nodes : ~sess[n] /\ ~evicting[n]
                 /\ \A r \in Reqs \ Creates : pc[r] = "idle"
  /\ created => \A r \in Creates : pc[r] = "idle"

\* The lease a claim will be put under is the node's.
ClaimLeaseCurrent == \A r \in Reqs : pc[r] = "claim" => lid[r] = lease[at[r]]

Holding(n) == sess[n] \/ evicting[n] \/ \E r \in Reqs : at[r] = n /\ Claimer(r)

\* Whoever serves, takes over or evicts is the one recorded.
HolderRecorded == \A n \in Nodes :
  Holding(n) => record = [owner |-> n, lease |-> lease[n]]

\* On that node exactly one of the three is under way.
OneTenure ==
  /\ \A n \in Nodes : ~(sess[n] /\ evicting[n])
  /\ \A r \in Reqs : Claimer(r) => ~sess[at[r]] /\ ~evicting[at[r]]
  /\ \A r, q \in Reqs : Claimer(r) /\ Claimer(q) => r = q

\* ... and so OnReconnected is never called.
NothingToRestore == \A n \in Nodes, l \in Leases : restore[n][l] = "none"

TenureInv == /\ LeasesKept /\ DeadIsEmpty /\ StepsByEndpoint /\ CreatedFirst
             /\ ClaimLeaseCurrent /\ HolderRecorded /\ OneTenure

Claims == {"store", "history", "unclaim", "adopted"}
CreateSteps == {"idle", "spec", "register", "undo", "store"}
NotForOthers == {"spec", "register", "undo", "store", "unregister", "unspec"}

\* Request r goes to step x; other requests at most stop waiting.
Moved(r, x) ==
  /\ pc'[r] = x
  /\ \A q \in Reqs \ {r} :
       \/ pc'[q] = pc[q]
       \/ pc[q] \in {"wait", "waitadopt"} /\ pc'[q] \in {"woken", "wokenadopt"}

\* What a request's own step leaves alone unless it takes or gives a tenure.
Untouched == UNCHANGED <<alive, sess, evicting, lease, live, watcher, record, created>>

\* A step that only sets the program counter of its request.
LEMMA GotoMoves ==
  ASSUME TypeOK, NEW r \in Reqs, NEW x, pc' = [pc EXCEPT ![r] = x]
  PROVE  Moved(r, x)
BY DEF TypeOK, Moved

\* A step that ends an adoption and wakes the waiters.
LEMMA FinishMoves ==
  ASSUME TypeOK, NEW r \in Reqs, NEW x, Finish(r, x)
  PROVE  Moved(r, x)
BY DEF Finish, Moved

\* A step of one request that neither wins nor gives up a tenure.
LEMMA QuietStep ==
  ASSUME TypeOK, TenureInv, NEW r \in Reqs, NEW x, pc[r] # "idle", Moved(r, x),
         Untouched,
         \A q \in Reqs \ {r} : at'[q] = at[q] /\ lid'[q] = lid[q],
         alive[at'[r]], at'[r] \in Nodes,
         x = "claim" => lid'[r] = lease[at'[r]],
         x \in Claims => pc[r] \in Claims /\ at'[r] = at[r],
         r \in Creates => x \in CreateSteps,
         r \notin Creates => x \notin NotForOthers
  PROVE  TenureInv'
<1> USE DEF Untouched, Moved, Claims
<1>1. \A q \in Reqs : Claimer(q)' => Claimer(q) /\ at'[q] = at[q]
  BY DEF Claimer
<1>2. LeasesKept'
  BY DEF TenureInv, LeasesKept
<1>3. DeadIsEmpty'
  BY DEF TenureInv, DeadIsEmpty
<1>4. StepsByEndpoint'
  BY DEF TenureInv, StepsByEndpoint, CreateSteps, NotForOthers
<1>5. CreatedFirst'
  <2>1. r \notin Creates => created
    BY DEF TenureInv, CreatedFirst
  <2>2. r \in Creates => ~created
    BY DEF TenureInv, CreatedFirst
  <2>3. ~created => \A q \in Reqs \ Creates : pc'[q] = "idle"
    BY <2>1 DEF TenureInv, CreatedFirst
  <2>4. created => \A q \in Creates : pc'[q] = "idle"
    BY <2>2 DEF TenureInv, CreatedFirst, Reqs
  <2> QED BY <2>3, <2>4 DEF TenureInv, CreatedFirst
<1>6. ClaimLeaseCurrent'
  BY DEF TenureInv, ClaimLeaseCurrent
<1>7. HolderRecorded'
  BY <1>1 DEF TenureInv, HolderRecorded, Holding
<1>8. OneTenure'
  BY <1>1 DEF TenureInv, OneTenure
<1> QED BY <1>2, <1>3, <1>4, <1>5, <1>6, <1>7, <1>8 DEF TenureInv

\* A request under way is on a live node.
LEMMA ActiveAlive ==
  ASSUME TypeOK, TenureInv, NEW r \in Reqs, pc[r] # "idle"
  PROVE  alive[at[r]] /\ at[r] \in Nodes
BY DEF TypeOK, TenureInv, DeadIsEmpty

\* A request that is not the create is not in one of its steps.
LEMMA Endpoint ==
  ASSUME TenureInv, NEW r \in Reqs
  PROVE  /\ pc[r] \in {"spec", "register", "undo", "store"} => r \in Creates
         /\ pc[r] \notin CreateSteps => r \notin Creates
         /\ pc[r] \notin {"unregister", "unspec"}
BY DEF TenureInv, StepsByEndpoint, CreateSteps

\* Routing neither takes nor gives up a tenure.
LEMMA RouteKeeps ==
  ASSUME TypeOK, TenureInv, NEW r \in Reqs, RouteStep(r)
  PROVE  TenureInv'
<1> USE DEF Claims, CreateSteps, NotForOthers, Untouched
<1>1. pc[r] # "idle" /\ r \notin Creates /\ pc[r] \notin Claims
  BY Endpoint DEF RouteStep, RouteLoad, RoutePeek, RouteWoken, LookupOwner, LookupNode
<1>2. alive[at[r]] /\ at[r] \in Nodes
  BY <1>1, ActiveAlive
<1>3. /\ Untouched /\ lid' = lid
      /\ \A q \in Reqs \ {r} : at'[q] = at[q]
      /\ alive[at'[r]] /\ at'[r] \in Nodes
  <2>1. CASE RouteLoad(r) \/ RoutePeek(r) \/ RouteWoken(r)
    BY <1>2, <2>1 DEF RouteLoad, RoutePeek, RouteWoken, NotHere
  <2>2. CASE LookupOwner(r)
    BY <1>2, <2>2 DEF LookupOwner, NoOwner, Forward, TypeOK
  <2>3. CASE LookupNode(r)
    BY <1>2, <2>3 DEF LookupNode, NoOwner, Forward, TypeOK
  <2> QED BY <2>1, <2>2, <2>3 DEF RouteStep
<1>4. \E x \in {"idle", "serve", "peek", "wait", "owner", "load", "adopt", "node", "node2"} :
        pc' = [pc EXCEPT ![r] = x]
  <2>1. CASE RouteLoad(r)
    BY <2>1 DEF RouteLoad
  <2>2. CASE RoutePeek(r) \/ RouteWoken(r)
    BY <2>2 DEF RoutePeek, RouteWoken, NotHere
  <2>3. CASE LookupOwner(r)
    BY <2>3 DEF LookupOwner, NoOwner, Forward
  <2>4. CASE LookupNode(r)
    BY <2>4 DEF LookupNode, NoOwner, Forward
  <2> QED BY <2>1, <2>2, <2>3, <2>4 DEF RouteStep
<1>5. PICK x \in {"idle", "serve", "peek", "wait", "owner", "load", "adopt", "node", "node2"} :
        pc' = [pc EXCEPT ![r] = x]
  BY <1>4
<1>6. Moved(r, x)
  BY <1>5, GotoMoves
<1> QED BY <1>1, <1>3, <1>5, <1>6, QuietStep

\* A new request holds nothing.
LEMMA IssueKeeps ==
  ASSUME TypeOK, TenureInv, NEW r \in Reqs, NEW n \in Nodes, Issue(r, n)
  PROVE  TenureInv'
<1>1. /\ pc[r] = "idle" /\ alive[n] /\ Untouched
      /\ \A q \in Reqs \ {r} : lid'[q] = lid[q]
      /\ r \in Creates => ~created /\ pc'[r] = "spec"
      /\ r \notin Creates => created /\ pc'[r] = "load"
      /\ at'[r] = n
      /\ \A q \in Reqs \ {r} : pc'[q] = pc[q] /\ at'[q] = at[q]
  BY DEF Issue, TypeOK, Untouched
<1>2. \A q \in Reqs : Claimer(q)' => Claimer(q) /\ at'[q] = at[q]
  BY <1>1 DEF Claimer
<1> USE DEF Untouched
<1>3. LeasesKept'
  BY <1>1 DEF TenureInv, LeasesKept
<1>4. DeadIsEmpty'
  BY <1>1 DEF TenureInv, DeadIsEmpty
<1>5. StepsByEndpoint'
  BY <1>1 DEF TenureInv, StepsByEndpoint
<1>6. CreatedFirst'
  <2>1. ~created => \A q \in Reqs \ Creates : pc'[q] = "idle"
    BY <1>1 DEF TenureInv, CreatedFirst
  <2>2. created => \A q \in Creates : pc'[q] = "idle"
    BY <1>1 DEF TenureInv, CreatedFirst, Reqs
  <2> QED BY <1>1, <2>1, <2>2 DEF TenureInv, CreatedFirst
<1>7. ClaimLeaseCurrent'
  BY <1>1 DEF TenureInv, ClaimLeaseCurrent
<1>8. HolderRecorded'
  BY <1>1, <1>2 DEF TenureInv, HolderRecorded, Holding
<1>9. OneTenure'
  BY <1>1, <1>2 DEF TenureInv, OneTenure
<1> QED BY <1>3, <1>4, <1>5, <1>6, <1>7, <1>8, <1>9 DEF TenureInv

\* The steps of an adoption that neither win nor give up the claim.
LEMMA AdoptQuiet ==
  ASSUME TypeOK, TenureInv, NEW r \in Reqs,
         \/ AdoptStart(r) \/ AdoptWoken(r) \/ AdoptLoad(r) \/ ClaimLease(r)
         \/ AdoptHistory(r) \/ AdoptLost(r) \/ WaitExpires(r)
         \/ ClaimCommit(r) /\ UNCHANGED record /\ pc'[r] # "history"
  PROVE  TenureInv'
<1> USE DEF Claims, CreateSteps, NotForOthers, Untouched
<1>1. pc[r] # "idle" /\ r \notin Creates
  BY Endpoint DEF AdoptStart, AdoptWoken, AdoptLoad, ClaimLease, AdoptHistory,
                  AdoptLost, WaitExpires, ClaimCommit
<1>2. alive[at[r]] /\ at[r] \in Nodes
  BY <1>1, ActiveAlive
<1>3. CASE AdoptStart(r) \/ AdoptWoken(r) \/ AdoptLost(r) \/ WaitExpires(r)
  <2>1. \E x \in {"idle", "waitadopt", "loadspec", "serve", "owner2"} :
          pc' = [pc EXCEPT ![r] = x]
    BY <1>3 DEF AdoptStart, AdoptWoken, AdoptLost, WaitExpires
  <2>2. PICK x \in {"idle", "waitadopt", "loadspec", "serve", "owner2"} :
          pc' = [pc EXCEPT ![r] = x]
    BY <2>1
  <2>3. Moved(r, x)
    BY <2>2, GotoMoves
  <2>4. Untouched /\ lid' = lid /\ at' = at
    BY <1>3 DEF AdoptStart, AdoptWoken, AdoptLost, WaitExpires
  <2> QED BY <1>1, <1>2, <2>2, <2>3, <2>4, QuietStep
<1>4. CASE AdoptLoad(r)
  <2>1. Untouched /\ lid' = lid /\ at' = at
    BY <1>4 DEF AdoptLoad, FinishAnswer, Finish
  <2>2. Moved(r, "leaseid") \/ Moved(r, "idle")
    BY <1>4, GotoMoves, FinishMoves DEF AdoptLoad, FinishAnswer
  <2> QED BY <1>1, <1>2, <2>1, <2>2, QuietStep
<1>5. CASE ClaimLease(r)
  <2>1. /\ Untouched /\ at' = at /\ lid'[r] = lease[at[r]]
        /\ \A q \in Reqs \ {r} : lid'[q] = lid[q]
    BY <1>5 DEF ClaimLease, TypeOK
  <2>2. Moved(r, "claim")
    BY <1>5, GotoMoves DEF ClaimLease
  <2> QED BY <1>1, <1>2, <2>1, <2>2, QuietStep
<1>6. CASE AdoptHistory(r)
  <2>1. Untouched /\ lid' = lid /\ at' = at /\ pc[r] \in Claims
    BY <1>6 DEF AdoptHistory
  <2>2. Moved(r, "adopted") \/ Moved(r, "unclaim")
    BY <1>6, GotoMoves DEF AdoptHistory
  <2> QED BY <1>1, <1>2, <2>1, <2>2, QuietStep
<1>7. CASE ClaimCommit(r) /\ UNCHANGED record /\ pc'[r] # "history"
  <2>1. FinishGoto(r, "lost") \/ FinishAnswer(r, "badgateway")
    BY <1>7 DEF ClaimCommit, TypeOK
  <2>2. Untouched /\ lid' = lid /\ at' = at
    BY <1>7, <2>1 DEF ClaimCommit, FinishGoto, FinishAnswer, Finish
  <2>3. Moved(r, "lost") \/ Moved(r, "idle")
    BY <2>1, FinishMoves DEF FinishGoto, FinishAnswer
  <2> QED BY <1>1, <1>2, <2>2, <2>3, QuietStep
<1> QED BY <1>3, <1>4, <1>5, <1>6, <1>7

\* The node a claim is won for: nobody holds the session, so nobody else does.
LEMMA ClaimKeeps ==
  ASSUME TypeOK, TenureInv, NEW r \in Reqs, ClaimCommit(r)
  PROVE  TenureInv'
<1> USE DEF Claims, CreateSteps, NotForOthers
<1>1. pc[r] = "claim" /\ r \notin Creates
  BY Endpoint DEF ClaimCommit
<1>2. alive[at[r]] /\ at[r] \in Nodes
  BY <1>1, ActiveAlive
<1>3. CASE UNCHANGED record /\ pc'[r] # "history"
  BY <1>3, AdoptQuiet
<1>4. CASE /\ record = NoRecord /\ lid[r] \in live[at[r]]
           /\ Claimed(r) /\ Goto(r, "history") /\ UNCHANGED <<nodeVars, histVars>>
  <2>1. /\ UNCHANGED <<alive, sess, evicting, lease, live, watcher, created, at, lid>>
        /\ record' = [owner |-> at[r], lease |-> lease[at[r]]]
        /\ pc' = [pc EXCEPT ![r] = "history"]
    BY <1>1, <1>4 DEF ClaimCommit, Claimed, TenureInv, ClaimLeaseCurrent
  <2>2. \A n \in Nodes : ~Holding(n)
    <3>1. \A n \in Nodes : record # [owner |-> n, lease |-> lease[n]]
      BY <1>4 DEF NoRecord
    <3> QED BY <3>1 DEF TenureInv, HolderRecorded
  <2>3. \A q \in Reqs : ~Claimer(q)
    BY <2>2 DEF Holding, TypeOK
  <2>4. \A q \in Reqs : (Claimer(q)' => q = r) /\ (q # r => pc'[q] = pc[q])
    BY <2>1, <2>3 DEF Claimer, TypeOK
  <2>5. pc'[r] = "history"
    BY <2>1 DEF TypeOK
  <2>6. LeasesKept' /\ DeadIsEmpty'
    BY <1>1, <1>2, <2>1, <2>4 DEF TenureInv, LeasesKept, DeadIsEmpty
  <2>7. StepsByEndpoint'
    BY <1>1, <2>4, <2>5 DEF TenureInv, StepsByEndpoint
  <2>8. CreatedFirst'
    BY <1>1, <2>1, <2>4 DEF TenureInv, CreatedFirst, Reqs
  <2>9. ClaimLeaseCurrent'
    BY <2>1, <2>4, <2>5 DEF TenureInv, ClaimLeaseCurrent
  <2>10. HolderRecorded'
    BY <2>1, <2>2, <2>4 DEF HolderRecorded, Holding
  <2>11. OneTenure'
    BY <1>2, <2>1, <2>2, <2>4 DEF OneTenure, Holding
  <2> QED BY <2>6, <2>7, <2>8, <2>9, <2>10, <2>11 DEF TenureInv
<1>5. CASE /\ record = NoRecord /\ FinishAnswer(r, "badgateway") /\ Claimed(r)
           /\ CallFails
  <2>1. /\ UNCHANGED <<alive, sess, evicting, lease, live, watcher, created, at, lid>>
        /\ Moved(r, "idle")
    BY <1>5, FinishMoves DEF ClaimCommit, FinishAnswer, Finish
  <2>2. \A n \in Nodes : ~Holding(n)
    <3>1. \A n \in Nodes : record # [owner |-> n, lease |-> lease[n]]
      BY <1>5 DEF NoRecord
    <3> QED BY <3>1 DEF TenureInv, HolderRecorded
  <2>3. \A q \in Reqs : ~Claimer(q)
    BY <2>2 DEF Holding, TypeOK
  <2>4. \A q \in Reqs : ~Claimer(q)'
    BY <2>1, <2>3 DEF Claimer, Moved
  <2>5. LeasesKept' /\ DeadIsEmpty'
    BY <1>1, <1>2, <2>1 DEF TenureInv, LeasesKept, DeadIsEmpty, Moved
  <2>6. StepsByEndpoint'
    BY <1>1, <2>1 DEF TenureInv, StepsByEndpoint, Moved
  <2>7. CreatedFirst'
    <3>1. created
      BY <1>1 DEF TenureInv, CreatedFirst
    <3>2. \A q \in Creates : pc'[q] = "idle"
      BY <2>1, <3>1 DEF TenureInv, CreatedFirst, Moved, Reqs
    <3> QED BY <2>1, <3>1, <3>2 DEF CreatedFirst
  <2>8. ClaimLeaseCurrent'
    BY <2>1 DEF TenureInv, ClaimLeaseCurrent, Moved
  <2>9. HolderRecorded'
    BY <2>1, <2>2, <2>4 DEF HolderRecorded, Holding
  <2>10. OneTenure'
    BY <2>1, <2>4 DEF OneTenure, TenureInv
  <2> QED BY <2>5, <2>6, <2>7, <2>8, <2>9, <2>10 DEF TenureInv
<1> QED
  BY <1>3, <1>4, <1>5, FinishMoves DEF ClaimCommit, FinishAnswer, FinishGoto, Moved

\* A tenure given up or handed from the claim to the map: nobody but its node
\* is concerned.
LEMMA UnclaimKeeps ==
  ASSUME TypeOK, TenureInv, NEW r \in Reqs, AdoptUnclaim(r)
  PROVE  TenureInv'
<1> USE DEF Claims, CreateSteps, NotForOthers
<1>1. pc[r] = "unclaim" /\ r \notin Creates
  BY Endpoint DEF AdoptUnclaim
<1>2. /\ UNCHANGED <<alive, sess, evicting, lease, live, watcher, created, at, lid>>
      /\ Moved(r, "idle")
  BY FinishMoves DEF AdoptUnclaim, FinishAnswer, Finish
<1>3. Claimer(r) /\ at[r] \in Nodes
  BY <1>1 DEF Claimer, TypeOK
<1>4. \A q \in Reqs : ~Claimer(q)'
  BY <1>2, <1>3 DEF TenureInv, OneTenure, Claimer, Moved
<1>5. \A n \in Nodes : ~Holding(n)'
  <2>1. record = [owner |-> at[r], lease |-> lease[at[r]]]
    BY <1>3 DEF TenureInv, HolderRecorded, Holding
  <2>2. \A n \in Nodes : Holding(n) => n = at[r]
    BY <2>1 DEF TenureInv, HolderRecorded
  <2>3. ~sess[at[r]] /\ ~evicting[at[r]]
    BY <1>3 DEF TenureInv, OneTenure
  <2> QED BY <1>2, <1>4, <2>2, <2>3 DEF Holding
<1>6. LeasesKept' /\ DeadIsEmpty'
  BY <1>1, <1>2 DEF TenureInv, LeasesKept, DeadIsEmpty, Moved
<1>7. StepsByEndpoint'
  BY <1>1, <1>2 DEF TenureInv, StepsByEndpoint, Moved
<1>8. CreatedFirst'
  <2>1. created
    BY <1>1 DEF TenureInv, CreatedFirst
  <2>2. \A q \in Creates : pc'[q] = "idle"
    BY <1>2, <2>1 DEF TenureInv, CreatedFirst, Moved, Reqs
  <2> QED BY <1>2, <2>1, <2>2 DEF CreatedFirst
<1>9. ClaimLeaseCurrent'
  BY <1>2 DEF TenureInv, ClaimLeaseCurrent, Moved
<1>10. HolderRecorded'
  BY <1>5 DEF HolderRecorded
<1>11. OneTenure'
  BY <1>2, <1>4 DEF OneTenure, TenureInv
<1> QED BY <1>6, <1>7, <1>8, <1>9, <1>10, <1>11 DEF TenureInv

\* The adopted session enters the map of the node whose claim was won.
LEMMA StoreKeeps ==
  ASSUME TypeOK, TenureInv, NEW r \in Reqs, AdoptStore(r)
  PROVE  TenureInv'
<1> USE DEF Claims, CreateSteps, NotForOthers
<1>1. pc[r] = "adopted" /\ r \notin Creates
  BY Endpoint DEF AdoptStore
<1>2. /\ UNCHANGED <<alive, evicting, lease, live, watcher, record, created, at, lid>>
      /\ sess' = [sess EXCEPT ![at[r]] = TRUE]
      /\ Moved(r, "serve")
  BY FinishMoves DEF AdoptStore, Finish
<1>3. Claimer(r) /\ at[r] \in Nodes /\ alive[at[r]]
  BY <1>1, ActiveAlive DEF Claimer
<1>4. \A q \in Reqs : ~Claimer(q)'
  BY <1>2, <1>3 DEF TenureInv, OneTenure, Claimer, Moved
<1>5. \A n \in Nodes : Holding(n)' => Holding(n)
  <2>1. Holding(at[r])
    BY <1>3 DEF Holding
  <2>2. \A n \in Nodes : n # at[r] => sess'[n] = sess[n]
    BY <1>2, <1>3 DEF TypeOK
  <2> QED BY <1>2, <1>4, <2>1, <2>2 DEF Holding
<1>6. LeasesKept' /\ DeadIsEmpty'
  <2>1. LeasesKept'
    BY <1>2 DEF TenureInv, LeasesKept
  <2>2. \A n \in Nodes : ~alive[n] => sess'[n] = sess[n]
    BY <1>2, <1>3 DEF TypeOK
  <2>3. DeadIsEmpty'
    BY <1>1, <1>2, <1>3, <2>2 DEF TenureInv, DeadIsEmpty, Moved
  <2> QED BY <2>1, <2>3
<1>7. StepsByEndpoint'
  BY <1>1, <1>2 DEF TenureInv, StepsByEndpoint, Moved
<1>8. CreatedFirst'
  <2>1. created
    BY <1>1 DEF TenureInv, CreatedFirst
  <2>2. \A q \in Creates : pc'[q] = "idle"
    BY <1>1, <1>2, <2>1 DEF TenureInv, CreatedFirst, Moved, Reqs
  <2> QED BY <1>2, <2>1, <2>2 DEF CreatedFirst
<1>9. ClaimLeaseCurrent'
  BY <1>2 DEF TenureInv, ClaimLeaseCurrent, Moved
<1>10. HolderRecorded'
  BY <1>2, <1>5 DEF TenureInv, HolderRecorded
<1>11. OneTenure'
  <2>1. ~evicting[at[r]]
    BY <1>3 DEF TenureInv, OneTenure
  <2>2. \A n \in Nodes : n # at[r] => sess'[n] = sess[n]
    BY <1>2, <1>3 DEF TypeOK
  <2> QED BY <1>2, <1>4, <2>1, <2>2 DEF TenureInv, OneTenure
<1> QED BY <1>6, <1>7, <1>8, <1>9, <1>10, <1>11 DEF TenureInv

\* The create call is the only request while it runs, so its claim is the first.
LEMMA CreateKeeps ==
  ASSUME TypeOK, TenureInv, NEW r \in Reqs, CreateStep(r)
  PROVE  TenureInv'
<1> USE DEF Claims, CreateSteps, NotForOthers
<1>1. pc[r] # "idle" /\ r \in Creates
  BY Endpoint DEF CreateStep, CreateSpec, CreateRegister, CreateUndo, CreateStore
<1>2. alive[at[r]] /\ at[r] \in Nodes
  BY <1>1, ActiveAlive
<1>3. /\ ~created /\ \A n \in Nodes : ~sess[n] /\ ~evicting[n]
      /\ \A q \in Reqs : q # r => pc[q] = "idle"
  <2>1. ~created
    BY <1>1 DEF TenureInv, CreatedFirst
  <2>2. \A q \in Creates : q = r
    BY <1>1
  <2> QED BY <2>1, <2>2 DEF TenureInv, CreatedFirst
<1>4. at' = at /\ lid' = lid
  BY DEF CreateStep, CreateSpec, CreateRegister, CreateUndo, CreateStore
<1>5. CASE /\ CreateSpec(r) \/ CreateUndo(r) \/ CreateRegister(r)
           /\ UNCHANGED record
           /\ ~(pc[r] = "register" /\ Goto(r, "store"))
  <2>1. Untouched
    BY <1>5 DEF CreateSpec, CreateUndo, CreateRegister, Untouched
  <2>2. \E x \in {"register", "idle", "undo"} : pc' = [pc EXCEPT ![r] = x]
    BY <1>5 DEF CreateSpec, CreateUndo, CreateRegister
  <2>3. PICK x \in {"register", "idle", "undo"} : pc' = [pc EXCEPT ![r] = x]
    BY <2>2
  <2>4. Moved(r, x)
    BY <2>3, GotoMoves
  <2> QED BY <1>1, <1>2, <1>4, <2>1, <2>3, <2>4, QuietStep
<1>6. CASE /\ CreateRegister(r) /\ lease[at[r]] \in live[at[r]]
           /\ record' = [owner |-> at[r], lease |-> lease[at[r]]]
           /\ Goto(r, "store") /\ UNCHANGED histVars
  <2>1. /\ UNCHANGED <<alive, sess, evicting, lease, live, watcher, created>>
        /\ pc'[r] = "store" /\ \A q \in Reqs : q # r => pc'[q] = "idle"
    BY <1>3, <1>6 DEF CreateRegister, TypeOK
  <2>2. LeasesKept' /\ DeadIsEmpty'
    BY <1>2, <1>3, <1>4, <2>1 DEF TenureInv, LeasesKept, DeadIsEmpty
  <2>3. StepsByEndpoint'
    BY <1>1, <2>1 DEF TenureInv, StepsByEndpoint
  <2>4. CreatedFirst'
    BY <1>1, <1>3, <2>1 DEF CreatedFirst
  <2>5. ClaimLeaseCurrent'
    BY <2>1 DEF ClaimLeaseCurrent
  <2>6. HolderRecorded'
    BY <1>3, <1>4, <1>6, <2>1 DEF HolderRecorded, Holding, Claimer
  <2>7. OneTenure'
    BY <1>2, <1>3, <1>4, <2>1 DEF OneTenure, Claimer
  <2> QED BY <2>2, <2>3, <2>4, <2>5, <2>6, <2>7 DEF TenureInv
<1>7. CASE CreateStore(r)
  <2>1. /\ UNCHANGED <<alive, evicting, lease, live, watcher, record>>
        /\ created' /\ \A q \in Reqs : pc'[q] = "idle"
        /\ \A n \in Nodes : sess'[n] => n = at[r]
    BY <1>2, <1>3, <1>7 DEF CreateStore, TypeOK
  <2>2. Holding(at[r])
    BY <1>7 DEF CreateStore, Holding, Claimer
  <2>3. LeasesKept' /\ DeadIsEmpty'
    BY <1>2, <1>3, <2>1 DEF TenureInv, LeasesKept, DeadIsEmpty
  <2>4. StepsByEndpoint' /\ ClaimLeaseCurrent'
    BY <2>1 DEF StepsByEndpoint, ClaimLeaseCurrent
  <2>5. CreatedFirst'
    BY <2>1 DEF CreatedFirst, Reqs
  <2>6. HolderRecorded'
    BY <1>2, <1>3, <2>1, <2>2 DEF TenureInv, HolderRecorded, Holding, Claimer
  <2>7. OneTenure'
    BY <1>3, <2>1 DEF OneTenure, Claimer
  <2> QED BY <2>3, <2>4, <2>5, <2>6, <2>7 DEF TenureInv
<1>8. CASE CreateSpec(r) \/ CreateUndo(r)
  BY <1>5, <1>8 DEF CreateSpec, CreateUndo
<1>9. CASE CreateRegister(r)
  <2>1. CASE Goto(r, "undo") /\ UNCHANGED record
    <3>1. pc'[r] = "undo"
      BY <2>1 DEF TypeOK
    <3>2. ~Goto(r, "store")
      BY <3>1 DEF TypeOK
    <3> QED BY <1>5, <1>9, <2>1, <3>2
  <2>2. CASE /\ lease[at[r]] \in live[at[r]]
             /\ record' = [owner |-> at[r], lease |-> lease[at[r]]]
             /\ Goto(r, "store") /\ UNCHANGED histVars
    BY <1>6, <1>9, <2>2
  <2> QED BY <1>9, <2>1, <2>2 DEF CreateRegister
<1> QED BY <1>7, <1>8, <1>9 DEF CreateStep

\* Message and cancel end without touching the tenure.
LEMMA ServeKeeps ==
  ASSUME Deletes = {}, TypeOK, TenureInv, NEW r \in Reqs, ServeStep(r)
  PROVE  TenureInv'
<1>1. Serve(r)
  BY Endpoint DEF ServeStep, DeleteUnmap, DeleteUnregister, DeleteSpec
<1>2. /\ Moved(r, "idle") /\ Untouched /\ at' = at /\ lid' = lid
      /\ pc[r] # "idle" /\ r \notin Creates
  BY <1>1, GotoMoves, Endpoint DEF Serve, Untouched, CreateSteps
<1>3. alive[at[r]] /\ at[r] \in Nodes
  BY <1>2, ActiveAlive
<1> QED BY <1>2, <1>3, QuietStep DEF Claims, CreateSteps, NotForOthers

-----------------------------------------------------------------------------
(* Nodes *)

\* The sweeper takes over the tenure from the map ...
LEMMA EvictUnmapKeeps ==
  ASSUME TypeOK, TenureInv, NEW n \in Nodes, EvictUnmap(n)
  PROVE  TenureInv'
<1>1. /\ UNCHANGED <<alive, lease, live, watcher, record, created, pc, at, lid>>
      /\ ~sess'[n] /\ evicting'[n] /\ sess[n] /\ alive[n]
      /\ \A m \in Nodes : m # n => sess'[m] = sess[m] /\ evicting'[m] = evicting[m]
  BY DEF EvictUnmap, TypeOK, TenureInv, DeadIsEmpty
<1>2. LeasesKept' /\ StepsByEndpoint' /\ ClaimLeaseCurrent'
  BY <1>1 DEF TenureInv, LeasesKept, StepsByEndpoint, ClaimLeaseCurrent
<1>3. DeadIsEmpty'
  BY <1>1 DEF TenureInv, DeadIsEmpty
<1>4. CreatedFirst'
  BY <1>1 DEF TenureInv, CreatedFirst
<1>5. HolderRecorded'
  BY <1>1 DEF TenureInv, HolderRecorded, Holding, Claimer
<1>6. OneTenure'
  BY SMTT(30), <1>1 DEF TenureInv, OneTenure, Claimer, TypeOK
<1> QED BY <1>2, <1>3, <1>4, <1>5, <1>6 DEF TenureInv

\* ... and gives it up: nobody else held the record it deletes.
LEMMA EvictUnregisterKeeps ==
  ASSUME TypeOK, TenureInv, NEW n \in Nodes, EvictUnregister(n)
  PROVE  TenureInv'
<1>1. /\ UNCHANGED <<alive, sess, lease, live, watcher, created, pc, at, lid>>
      /\ evicting[n] /\ ~evicting'[n]
      /\ \A m \in Nodes : m # n => evicting'[m] = evicting[m]
  BY DEF EvictUnregister, TypeOK
<1>2. LeasesKept' /\ StepsByEndpoint' /\ ClaimLeaseCurrent'
  BY <1>1 DEF TenureInv, LeasesKept, StepsByEndpoint, ClaimLeaseCurrent
<1>3. DeadIsEmpty'
  BY <1>1 DEF TenureInv, DeadIsEmpty
<1>4. CreatedFirst'
  BY <1>1 DEF TenureInv, CreatedFirst
<1>5. \A m \in Nodes : ~Holding(m)'
  <2>1. record = [owner |-> n, lease |-> lease[n]]
    BY <1>1 DEF TenureInv, HolderRecorded, Holding
  <2>2. \A m \in Nodes : Holding(m) => m = n
    BY <2>1 DEF TenureInv, HolderRecorded
  <2>3. ~sess[n] /\ \A r \in Reqs : at[r] = n => ~Claimer(r)
    BY <1>1 DEF TenureInv, OneTenure
  <2> QED BY <1>1, <2>2, <2>3 DEF Holding, Claimer
<1>6. HolderRecorded'
  BY <1>5 DEF HolderRecorded
<1>7. OneTenure'
  BY <1>1 DEF TenureInv, OneTenure, Claimer, TypeOK
<1> QED BY <1>2, <1>3, <1>4, <1>6, <1>7 DEF TenureInv

\* A crash ends whatever the node held and leaves its record to the lease.
LEMMA CrashKeeps ==
  ASSUME TypeOK, TenureInv, NEW n \in Nodes, Crash(n)
  PROVE  TenureInv'
<1>1. /\ UNCHANGED <<lease, live, record, created, at, lid>>
      /\ ~alive'[n] /\ ~sess'[n] /\ ~evicting'[n] /\ watcher'[n] = "ok"
      /\ \A m \in Nodes : m # n => /\ alive'[m] = alive[m] /\ sess'[m] = sess[m]
                                   /\ evicting'[m] = evicting[m]
                                   /\ watcher'[m] = watcher[m]
      /\ \A r \in Reqs : pc'[r] = IF at[r] = n THEN "idle" ELSE pc[r]
  BY DEF Crash, TypeOK
<1>2. LeasesKept'
  BY <1>1 DEF TenureInv, LeasesKept
<1>3. DeadIsEmpty'
  BY <1>1 DEF TenureInv, DeadIsEmpty
<1>4. StepsByEndpoint'
  BY <1>1 DEF TenureInv, StepsByEndpoint
<1>5. CreatedFirst'
  BY <1>1 DEF TenureInv, CreatedFirst, Reqs
<1>6. ClaimLeaseCurrent'
  BY <1>1 DEF TenureInv, ClaimLeaseCurrent
<1>7. \A r \in Reqs : Claimer(r)' => Claimer(r) /\ at[r] # n
  BY <1>1 DEF Claimer
<1>8. HolderRecorded'
  BY <1>1, <1>7 DEF TenureInv, HolderRecorded, Holding
<1>9. OneTenure'
  BY <1>1, <1>7 DEF TenureInv, OneTenure, TypeOK
<1> QED BY <1>2, <1>3, <1>4, <1>5, <1>6, <1>8, <1>9 DEF TenureInv

\* A node that comes back holds nothing yet.
LEMMA RestartKeeps ==
  ASSUME TypeOK, TenureInv, NEW n \in Nodes, Restart(n)
  PROVE  TenureInv'
<1>1. /\ UNCHANGED <<sess, evicting, watcher, record, created, pc, at, lid>>
      /\ ~alive[n] /\ alive'[n] /\ lease'[n] \in live'[n]
      /\ \A m \in Nodes : m # n => /\ alive'[m] = alive[m] /\ lease'[m] = lease[m]
                                   /\ live'[m] = live[m]
  BY DEF Restart, TypeOK, Leases
<1>2. ~Holding(n) /\ \A r \in Reqs : at[r] = n => pc[r] = "idle"
  BY <1>1 DEF TenureInv, DeadIsEmpty, Holding, Claimer
<1>3. LeasesKept'
  BY <1>1 DEF TenureInv, LeasesKept
<1>4. DeadIsEmpty'
  BY <1>1 DEF TenureInv, DeadIsEmpty
<1>5. StepsByEndpoint' /\ CreatedFirst'
  BY <1>1 DEF TenureInv, StepsByEndpoint, CreatedFirst
<1>6. ClaimLeaseCurrent'
  BY <1>1, <1>2 DEF TenureInv, ClaimLeaseCurrent, TypeOK
<1>7. HolderRecorded'
  BY <1>1, <1>2 DEF TenureInv, HolderRecorded, Holding, Claimer
<1>8. OneTenure'
  BY <1>1 DEF TenureInv, OneTenure, Claimer
<1> QED BY <1>3, <1>4, <1>5, <1>6, <1>7, <1>8 DEF TenureInv

\* A lease that expires is no live node's lease, so no holder loses its record.
LEMMA ExpireKeeps ==
  ASSUME TypeOK, TenureInv, NEW n \in Nodes, NEW l \in Leases, LeaseExpires(n, l)
  PROVE  TenureInv'
<1>1. /\ UNCHANGED <<alive, sess, evicting, lease, watcher, created, pc, at, lid>>
      /\ live'[n] = live[n] \ {l}
      /\ \A m \in Nodes : m # n => live'[m] = live[m]
  BY DEF LeaseExpires, Expire, TypeOK
<1>2. l # lease[n] \/ ~alive[n]
  BY DEF LeaseExpires, Unkept, TenureInv, LeasesKept
<1>3. LeasesKept'
  BY <1>1, <1>2 DEF TenureInv, LeasesKept
<1>4. DeadIsEmpty' /\ StepsByEndpoint' /\ CreatedFirst' /\ ClaimLeaseCurrent'
  BY <1>1 DEF TenureInv, DeadIsEmpty, StepsByEndpoint, CreatedFirst, ClaimLeaseCurrent
<1>5. HolderRecorded'
  <2> SUFFICES ASSUME NEW m \in Nodes, Holding(m)
               PROVE  record' = [owner |-> m, lease |-> lease[m]]
    BY <1>1 DEF HolderRecorded, Holding, Claimer
  <2>1. record = [owner |-> m, lease |-> lease[m]] /\ alive[m]
    BY DEF TenureInv, HolderRecorded, DeadIsEmpty, Holding, Claimer
  <2>2. record # [owner |-> n, lease |-> l]
    BY <1>2, <2>1
  <2> QED BY <2>1, <2>2 DEF LeaseExpires, Expire
<1>6. OneTenure'
  BY <1>1 DEF TenureInv, OneTenure, Claimer
<1> QED BY <1>3, <1>4, <1>5, <1>6 DEF TenureInv

-----------------------------------------------------------------------------
(* Without a lost lease the recovery does nothing *)

\* A node whose lease is kept recovers from nothing.
LEMMA NothingRecovers ==
  ASSUME MaxLapses = 0, TypeOK, TenureInv, NEW n \in Nodes
  PROVE  ~KeepaliveLost(n) /\ ~LeaseLapses(n) /\ ~Recover(n)
<1>1. lapses = 0
  BY DEF TypeOK
<1>2. ~KeepaliveLost(n) /\ ~LeaseLapses(n)
  BY <1>1 DEF KeepaliveLost, LeaseLapses, CountLapse
<1>3. ~Recover(n)
  BY DEF Recover, KeepaliveEnds, Regrant, PutNode, StartKeepalive, TenureInv, LeasesKept
<1> QED BY <1>2, <1>3

\* No step begins to restore anything.
LEMMA NothingRestored ==
  ASSUME MaxLapses = 0, TypeOK, TenureInv, NothingToRestore, [Next]_vars
  PROVE  NothingToRestore'
<1>1. CASE \E n \in Nodes : Crash(n)
  BY <1>1 DEF Crash, NothingToRestore, TypeOK, RestoreTypes
<1>2. CASE restore' = restore
  BY <1>2 DEF NothingToRestore
<1>3. CASE UNCHANGED vars
  BY <1>2, <1>3 DEF vars
<1>4. CASE \E r \in Reqs : Handle(r) \/ WaitExpires(r) \/ \E n \in Nodes : Issue(r, n)
  <2> PICK r \in Reqs : Handle(r) \/ WaitExpires(r) \/ \E n \in Nodes : Issue(r, n)
    BY <1>4
  <2>1. CreateStep(r) => restore' = restore
    BY DEF CreateStep, CreateSpec, CreateRegister, CreateUndo, CreateStore
  <2>2. RouteStep(r) => restore' = restore
    BY DEF RouteStep, RouteLoad, RoutePeek, RouteWoken, LookupOwner, LookupNode
  <2>3. AdoptStep(r) => restore' = restore
    BY DEF AdoptStep, AdoptStart, AdoptWoken, AdoptLoad, ClaimLease, ClaimCommit,
           AdoptHistory, AdoptUnclaim, AdoptStore, AdoptLost
  <2>4. ServeStep(r) => restore' = restore
    BY DEF ServeStep, Serve, DeleteUnmap, DeleteUnregister, DeleteSpec
  <2>5. (WaitExpires(r) \/ \E n \in Nodes : Issue(r, n)) => restore' = restore
    BY DEF WaitExpires, Issue
  <2> QED BY <1>2, <2>1, <2>2, <2>3, <2>4, <2>5 DEF Handle
<1>5. CASE \E n \in Nodes : NodeStep(n)
  <2> PICK n \in Nodes : NodeStep(n)
    BY <1>5
  <2>1. Crash(n) \/ restore' = restore
    BY NothingRecovers DEF NodeStep, Evict, EvictUnmap, EvictUnregister, Restart
  <2> QED BY <1>1, <1>2, <2>1
<1>6. CASE \E n \in Nodes, l \in Leases : LeaseExpires(n, l)
  BY <1>2, <1>6 DEF LeaseExpires, Expire
<1>7. ~ \E n \in Nodes, l \in Leases : Restore(n, l)
  BY DEF NothingToRestore, Restore, Reregister, ReregisterPut
<1> QED BY <1>3, <1>4, <1>5, <1>6, <1>7 DEF Next

-----------------------------------------------------------------------------
(* The theorems about who serves *)

\* The initial cluster.
LEMMA TenureInit == Init => TenureInv /\ NothingToRestore
<1> SUFFICES ASSUME Init PROVE TenureInv /\ NothingToRestore
  OBVIOUS
<1>4. NothingToRestore
  BY DEF Init, NothingToRestore
<1>1. LeasesKept /\ DeadIsEmpty
  BY DEF Init, LeasesKept, DeadIsEmpty
<1>2. StepsByEndpoint /\ CreatedFirst /\ ClaimLeaseCurrent
  BY DEF Init, StepsByEndpoint, CreatedFirst, ClaimLeaseCurrent
<1>3. HolderRecorded /\ OneTenure
  BY DEF Init, HolderRecorded, OneTenure, Holding, Claimer
<1> QED BY <1>1, <1>2, <1>3, <1>4 DEF TenureInv

\* Every step keeps the tenures apart.
LEMMA TenureStep ==
  ASSUME Deletes = {}, MaxLapses = 0
  PROVE  TypeOK /\ TenureInv /\ NothingToRestore /\ [Next]_vars
           => TenureInv' /\ NothingToRestore'
<1> SUFFICES ASSUME TypeOK, TenureInv, NothingToRestore, [Next]_vars PROVE TenureInv'
  BY NothingRestored
<1>1. CASE UNCHANGED vars
  <2>1. /\ UNCHANGED <<alive, sess, evicting, lease, live, watcher, record, created>>
        /\ UNCHANGED <<pc, at, lid>>
    BY <1>1 DEF vars
  <2>2. LeasesKept' /\ DeadIsEmpty'
    BY <2>1 DEF TenureInv, LeasesKept, DeadIsEmpty
  <2>3. StepsByEndpoint' /\ CreatedFirst' /\ ClaimLeaseCurrent'
    BY <2>1 DEF TenureInv, StepsByEndpoint, CreatedFirst, ClaimLeaseCurrent
  <2>4. HolderRecorded' /\ OneTenure'
    BY <2>1 DEF TenureInv, HolderRecorded, OneTenure, Holding, Claimer
  <2> QED BY <2>2, <2>3, <2>4 DEF TenureInv
<1>2. CASE \E r \in Reqs : Handle(r) \/ WaitExpires(r)
  <2> PICK r \in Reqs : Handle(r) \/ WaitExpires(r)
    BY <1>2
  <2>1. CASE CreateStep(r)
    BY <2>1, CreateKeeps
  <2>2. CASE RouteStep(r)
    BY <2>2, RouteKeeps
  <2>3. CASE AdoptStep(r) \/ WaitExpires(r)
    BY <2>3, AdoptQuiet, ClaimKeeps, UnclaimKeeps, StoreKeeps DEF AdoptStep
  <2>4. CASE ServeStep(r)
    BY <2>4, ServeKeeps
  <2> QED BY <2>1, <2>2, <2>3, <2>4 DEF Handle
<1>3. CASE \E r \in Reqs, n \in Nodes : Issue(r, n)
  BY <1>3, IssueKeeps
<1>4. CASE \E n \in Nodes : NodeStep(n)
  <2> PICK n \in Nodes : NodeStep(n)
    BY <1>4
  <2> QED BY NothingRecovers, EvictUnmapKeeps, EvictUnregisterKeeps, CrashKeeps, RestartKeeps
          DEF NodeStep, Evict
<1>5. CASE \E n \in Nodes, l \in Leases : LeaseExpires(n, l)
  BY <1>5, ExpireKeeps
<1>6. ~ \E n \in Nodes, l \in Leases : Restore(n, l)
  BY DEF NothingToRestore, Restore, Reregister, ReregisterPut
<1> QED BY <1>1, <1>2, <1>3, <1>4, <1>5, <1>6 DEF Next

\* The inductive invariant gives both properties.
LEMMA ServingIsRecorded ==
  ASSUME TypeOK, TenureInv PROVE OneServer /\ RecordNamesServer
<1>1. \A n \in Nodes : Serving(n) => Holding(n) /\ alive[n]
  BY DEF Serving, Holding, TenureInv, DeadIsEmpty, Claimer
<1>2. RecordNamesServer
  BY <1>1 DEF RecordNamesServer, TenureInv, HolderRecorded, LeasesKept
<1>3. OneServer
  BY <1>1 DEF OneServer, TenureInv, HolderRecorded
<1> QED BY <1>2, <1>3

\* In a cluster of any size whose nodes crash, restart, evict and adopt, and
\* whose calls fail, at most one node serves the session, provided no
\* keepalive is lost and nobody deletes it.
THEOREM AtMostOneServer ==
  ASSUME Deletes = {}, MaxLapses = 0
  PROVE  Spec => []OneServer
<1>1. Init => TypeOK /\ TenureInv /\ NothingToRestore
  BY TypesInit, TenureInit
<1>2. TypeOK /\ TenureInv /\ NothingToRestore /\ [Next]_vars
        => TypeOK' /\ TenureInv' /\ NothingToRestore'
  BY TypesStep, TenureStep
<1>3. TypeOK /\ TenureInv => OneServer
  BY ServingIsRecorded
<1> QED BY <1>1, <1>2, <1>3, PTL DEF Spec

\* Under the same conditions etcd names the node that serves, under a lease it
\* keeps, so every lookup finds the way to it.
THEOREM ServerIsRecorded ==
  ASSUME Deletes = {}, MaxLapses = 0
  PROVE  Spec => []RecordNamesServer
<1>1. Init => TypeOK /\ TenureInv /\ NothingToRestore
  BY TypesInit, TenureInit
<1>2. TypeOK /\ TenureInv /\ NothingToRestore /\ [Next]_vars
        => TypeOK' /\ TenureInv' /\ NothingToRestore'
  BY TypesStep, TenureStep
<1>3. TypeOK /\ TenureInv => RecordNamesServer
  BY ServingIsRecorded
<1> QED BY <1>1, <1>2, <1>3, PTL DEF Spec

\* The two together: at most one node serves the session, and etcd names it
\* (adoptSession, RegisterSession, UnregisterSession).
THEOREM RecordedServer ==
  ASSUME Deletes = {}, MaxLapses = 0
  PROVE  Spec => []ServerIsTheRecorded
<1>1. OneServer /\ RecordNamesServer => ServerIsTheRecorded
  BY DEF ServerIsTheRecorded
<1> QED BY <1>1, AtMostOneServer, ServerIsRecorded, PTL

\* A record gives way to no record before it names another node: no step of the
\* cluster puts one over that of the node that serves.
LEMMA RecordStays ==
  ASSUME MaxLapses = 0, TypeOK, TenureInv, NothingToRestore, NEW n \in Nodes, Serving(n),
         Next
  PROVE  record' \in {record, NoRecord}
<1>1. record = [owner |-> n, lease |-> lease[n]] /\ record # NoRecord
  BY ServingIsRecorded DEF RecordNamesServer, NoRecord
<1>2. CASE \E r \in Reqs : CreateStep(r)
  <2> PICK r \in Reqs : CreateStep(r)
    BY <1>2
  <2>1. CASE CreateRegister(r)
    <3>1. r \in Creates /\ pc[r] = "register"
      BY <2>1 DEF CreateRegister, TenureInv, StepsByEndpoint
    <3>2. ~created
      BY <3>1 DEF TenureInv, CreatedFirst
    <3>3. ~Serving(n)
      BY <3>1, <3>2 DEF TenureInv, CreatedFirst, Serving, Claimer
    <3> QED BY <3>3
  <2> QED BY <2>1 DEF CreateStep, CreateSpec, CreateUndo, CreateStore
<1>3. CASE \E r \in Reqs : RouteStep(r) \/ WaitExpires(r) \/ \E m \in Nodes : Issue(r, m)
  BY <1>3 DEF RouteStep, RouteLoad, RoutePeek, RouteWoken, LookupOwner, LookupNode,
              WaitExpires, Issue
<1>4. CASE \E r \in Reqs : AdoptStep(r)
  BY <1>1, <1>4 DEF AdoptStep, AdoptStart, AdoptWoken, AdoptLoad, ClaimLease,
     ClaimCommit, AdoptHistory, AdoptUnclaim, AdoptStore, AdoptLost, Unregister
<1>5. CASE \E r \in Reqs : ServeStep(r)
  BY <1>5 DEF ServeStep, Serve, DeleteUnmap, DeleteUnregister, DeleteSpec, Unregister
<1>6. CASE \E m \in Nodes : NodeStep(m)
  <2> PICK m \in Nodes : NodeStep(m)
    BY <1>6
  <2> QED BY NothingRecovers DEF NodeStep, Evict, EvictUnmap, EvictUnregister, Crash,
                                 Restart, Unregister
<1>7. CASE \E m \in Nodes, l \in Leases : LeaseExpires(m, l)
  BY <1>7 DEF LeaseExpires, Expire
<1>8. ~ \E m \in Nodes, l \in Leases : Restore(m, l)
  BY DEF NothingToRestore, Restore, Reregister, ReregisterPut
<1> QED BY <1>2, <1>3, <1>4, <1>5, <1>6, <1>7, <1>8 DEF Next, Handle

\* A step changes the server as Tenure allows, or not at all.
LEMMA TenurePasses ==
  ASSUME MaxLapses = 0, TypeOK, TenureInv, NothingToRestore, OneServer',
         RecordNamesServer', [Next]_vars
  PROVE  [Abstract!Next]_server
<1>1. \A n \in Nodes : Serving(n) => server = n
  BY ServingIsRecorded DEF OneServer, server
<1>2. \A n \in Nodes : Serving(n)' => server' = n
  BY DEF OneServer, server
<1>3. (\A n \in Nodes : ~Serving(n)) => server = NoNode
  BY DEF server
<1>4. (\A n \in Nodes : ~Serving(n)') => server' = NoNode
  BY DEF server
<1>5. CASE UNCHANGED vars
  <2>1. \A n \in Nodes : Serving(n)' <=> Serving(n)
    BY <1>5 DEF vars, Serving, Claimer
  <2> QED BY <1>1, <1>2, <1>3, <1>4, <2>1
<1>6. CASE Next
  <2>1. CASE \A n \in Nodes : ~Serving(n)
    BY <1>2, <1>3, <1>4, <2>1 DEF Abstract!Next, Abstract!Take
  <2>2. CASE \E n \in Nodes : Serving(n)
    <3> PICK n \in Nodes : Serving(n)
      BY <2>2
    <3>1. record' \in {record, NoRecord} /\ record.owner = n
      BY <1>6, RecordStays, ServingIsRecorded DEF RecordNamesServer
    <3>2. \A m \in Nodes : Serving(m)' => m = n
      <4> SUFFICES ASSUME NEW m \in Nodes, Serving(m)' PROVE m = n
        OBVIOUS
      <4>1. record'.owner = m
        BY DEF RecordNamesServer
      <4> QED BY <3>1, <4>1 DEF NoRecord
    <3>3. server = n /\ server \in Nodes
      BY <1>1
    <3>4. CASE \E m \in Nodes : Serving(m)'
      BY <1>2, <3>2, <3>3, <3>4
    <3>5. CASE \A m \in Nodes : ~Serving(m)'
      BY <1>4, <3>3, <3>5 DEF Abstract!Next, Abstract!Leave
    <3> QED BY <3>4, <3>5
  <2> QED BY <2>1, <2>2
<1> QED BY <1>5, <1>6

\* Under the same conditions the session changes hands only by passing through
\* nobody: adoption, eviction, crash and expiry implement Tenure.
THEOREM OwnershipImplementsTenure ==
  ASSUME Deletes = {}, MaxLapses = 0
  PROVE  Spec => TenureSpec
<1>1. Init => TypeOK /\ TenureInv /\ NothingToRestore /\ Abstract!Init
  <2> SUFFICES ASSUME Init PROVE Abstract!Init
    BY TypesInit, TenureInit
  <2>1. \A n \in Nodes : ~Serving(n)
    BY DEF Init, Serving, Claimer
  <2> QED BY <2>1 DEF server, Abstract!Init
<1>2. TypeOK /\ TenureInv /\ NothingToRestore /\ [Next]_vars
        => TypeOK' /\ TenureInv' /\ NothingToRestore'
  BY TypesStep, TenureStep
<1>3. TypeOK /\ TenureInv => OneServer /\ RecordNamesServer
  BY ServingIsRecorded
<1>4. TypeOK /\ TenureInv /\ NothingToRestore /\ OneServer' /\ RecordNamesServer' /\ [Next]_vars
        => [Abstract!Next]_server
  BY TenurePasses
<1> QED BY <1>1, <1>2, <1>3, <1>4, PTL DEF Spec, TenureSpec, Abstract!Spec

-----------------------------------------------------------------------------
(* The node record, whatever lapses and fails *)

\* From its put on, the node record lasts as long as the lease it was put under.
RoutedInv == \A n \in Nodes :
  alive[n] /\ watcher[n] \in {"ok", "keep"} /\ lease[n] \in live[n]
    => nodeRec[n] = lease[n]

\* Leases and node records change only with the node's own steps.
LEMMA RoutedStep == TypeOK /\ RoutedInv /\ [Next]_vars => RoutedInv'
<1> SUFFICES ASSUME TypeOK, RoutedInv, [Next]_vars PROVE RoutedInv'
  OBVIOUS
<1>1. CASE UNCHANGED <<alive, watcher, lease, live, nodeRec>>
  BY <1>1 DEF RoutedInv
<1>2. CASE UNCHANGED vars
  BY <1>1, <1>2 DEF vars
<1>3. CASE \E r \in Reqs : Handle(r) \/ WaitExpires(r) \/ \E n \in Nodes : Issue(r, n)
  <2> PICK r \in Reqs : Handle(r) \/ WaitExpires(r) \/ \E n \in Nodes : Issue(r, n)
    BY <1>3
  <2> DEFINE Same == UNCHANGED <<alive, watcher, lease, live, nodeRec>>
  <2>1. CreateStep(r) => Same
    BY DEF CreateStep, CreateSpec, CreateRegister, CreateUndo, CreateStore
  <2>2. RouteStep(r) => Same
    BY DEF RouteStep, RouteLoad, RoutePeek, RouteWoken, LookupOwner, LookupNode
  <2>3. AdoptStep(r) => Same
    BY DEF AdoptStep, AdoptStart, AdoptWoken, AdoptLoad, ClaimLease, ClaimCommit,
           AdoptHistory, AdoptUnclaim, AdoptStore, AdoptLost, FinishAnswer, FinishGoto,
           Finish
  <2>4. ServeStep(r) => Same
    BY DEF ServeStep, Serve, DeleteUnmap, DeleteUnregister, DeleteSpec
  <2>5. (WaitExpires(r) \/ \E n \in Nodes : Issue(r, n)) => Same
    BY DEF WaitExpires, Issue
  <2> QED BY <1>1, <2>1, <2>2, <2>3, <2>4, <2>5 DEF Handle
<1>4. CASE \E n \in Nodes : NodeStep(n)
  <2> PICK n \in Nodes : NodeStep(n)
    BY <1>4
  <2>1. CASE Evict(n)
    BY <1>1, <2>1 DEF Evict, EvictUnmap, EvictUnregister
  <2>2. CASE Crash(n)
    BY <2>2 DEF Crash, RoutedInv, TypeOK
  <2>3. CASE Restart(n)
    BY <2>3 DEF Restart, RoutedInv, TypeOK
  <2>4. CASE KeepaliveLost(n) \/ KeepaliveEnds(n)
    BY <2>4 DEF KeepaliveLost, KeepaliveEnds, RoutedInv, TypeOK
  <2>5. CASE LeaseLapses(n)
    BY <2>5 DEF LeaseLapses, Expire, RoutedInv, TypeOK
  <2>6. CASE Regrant(n)
    BY <2>6 DEF Regrant, RoutedInv, TypeOK
  <2>7. CASE PutNode(n)
    BY <2>7 DEF PutNode, RoutedInv, TypeOK
  <2>8. CASE StartKeepalive(n)
    BY <2>8 DEF StartKeepalive, RoutedInv, TypeOK
  <2> QED BY <2>1, <2>2, <2>3, <2>4, <2>5, <2>6, <2>7, <2>8 DEF NodeStep, Recover
<1>5. CASE \E n \in Nodes, l \in Leases : LeaseExpires(n, l)
  BY <1>5 DEF LeaseExpires, Expire, RoutedInv, TypeOK
<1>6. CASE \E n \in Nodes, l \in Leases : Restore(n, l)
  BY <1>1, <1>6 DEF Restore, Reregister, ReregisterPut
<1> QED BY <1>2, <1>3, <1>4, <1>5, <1>6 DEF Next

\* A node that counts itself registered is found by its peers for as long as
\* etcd holds its lease, however many leases lapse and whichever calls of a
\* registration fail (RegisterNode).
THEOREM RegisteredIsRouted == Spec => []NodeIsRouted
<1>1. Init => RoutedInv
  BY DEF Init, RoutedInv
<1>2. RoutedInv => NodeIsRouted
  BY DEF RoutedInv, NodeIsRouted, Routed
<1> QED BY <1>1, <1>2, RoutedStep, TypeCorrect, PTL DEF Spec

=============================================================================

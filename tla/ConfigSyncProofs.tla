-------------------------- MODULE ConfigSyncProofs --------------------------
(***************************************************************************)
(* For any replicas, settings and requests: a replica that serves from an  *)
(* outdated snapshot has something on its way that will put it right, and  *)
(* no client outlives the snapshots it was built from.                     *)
(*                                                                         *)
(* StaleIsOwed is not inductive.  A refresh in hand counts only if what it *)
(* read is still the row (ReadsAreRows), a lost subscription only because  *)
(* it had been one (FirstIsFirst), and a replica starts to serve owing     *)
(* what its lifespan could not load (LoadedOrLost).  ClientsFollowCache    *)
(* needs that a client is built from its own snapshots alone.              *)
(***************************************************************************)
EXTENDS ConfigSync, TLAPS

\* A replica that does not serve has nothing in memory but snapshots.
NothingYet ==
    /\ \A r \in Replicas :
          phase[r] # "serving" =>
             /\ virgin[r] /\ listener[r] = Started
             /\ \A t \in Tasks : work[r][t] = Idle
             /\ \A c \in Clients : client[r][c] = NotBuilt
    /\ \A q \in Requests : \A r \in Replicas : request[q].home = r => phase[r] = "serving"

\* The first subscription is the first, and an idle task has read nothing.
FirstIsFirst ==
    \A r \in Replicas :
       /\ virgin[r] => listener[r].link = "down"
       /\ phase[r] = "serving" => toLoad[r] = <<>>
       /\ \A t \in Tasks : work[r][t].todo = <<>> => work[r][t].read = Unloaded

\* What a task or a request has read is no newer than the row, and is the row if
\* it is as new.
IsOf(read, s) ==
    /\ read.ver <= row[s].ver
    /\ read.ver = row[s].ver => read = row[s]
ReadsAreRows ==
    /\ \A s \in Scopes : row[s].ver <= saves
    /\ \A r \in Replicas, t \in Tasks :
          work[r][t].read # Unloaded => IsOf(work[r][t].read, work[r][t].todo[1])
    /\ \A q \in Requests :
          request[q].stage = "reloaded" => IsOf(request[q].read, request[q].scope)

\* While the lifespan loads, what is outdated is still to be loaded, or lost.
LoadedOrLost ==
    \A r \in Replicas, s \in Scopes :
       phase[r] = "loading" /\ Stale(r, s) =>
          \/ \E i \in DOMAIN toLoad[r] : toLoad[r][i] = s
          \/ s \in missed[r]
          \/ s = "oidc" /\ ~Valid(s, row[s])

\* A client is built from the snapshots it depends on, and no others.
BuiltFromTheirOwn ==
    \A r \in Replicas : \A c \in Clients : \A entry \in client[r][c] : entry[1] \in BuiltFrom(c)

Inv == /\ TypeOK /\ NothingYet /\ FirstIsFirst /\ ReadsAreRows /\ LoadedOrLost
       /\ StaleIsOwed /\ ClientsFollowCache /\ BuiltFromTheirOwn

-----------------------------------------------------------------------------
(* The order in which the lifespan loads.                                  *)

\* Two lists of scopes end to end hold what each of them held.
LEMMA Joined ==
    \A a, b \in Seq(Scopes) :
       /\ a \o b \in Seq(Scopes)
       /\ \A i \in DOMAIN a : \E k \in DOMAIN (a \o b) : (a \o b)[k] = a[i]
       /\ \A i \in DOMAIN b : \E k \in DOMAIN (a \o b) : (a \o b)[k] = b[i]
<1> SUFFICES ASSUME NEW a \in Seq(Scopes), NEW b \in Seq(Scopes)
             PROVE  /\ a \o b \in Seq(Scopes)
                    /\ \A i \in DOMAIN a : \E k \in DOMAIN (a \o b) : (a \o b)[k] = a[i]
                    /\ \A i \in DOMAIN b : \E k \in DOMAIN (a \o b) : (a \o b)[k] = b[i]
  OBVIOUS
<1>1. a \o b \in Seq(Scopes) /\ Len(a \o b) = Len(a) + Len(b)
  OBVIOUS
<1>2. \A i \in 1..Len(a) : (a \o b)[i] = a[i] /\ i \in 1..Len(a \o b)
  BY <1>1
<1>3. \A i \in 1..Len(b) : (a \o b)[i + Len(a)] = b[i] /\ i + Len(a) \in 1..Len(a \o b)
  BY <1>1
<1>4. DOMAIN a = 1..Len(a) /\ DOMAIN b = 1..Len(b) /\ DOMAIN (a \o b) = 1..Len(a \o b)
  BY <1>1
<1> QED
  BY <1>1, <1>2, <1>3, <1>4

\* Every scope there is gets loaded.
LEMMA LoadOrderIsAll ==
    /\ LoadOrder \in Seq(Scopes)
    /\ \A s \in Scopes : \E i \in DOMAIN LoadOrder : LoadOrder[i] = s
<1> DEFINE Has(l, s) == \E i \in DOMAIN l : l[i] = s
           L1 == Loads("proxy")
           L2 == L1 \o Loads("siem")
           L3 == L2 \o Loads("email")
           L4 == L3 \o Loads("general")
           L5 == L4 \o Loads("llm")
           L6 == L5 \o Loads("oidc")
<1>1. \A s : Loads(s) \in Seq(Scopes) /\ (s \in Scopes => Has(Loads(s), s))
  <2> TAKE s
  <2>1. CASE s \in Scopes
    <3>1. Loads(s) = <<s>>
      BY <2>1 DEF Loads
    <3>2. <<s>> \in Seq(Scopes) /\ 1 \in DOMAIN <<s>> /\ <<s>>[1] = s
      BY <2>1
    <3> QED
      BY <3>1, <3>2
  <2>2. CASE s \notin Scopes
    BY <2>2 DEF Loads
  <2> QED
    BY <2>1, <2>2
<1>2. \A l, m \in Seq(Scopes) : /\ l \o m \in Seq(Scopes)
                                /\ \A s : Has(l, s) \/ Has(m, s) => Has(l \o m, s)
  <2> SUFFICES ASSUME NEW l \in Seq(Scopes), NEW m \in Seq(Scopes)
               PROVE  /\ l \o m \in Seq(Scopes)
                      /\ \A s : Has(l, s) \/ Has(m, s) => Has(l \o m, s)
    OBVIOUS
  <2>1. /\ l \o m \in Seq(Scopes)
        /\ \A i \in DOMAIN l : \E k \in DOMAIN (l \o m) : (l \o m)[k] = l[i]
        /\ \A i \in DOMAIN m : \E k \in DOMAIN (l \o m) : (l \o m)[k] = m[i]
    BY Joined
  <2>2. ASSUME NEW s, Has(l, s) \/ Has(m, s) PROVE Has(l \o m, s)
    BY <2>1, <2>2, Zenon
  <2> QED
    BY <2>1, <2>2
<1> HIDE DEF Has
<1>3. L6 \in Seq(Scopes) /\ \A s \in Scopes : s \in AllScopes => Has(L6, s)
  <2>1. L1 \in Seq(Scopes) /\ \A s \in Scopes : s \in {"proxy"} => Has(L1, s)
    BY <1>1
  <2> HIDE DEF L1
  <2>2. L2 \in Seq(Scopes) /\ \A s \in Scopes : s \in {"proxy", "siem"} => Has(L2, s)
    BY <1>1, <1>2, <2>1
  <2> HIDE DEF L2
  <2>3. L3 \in Seq(Scopes) /\ \A s \in Scopes : s \in {"proxy", "siem", "email"} => Has(L3, s)
    BY <1>1, <1>2, <2>2
  <2> HIDE DEF L3
  <2>4. /\ L4 \in Seq(Scopes)
        /\ \A s \in Scopes : s \in {"proxy", "siem", "email", "general"} => Has(L4, s)
    BY <1>1, <1>2, <2>3
  <2> HIDE DEF L4
  <2>5. /\ L5 \in Seq(Scopes)
        /\ \A s \in Scopes : s \in {"proxy", "siem", "email", "general", "llm"} => Has(L5, s)
    BY <1>1, <1>2, <2>4
  <2> HIDE DEF L5
  <2> QED
    BY <1>1, <1>2, <2>5 DEF AllScopes
<1>4. LoadOrder = L6
  BY DEF LoadOrder
<1> QED
  BY <1>3, <1>4, ScopesAssumption DEF Has

-----------------------------------------------------------------------------
(* Types.                                                                  *)

\* What a refresh installs is a snapshot.
LEMMA RowTypes ==
    /\ Unloaded \notin Rows
    /\ \A s : \A r \in Rows, old \in Snapshots : Refreshed(s, r, old) \in Snapshots
<1>1. Unloaded \notin Rows
  BY UnloadedAssumption
<1>2. ASSUME NEW s, NEW r \in Rows, NEW old \in Snapshots
      PROVE  Refreshed(s, r, old) \in Snapshots
  BY DEF Refreshed, Snapshots, Rows
<1> QED
  BY <1>1, <1>2

\* Each operator of a listener gives a listener.
LEMMA ListenerTypes ==
    ASSUME NEW M, NEW l \in ListenerOf(M)
    PROVE  /\ Broken(l) \in ListenerOf(M) /\ Closed(l) \in ListenerOf(M)
           /\ Subscribed(l) \in ListenerOf(M) /\ Started \in ListenerOf(M)
           /\ \A m \in M : Notified(l, m) \in ListenerOf(M)
           /\ l.wire # <<>> => Head(l.wire) \in M /\ OnNotify(l) \in ListenerOf(M)
           /\ l.queue # <<>> => Head(l.queue) \in M /\ Taken(l) \in ListenerOf(M)
<1> USE DEF ListenerOf, Links
<1>1. Broken(l) \in ListenerOf(M) /\ Closed(l) \in ListenerOf(M)
  <2>1. [l EXCEPT !.link = "down"] \in ListenerOf(M)
    OBVIOUS
  <2>2. [l EXCEPT !.link = "broken"] \in ListenerOf(M) /\ <<>> \in Seq(M)
    OBVIOUS
  <2>3. [[l EXCEPT !.link = "broken"] EXCEPT !.wire = <<>>] \in ListenerOf(M)
    BY <2>2
  <2> QED
    BY <2>1, <2>3 DEF Broken, Closed
<1>2. Subscribed(l) \in ListenerOf(M) /\ Started \in ListenerOf(M)
  BY DEF Subscribed, Started
<1>3. ASSUME NEW m \in M PROVE Notified(l, m) \in ListenerOf(M)
  <2>1. Append(l.wire, m) \in Seq(M)
    OBVIOUS
  <2> QED
    BY <2>1 DEF Notified
<1>4. ASSUME l.wire # <<>> PROVE Head(l.wire) \in M /\ OnNotify(l) \in ListenerOf(M)
  <2>1. Head(l.wire) \in M /\ Tail(l.wire) \in Seq(M)
    BY <1>4
  <2>2. Append(l.queue, Head(l.wire)) \in Seq(M)
    BY <2>1
  <2> QED
    BY <2>1, <2>2 DEF OnNotify
<1>5. ASSUME l.queue # <<>> PROVE Head(l.queue) \in M /\ Taken(l) \in ListenerOf(M)
  <2>1. Head(l.queue) \in M /\ Tail(l.queue) \in Seq(M)
    BY <1>5
  <2> QED
    BY <2>1 DEF Taken
<1> QED
  BY <1>1, <1>2, <1>3, <1>4, <1>5

Work == [todo : Seq(Scopes), read : Snapshots]
\* A refresher's work stays one when a part of it moves on.
LEMMA WorkTypes ==
    ASSUME NEW w \in Work
    PROVE  /\ \A x \in Seq(Scopes) : [w EXCEPT !.todo = x] \in Work
           /\ \A x \in Snapshots : [w EXCEPT !.read = x] \in Work
BY DEF Work

\* Rows, caches, clients, listeners and work in progress keep their types.
LEMMA Typed == TypeOK /\ ReadsAreRows /\ [Next]_vars => TypeOK'
<1> SUFFICES ASSUME TypeOK, ReadsAreRows, [Next]_vars PROVE TypeOK'
  OBVIOUS
<1>a. row \in [Scopes -> Rows] /\ saves \in 0..MaxSaves
  BY DEF TypeOK
<1>b. cache \in [Replicas -> [Scopes -> Snapshots]] /\ missed \in [Replicas -> SUBSET Scopes]
  BY DEF TypeOK
<1>c. client \in [Replicas -> [Clients -> SUBSET (Scopes \X Snapshots)]]
  BY DEF TypeOK
<1>d. /\ toLoad \in [Replicas -> Seq(Scopes)]
      /\ phase \in [Replicas -> {"off", "loading", "serving"}]
  BY DEF TypeOK
<1>e. listener \in [Replicas -> ListenerOf(Scopes)] /\ virgin \in [Replicas -> BOOLEAN]
  BY DEF TypeOK
<1>f. work \in [Replicas -> [Tasks -> Work]]
  BY DEF TypeOK, Work
<1>g. request \in [Requests -> RequestStates]
  BY DEF TypeOK
<1>1. ASSUME NEW r \in Replicas, Boot(r) PROVE TypeOK'
  BY <1>1, LoadOrderIsAll DEF Boot, TypeOK
<1>2. ASSUME NEW r \in Replicas, Load(r) PROVE TypeOK'
  <2> DEFINE s == Head(toLoad[r])
  <2>1. s \in Scopes /\ Tail(toLoad[r]) \in Seq(Scopes)
    BY <1>2, <1>d DEF Load
  <2>2. Refreshed(s, row[s], Unloaded) \in Snapshots
    BY <2>1, <1>a, RowTypes DEF Snapshots
  <2> HIDE DEF s
  <2>3. /\ \/ /\ cache' = [cache EXCEPT ![r][s] = Refreshed(s, row[s], Unloaded)]
              /\ missed' = missed
           \/ /\ breaks < MaxBreaks
              /\ missed' = [missed EXCEPT ![r] = @ \cup {s}] /\ cache' = cache
        /\ breaks' = IF missed' = missed THEN breaks ELSE breaks + 1
        /\ toLoad' = [toLoad EXCEPT ![r] = Tail(@)]
    BY <1>2 DEF Load, s
  <2>4. cache' \in [Replicas -> [Scopes -> Snapshots]]
    <3>1. cache[r] \in [Scopes -> Snapshots]
      BY <1>b
    <3> DEFINE new == Refreshed(s, row[s], Unloaded)
    <3> HIDE DEF new
    <3>2. [cache[r] EXCEPT ![s] = new] \in [Scopes -> Snapshots]
      BY <2>2, <3>1 DEF new
    <3>3. cache' = cache \/ cache' = [cache EXCEPT ![r] = [cache[r] EXCEPT ![s] = new]]
      BY <2>3 DEF new
    <3> QED
      BY <1>b, <3>2, <3>3
  <2>5. missed' \in [Replicas -> SUBSET Scopes]
    BY <2>1, <2>3, <1>b
  <2>6. breaks' \in 0..MaxBreaks
    BY <2>3, BoundsAssumption DEF TypeOK
  <2>7. toLoad' \in [Replicas -> Seq(Scopes)]
    BY <2>1, <2>3, <1>d
  <2> QED
    BY <1>2, <2>4, <2>5, <2>6, <2>7 DEF Load, TypeOK
<1>3. ASSUME NEW r \in Replicas, Serve(r) PROVE TypeOK'
  <2>1. \A c \in Clients :
           {<<s, cache[r][s]>> : s \in BuiltFrom(c)} \in SUBSET (Scopes \X Snapshots)
    BY <1>b DEF BuiltFrom
  <2>2. client' \in [Replicas -> [Clients -> SUBSET (Scopes \X Snapshots)]]
    BY <1>3, <1>c, <2>1 DEF Serve
  <2> QED
    BY <1>3, <2>2 DEF Serve, TypeOK
<1>4. ASSUME NEW r \in Replicas, Crash(r) PROVE TypeOK'
  <2>1. /\ [s \in Scopes |-> Unloaded] \in [Scopes -> Snapshots]
        /\ [t \in Tasks |-> Idle] \in [Tasks -> Work]
        /\ [c \in Clients |-> NotBuilt] \in [Clients -> SUBSET (Scopes \X Snapshots)]
    BY DEF Idle, Snapshots, NotBuilt, Work
  <2>2. Started \in ListenerOf(Scopes)
    BY <1>e, ListenerTypes
  <2>3. request' \in [Requests -> RequestStates]
    BY <1>4, <1>g DEF Crash, RequestStates
  <2>4. /\ listener' \in [Replicas -> ListenerOf(Scopes)]
        /\ work' \in [Replicas -> [Tasks -> Work]]
    BY <1>4, <1>e, <1>f, <2>1, <2>2 DEF Crash
  <2>5. /\ cache' \in [Replicas -> [Scopes -> Snapshots]]
        /\ client' \in [Replicas -> [Clients -> SUBSET (Scopes \X Snapshots)]]
    BY <1>4, <1>b, <1>c, <2>1 DEF Crash
  <2>6. toLoad' \in [Replicas -> Seq(Scopes)] /\ missed' \in [Replicas -> SUBSET Scopes]
    BY <1>4, <1>d, <1>b DEF Crash
  <2>7. /\ phase' \in [Replicas -> {"off", "loading", "serving"}]
        /\ virgin' \in [Replicas -> BOOLEAN] /\ peeked' \in [Replicas -> BOOLEAN]
        /\ crashes' \in 0..MaxCrashes
    BY <1>4, <1>d, <1>e, BoundsAssumption DEF Crash, TypeOK
  <2> QED
    BY <1>4, <2>3, <2>4, <2>5, <2>6, <2>7 DEF Crash, TypeOK, Work
<1>5. ASSUME NEW q \in Requests, NEW home \in Homes, NEW patch \in Patches,
             SaveRead(q, home, patch)
      PROVE  TypeOK'
  <2>1. [stage |-> "read", home |-> home, patch |-> patch] \in RequestStates
    BY DEF RequestStates
  <2> QED
    BY <1>5, <1>g, <2>1 DEF SaveRead, TypeOK
<1>6. ASSUME NEW q \in Requests, SaveCommit(q) PROVE TypeOK'
  <2> DEFINE s == request[q].patch.scope
  <2>1. request[q] \in [stage : {"read"}, home : Homes, patch : Patches]
    BY <1>6, <1>g DEF SaveCommit, RequestStates, Unsent
  <2>2. request[q].home \in Homes /\ request[q].patch \in Patches /\ s \in Scopes
    BY <2>1, PatchesAssumption
  <2>3. row[s].ver + 1 \in 0..MaxSaves /\ saves + 1 \in 0..MaxSaves
    BY <1>6, <1>a, <2>2, BoundsAssumption DEF SaveCommit, ReadsAreRows, Rows
  <2>4. row' \in [Scopes -> Rows]
    <3>1. Patched(row[s], request[q].patch) \in Rows
      BY <1>a, <2>2, <2>3, PatchesAssumption DEF Patched, Rows
    <3>2. row' = [row EXCEPT ![s] = Patched(row[s], request[q].patch)]
      BY <1>6 DEF SaveCommit
    <3> QED
      BY <1>a, <2>2, <3>1, <3>2
  <2>5. listener' \in [Replicas -> ListenerOf(Scopes)]
    <3>1. \A r \in Replicas : Notified(listener[r], s) \in ListenerOf(Scopes)
      BY <1>e, <2>2, ListenerTypes
    <3> QED
      BY <1>6, <3>1 DEF SaveCommit
  <2>6. request' \in [Requests -> RequestStates]
    <3>1. (IF request[q].home = Elsewhere THEN Unsent
           ELSE [stage |-> "committed", home |-> request[q].home, scope |-> s])
             \in RequestStates
      BY <2>2 DEF RequestStates, Homes
    <3> QED
      BY <1>6, <1>g, <3>1 DEF SaveCommit
  <2>7. missed' \in [Replicas -> SUBSET Scopes]
    BY <1>6, <1>b, <2>2 DEF SaveCommit
  <2> QED
    BY <1>6, <2>3, <2>4, <2>5, <2>6, <2>7 DEF SaveCommit, TypeOK
<1>7. ASSUME NEW q \in Requests, SaveReload(q) PROVE TypeOK'
  <2>1. request[q] \in [stage : {"committed"}, home : Replicas, scope : Scopes]
    BY <1>7, <1>g DEF SaveReload, RequestStates, Unsent
  <2>2. [stage |-> "reloaded", home |-> request[q].home, scope |-> request[q].scope,
         read |-> row[request[q].scope]] \in RequestStates
    BY <1>a, <2>1 DEF RequestStates
  <2> QED
    BY <1>7, <1>g, <2>2 DEF SaveReload, TypeOK
<1>8. ASSUME NEW q \in Requests, SaveInstall(q) PROVE TypeOK'
  <2>1. request[q] \in [stage : {"reloaded"}, home : Replicas, scope : Scopes, read : Rows]
    BY <1>8, <1>g DEF SaveInstall, RequestStates, Unsent
  <2>2. /\ cache' \in [Replicas -> [Scopes -> Snapshots]]
        /\ missed' \in [Replicas -> SUBSET Scopes]
    BY <1>8, <1>b, <2>1 DEF SaveInstall, Assign, Snapshots
  <2>3. client' \in [Replicas -> [Clients -> SUBSET (Scopes \X Snapshots)]]
    BY <1>8, <1>c, <2>1 DEF SaveInstall, Reset, NotBuilt
  <2>4. request' \in [Requests -> RequestStates]
    BY <1>8, <1>g DEF SaveInstall, RequestStates
  <2>5. peeked' \in [Replicas -> BOOLEAN]
    BY <1>8 DEF SaveInstall, TypeOK
  <2> QED
    BY <1>8, <2>2, <2>3, <2>4, <2>5 DEF SaveInstall, TypeOK
<1>9. ASSUME NEW r \in Replicas, Arrive(r) PROVE TypeOK'
  <2>1. Head(listener[r].wire) \in Scopes /\ OnNotify(listener[r]) \in ListenerOf(Scopes)
    BY <1>9, <1>e, ListenerTypes DEF Arrive
  <2>2. /\ listener' \in [Replicas -> ListenerOf(Scopes)]
        /\ missed' \in [Replicas -> SUBSET Scopes]
    BY <1>9, <1>b, <1>e, <2>1 DEF Arrive
  <2> QED
    BY <1>9, <2>2 DEF Arrive, TypeOK
<1>10. ASSUME NEW r \in Replicas, Consume(r) PROVE TypeOK'
  <2>1. Head(listener[r].queue) \in Scopes /\ Taken(listener[r]) \in ListenerOf(Scopes)
    BY <1>10, <1>e, ListenerTypes DEF Consume
  <2>2. [work[r]["consumer"] EXCEPT !.todo = <<Head(listener[r].queue)>>] \in Work
    <3>1. work[r]["consumer"] \in Work /\ <<Head(listener[r].queue)>> \in Seq(Scopes)
      BY <1>f, <2>1 DEF Tasks
    <3> QED
      BY <3>1, WorkTypes
  <2>3. work' \in [Replicas -> [Tasks -> Work]]
    BY <1>10, <1>f, <2>2 DEF Consume
  <2>4. listener' \in [Replicas -> ListenerOf(Scopes)]
    BY <1>10, <1>e, <2>1 DEF Consume
  <2> QED
    BY <1>10, <2>3, <2>4 DEF Consume, TypeOK, Work
<1>11. ASSUME NEW r \in Replicas, Break(r) PROVE TypeOK'
  <2>1. listener' \in [Replicas -> ListenerOf(Scopes)]
    BY <1>11, <1>e, ListenerTypes DEF Break
  <2> QED
    BY <1>11, <2>1, BoundsAssumption DEF Break, TypeOK
<1>12. ASSUME NEW r \in Replicas, KeepAlive(r) PROVE TypeOK'
  <2>1. listener' \in [Replicas -> ListenerOf(Scopes)]
    BY <1>12, <1>e, ListenerTypes DEF KeepAlive
  <2> QED
    BY <1>12, <2>1 DEF KeepAlive, TypeOK
<1>13. ASSUME NEW r \in Replicas, Connect(r) PROVE TypeOK'
  <2>1. (IF virgin[r] THEN <<>> ELSE LoadOrder) \in Seq(Scopes)
    BY LoadOrderIsAll
  <2>2. [work[r]["hook"] EXCEPT !.todo = IF virgin[r] THEN <<>> ELSE LoadOrder] \in Work
    BY <1>f, <2>1 DEF Work, Tasks
  <2>3. work' \in [Replicas -> [Tasks -> Work]]
    BY <1>13, <1>f, <2>2 DEF Connect
  <2>4. listener' \in [Replicas -> ListenerOf(Scopes)]
    BY <1>13, <1>e, ListenerTypes DEF Connect
  <2> QED
    BY <1>13, <2>3, <2>4 DEF Connect, TypeOK, Work
<1>14. ASSUME NEW r \in Replicas, NEW t \in Tasks, RefreshRead(r, t) PROVE TypeOK'
  <2>1. Head(work[r][t].todo) \in Scopes
    BY <1>14, <1>f DEF RefreshRead, Work
  <2>2. [work[r][t] EXCEPT !.read = row[Head(work[r][t].todo)]] \in Work
    <3>1. work[r][t] \in Work /\ row[Head(work[r][t].todo)] \in Snapshots
      BY <1>a, <1>f, <2>1 DEF Snapshots
    <3> QED
      BY <3>1, WorkTypes
  <2>3. work' \in [Replicas -> [Tasks -> Work]]
    BY <1>14, <1>f, <2>2 DEF RefreshRead
  <2> QED
    BY <1>14, <2>3 DEF RefreshRead, TypeOK, Work
<1>15. ASSUME NEW r \in Replicas, NEW t \in Tasks, RefreshInstall(r, t) PROVE TypeOK'
  <2> DEFINE s == Head(work[r][t].todo)
             new == Refreshed(s, work[r][t].read, cache[r][s])
  <2>1. /\ s \in Scopes /\ Tail(work[r][t].todo) \in Seq(Scopes) /\ work[r][t].read \in Rows
    BY <1>15, <1>f DEF RefreshInstall, Snapshots, Work
  <2>2. new \in Snapshots
    BY <2>1, <1>b, RowTypes
  <2>3. [todo |-> Tail(work[r][t].todo), read |-> Unloaded] \in Work
    BY <2>1 DEF Snapshots, Work
  <2>4. work' \in [Replicas -> [Tasks -> Work]]
    BY <1>15, <1>f, <2>3 DEF RefreshInstall
  <2>5. (cache' = cache /\ missed' = missed) \/ Assign(r, s, new)
    BY <1>15 DEF RefreshInstall
  <2>6. client' = client \/ client' = [client EXCEPT ![r] = Reset(@, s)]
    BY <1>15 DEF RefreshInstall
  <2>7. peeked' = peeked \/ peeked' = [peeked EXCEPT ![r] = FALSE]
    BY <1>15 DEF RefreshInstall
  <2> HIDE DEF s, new
  <2>8. cache' \in [Replicas -> [Scopes -> Snapshots]]
    <3>1. cache[r] \in [Scopes -> Snapshots]
      BY <1>b
    <3>2. [cache[r] EXCEPT ![s] = new] \in [Scopes -> Snapshots]
      BY <2>2, <3>1
    <3>3. cache' = cache \/ cache' = [cache EXCEPT ![r] = [cache[r] EXCEPT ![s] = new]]
      BY <2>5 DEF Assign
    <3> QED
      BY <1>b, <3>2, <3>3
  <2>9. missed' \in [Replicas -> SUBSET Scopes]
    BY <2>1, <2>5, <1>b DEF Assign
  <2>10. client' \in [Replicas -> [Clients -> SUBSET (Scopes \X Snapshots)]]
    BY <2>6, <1>c DEF Reset, NotBuilt
  <2>11. peeked' \in [Replicas -> BOOLEAN]
    BY <2>7 DEF TypeOK
  <2> QED
    BY <1>15, <2>4, <2>8, <2>9, <2>10, <2>11 DEF RefreshInstall, TypeOK, Work
<1>16. ASSUME NEW r \in Replicas, NEW c \in Clients, Use(r, c) PROVE TypeOK'
  <2>1. {<<s, cache[r][s]>> : s \in BuiltFrom(c)} \in SUBSET (Scopes \X Snapshots)
    BY <1>b DEF BuiltFrom
  <2>2. client' \in [Replicas -> [Clients -> SUBSET (Scopes \X Snapshots)]]
    BY <1>16, <1>c, <2>1 DEF Use
  <2> QED
    BY <1>16, <2>2 DEF Use, TypeOK
<1>17. ASSUME NEW r \in Replicas, NEW s \in Scopes, Test(r, s) PROVE TypeOK'
  <2>1. row[s] \in Snapshots
    BY <1>a DEF Snapshots
  <2>2. /\ cache' \in [Replicas -> [Scopes -> Snapshots]]
        /\ missed' \in [Replicas -> SUBSET Scopes]
    BY <1>17, <1>b, <2>1 DEF Test, Assign
  <2>3. peeked' \in [Replicas -> BOOLEAN]
    BY <1>17 DEF Test, TypeOK
  <2> QED
    BY <1>17, <2>2, <2>3 DEF Test, TypeOK
<1>18. CASE UNCHANGED vars
  BY <1>18 DEF vars, TypeOK
<1> QED
  BY <1>1, <1>2, <1>3, <1>4, <1>5, <1>6, <1>7, <1>8, <1>9, <1>10, <1>11, <1>12, <1>13, <1>14,
     <1>15, <1>16, <1>17, <1>18 DEF Next
-----------------------------------------------------------------------------
(* What a replica has in memory.                                           *)

\* A replica that does not serve still has nothing in memory but snapshots.
LEMMA NothingYetStays == Inv /\ [Next]_vars => NothingYet'
<1> SUFFICES ASSUME Inv, [Next]_vars PROVE NothingYet'
  OBVIOUS
<1>a. /\ phase \in [Replicas -> {"off", "loading", "serving"}]
      /\ client \in [Replicas -> [Clients -> SUBSET (Scopes \X Snapshots)]]
      /\ listener \in [Replicas -> ListenerOf(Scopes)]
      /\ virgin \in [Replicas -> BOOLEAN]
      /\ toLoad \in [Replicas -> Seq(Scopes)]
  BY DEF Inv, TypeOK
<1>b. work \in [Replicas -> [Tasks -> Work]]
  BY DEF Inv, TypeOK, Work
<1>c. request \in [Requests -> RequestStates]
  BY DEF Inv, TypeOK
<1>d. NothingYet
  BY DEF Inv
<1>1. ASSUME NEW r \in Replicas, Boot(r) PROVE NothingYet'
  BY <1>1, <1>a, <1>b, <1>c, <1>d DEF Boot, NothingYet
<1>2. ASSUME NEW r \in Replicas, Serve(r) PROVE NothingYet'
  BY <1>2, <1>a, <1>b, <1>c, <1>d DEF Serve, NothingYet
<1>3. ASSUME NEW r \in Replicas, Crash(r) PROVE NothingYet'
  BY <1>3, <1>a, <1>b, <1>c, <1>d, ElsewhereAssumption DEF Crash, NothingYet, Unsent, Clients
<1>4. ASSUME NEW q \in Requests, NEW home \in Homes, NEW patch \in Patches, SaveRead(q, home, patch)
      PROVE  NothingYet'
  BY <1>4, <1>c, <1>d DEF SaveRead, NothingYet, Serving
<1>5. ASSUME NEW q \in Requests, SaveCommit(q) PROVE NothingYet'
  <2>1. request[q] \in [stage : {"read"}, home : Homes, patch : Patches]
    BY <1>5, <1>c DEF SaveCommit, RequestStates, Unsent
  <2>2. \A x \in Replicas : listener[x] = Started => listener'[x] = Started
    BY <1>5 DEF SaveCommit, Notified, Started
  <2>3. \A x \in Requests : request'[x].home = request[x].home
    BY <1>5, <1>c, <2>1 DEF SaveCommit, Unsent
  <2> QED
    BY <1>5, <1>d, <2>2, <2>3 DEF SaveCommit, NothingYet
<1>6. ASSUME NEW q \in Requests, SaveReload(q) PROVE NothingYet'
  BY <1>6, <1>c, <1>d DEF SaveReload, NothingYet
<1>7. ASSUME NEW q \in Requests, SaveInstall(q) PROVE NothingYet'
  <2>1. \A x \in Replicas : request[q].home = x => phase[x] = "serving"
    BY <1>d DEF NothingYet
  <2> QED
    BY <1>7, <1>a, <1>c, <1>d, <2>1, ElsewhereAssumption DEF SaveInstall, NothingYet, Unsent
<1>8. ASSUME NEW r \in Replicas, Arrive(r) PROVE NothingYet'
  <2>1. phase[r] = "serving"
    BY <1>8, <1>a, <1>d DEF Arrive, NothingYet, Started
  <2> QED
    BY <1>8, <1>a, <1>d, <2>1 DEF Arrive, NothingYet
<1>9. ASSUME NEW r \in Replicas, Consume(r) PROVE NothingYet'
  BY <1>9, <1>a, <1>b, <1>c, <1>d DEF Consume, NothingYet
<1>10. ASSUME NEW r \in Replicas, Break(r) PROVE NothingYet'
  <2>1. phase[r] = "serving"
    BY <1>10, <1>a, <1>d DEF Break, NothingYet, Started
  <2> QED
    BY <1>10, <1>a, <1>d, <2>1 DEF Break, NothingYet
<1>11. ASSUME NEW r \in Replicas, KeepAlive(r) PROVE NothingYet'
  <2>1. phase[r] = "serving"
    BY <1>11, <1>a, <1>d DEF KeepAlive, NothingYet, Started
  <2> QED
    BY <1>11, <1>a, <1>d, <2>1 DEF KeepAlive, NothingYet
<1>12. ASSUME NEW r \in Replicas, Connect(r) PROVE NothingYet'
  BY <1>12, <1>a, <1>b, <1>c, <1>d DEF Connect, NothingYet
<1>13. ASSUME NEW r \in Replicas, NEW t \in Tasks, RefreshRead(r, t) PROVE NothingYet'
  <2>1. phase[r] = "serving"
    BY <1>13, <1>a, <1>d DEF RefreshRead, NothingYet, Idle
  <2> QED
    BY <1>13, <1>a, <1>b, <1>d, <2>1 DEF RefreshRead, NothingYet
<1>14. ASSUME NEW r \in Replicas, NEW t \in Tasks, RefreshInstall(r, t) PROVE NothingYet'
  <2>1. phase[r] = "serving"
    BY <1>14, <1>a, <1>d DEF RefreshInstall, NothingYet, Idle
  <2>2. \A x \in Replicas \ {r} : work'[x] = work[x] /\ client'[x] = client[x]
    BY <1>14, <1>a, <1>b DEF RefreshInstall
  <2> QED
    BY <1>14, <1>d, <2>1, <2>2 DEF RefreshInstall, NothingYet
<1>15. ASSUME NEW r \in Replicas, NEW c \in Clients, Use(r, c) PROVE NothingYet'
  BY <1>15, <1>a, <1>b, <1>c, <1>d DEF Use, NothingYet
<1>16. CASE UNCHANGED <<phase, virgin, listener, work, client, request>>
  BY <1>16, <1>a, <1>b, <1>c, <1>d DEF NothingYet
<1> QED
  BY <1>1, <1>2, <1>3, <1>4, <1>5, <1>6, <1>7, <1>8, <1>9, <1>10, <1>11, <1>12, <1>13, <1>14,
     <1>15, <1>16
     DEF Next, vars, Load, Test

\* The first subscription stays the first, and an idle task still has read nothing.
LEMMA FirstIsFirstStays == Inv /\ [Next]_vars => FirstIsFirst'
<1> SUFFICES ASSUME Inv, [Next]_vars PROVE FirstIsFirst'
  OBVIOUS
<1>a. /\ phase \in [Replicas -> {"off", "loading", "serving"}]
      /\ client \in [Replicas -> [Clients -> SUBSET (Scopes \X Snapshots)]]
      /\ listener \in [Replicas -> ListenerOf(Scopes)]
      /\ virgin \in [Replicas -> BOOLEAN]
      /\ toLoad \in [Replicas -> Seq(Scopes)]
  BY DEF Inv, TypeOK
<1>b. work \in [Replicas -> [Tasks -> Work]]
  BY DEF Inv, TypeOK, Work
<1>d. NothingYet
  BY DEF Inv
<1>e. FirstIsFirst
  BY DEF Inv
<1>1. ASSUME NEW r \in Replicas, Boot(r) PROVE FirstIsFirst'
  BY <1>1, <1>a, <1>d, <1>e DEF Boot, FirstIsFirst
<1>2. ASSUME NEW r \in Replicas, Load(r) PROVE FirstIsFirst'
  BY <1>2, <1>a, <1>e DEF Load, FirstIsFirst
<1>3. ASSUME NEW r \in Replicas, Serve(r) PROVE FirstIsFirst'
  BY <1>3, <1>a, <1>b, <1>d, <1>e DEF Serve, FirstIsFirst
<1>4. ASSUME NEW r \in Replicas, Crash(r) PROVE FirstIsFirst'
  BY <1>4, <1>a, <1>b, <1>e DEF Crash, FirstIsFirst, Started, Idle
<1>5. ASSUME NEW q \in Requests, SaveCommit(q) PROVE FirstIsFirst'
  <2>1. \A x \in Replicas : listener'[x].link = listener[x].link
    BY <1>5, <1>a DEF SaveCommit, Notified, ListenerOf
  <2> QED
    BY <1>5, <1>e, <2>1 DEF SaveCommit, FirstIsFirst
<1>6. ASSUME NEW r \in Replicas, Arrive(r) PROVE FirstIsFirst'
  <2>1. \A x \in Replicas : listener'[x].link = listener[x].link
    BY <1>6, <1>a DEF Arrive, OnNotify, ListenerOf
  <2> QED
    BY <1>6, <1>e, <2>1 DEF Arrive, FirstIsFirst
<1>7. ASSUME NEW r \in Replicas, Consume(r) PROVE FirstIsFirst'
  <2>1. \A x \in Replicas : listener'[x].link = listener[x].link
    BY <1>7, <1>a DEF Consume, Taken, ListenerOf
  <2>2. \A x \in Replicas, t \in Tasks :
           work'[x][t].read = work[x][t].read
           /\ (work'[x][t].todo = work[x][t].todo \/ work'[x][t].todo # <<>>)
    BY <1>7, <1>b DEF Consume, Work, Tasks
  <2> QED
    BY <1>7, <1>e, <2>1, <2>2 DEF Consume, FirstIsFirst
<1>8. ASSUME NEW r \in Replicas, Break(r) PROVE FirstIsFirst'
  BY <1>8, <1>a, <1>e DEF Break, FirstIsFirst, Broken, ListenerOf
<1>9. ASSUME NEW r \in Replicas, KeepAlive(r) PROVE FirstIsFirst'
  BY <1>9, <1>a, <1>e DEF KeepAlive, FirstIsFirst, Closed, ListenerOf
<1>10. ASSUME NEW r \in Replicas, Connect(r) PROVE FirstIsFirst'
  <2>1. \A t \in Tasks : work'[r][t].read = work[r][t].read
                         /\ (t # "hook" => work'[r][t] = work[r][t])
    BY <1>10, <1>b DEF Connect, Work, Tasks
  <2>2. work[r]["hook"].read = Unloaded
    BY <1>10, <1>e DEF Connect, FirstIsFirst, Tasks
  <2>3. \A x \in Replicas \ {r} : /\ work'[x] = work[x] /\ virgin'[x] = virgin[x]
                                  /\ listener'[x] = listener[x]
    BY <1>10, <1>a, <1>b DEF Connect
  <2>4. virgin'[r] = FALSE
    BY <1>10, <1>a DEF Connect
  <2> QED
    BY <1>10, <1>e, <2>1, <2>2, <2>3, <2>4 DEF Connect, FirstIsFirst
<1>11. ASSUME NEW r \in Replicas, NEW t \in Tasks, RefreshRead(r, t) PROVE FirstIsFirst'
  <2>1. \A x \in Replicas, u \in Tasks :
           /\ work'[x][u].todo = work[x][u].todo
           /\ work'[x][u] = work[x][u] \/ work[x][u].todo # <<>>
    BY <1>11, <1>b DEF RefreshRead, Work
  <2> QED
    BY <1>11, <1>e, <2>1 DEF RefreshRead, FirstIsFirst
<1>12. ASSUME NEW r \in Replicas, NEW t \in Tasks, RefreshInstall(r, t) PROVE FirstIsFirst'
  <2>1. \A x \in Replicas, u \in Tasks :
           work'[x][u] = work[x][u] \/ work'[x][u].read = Unloaded
    BY <1>12, <1>b DEF RefreshInstall, Work
  <2> QED
    BY <1>12, <1>e, <2>1 DEF RefreshInstall, FirstIsFirst
<1>13. CASE UNCHANGED <<phase, toLoad, virgin, listener, work>>
  BY <1>13, <1>a, <1>b, <1>d, <1>e DEF FirstIsFirst
<1> QED
  BY <1>1, <1>2, <1>3, <1>4, <1>5, <1>6, <1>7, <1>8, <1>9, <1>10, <1>11, <1>12, <1>13
     DEF Next, vars, SaveRead, SaveReload, SaveInstall, Use, Test

\* Reads are dropped, or stay what they were.
LEMMA ReadsStay ==
    ASSUME ReadsAreRows, UNCHANGED <<row, request, saves>>,
           \A x \in Replicas, t \in Tasks :
               work'[x][t] = work[x][t] \/ work'[x][t].read = Unloaded
    PROVE  ReadsAreRows'
<1>1. ASSUME NEW x \in Replicas, NEW t \in Tasks, work'[x][t].read # Unloaded
      PROVE  IsOf(work[x][t].read, work[x][t].todo[1])'
  BY <1>1 DEF ReadsAreRows, IsOf
<1>2. \A s \in Scopes : row'[s].ver <= saves'
  BY DEF ReadsAreRows
<1>3. ASSUME NEW q \in Requests, request'[q].stage = "reloaded"
      PROVE  IsOf(request[q].read, request[q].scope)'
  BY <1>3 DEF ReadsAreRows, IsOf
<1> QED
  BY <1>1, <1>2, <1>3 DEF ReadsAreRows

\* What a refresher has read is a row there was, and no newer than the row.
LEMMA ReadsAreRowsStays == Inv /\ [Next]_vars => ReadsAreRows'
<1> SUFFICES ASSUME Inv, [Next]_vars PROVE ReadsAreRows'
  OBVIOUS
<1>b. work \in [Replicas -> [Tasks -> Work]]
  BY DEF Inv, TypeOK, Work
<1>c. request \in [Requests -> RequestStates]
  BY DEF Inv, TypeOK
<1>e. FirstIsFirst
  BY DEF Inv
<1>f. ReadsAreRows
  BY DEF Inv
<1>g. /\ row \in [Scopes -> Rows] /\ saves \in Nat
      /\ cache \in [Replicas -> [Scopes -> Snapshots]] /\ missed \in [Replicas -> SUBSET Scopes]
  BY BoundsAssumption DEF Inv, TypeOK
<1>h. \A x \in Replicas, t \in Tasks :
         work[x][t].read # Unloaded =>
            /\ work[x][t].read \in Rows /\ work[x][t].todo # <<>>
            /\ work[x][t].todo[1] \in Scopes /\ work[x][t].todo[1] = Head(work[x][t].todo)
  BY <1>b, <1>e DEF FirstIsFirst, Work, Snapshots
<1>1. ASSUME NEW r \in Replicas, Crash(r) PROVE ReadsAreRows'
  <2>1. \A x \in Replicas, t \in Tasks : work'[x][t] = work[x][t] \/ work'[x][t].read = Unloaded
    BY <1>1, <1>b DEF Crash, Idle
  <2>2. \A q \in Requests : request'[q] = request[q] \/ request'[q].stage = "idle"
    BY <1>1 DEF Crash, Unsent
  <2> QED
    BY <1>1, <1>f, <2>1, <2>2 DEF Crash, ReadsAreRows, IsOf
<1>2. ASSUME NEW q \in Requests, NEW home \in Homes, NEW patch \in Patches, SaveRead(q, home, patch)
      PROVE  ReadsAreRows'
  <2>1. \A x \in Requests : request'[x] = request[x] \/ request'[x].stage = "read"
    BY <1>2, <1>c DEF SaveRead
  <2> QED
    BY <1>2, <1>f, <2>1 DEF SaveRead, ReadsAreRows, IsOf
<1>3. ASSUME NEW q \in Requests, SaveCommit(q) PROVE ReadsAreRows'
  <2> DEFINE s == request[q].patch.scope
  <2>1. request[q] \in [stage : {"read"}, home : Homes, patch : Patches]
    BY <1>3, <1>c DEF SaveCommit, RequestStates, Unsent
  <2>2. s \in Scopes
    BY <2>1, PatchesAssumption
  <2>3. /\ row' = [row EXCEPT ![s] = Patched(row[s], request[q].patch)]
        /\ saves' = saves + 1 /\ work' = work
    BY <1>3 DEF SaveCommit
  <2>4. \A y \in Scopes : row'[y] = row[y] \/ (y = s /\ row'[y].ver = row[y].ver + 1)
    <3>1. Patched(row[s], request[q].patch).ver = row[s].ver + 1
      BY DEF Patched
    <3> HIDE DEF s
    <3>2. row'[s] = Patched(row[s], request[q].patch)
      BY <1>g, <2>2, <2>3
    <3>3. \A y \in Scopes : y # s => row'[y] = row[y]
      BY <1>g, <2>2, <2>3
    <3> QED
      BY <3>1, <3>2, <3>3
  <2> HIDE DEF s
  <2>5. \A y \in Scopes : row[y].ver \in Nat
    BY <1>g DEF Rows
  <2>6. \A y \in Scopes, x \in Rows : IsOf(x, y) => IsOf(x, y)'
    <3> SUFFICES ASSUME NEW y \in Scopes, NEW x \in Rows, IsOf(x, y) PROVE IsOf(x, y)'
      OBVIOUS
    <3>1. x.ver \in Nat
      BY DEF Rows
    <3> QED
      BY <2>4, <2>5, <3>1 DEF IsOf
  <2>7. \A x \in Requests : request'[x] = request[x] \/ request'[x].stage # "reloaded"
    BY <1>3, <1>c DEF SaveCommit, Unsent
  <2>8. \A x \in Requests : request[x].stage = "reloaded" =>
                             request[x].read \in Rows /\ request[x].scope \in Scopes
    BY <1>c DEF RequestStates, Unsent
  <2>9. \A y \in Scopes : row'[y].ver <= saves'
    BY <1>f, <1>g, <2>3, <2>4, <2>5 DEF ReadsAreRows
  <2>10. \A x \in Replicas, t \in Tasks :
            work'[x][t].read # Unloaded => IsOf(work[x][t].read, work[x][t].todo[1])'
    BY <1>f, <1>h, <2>3, <2>6 DEF ReadsAreRows
  <2>11. \A x \in Requests :
            request'[x].stage = "reloaded" => IsOf(request[x].read, request[x].scope)'
    BY <1>f, <2>6, <2>7, <2>8 DEF ReadsAreRows
  <2> QED
    BY <2>9, <2>10, <2>11 DEF ReadsAreRows
<1>4. ASSUME NEW q \in Requests, SaveReload(q) PROVE ReadsAreRows'
  <2>1. request[q] \in [stage : {"committed"}, home : Replicas, scope : Scopes]
    BY <1>4, <1>c DEF SaveReload, RequestStates, Unsent
  <2>2. request'[q].read = row[request'[q].scope] /\ row[request'[q].scope].ver \in Nat
    BY <1>4, <1>c, <1>g, <2>1 DEF SaveReload, Rows
  <2>3. \A x \in Requests \ {q} : request'[x] = request[x]
    BY <1>4, <1>c DEF SaveReload
  <2>4. UNCHANGED <<row, work, saves>>
    BY <1>4 DEF SaveReload
  <2>5. \A x \in Requests :
            request'[x].stage = "reloaded" => IsOf(request[x].read, request[x].scope)'
    <3>1. ASSUME NEW x \in Requests, request'[x].stage = "reloaded", x # q
          PROVE  IsOf(request[x].read, request[x].scope)'
      BY <1>f, <2>3, <2>4, <3>1 DEF ReadsAreRows, IsOf
    <3>2. IsOf(request[q].read, request[q].scope)'
      BY <2>2, <2>4 DEF IsOf
    <3> QED
      BY <3>1, <3>2
  <2> QED
    BY <1>f, <2>4, <2>5 DEF ReadsAreRows, IsOf
<1>5. ASSUME NEW q \in Requests, SaveInstall(q) PROVE ReadsAreRows'
  <2>1. \A x \in Requests : request'[x] = request[x] \/ request'[x].stage = "idle"
    BY <1>5, <1>c DEF SaveInstall, Unsent
  <2> QED
    BY <1>5, <1>f, <2>1 DEF SaveInstall, ReadsAreRows, IsOf
<1>6. ASSUME NEW r \in Replicas, Consume(r) PROVE ReadsAreRows'
  <2>1. \A x \in Replicas, t \in Tasks : work'[x][t] = work[x][t] \/ work'[x][t].read = Unloaded
    <3>1. work[r]["consumer"].read = Unloaded
      BY <1>6, <1>e DEF Consume, FirstIsFirst, Tasks
    <3> QED
      BY <1>6, <1>b, <3>1 DEF Consume, Work, Tasks
  <2>2. UNCHANGED <<row, request, saves>>
    BY <1>6 DEF Consume
  <2> QED
    BY <1>f, <2>1, <2>2, ReadsStay
<1>7. ASSUME NEW r \in Replicas, Connect(r) PROVE ReadsAreRows'
  <2>1. \A x \in Replicas, t \in Tasks : work'[x][t] = work[x][t] \/ work'[x][t].read = Unloaded
    <3>1. work[r]["hook"].read = Unloaded
      BY <1>7, <1>e DEF Connect, FirstIsFirst, Tasks
    <3> QED
      BY <1>7, <1>b, <3>1 DEF Connect, Work, Tasks
  <2>2. UNCHANGED <<row, request, saves>>
    BY <1>7 DEF Connect
  <2> QED
    BY <1>f, <2>1, <2>2, ReadsStay
<1>8. ASSUME NEW r \in Replicas, NEW t \in Tasks, RefreshRead(r, t) PROVE ReadsAreRows'
  <2> DEFINE s == Head(work[r][t].todo)
  <2>1. s \in Scopes /\ work[r][t].todo[1] = s
    BY <1>8, <1>b DEF RefreshRead, Work
  <2>2. work'[r][t].read = row[s] /\ work'[r][t].todo = work[r][t].todo
    BY <1>8, <1>b DEF RefreshRead, Work
  <2>3. row[s].ver \in Nat
    BY <1>g, <2>1 DEF Rows
  <2>4. \A x \in Replicas, u \in Tasks : <<x, u>> # <<r, t>> => work'[x][u] = work[x][u]
    BY <1>8, <1>b DEF RefreshRead
  <2> HIDE DEF s
  <2>5. row' = row /\ saves' = saves /\ request' = request
    BY <1>8 DEF RefreshRead
  <2>6. \A x \in Replicas, u \in Tasks :
           work'[x][u].read # Unloaded => IsOf(work[x][u].read, work[x][u].todo[1])'
    BY <1>f, <2>1, <2>2, <2>3, <2>4, <2>5 DEF ReadsAreRows, IsOf
  <2> QED
    BY <1>f, <2>5, <2>6 DEF ReadsAreRows, IsOf
<1>9. ASSUME NEW r \in Replicas, NEW t \in Tasks, RefreshInstall(r, t) PROVE ReadsAreRows'
  <2>1. \A x \in Replicas, u \in Tasks :
           work'[x][u] = work[x][u] \/ work'[x][u].read = Unloaded
    BY <1>9, <1>b DEF RefreshInstall, Work
  <2>2. row' = row /\ saves' = saves /\ request' = request
    BY <1>9 DEF RefreshInstall
  <2>3. \A x \in Replicas, u \in Tasks :
           work'[x][u].read # Unloaded => IsOf(work[x][u].read, work[x][u].todo[1])'
    BY <1>f, <2>1, <2>2 DEF ReadsAreRows, IsOf
  <2> QED
    BY <1>f, <2>2, <2>3 DEF ReadsAreRows, IsOf
<1>10. CASE UNCHANGED <<row, work, request, saves>>
  BY <1>10, <1>f DEF ReadsAreRows, IsOf
<1> QED
  BY <1>1, <1>2, <1>3, <1>4, <1>5, <1>6, <1>7, <1>8, <1>9, <1>10
     DEF Next, vars, Boot, Load, Serve, Arrive, Break, KeepAlive, Use, Test

\* What a snapshot is as new as, and what assigning one does.
LEMMA RefreshedVersion ==
    \A s : \A r \in Rows, old \in Snapshots :
       ~(s = "oidc" /\ ~Valid(s, r)) =>
          Refreshed(s, r, old) \in Rows /\ Refreshed(s, r, old).ver = r.ver
BY DEF Refreshed, Rows

\* Installing a snapshot touches one cache; one that makes it stale is noted as missed.
LEMMA Assigned ==
    ASSUME NEW r \in Replicas, NEW s \in Scopes, NEW new \in Rows, Assign(r, s, new),
           row \in [Scopes -> Rows], row' = row, new.ver <= row[s].ver,
           cache \in [Replicas -> [Scopes -> Snapshots]],
           missed \in [Replicas -> SUBSET Scopes]
    PROVE  /\ \A x \in Replicas, y \in Scopes :
                 <<x, y>> # <<r, s>> =>
                    cache'[x][y] = cache[x][y] /\ (y \in missed[x] <=> y \in missed'[x])
           /\ Stale(r, s)' => /\ new.ver # row[s].ver
                              /\ s \in missed[r] \/ ~Stale(r, s) => s \in missed'[r]
<1>1. new # Unloaded /\ new.ver \in Nat /\ row[s].ver \in Nat
  BY UnloadedAssumption DEF Rows
<1>2. cache'[r][s] = new
  BY DEF Assign
<1>3. \A x \in Replicas, y \in Scopes :
         <<x, y>> # <<r, s>> =>
            cache'[x][y] = cache[x][y] /\ (y \in missed[x] <=> y \in missed'[x])
  BY DEF Assign
<1>4. ASSUME Stale(r, s)'
      PROVE  new.ver # row[s].ver /\ (s \in missed[r] \/ ~Stale(r, s) => s \in missed'[r])
  <2>1. new.ver # row[s].ver
    BY <1>1, <1>2, <1>4 DEF Stale
  <2>2. missed' = [missed EXCEPT ![r] =
                     IF cache[r][s] # Unloaded /\ cache[r][s].ver > new.ver
                     THEN @ \cup {s} ELSE @]
    BY <2>1 DEF Assign
  <2>3. ~Stale(r, s) => cache[r][s] # Unloaded /\ cache[r][s].ver = row[s].ver
    BY DEF Stale
  <2>4. new.ver < row[s].ver
    <3> DEFINE a == new.ver
               b == row[s].ver
    <3>1. a \in Nat /\ b \in Nat /\ a <= b /\ a # b
      BY <1>1, <2>1
    <3> HIDE DEF a, b
    <3>2. a < b
      BY <3>1
    <3> QED
      BY <3>2 DEF a, b
  <2>5. ~Stale(r, s) => cache[r][s] # Unloaded /\ cache[r][s].ver > new.ver
    BY <1>1, <2>3, <2>4
  <2> QED
    BY <2>1, <2>2, <2>5
<1> QED
  BY <1>3, <1>4

\* A starting replica has loaded a scope, will load it, or knows it could not.
LEMMA LoadedOrLostStays == Inv /\ [Next]_vars => LoadedOrLost'
<1> SUFFICES ASSUME Inv, [Next]_vars PROVE LoadedOrLost'
  OBVIOUS
<1>a. /\ phase \in [Replicas -> {"off", "loading", "serving"}]
      /\ client \in [Replicas -> [Clients -> SUBSET (Scopes \X Snapshots)]]
      /\ listener \in [Replicas -> ListenerOf(Scopes)]
      /\ virgin \in [Replicas -> BOOLEAN]
      /\ toLoad \in [Replicas -> Seq(Scopes)]
  BY DEF Inv, TypeOK
<1>c. request \in [Requests -> RequestStates]
  BY DEF Inv, TypeOK
<1>d. NothingYet
  BY DEF Inv
<1>g. /\ row \in [Scopes -> Rows] /\ saves \in Nat
      /\ cache \in [Replicas -> [Scopes -> Snapshots]] /\ missed \in [Replicas -> SUBSET Scopes]
  BY BoundsAssumption DEF Inv, TypeOK
<1>i. LoadedOrLost
  BY DEF Inv
<1>1. ASSUME NEW r \in Replicas, Boot(r) PROVE LoadedOrLost'
  <2>1. \A s \in Scopes : \E i \in DOMAIN toLoad'[r] : toLoad'[r][i] = s
    BY <1>1, <1>a, LoadOrderIsAll DEF Boot
  <2>2. \A x \in Replicas \ {r} : phase'[x] = phase[x] /\ toLoad'[x] = toLoad[x]
    BY <1>1, <1>a DEF Boot
  <2>3. row' = row /\ cache' = cache /\ missed' = missed
    BY <1>1 DEF Boot
  <2> QED
    BY <1>i, <2>1, <2>2, <2>3 DEF LoadedOrLost, Stale
<1>2. ASSUME NEW r \in Replicas, Load(r) PROVE LoadedOrLost'
  <2>0. PICK s \in Scopes : s = Head(toLoad[r])
    BY <1>2, <1>a DEF Load
  <2>1. s \in Scopes /\ toLoad[r][1] = s /\ (s = "oidc" => Valid(s, row[s]))
    BY <1>2, <1>a, <2>0 DEF Load
  <2>2. \A i \in DOMAIN toLoad[r] :
           i # 1 => i - 1 \in DOMAIN toLoad'[r] /\ toLoad'[r][i - 1] = toLoad[r][i]
    <3>1. toLoad'[r] = Tail(toLoad[r]) /\ toLoad[r] \in Seq(Scopes) /\ toLoad[r] # <<>>
      BY <1>2, <1>a DEF Load
    <3> QED
      BY <3>1
  <2>3. \A x \in Replicas \ {r} : toLoad'[x] = toLoad[x] /\ cache'[x] = cache[x]
                               /\ missed'[x] = missed[x]
    BY <1>2, <1>a, <1>g DEF Load
  <2>4. row' = row /\ phase' = phase
    BY <1>2 DEF Load
  <2>5. /\ Refreshed(s, row[s], Unloaded) \in Rows
        /\ Refreshed(s, row[s], Unloaded).ver = row[s].ver
    <3>1. row[s] \in Rows /\ Unloaded \in Snapshots
      BY <1>g, <2>1 DEF Snapshots
    <3> QED
      BY <2>1, <3>1, RefreshedVersion
  <2>6. \/ cache' = [cache EXCEPT ![r][s] = Refreshed(s, row[s], Unloaded)] /\ missed' = missed
        \/ missed' = [missed EXCEPT ![r] = @ \cup {s}] /\ cache' = cache
    BY <1>2, <2>0 DEF Load
  <2>7. /\ \A y \in Scopes : y # s => cache'[r][y] = cache[r][y]
        /\ \A y \in missed[r] : y \in missed'[r]
        /\ s \in missed'[r] \/ cache'[r][s] = Refreshed(s, row[s], Unloaded)
    BY <1>g, <2>1, <2>6
  <2>8. s \in missed'[r] \/ ~Stale(r, s)'
    <3>1. CASE cache'[r][s] = Refreshed(s, row[s], Unloaded)
      <4>1. cache'[r][s] \in Rows /\ cache'[r][s].ver = row'[s].ver
        BY <2>4, <2>5, <3>1
      <4> QED
        BY <4>1, UnloadedAssumption DEF Stale
    <3> QED
      BY <2>7, <3>1
  <2>9. ASSUME NEW y \in Scopes, y # s, phase'[r] = "loading", Stale(r, y)'
        PROVE  \/ \E i \in DOMAIN toLoad'[r] : toLoad'[r][i] = y
               \/ y \in missed'[r]
               \/ y = "oidc" /\ ~Valid(y, row'[y])
    <3>1. Stale(r, y) /\ phase[r] = "loading"
      BY <2>4, <2>7, <2>9 DEF Stale
    <3>2. CASE \E i \in DOMAIN toLoad[r] : toLoad[r][i] = y
      BY <3>2, <2>1, <2>2, <2>9
    <3> QED
      BY <3>1, <3>2, <1>i, <2>4, <2>7 DEF LoadedOrLost
  <2>10. ASSUME NEW x \in Replicas, x # r, NEW y \in Scopes, phase'[x] = "loading", Stale(x, y)'
         PROVE  \/ \E i \in DOMAIN toLoad'[x] : toLoad'[x][i] = y
                \/ y \in missed'[x]
                \/ y = "oidc" /\ ~Valid(y, row'[y])
    <3>1. /\ Stale(x, y) /\ phase[x] = "loading"
          /\ toLoad'[x] = toLoad[x] /\ missed'[x] = missed[x]
      BY <2>3, <2>4, <2>10 DEF Stale
    <3> QED
      BY <3>1, <1>i, <2>4 DEF LoadedOrLost
  <2> QED
    BY <2>8, <2>9, <2>10 DEF LoadedOrLost
<1>3. ASSUME NEW r \in Replicas, Serve(r) PROVE LoadedOrLost'
  <2>1. \A x \in Replicas : phase'[x] = "loading" => phase[x] = "loading"
    BY <1>3, <1>a DEF Serve
  <2>2. row' = row /\ cache' = cache /\ missed' = missed /\ toLoad' = toLoad
    BY <1>3 DEF Serve
  <2> QED
    BY <1>i, <2>1, <2>2 DEF LoadedOrLost, Stale
<1>4. ASSUME NEW r \in Replicas, Crash(r) PROVE LoadedOrLost'
  <2>1. \A x \in Replicas :
           phase'[x] = "loading" => /\ phase[x] = "loading" /\ cache'[x] = cache[x]
                                    /\ missed'[x] = missed[x] /\ toLoad'[x] = toLoad[x]
    BY <1>4, <1>a, <1>g DEF Crash
  <2>2. row' = row
    BY <1>4 DEF Crash
  <2> QED
    BY <1>i, <2>1, <2>2 DEF LoadedOrLost, Stale
<1>5. ASSUME NEW q \in Requests, SaveCommit(q) PROVE LoadedOrLost'
  <2> DEFINE s == request[q].patch.scope
  <2>1. s \in Scopes
    BY <1>5, <1>c, PatchesAssumption DEF SaveCommit, RequestStates, Unsent
  <2>2. \A y \in Scopes : y # s => row'[y] = row[y]
    BY <1>5, <1>g, <2>1 DEF SaveCommit
  <2>3. cache' = cache /\ phase' = phase /\ toLoad' = toLoad
    BY <1>5 DEF SaveCommit
  <2>4. \A x \in Replicas : \A y \in missed[x] : y \in missed'[x]
    BY <1>5 DEF SaveCommit
  <2>5. \A x \in Replicas :
           phase[x] = "loading" =>
              s \in missed'[x] \/ \E i \in DOMAIN toLoad[x] : toLoad[x][i] = s
    <3>1. \A x \in Replicas : phase[x] = "loading" => virgin[x]
      BY <1>d DEF NothingYet
    <3> QED
      BY <1>5, <3>1 DEF SaveCommit, ToSet
  <2> HIDE DEF s
  <2> QED
    BY <1>i, <2>2, <2>3, <2>4, <2>5 DEF LoadedOrLost, Stale
<1>6. ASSUME NEW q \in Requests, SaveInstall(q) PROVE LoadedOrLost'
  <2>1. /\ \A x \in Replicas : phase[x] = "loading" => cache'[x] = cache[x]
        /\ \A x \in Replicas : phase[x] = "loading" => missed'[x] = missed[x]
    BY <1>6, <1>d, <1>g DEF SaveInstall, Assign, NothingYet
  <2>2. row' = row /\ phase' = phase /\ toLoad' = toLoad
    BY <1>6 DEF SaveInstall
  <2> QED
    BY <1>i, <2>1, <2>2 DEF LoadedOrLost, Stale
<1>7. ASSUME NEW r \in Replicas, Arrive(r) PROVE LoadedOrLost'
  <2>1. \A x \in Replicas : \A y \in missed[x] : y \in missed'[x]
    BY <1>7, <1>g DEF Arrive
  <2>2. row' = row /\ phase' = phase /\ toLoad' = toLoad /\ cache' = cache
    BY <1>7 DEF Arrive
  <2> QED
    BY <1>i, <2>1, <2>2 DEF LoadedOrLost, Stale
<1>8. ASSUME NEW r \in Replicas, NEW t \in Tasks, RefreshInstall(r, t) PROVE LoadedOrLost'
  <2>1. phase[r] = "serving"
    BY <1>8, <1>a, <1>d DEF RefreshInstall, NothingYet, Idle
  <2>2. \A x \in Replicas : x # r => cache'[x] = cache[x] /\ missed'[x] = missed[x]
    BY <1>8, <1>g DEF RefreshInstall, Assign
  <2>3. row' = row /\ phase' = phase /\ toLoad' = toLoad
    BY <1>8 DEF RefreshInstall
  <2> QED
    BY <1>i, <2>1, <2>2, <2>3 DEF LoadedOrLost, Stale
<1>9. ASSUME NEW r \in Replicas, NEW s \in Scopes, Test(r, s) PROVE LoadedOrLost'
  <2>1. \A x \in Replicas : x # r => cache'[x] = cache[x] /\ missed'[x] = missed[x]
    BY <1>9, <1>g DEF Test, Assign
  <2>2. row' = row /\ phase' = phase /\ toLoad' = toLoad /\ phase[r] = "serving"
    BY <1>9 DEF Test
  <2> QED
    BY <1>i, <2>1, <2>2 DEF LoadedOrLost, Stale
<1>10. CASE UNCHANGED <<phase, toLoad, row, cache, missed>>
  BY <1>10, <1>a, <1>d, <1>g, <1>i DEF LoadedOrLost, Stale
<1> QED
  BY <1>1, <1>2, <1>3, <1>4, <1>5, <1>6, <1>7, <1>8, <1>9, <1>10
     DEF Next, vars, SaveRead, SaveReload, Consume, Break, KeepAlive, Connect, RefreshRead, Use

-----------------------------------------------------------------------------
(* A replica is owed the refreshes it lacks.                               *)

\* One task will still read s, or has read its latest version.
Queued(w, s) == \E i \in DOMAIN w.todo :
                   /\ w.todo[i] = s
                   /\ i = 1 => w.read = Unloaded \/ w.read.ver = row[s].ver
Owed(r, s) == \/ s \in InHand(listener[r])
              \/ listener[r].link # "up" /\ ~virgin[r]
              \/ \E t \in Tasks : Queued(work[r][t], s)
              \/ s \in missed[r]
              \/ s = "oidc" /\ ~Valid(s, row[s])

\* StaleIsOwed scope by scope.
LEMMA StaleIsOwedIs ==
    StaleIsOwed <=> \A r \in Replicas, s \in Scopes :
                       phase[r] = "serving" /\ Stale(r, s) => Owed(r, s)
BY DEF StaleIsOwed, Coming, Owed, Queued

\* The same in the next state.
LEMMA StaleIsOwedIsNext ==
    StaleIsOwed' <=> \A r \in Replicas, s \in Scopes :
                       phase'[r] = "serving" /\ Stale(r, s)' => Owed(r, s)'
BY DEF StaleIsOwed, Coming, Owed, Queued

\* What a replica has been told of, as the elements of two sequences.
LEMMA InHandIs == \A l : InHand(l) = ToSet(l.wire) \cup ToSet(l.queue)
BY DEF InHand, ToSet

\* What a list holds when its first leaves and when one is added.
LEMMA Elements ==
    \A q \in Seq(Scopes) :
       /\ q # <<>> => \A z \in ToSet(q) : z = Head(q) \/ z \in ToSet(Tail(q))
       /\ \A e \in Scopes : ToSet(Append(q, e)) = ToSet(q) \cup {e}
<1> SUFFICES ASSUME NEW q \in Seq(Scopes)
             PROVE  /\ q # <<>> => \A z \in ToSet(q) : z = Head(q) \/ z \in ToSet(Tail(q))
                    /\ \A e \in Scopes : ToSet(Append(q, e)) = ToSet(q) \cup {e}
  OBVIOUS
<1>1. ASSUME q # <<>>, NEW i \in DOMAIN q PROVE q[i] = Head(q) \/ q[i] \in ToSet(Tail(q))
  <2>1. CASE i = 1
    BY <1>1, <2>1
  <2>2. CASE i # 1
    <3>1. i - 1 \in DOMAIN Tail(q) /\ Tail(q)[i - 1] = q[i]
      BY <1>1, <2>2
    <3> QED
      BY <3>1 DEF ToSet
  <2> QED
    BY <2>1, <2>2
<1>2. ASSUME NEW e \in Scopes PROVE ToSet(Append(q, e)) = ToSet(q) \cup {e}
  <2>1. /\ DOMAIN q = 1..Len(q) /\ DOMAIN Append(q, e) = 1..Len(q) + 1
        /\ Len(q) \in Nat
        /\ \A i \in 1..Len(q) : Append(q, e)[i] = q[i]
        /\ Append(q, e)[Len(q) + 1] = e
    OBVIOUS
  <2>2. \A i \in 1..Len(q) + 1 : i \in 1..Len(q) \/ i = Len(q) + 1
    BY <2>1
  <2>3. (\A i \in 1..Len(q) : i \in 1..Len(q) + 1) /\ Len(q) + 1 \in 1..Len(q) + 1
    BY <2>1
  <2> QED
    BY <2>1, <2>2, <2>3 DEF ToSet
<1> QED
  BY <1>1, <1>2 DEF ToSet

\* What a step leaves alone stays owed.
LEMMA StillOwed ==
    ASSUME NEW x \in Replicas, NEW y \in Scopes, row'[y] = row[y],
           listener'[x] = listener[x], virgin'[x] = virgin[x], work'[x] = work[x],
           y \in missed[x] => y \in missed'[x]
    PROVE  Owed(x, y) => Owed(x, y)'
BY DEF Owed, Queued

\* The same, where the step assigned no snapshot of y.
LEMMA StillStale ==
    ASSUME NEW x \in Replicas, NEW y \in Scopes, StaleIsOwed, row'[y] = row[y],
           cache'[x][y] = cache[x][y], phase'[x] = "serving" => phase[x] = "serving",
           Owed(x, y) => Owed(x, y)'
    PROVE  phase'[x] = "serving" /\ Stale(x, y)' => Owed(x, y)'
BY StaleIsOwedIs DEF Stale

\* A stale cache is about to be put right, whatever the step.
LEMMA StaleIsOwedStays == Inv /\ [Next]_vars => StaleIsOwed'
<1> SUFFICES ASSUME Inv, [Next]_vars PROVE StaleIsOwed'
  OBVIOUS
<1>a. /\ phase \in [Replicas -> {"off", "loading", "serving"}]
      /\ client \in [Replicas -> [Clients -> SUBSET (Scopes \X Snapshots)]]
      /\ listener \in [Replicas -> ListenerOf(Scopes)]
      /\ virgin \in [Replicas -> BOOLEAN]
      /\ toLoad \in [Replicas -> Seq(Scopes)]
  BY DEF Inv, TypeOK
<1>b. work \in [Replicas -> [Tasks -> Work]]
  BY DEF Inv, TypeOK, Work
<1>c. request \in [Requests -> RequestStates]
  BY DEF Inv, TypeOK
<1>e. FirstIsFirst
  BY DEF Inv
<1>f. ReadsAreRows
  BY DEF Inv
<1>g. /\ row \in [Scopes -> Rows] /\ saves \in Nat
      /\ cache \in [Replicas -> [Scopes -> Snapshots]] /\ missed \in [Replicas -> SUBSET Scopes]
  BY BoundsAssumption DEF Inv, TypeOK
<1>h. \A x \in Replicas, t \in Tasks :
         work[x][t].read # Unloaded =>
            /\ work[x][t].read \in Rows /\ work[x][t].todo # <<>>
            /\ work[x][t].todo[1] \in Scopes /\ work[x][t].todo[1] = Head(work[x][t].todo)
  BY <1>b, <1>e DEF FirstIsFirst, Work, Snapshots
<1>i. LoadedOrLost
  BY DEF Inv
<1>s. StaleIsOwed
  BY DEF Inv
<1> SUFFICES \A x \in Replicas, y \in Scopes :
                phase'[x] = "serving" /\ Stale(x, y)' => Owed(x, y)'
  BY StaleIsOwedIsNext
<1>1. ASSUME NEW r \in Replicas, Boot(r),
             NEW x \in Replicas, NEW y \in Scopes, phase'[x] = "serving", Stale(x, y)'
      PROVE  Owed(x, y)'
  <2>1. x # r /\ phase'[x] = phase[x]
    BY <1>1, <1>a DEF Boot
  <2>2. /\ row' = row /\ cache' = cache /\ listener' = listener /\ virgin' = virgin
        /\ work' = work /\ missed' = missed
    BY <1>1 DEF Boot
  <2> QED
    BY <1>1, <1>s, <2>1, <2>2, StillOwed, StillStale
<1>2. ASSUME NEW r \in Replicas, Load(r),
             NEW x \in Replicas, NEW y \in Scopes, phase'[x] = "serving", Stale(x, y)'
      PROVE  Owed(x, y)'
  <2>1. x # r /\ phase' = phase
    BY <1>2, <1>a DEF Load
  <2>2. cache'[x] = cache[x] /\ missed'[x] = missed[x]
    BY <1>2, <1>g, <2>1 DEF Load
  <2>3. row' = row /\ listener' = listener /\ virgin' = virgin /\ work' = work
    BY <1>2 DEF Load
  <2> QED
    BY <1>2, <1>s, <2>1, <2>2, <2>3, StillOwed, StillStale
<1>3. ASSUME NEW r \in Replicas, Serve(r),
             NEW x \in Replicas, NEW y \in Scopes, phase'[x] = "serving", Stale(x, y)'
      PROVE  Owed(x, y)'
  <2>1. /\ row' = row /\ cache' = cache /\ listener' = listener /\ virgin' = virgin
        /\ work' = work /\ missed' = missed
    BY <1>3 DEF Serve
  <2>2. CASE x = r
    <3>1. phase[r] = "loading" /\ Stale(r, y) /\ toLoad[r] = <<>>
      BY <1>3, <2>1, <2>2 DEF Serve, Stale
    <3>2. y \in missed[r] \/ (y = "oidc" /\ ~Valid(y, row[y]))
      BY <1>i, <3>1 DEF LoadedOrLost
    <3> QED
      BY <2>1, <2>2, <3>2 DEF Owed
  <2>3. CASE x # r
    <3>1. phase'[x] = phase[x]
      BY <1>3, <1>a, <2>3 DEF Serve
    <3> QED
      BY <1>3, <1>s, <2>1, <3>1, StillOwed, StillStale
  <2> QED
    BY <2>2, <2>3
<1>4. ASSUME NEW r \in Replicas, Crash(r),
             NEW x \in Replicas, NEW y \in Scopes, phase'[x] = "serving", Stale(x, y)'
      PROVE  Owed(x, y)'
  <2>1. x # r
    BY <1>4, <1>a DEF Crash
  <2>2. /\ phase'[x] = phase[x] /\ cache'[x] = cache[x] /\ missed'[x] = missed[x]
        /\ listener'[x] = listener[x] /\ virgin'[x] = virgin[x] /\ work'[x] = work[x]
    BY <1>4, <1>a, <1>b, <1>g, <2>1 DEF Crash
  <2>3. row' = row
    BY <1>4 DEF Crash
  <2> QED
    BY <1>4, <1>s, <2>2, <2>3, StillOwed, StillStale
<1>5. ASSUME NEW q \in Requests, SaveCommit(q),
             NEW x \in Replicas, NEW y \in Scopes, phase'[x] = "serving", Stale(x, y)'
      PROVE  Owed(x, y)'
  <2>0. PICK s \in Scopes : s = request[q].patch.scope
    BY <1>5, <1>c, PatchesAssumption DEF SaveCommit, RequestStates, Unsent
  <2>1. cache' = cache /\ phase' = phase /\ virgin' = virgin /\ work' = work
    BY <1>5 DEF SaveCommit
  <2>2. listener'[x] = Notified(listener[x], s)
    BY <1>5, <2>0 DEF SaveCommit
  <2>3. missed'[x] = IF virgin[x] /\ phase[x] # "off" /\ s \notin ToSet(toLoad[x])
                     THEN missed[x] \cup {s} ELSE missed[x]
    BY <1>5, <2>0 DEF SaveCommit
  <2>4. CASE y = s
    <3>1. CASE virgin[x]
      <4>1. toLoad[x] = <<>>
        BY <1>5, <1>e, <2>1 DEF FirstIsFirst
      <4>2. s \notin ToSet(toLoad[x])
        BY <4>1 DEF ToSet
      <4> QED
        BY <1>5, <2>1, <2>3, <2>4, <3>1, <4>2 DEF Owed
    <3>2. CASE ~virgin[x] /\ listener[x].link # "up"
      BY <2>1, <2>2, <3>2 DEF Owed, Notified
    <3>3. CASE listener[x].link = "up"
      <4>1. listener'[x].wire = Append(listener[x].wire, s) /\ listener[x].wire \in Seq(Scopes)
        BY <1>a, <2>2, <3>3 DEF Notified, ListenerOf
      <4>2. s \in ToSet(listener'[x].wire)
        BY <4>1, Elements
      <4> QED
        BY <2>4, <4>2, InHandIs DEF Owed
    <3> QED
      BY <3>1, <3>2, <3>3
  <2>5. CASE y # s
    <3>1. row'[y] = row[y]
      BY <1>5, <1>g, <2>0, <2>5 DEF SaveCommit
    <3>2. listener'[x].link = listener[x].link /\ listener'[x].queue = listener[x].queue
      BY <1>a, <2>2 DEF Notified, ListenerOf
    <3>3. \A z \in ToSet(listener[x].wire) : z \in ToSet(listener'[x].wire)
      <4>1. \/ listener'[x].wire = listener[x].wire
            \/ listener'[x].wire = Append(listener[x].wire, s)
        BY <1>a, <2>2 DEF Notified, ListenerOf
      <4>2. listener[x].wire \in Seq(Scopes)
        BY <1>a DEF ListenerOf
      <4>3. ToSet(Append(listener[x].wire, s)) = ToSet(listener[x].wire) \cup {s}
        BY <4>2, Elements
      <4> QED
        BY <4>1, <4>3
    <3>4. Owed(x, y) => Owed(x, y)'
      BY <2>1, <2>3, <3>1, <3>2, <3>3, InHandIs DEF Owed, Queued
    <3> QED
      BY <1>5, <1>s, <2>1, <3>1, <3>4, StillStale
  <2> QED
    BY <2>4, <2>5
<1>6. ASSUME NEW q \in Requests, SaveInstall(q),
             NEW x \in Replicas, NEW y \in Scopes, phase'[x] = "serving", Stale(x, y)'
      PROVE  Owed(x, y)'
  <2>1. request[q] \in [stage : {"reloaded"}, home : Replicas, scope : Scopes, read : Rows]
    BY <1>6, <1>c DEF SaveInstall, RequestStates, Unsent
  <2>2. PICK r \in Replicas, s \in Scopes, new \in Rows :
           r = request[q].home /\ s = request[q].scope /\ new = request[q].read
    BY <2>1
  <2>3. /\ row' = row /\ phase' = phase /\ listener' = listener /\ virgin' = virgin
        /\ work' = work
    BY <1>6 DEF SaveInstall
  <2>4. Assign(r, s, new)
    BY <1>6, <2>2 DEF SaveInstall
  <2>5. new.ver <= row[s].ver
    BY <1>f, <2>1, <2>2 DEF ReadsAreRows, IsOf
  <2>6. /\ <<x, y>> # <<r, s>> =>
              cache'[x][y] = cache[x][y] /\ (y \in missed[x] => y \in missed'[x])
        /\ Stale(r, s)' => (s \in missed[r] \/ ~Stale(r, s) => s \in missed'[r])
    BY <1>6, <1>g, <2>3, <2>4, <2>5, Assigned
  <2>7. CASE <<x, y>> # <<r, s>>
    BY <1>6, <1>s, <2>3, <2>6, <2>7, StillOwed, StillStale
  <2>8. CASE x = r /\ y = s
    <3>1. CASE s \in missed'[r]
      BY <2>8, <3>1 DEF Owed
    <3>2. CASE s \notin missed'[r]
      <4>1. Stale(x, y) /\ y \notin missed[x]
        BY <1>6, <2>6, <2>8, <3>2
      <4>2. Owed(x, y)
        BY <1>6, <1>s, <2>3, <4>1, StaleIsOwedIs
      <4> QED
        BY <2>3, <4>1, <4>2, StillOwed
    <3> QED
      BY <3>1, <3>2
  <2> QED
    BY <2>7, <2>8
<1>7. ASSUME NEW r \in Replicas, Arrive(r),
             NEW x \in Replicas, NEW y \in Scopes, phase'[x] = "serving", Stale(x, y)'
      PROVE  Owed(x, y)'
  <2>1. /\ row' = row /\ phase' = phase /\ cache' = cache /\ virgin' = virgin
        /\ work' = work
    BY <1>7 DEF Arrive
  <2>2. CASE x # r
    <3>1. listener'[x] = listener[x] /\ missed'[x] = missed[x]
      BY <1>7, <1>a, <1>g, <2>2 DEF Arrive
    <3> QED
      BY <1>7, <1>s, <2>1, <3>1, StillOwed, StillStale
  <2>3. CASE x = r
    <3>1. listener'[r] = OnNotify(listener[r]) /\ listener[r].wire # <<>>
      BY <1>7, <1>a DEF Arrive
    <3>2. listener'[r].link = listener[r].link
      BY <1>a, <3>1 DEF OnNotify, ListenerOf
    <3>3. /\ \A z \in missed[r] : z \in missed'[r]
          /\ Full(listener[r]) => Head(listener[r].wire) \in missed'[r]
      BY <1>7, <1>g DEF Arrive
    <3>4. \A z \in InHand(listener[r]) : z \in InHand(listener[r])' \/ z \in missed'[r]
      <4>1. /\ listener[r].wire \in Seq(Scopes) /\ listener[r].queue \in Seq(Scopes)
            /\ Head(listener[r].wire) \in Scopes
        BY <1>a, <3>1 DEF ListenerOf
      <4>2. /\ listener'[r].wire = Tail(listener[r].wire)
            /\ listener'[r].queue = IF Full(listener[r]) THEN listener[r].queue
                                    ELSE Append(listener[r].queue, Head(listener[r].wire))
        BY <1>a, <3>1 DEF OnNotify, ListenerOf
      <4>3. \A z \in ToSet(listener[r].wire) :
               z = Head(listener[r].wire) \/ z \in ToSet(listener'[r].wire)
        BY <3>1, <4>1, <4>2, Elements
      <4>4. /\ \A z \in ToSet(listener[r].queue) : z \in ToSet(listener'[r].queue)
            /\ \/ Full(listener[r])
               \/ Head(listener[r].wire) \in ToSet(listener'[r].queue)
        BY <4>1, <4>2, Elements
      <4> QED
        BY <3>3, <4>3, <4>4, InHandIs
    <3>5. Owed(x, y) => Owed(x, y)'
      BY <2>1, <2>3, <3>2, <3>3, <3>4 DEF Owed, Queued
    <3> QED
      BY <1>7, <1>s, <2>1, <3>5, StillStale
  <2> QED
    BY <2>2, <2>3
<1>8. ASSUME NEW r \in Replicas, Consume(r),
             NEW x \in Replicas, NEW y \in Scopes, phase'[x] = "serving", Stale(x, y)'
      PROVE  Owed(x, y)'
  <2>1. /\ row' = row /\ phase' = phase /\ cache' = cache /\ virgin' = virgin
        /\ missed' = missed
    BY <1>8 DEF Consume
  <2>2. CASE x # r
    <3>1. listener'[x] = listener[x] /\ work'[x] = work[x]
      BY <1>8, <1>a, <1>b, <2>2 DEF Consume
    <3> QED
      BY <1>8, <1>s, <2>1, <3>1, StillOwed, StillStale
  <2>3. CASE x = r
    <3>1. listener'[r] = Taken(listener[r]) /\ listener[r].queue # <<>>
      BY <1>8, <1>a DEF Consume
    <3>2. /\ listener'[r].link = listener[r].link /\ listener'[r].wire = listener[r].wire
          /\ listener'[r].queue = Tail(listener[r].queue)
      BY <1>a, <3>1 DEF Taken, ListenerOf
    <3>3. \A z \in ToSet(listener[r].queue) :
             z = Head(listener[r].queue) \/ z \in ToSet(listener'[r].queue)
      <4>1. listener[r].queue \in Seq(Scopes)
        BY <1>a DEF ListenerOf
      <4> QED
        BY <3>1, <3>2, <4>1, Elements
    <3>4. /\ work'[r]["hook"] = work[r]["hook"] /\ work[r]["consumer"].todo = <<>>
          /\ work'[r]["consumer"].todo = <<Head(listener[r].queue)>>
          /\ work'[r]["consumer"].read = Unloaded
      <4>1. work[r]["consumer"].read = Unloaded
        BY <1>8, <1>e DEF Consume, FirstIsFirst, Tasks
      <4>2. work' = [work EXCEPT ![r]["consumer"].todo = <<Head(listener[r].queue)>>]
            /\ work[r]["consumer"].todo = <<>>
        BY <1>8 DEF Consume
      <4> QED
        BY <1>b, <4>1, <4>2 DEF Work, Tasks
    <3>5. y = Head(listener[r].queue) => Queued(work[r]["consumer"], y)'
      <4>1. 1 \in DOMAIN <<Head(listener[r].queue)>>
            /\ <<Head(listener[r].queue)>>[1] = Head(listener[r].queue)
        OBVIOUS
      <4> QED
        BY <3>4, <4>1 DEF Queued
    <3>6. \A t \in Tasks : Queued(work[r][t], y) => Queued(work[r][t], y)'
      BY <2>1, <3>4 DEF Queued, Tasks
    <3>7. y \in InHand(listener[r]) => y \in InHand(listener[r])' \/ y = Head(listener[r].queue)
      BY <3>2, <3>3, InHandIs
    <3>8. Owed(x, y) => Owed(x, y)'
      BY <2>1, <2>3, <3>2, <3>5, <3>6, <3>7 DEF Owed, Tasks
    <3> QED
      BY <1>8, <1>s, <2>1, <3>8, StillStale
  <2> QED
    BY <2>2, <2>3
<1>9. ASSUME NEW r \in Replicas, Break(r),
             NEW x \in Replicas, NEW y \in Scopes, phase'[x] = "serving", Stale(x, y)'
      PROVE  Owed(x, y)'
  <2>1. /\ row' = row /\ phase' = phase /\ cache' = cache /\ virgin' = virgin
        /\ work' = work /\ missed' = missed
    BY <1>9 DEF Break
  <2>2. CASE x # r
    <3>1. listener'[x] = listener[x]
      BY <1>9, <1>a, <2>2 DEF Break
    <3> QED
      BY <1>9, <1>s, <2>1, <3>1, StillOwed, StillStale
  <2>3. CASE x = r
    <3>1. ~virgin[r]
      BY <1>9, <1>e DEF Break, FirstIsFirst
    <3>2. listener'[r].link = "broken"
      BY <1>9, <1>a DEF Break, Broken, ListenerOf
    <3> QED
      BY <2>1, <2>3, <3>1, <3>2 DEF Owed
  <2> QED
    BY <2>2, <2>3
<1>10. ASSUME NEW r \in Replicas, KeepAlive(r),
             NEW x \in Replicas, NEW y \in Scopes, phase'[x] = "serving", Stale(x, y)'
      PROVE  Owed(x, y)'
  <2>1. /\ row' = row /\ phase' = phase /\ cache' = cache /\ virgin' = virgin
        /\ work' = work /\ missed' = missed
    BY <1>10 DEF KeepAlive
  <2>2. CASE x # r
    <3>1. listener'[x] = listener[x]
      BY <1>10, <1>a, <2>2 DEF KeepAlive
    <3> QED
      BY <1>10, <1>s, <2>1, <3>1, StillOwed, StillStale
  <2>3. CASE x = r
    <3>1. ~virgin[r]
      BY <1>10, <1>e DEF KeepAlive, FirstIsFirst
    <3>2. listener'[r].link = "down"
      BY <1>10, <1>a DEF KeepAlive, Closed, ListenerOf
    <3> QED
      BY <2>1, <2>3, <3>1, <3>2 DEF Owed
  <2> QED
    BY <2>2, <2>3
<1>11. ASSUME NEW r \in Replicas, Connect(r),
             NEW x \in Replicas, NEW y \in Scopes, phase'[x] = "serving", Stale(x, y)'
      PROVE  Owed(x, y)'
  <2>1. row' = row /\ phase' = phase /\ cache' = cache /\ missed' = missed
    BY <1>11 DEF Connect
  <2>2. CASE x # r
    <3>1. listener'[x] = listener[x] /\ work'[x] = work[x] /\ virgin'[x] = virgin[x]
      BY <1>11, <1>a, <1>b, <2>2 DEF Connect
    <3> QED
      BY <1>11, <1>s, <2>1, <3>1, StillOwed, StillStale
  <2>3. CASE x = r
    <3>1. /\ listener'[r].wire = listener[r].wire /\ listener'[r].queue = listener[r].queue
      BY <1>11, <1>a DEF Connect, Subscribed, ListenerOf
    <3>2. work' = [work EXCEPT ![r]["hook"].todo = IF virgin[r] THEN <<>> ELSE LoadOrder]
          /\ work[r]["hook"].todo = <<>> /\ work[r]["hook"].read = Unloaded
      BY <1>11, <1>e DEF Connect, FirstIsFirst, Tasks
    <3>3. /\ work'[r]["consumer"] = work[r]["consumer"]
          /\ work'[r]["hook"].read = Unloaded
          /\ work'[r]["hook"].todo = IF virgin[r] THEN <<>> ELSE LoadOrder
      BY <1>b, <3>2 DEF Work, Tasks
    <3>4. ~virgin[r] => Queued(work[r]["hook"], y)'
      BY <3>3, LoadOrderIsAll DEF Queued
    <3>5. virgin[r] => \A t \in Tasks : Queued(work[r][t], y) => Queued(work[r][t], y)'
      BY <2>1, <3>2, <3>3 DEF Queued, Tasks
    <3>6. y \in InHand(listener[r]) => y \in InHand(listener[r])'
      BY <3>1 DEF InHand
    <3>7. Owed(x, y) => Owed(x, y)'
      BY <2>1, <2>3, <3>4, <3>5, <3>6 DEF Owed, Tasks
    <3> QED
      BY <1>11, <1>s, <2>1, <3>7, StillStale
  <2> QED
    BY <2>2, <2>3
<1>12. ASSUME NEW r \in Replicas, NEW t \in Tasks, RefreshRead(r, t),
             NEW x \in Replicas, NEW y \in Scopes, phase'[x] = "serving", Stale(x, y)'
      PROVE  Owed(x, y)'
  <2>1. /\ row' = row /\ phase' = phase /\ cache' = cache /\ virgin' = virgin
        /\ missed' = missed /\ listener' = listener
    BY <1>12 DEF RefreshRead
  <2>2. \A u \in Tasks : work'[x][u] = work[x][u] \/ (x = r /\ u = t)
    BY <1>12, <1>b DEF RefreshRead
  <2>3. /\ work'[r][t].todo = work[r][t].todo
        /\ work'[r][t].read = row[work[r][t].todo[1]]
    BY <1>12, <1>b DEF RefreshRead, Work
  <2>4. \A u \in Tasks : Queued(work[x][u], y) => Queued(work[x][u], y)'
    <3>1. ASSUME x = r, Queued(work[r][t], y) PROVE Queued(work[r][t], y)'
      BY <2>1, <2>3, <3>1 DEF Queued
    <3>2. ASSUME NEW u \in Tasks, work'[x][u] = work[x][u], Queued(work[x][u], y)
          PROVE  Queued(work[x][u], y)'
      BY <2>1, <3>2 DEF Queued
    <3> QED
      BY <2>2, <3>1, <3>2
  <2>5. Owed(x, y) => Owed(x, y)'
    BY <2>1, <2>4 DEF Owed
  <2> QED
    BY <1>12, <1>s, <2>1, <2>5, StillStale
<1>13. ASSUME NEW r \in Replicas, NEW t \in Tasks, RefreshInstall(r, t),
             NEW x \in Replicas, NEW y \in Scopes, phase'[x] = "serving", Stale(x, y)'
      PROVE  Owed(x, y)'
  <2>0. /\ work[r][t] \in Work /\ work[r][t].todo \in Seq(Scopes) /\ work[r][t].todo # <<>>
        /\ work[r][t].read \in Rows
    BY <1>13, <1>b, <1>h DEF RefreshInstall, Work
  <2>1. PICK s \in Scopes : s = Head(work[r][t].todo) /\ s = work[r][t].todo[1]
    BY <2>0
  <2>2. PICK read \in Rows : read = work[r][t].read
    BY <2>0
  <2>3. IsOf(read, s)
    BY <1>13, <1>f, <2>1, <2>2 DEF RefreshInstall, ReadsAreRows
  <2>4. /\ row' = row /\ phase' = phase /\ virgin' = virgin /\ listener' = listener
    BY <1>13 DEF RefreshInstall
  <2>5. work'[r][t].todo = Tail(work[r][t].todo) /\ work'[r][t].read = Unloaded
    BY <1>13, <1>b DEF RefreshInstall, Work
  <2>6. \A u \in Tasks : work'[x][u] = work[x][u] \/ (x = r /\ u = t)
    BY <1>13, <1>b DEF RefreshInstall
  <2>7. \A u \in Tasks :
           \/ Queued(work[x][u], y) => Queued(work[x][u], y)'
           \/ x = r /\ y = s /\ read.ver = row[s].ver
    <3>1. ASSUME NEW i \in DOMAIN work[r][t].todo, work[r][t].todo[i] = y, i # 1
          PROVE  Queued(work[r][t], y)'
      <4>1. i - 1 \in DOMAIN Tail(work[r][t].todo) /\ Tail(work[r][t].todo)[i - 1] = y
        <5> DEFINE todo == work[r][t].todo
        <5>1. todo \in Seq(Scopes) /\ i \in DOMAIN todo /\ i # 1 /\ todo[i] = y
          BY <2>0, <3>1
        <5> HIDE DEF todo
        <5>2. i - 1 \in DOMAIN Tail(todo) /\ Tail(todo)[i - 1] = todo[i]
          BY <5>1
        <5> QED
          BY <5>1, <5>2 DEF todo
      <4> QED
        BY <2>5, <4>1 DEF Queued
    <3>2. read # Unloaded
      BY UnloadedAssumption
    <3>3. ASSUME Queued(work[r][t], y), ~Queued(work[r][t], y)'
          PROVE  y = s /\ read.ver = row[s].ver
      <4>1. PICK i \in DOMAIN work[r][t].todo :
               /\ work[r][t].todo[i] = y
               /\ i = 1 => work[r][t].read = Unloaded \/ work[r][t].read.ver = row[y].ver
        BY <3>3 DEF Queued
      <4>2. i = 1
        BY <3>1, <3>3, <4>1
      <4> QED
        BY <2>1, <2>2, <3>2, <4>1, <4>2
    <3>4. ASSUME NEW u \in Tasks, work'[x][u] = work[x][u], Queued(work[x][u], y)
          PROVE  Queued(work[x][u], y)'
      BY <2>4, <3>4 DEF Queued
    <3> QED
      BY <2>6, <3>3, <3>4, Zenon
  <2>8. CASE s = "oidc" /\ ~Valid(s, read)
    <3>1. cache' = cache /\ missed' = missed
      BY <1>13, <2>1, <2>2, <2>8 DEF RefreshInstall
    <3>2. Owed(x, y)
      BY <1>13, <1>s, <2>4, <3>1, StaleIsOwedIs DEF Stale
    <3>3. x = r /\ y = s /\ read.ver = row[s].ver => y = "oidc" /\ ~Valid(y, row'[y])
      BY <2>3, <2>4, <2>8 DEF IsOf
    <3> QED
      BY <2>4, <2>7, <3>1, <3>2, <3>3 DEF Owed
  <2>9. CASE ~(s = "oidc" /\ ~Valid(s, read))
    <3>1. PICK new \in Rows : new = Refreshed(s, read, cache[r][s]) /\ new.ver = read.ver
      <4>1. cache[r][s] \in Snapshots
        BY <1>g
      <4> QED
        BY <2>9, <4>1, RefreshedVersion
    <3>2. Assign(r, s, new)
      BY <1>13, <2>1, <2>2, <2>9, <3>1 DEF RefreshInstall
    <3>3. new.ver <= row[s].ver
      BY <2>3, <3>1 DEF IsOf
    <3>4. /\ <<x, y>> # <<r, s>> =>
                cache'[x][y] = cache[x][y] /\ (y \in missed[x] <=> y \in missed'[x])
          /\ Stale(r, s)' => /\ new.ver # row[s].ver
                             /\ s \in missed[r] \/ ~Stale(r, s) => s \in missed'[r]
      BY <1>g, <2>4, <3>2, <3>3, Assigned
    <3>5. (y \in missed[x] => y \in missed'[x]) /\ ~(x = r /\ y = s /\ read.ver = row[s].ver)
      BY <1>13, <3>1, <3>4
    <3>6. Owed(x, y) => Owed(x, y)'
      BY <2>4, <2>7, <3>5 DEF Owed
    <3>7. CASE <<x, y>> # <<r, s>>
      BY <1>13, <1>s, <2>4, <3>4, <3>6, <3>7, StillStale
    <3>8. CASE x = r /\ y = s
      <4>1. ~Stale(x, y) => y \in missed'[x]
        BY <1>13, <3>4, <3>8
      <4>2. Stale(x, y) => Owed(x, y)
        BY <1>13, <1>s, <2>4, StaleIsOwedIs
      <4> QED
        BY <3>6, <4>1, <4>2 DEF Owed
    <3> QED
      BY <3>7, <3>8
  <2> QED
    BY <2>8, <2>9
<1>14. ASSUME NEW r \in Replicas, NEW s \in Scopes, Test(r, s),
             NEW x \in Replicas, NEW y \in Scopes, phase'[x] = "serving", Stale(x, y)'
      PROVE  Owed(x, y)'
  <2>1. /\ row' = row /\ phase' = phase /\ virgin' = virgin /\ listener' = listener
        /\ work' = work
    BY <1>14 DEF Test
  <2>2. Assign(r, s, row[s]) /\ row[s] \in Rows /\ row[s].ver \in Nat
    BY <1>14, <1>g DEF Test, Rows
  <2>3. /\ <<x, y>> # <<r, s>> =>
              cache'[x][y] = cache[x][y] /\ (y \in missed[x] <=> y \in missed'[x])
        /\ ~Stale(r, s)'
    BY <1>g, <2>1, <2>2, Assigned
  <2>4. <<x, y>> # <<r, s>>
    BY <1>14, <2>3
  <2> QED
    BY <1>14, <1>s, <2>1, <2>3, <2>4, StillOwed, StillStale
<1>15. CASE UNCHANGED <<row, phase, cache, virgin, listener, work, missed>>
  BY <1>15, <1>s, StillOwed, StillStale
<1> QED
  BY <1>1, <1>2, <1>3, <1>4, <1>5, <1>6, <1>7, <1>8, <1>9, <1>10, <1>11, <1>12, <1>13, <1>14,
     <1>15
     DEF Next, vars, SaveRead, SaveReload, Use

-----------------------------------------------------------------------------
(* No client outlives the snapshots it was built from.                     *)

Follows(r, c, entry) ==
    /\ entry[1] \in BuiltFrom(c)
    /\ entry[2] = cache[r][entry[1]] \/ (entry[1] = "proxy" /\ peeked[r])

\* What is said of clients, pair by pair.
LEMMA ClientsFollowIs ==
    /\ ClientsFollowCache /\ BuiltFromTheirOwn <=>
         \A r \in Replicas : \A c \in Clients : \A entry \in client[r][c] : Follows(r, c, entry)
    /\ ClientsFollowCache' /\ BuiltFromTheirOwn' <=>
         \A r \in Replicas : \A c \in Clients :
            \A entry \in client'[r][c] : Follows(r, c, entry)'
BY DEF ClientsFollowCache, BuiltFromTheirOwn, Follows, BuiltFrom, Clients

\* Installing a snapshot of s drops every client built from one.
LEMMA Dropped ==
    ASSUME NEW r \in Replicas, NEW s \in Scopes, NEW new \in Rows, Assign(r, s, new),
           client' = [client EXCEPT ![r] = Reset(@, s)],
           peeked' = IF s = "proxy" THEN [peeked EXCEPT ![r] = FALSE] ELSE peeked,
           client \in [Replicas -> [Clients -> SUBSET (Scopes \X Snapshots)]],
           cache \in [Replicas -> [Scopes -> Snapshots]], peeked \in [Replicas -> BOOLEAN],
           NEW x \in Replicas, NEW c \in Clients, NEW entry \in client'[x][c],
           \A e \in client[x][c] : Follows(x, c, e)
    PROVE  Follows(x, c, entry)'
<1>1. CASE x # r
  <2>1. client'[x] = client[x] /\ cache'[x] = cache[x] /\ peeked'[x] = peeked[x]
    BY <1>1 DEF Assign
  <2> QED
    BY <2>1 DEF Follows, BuiltFrom
<1>2. CASE x = r
  <2>1. client'[r] = Reset(client[r], s)
    OBVIOUS
  <2>2. c \notin Dependents(s) /\ client'[r][c] = client[r][c]
    BY <1>2, <2>1 DEF Reset, NotBuilt
  <2>3. s # "proxy" /\ s # c
    BY <2>2 DEF Dependents, Clients
  <2>4. entry[1] # s /\ Follows(r, c, entry)
    BY <1>2, <2>2, <2>3 DEF Follows, BuiltFrom
  <2>5. cache'[r][entry[1]] = cache[r][entry[1]] /\ peeked' = peeked
    BY <2>3, <2>4 DEF Assign
  <2> QED
    BY <1>2, <2>4, <2>5 DEF Follows, BuiltFrom
<1> QED
  BY <1>1, <1>2

\* A client outlives no snapshot it was built from.
LEMMA ClientsFollowCacheStays ==
    Inv /\ [Next]_vars => ClientsFollowCache' /\ BuiltFromTheirOwn'
<1> SUFFICES ASSUME Inv, [Next]_vars PROVE ClientsFollowCache' /\ BuiltFromTheirOwn'
  OBVIOUS
<1>a. /\ phase \in [Replicas -> {"off", "loading", "serving"}]
      /\ client \in [Replicas -> [Clients -> SUBSET (Scopes \X Snapshots)]]
      /\ listener \in [Replicas -> ListenerOf(Scopes)]
      /\ virgin \in [Replicas -> BOOLEAN]
      /\ toLoad \in [Replicas -> Seq(Scopes)]
  BY DEF Inv, TypeOK
<1>b. work \in [Replicas -> [Tasks -> Work]]
  BY DEF Inv, TypeOK, Work
<1>c. request \in [Requests -> RequestStates]
  BY DEF Inv, TypeOK
<1>d. NothingYet
  BY DEF Inv
<1>e. FirstIsFirst
  BY DEF Inv
<1>g. /\ row \in [Scopes -> Rows] /\ saves \in Nat
      /\ cache \in [Replicas -> [Scopes -> Snapshots]] /\ missed \in [Replicas -> SUBSET Scopes]
  BY BoundsAssumption DEF Inv, TypeOK
<1>h. \A x \in Replicas, t \in Tasks :
         work[x][t].read # Unloaded =>
            /\ work[x][t].read \in Rows /\ work[x][t].todo # <<>>
            /\ work[x][t].todo[1] \in Scopes /\ work[x][t].todo[1] = Head(work[x][t].todo)
  BY <1>b, <1>e DEF FirstIsFirst, Work, Snapshots
<1>p. peeked \in [Replicas -> BOOLEAN]
  BY DEF Inv, TypeOK
<1>s. \A x \in Replicas : \A k \in Clients : \A entry \in client[x][k] : Follows(x, k, entry)
  BY ClientsFollowIs DEF Inv
<1> SUFFICES \A x \in Replicas : \A k \in Clients : \A entry \in client'[x][k] :
                Follows(x, k, entry)'
  BY ClientsFollowIs
<1>1. ASSUME NEW r \in Replicas, Load(r),
             NEW x \in Replicas, NEW k \in Clients, NEW entry \in client'[x][k]
      PROVE  Follows(x, k, entry)'
  <2>1. x # r
    BY <1>1, <1>d DEF Load, NothingYet, NotBuilt
  <2>2. cache'[x] = cache[x] /\ client' = client /\ peeked' = peeked
    BY <1>1, <1>g, <2>1 DEF Load
  <2> QED
    BY <1>1, <1>s, <2>2 DEF Follows, BuiltFrom
<1>2. ASSUME NEW r \in Replicas, Serve(r),
             NEW x \in Replicas, NEW k \in Clients, NEW entry \in client'[x][k]
      PROVE  Follows(x, k, entry)'
  <2>1. cache' = cache /\ peeked' = peeked
    BY <1>2 DEF Serve
  <2>2. CASE client'[x][k] = client[x][k]
    BY <1>2, <1>s, <2>1, <2>2 DEF Follows, BuiltFrom
  <2>3. CASE x = r /\ client'[r][k] = {<<s, cache[r][s]>> : s \in BuiltFrom(k)}
    BY <1>2, <2>1, <2>3 DEF Follows, BuiltFrom
  <2> QED
    BY <1>2, <1>a, <2>2, <2>3 DEF Serve
<1>3. ASSUME NEW r \in Replicas, Crash(r),
             NEW x \in Replicas, NEW k \in Clients, NEW entry \in client'[x][k]
      PROVE  Follows(x, k, entry)'
  <2>1. x # r
    BY <1>3, <1>a DEF Crash, NotBuilt
  <2>2. cache'[x] = cache[x] /\ client'[x] = client[x] /\ peeked'[x] = peeked[x]
    BY <1>3, <1>a, <1>g, <1>p, <2>1 DEF Crash
  <2> QED
    BY <1>3, <1>s, <2>2 DEF Follows, BuiltFrom
<1>4. ASSUME NEW q \in Requests, SaveInstall(q),
             NEW x \in Replicas, NEW k \in Clients, NEW entry \in client'[x][k]
      PROVE  Follows(x, k, entry)'
  <2>1. request[q] \in [stage : {"reloaded"}, home : Replicas, scope : Scopes, read : Rows]
    BY <1>4, <1>c DEF SaveInstall, RequestStates, Unsent
  <2>2. PICK r \in Replicas, s \in Scopes, new \in Rows :
           r = request[q].home /\ s = request[q].scope /\ new = request[q].read
    BY <2>1
  <2>3. /\ Assign(r, s, new) /\ client' = [client EXCEPT ![r] = Reset(@, s)]
        /\ peeked' = IF s = "proxy" THEN [peeked EXCEPT ![r] = FALSE] ELSE peeked
    BY <1>4, <2>2 DEF SaveInstall
  <2> QED
    BY <1>4, <1>a, <1>g, <1>p, <1>s, <2>3, Dropped
<1>5. ASSUME NEW r \in Replicas, NEW t \in Tasks, RefreshInstall(r, t),
             NEW x \in Replicas, NEW k \in Clients, NEW entry \in client'[x][k]
      PROVE  Follows(x, k, entry)'
  <2>1. work[r][t].read \in Rows /\ Head(work[r][t].todo) \in Scopes
    BY <1>5, <1>b, <1>h DEF RefreshInstall, Work
  <2>2. PICK s \in Scopes, read \in Rows : s = Head(work[r][t].todo) /\ read = work[r][t].read
    BY <2>1
  <2>3. CASE s = "oidc" /\ ~Valid(s, read)
    <3>1. cache' = cache /\ client' = client /\ peeked' = peeked
      BY <1>5, <2>2, <2>3 DEF RefreshInstall
    <3> QED
      BY <1>5, <1>s, <3>1 DEF Follows, BuiltFrom
  <2>4. CASE ~(s = "oidc" /\ ~Valid(s, read))
    <3>1. PICK new \in Rows : new = Refreshed(s, read, cache[r][s])
      <4>1. cache[r][s] \in Snapshots
        BY <1>g
      <4> QED
        BY <2>4, <4>1, RefreshedVersion
    <3>2. /\ Assign(r, s, new) /\ client' = [client EXCEPT ![r] = Reset(@, s)]
          /\ peeked' = IF s = "proxy" THEN [peeked EXCEPT ![r] = FALSE] ELSE peeked
      BY <1>5, <2>2, <2>4, <3>1 DEF RefreshInstall
    <3> QED
      BY <1>5, <1>a, <1>g, <1>p, <1>s, <3>2, Dropped
  <2> QED
    BY <2>3, <2>4
<1>6. ASSUME NEW r \in Replicas, NEW c \in Clients, Use(r, c),
             NEW x \in Replicas, NEW k \in Clients, NEW entry \in client'[x][k]
      PROVE  Follows(x, k, entry)'
  <2>1. cache' = cache /\ peeked' = peeked
    BY <1>6 DEF Use
  <2>2. CASE client'[x][k] = client[x][k]
    BY <1>6, <1>s, <2>1, <2>2 DEF Follows, BuiltFrom
  <2>3. CASE x = r /\ k = c /\ client'[r][c] = {<<s, cache[r][s]>> : s \in BuiltFrom(c)}
    BY <1>6, <2>1, <2>3 DEF Follows, BuiltFrom
  <2> QED
    BY <1>6, <1>a, <2>2, <2>3 DEF Use
<1>7. ASSUME NEW r \in Replicas, NEW s \in Scopes, Test(r, s),
             NEW x \in Replicas, NEW k \in Clients, NEW entry \in client'[x][k]
      PROVE  Follows(x, k, entry)'
  <2>1. client' = client /\ s \in {"proxy", "email", "siem"} /\ Assign(r, s, row[s])
        /\ peeked' = IF s = "proxy" THEN [peeked EXCEPT ![r] = TRUE] ELSE peeked
    BY <1>7 DEF Test
  <2>2. entry[1] \in BuiltFrom(k) /\ k \in {"llm", "oidc"} /\ Follows(x, k, entry)
    BY <1>7, <1>s, <2>1 DEF Follows, Clients
  <2>3. CASE x # r
    <3>1. cache'[x] = cache[x] /\ peeked'[x] = peeked[x]
      BY <1>g, <1>p, <2>1, <2>3 DEF Assign
    <3> QED
      BY <2>2, <3>1 DEF Follows, BuiltFrom
  <2>4. CASE x = r /\ entry[1] = "proxy" /\ s = "proxy"
    BY <1>p, <2>1, <2>2, <2>4 DEF Follows, BuiltFrom
  <2>5. CASE x = r /\ entry[1] # s
    <3>1. cache'[r][entry[1]] = cache[r][entry[1]]
      BY <1>g, <2>1, <2>5 DEF Assign
    <3>2. peeked[r] => peeked'[r]
      BY <1>p, <2>1
    <3> QED
      BY <2>2, <2>5, <3>1, <3>2 DEF Follows, BuiltFrom
  <2> QED
    BY <2>1, <2>2, <2>3, <2>4, <2>5 DEF BuiltFrom
<1>8. CASE UNCHANGED <<cache, client, peeked>>
  BY <1>8, <1>s DEF Follows, BuiltFrom
<1> QED
  BY <1>1, <1>2, <1>3, <1>4, <1>5, <1>6, <1>7, <1>8
     DEF Next, vars, Boot, SaveRead, SaveCommit, SaveReload, Arrive, Consume, Break, KeepAlive,
         Connect, RefreshRead

-----------------------------------------------------------------------------
\* It holds before anything has started.
LEMMA InitInv == Init => Inv
<1> SUFFICES ASSUME Init PROVE Inv
  OBVIOUS
<1>1. TypeOK
  <2>1. [ver |-> 0, selected |-> FALSE, supported |-> TRUE] \in Rows
    BY BoundsAssumption DEF Rows
  <2>2. Started \in ListenerOf(Scopes) /\ Idle \in [todo : Seq(Scopes), read : Snapshots]
    BY DEF Started, ListenerOf, Links, Idle, Snapshots
  <2> QED
    BY <2>1, <2>2, BoundsAssumption
       DEF Init, TypeOK, NotBuilt, Snapshots, RequestStates
<1>2. NothingYet
  BY ElsewhereAssumption DEF Init, NothingYet, Unsent
<1>3. FirstIsFirst
  BY DEF Init, FirstIsFirst, Started, Idle
<1>4. ReadsAreRows
  BY DEF Init, ReadsAreRows, Idle, Unsent
<1>5. LoadedOrLost /\ StaleIsOwed
  BY DEF Init, LoadedOrLost, StaleIsOwed
<1>6. ClientsFollowCache /\ BuiltFromTheirOwn
  BY DEF Init, ClientsFollowCache, BuiltFromTheirOwn, NotBuilt
<1> QED
  BY <1>1, <1>2, <1>3, <1>4, <1>5, <1>6 DEF Inv

\* The settings of every replica keep the invariant described above, through every
\* save, refresh, restart and break of the connection.
THEOREM Invariant == Spec => []Inv
<1>1. Init => Inv
  BY InitInv
<1>2. Inv /\ [Next]_vars => Inv'
  <2> SUFFICES ASSUME Inv, [Next]_vars PROVE Inv'
    OBVIOUS
  <2>1. TypeOK'
    BY Typed DEF Inv
  <2>2. NothingYet' /\ FirstIsFirst' /\ ReadsAreRows' /\ LoadedOrLost'
    BY NothingYetStays, FirstIsFirstStays, ReadsAreRowsStays, LoadedOrLostStays
  <2>3. StaleIsOwed' /\ ClientsFollowCache' /\ BuiltFromTheirOwn'
    BY StaleIsOwedStays, ClientsFollowCacheStays
  <2> QED
    BY <2>1, <2>2, <2>3 DEF Inv
<1> QED
  BY <1>1, <1>2, PTL DEF Spec

\* Every variable keeps to its set.
THEOREM TypeCorrect == Spec => []TypeOK
<1>1. Inv => TypeOK
  BY DEF Inv
<1> QED
  BY <1>1, Invariant, PTL

\* A replica serves outdated settings only while a refresh is on its way to it,
\* or after one of the losses the code accepts (config_sync.refresh_scope,
\* on_bus_connected, pg_listener._on_notify).
THEOREM StaleIsAlwaysOwed == Spec => []StaleIsOwed
<1>1. Inv => StaleIsOwed
  BY DEF Inv
<1> QED
  BY <1>1, Invariant, PTL

\* reset_provider and reset_oauth are called wherever a snapshot is replaced
\* that a client was built from, a connectivity test of the proxy apart.
THEOREM ClientsAlwaysFollowCache == Spec => []ClientsFollowCache
<1>1. Inv => ClientsFollowCache
  BY DEF Inv
<1> QED
  BY <1>1, Invariant, PTL
=============================================================================

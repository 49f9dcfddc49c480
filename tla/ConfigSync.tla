----------------------------- MODULE ConfigSync -----------------------------
(***************************************************************************)
(* The runtime settings and their propagation (services/config_sync, the   *)
(* six *_settings_service modules, their routers, the lifespan's loaders). *)
(*                                                                         *)
(* Six singleton rows are the truth.  Every replica keeps a snapshot of    *)
(* each in memory, and two clients it builds lazily from those snapshots:  *)
(* the LLM provider and the OIDC registry, both of which bake the outbound *)
(* proxy in.  A save changes the row and announces its scope on the bus    *)
(* inside the same transaction; every replica then re-reads the row.  The  *)
(* bus delivers at most once, so a replica also re-reads everything each   *)
(* time it re-establishes its subscription.                                *)
(*                                                                         *)
(* A read of the row and the assignment of the snapshot are two steps: the *)
(* event loop runs other tasks while the answer is on its way.             *)
(***************************************************************************)
EXTENDS Listener, SequencesExt

CONSTANTS Replicas,    \* the replicas whose caches are followed
          Elsewhere,   \* a replica whose caches are not: it only saves
          Scopes,      \* the settings this instance has
          Requests,    \* PUT requests
          Patches,     \* what a PUT may change: scope, field and new value
          MaxSaves,    \* bound on committed saves
          MaxBreaks,   \* bound on broken LISTEN connections
          MaxCrashes,  \* bound on restarts
          Unloaded     \* a snapshot that no loader has filled

AllScopes == {"proxy", "siem", "email", "general", "llm", "oidc"}

ASSUME ScopesAssumption == Scopes \subseteq AllScopes
Fields == {"selected", "supported"}
ASSUME PatchesAssumption ==
    Patches \subseteq [scope : Scopes, field : Fields, value : BOOLEAN]
ASSUME ElsewhereAssumption == Elsewhere \notin Replicas
ASSUME BoundsAssumption == /\ MaxSaves \in Nat
                           /\ MaxBreaks \in Nat
                           /\ MaxCrashes \in Nat

VARIABLES
    row,       \* [Scopes -> Rows]: the singletons in the database
    cache,     \* [Replicas -> [Scopes -> Rows or Unloaded]]
    client,    \* [Replicas -> [Clients -> what it was built from, or {}]]
    phase,     \* "off", "loading" or "serving"
    toLoad,    \* the scopes the lifespan has still to load, in order
    virgin,    \* config_sync._first_connect
    listener,  \* Listener records
    work,      \* what the two refreshing tasks of a replica are doing
    request,   \* the PUT requests in flight
    missed,    \* scopes whose last announcement a replica lost for good
    peeked,    \* a connectivity test reloaded the proxy snapshot alone
    saves, breaks, crashes

vars == <<row, cache, client, phase, toLoad, virgin, listener, work, request,
          missed, peeked, saves, breaks, crashes>>

(***************************************************************************)
(* Data.                                                                   *)
(***************************************************************************)

\* ver counts the saves; the other two fields are the part of the settings
\* that a validation relates: a selection (OIDC-only login, an LLM provider,
\* e-mail on) and what it needs (a complete provider, a model, a base URL).
Rows == [ver : 0..MaxSaves, selected : BOOLEAN, supported : BOOLEAN]
ASSUME UnloadedAssumption == Unloaded \notin Rows

\* What one PUT changes: UPDATE writes the changed column only.
Patched(r, patch) ==
    [ver |-> r.ver + 1,
     selected |-> IF patch.field = "selected" THEN patch.value ELSE r.selected,
     supported |-> IF patch.field = "supported" THEN patch.value ELSE r.supported]

\* oidc_settings_service.validate_config, llm_settings_service's
\* validate_selection and the e-mail router's two checks: a selection without
\* what it needs is refused.  The other scopes check single fields only.
CrossChecked == {"email", "llm", "oidc"}
Valid(s, r) == s \in CrossChecked => (r.selected => r.supported)

\* refresh_cache, by scope.  OIDC raises on an invalid row and keeps what it
\* had; the LLM installs a disabled snapshot of it; the others install it.
Refreshed(s, r, old) ==
    CASE s = "oidc" /\ ~Valid(s, r) -> old
      [] s = "llm" /\ ~Valid(s, r)  -> [r EXCEPT !.selected = FALSE]
      [] OTHER                      -> r

\* The clients built from snapshots, and what each is built from.
Clients == {"llm", "oidc"} \cap Scopes
BuiltFrom(c) == {c, "proxy"} \cap Scopes
NotBuilt == {}

\* Mutant: only the client configured by the scope itself is dropped.
DependentsOwn(s) == {s} \cap Clients

\* The clients a refresh or a save of a scope drops.
Dependents(s) == CASE s = "proxy" -> Clients
                   [] s \in Clients -> {s}
                   [] OTHER -> {}
Reset(built, s) == [c \in Clients |-> IF c \in Dependents(s) THEN NotBuilt ELSE built[c]]

\* The lifespan's loaders, one after the other.
Loads(s) == IF s \in Scopes THEN <<s>> ELSE <<>>
LoadOrder == Loads("proxy") \o Loads("siem") \o Loads("email")
                \o Loads("general") \o Loads("llm") \o Loads("oidc")

Tasks == {"consumer", "hook"}
Idle == [todo |-> <<>>, read |-> Unloaded]
Snapshots == Rows \cup {Unloaded}

Homes == Replicas \cup {Elsewhere}
Unsent == [stage |-> "idle", home |-> Elsewhere]
RequestStates ==
    {Unsent}
      \cup [stage : {"read"}, home : Homes, patch : Patches]
      \cup [stage : {"committed"}, home : Replicas, scope : Scopes]
      \cup [stage : {"reloaded"}, home : Replicas, scope : Scopes, read : Rows]

Stale(r, s) == cache[r][s] = Unloaded \/ cache[r][s].ver # row[s].ver

\* A snapshot assignment: the new snapshot, whether it went back in time, and
\* whether the replica is level with the database again.
Assign(r, s, new) ==
    /\ cache' = [cache EXCEPT ![r][s] = new]
    /\ missed' = [missed EXCEPT ![r] =
           IF new = Unloaded \/ new.ver # row[s].ver
           THEN IF cache[r][s] # Unloaded /\ cache[r][s].ver > new.ver
                THEN @ \cup {s} ELSE @
           ELSE @ \ {s}]

-----------------------------------------------------------------------------
(***************************************************************************)
(* A replica starts and stops.                                             *)
(***************************************************************************)
Init ==
    /\ row = [s \in Scopes |-> [ver |-> 0, selected |-> FALSE, supported |-> TRUE]]
    /\ cache = [r \in Replicas |-> [s \in Scopes |-> Unloaded]]
    /\ client = [r \in Replicas |-> [c \in Clients |-> NotBuilt]]
    /\ phase = [r \in Replicas |-> "off"]
    /\ toLoad = [r \in Replicas |-> <<>>]
    /\ virgin = [r \in Replicas |-> TRUE]
    /\ listener = [r \in Replicas |-> Started]
    /\ work = [r \in Replicas |-> [t \in Tasks |-> Idle]]
    /\ request = [q \in Requests |-> Unsent]
    /\ missed = [r \in Replicas |-> {}]
    /\ peeked = [r \in Replicas |-> FALSE]
    /\ saves = 0 /\ breaks = 0 /\ crashes = 0

Boot(r) ==
    /\ phase[r] = "off"
    /\ phase' = [phase EXCEPT ![r] = "loading"]
    /\ toLoad' = [toLoad EXCEPT ![r] = LoadOrder]
    /\ UNCHANGED <<row, cache, client, virgin, listener, work, request, missed, peeked,
                   saves, breaks, crashes>>

\* _load_<scope>_config.  All but OIDC's are best effort: when one cannot read
\* its row the replica goes on without it.  OIDC's must succeed.
Load(r) ==
    /\ phase[r] = "loading"
    /\ toLoad[r] # <<>>
    /\ LET s == Head(toLoad[r]) IN
       /\ s = "oidc" => Valid(s, row[s])
       /\ \/ /\ cache' = [cache EXCEPT ![r][s] = Refreshed(s, row[s], Unloaded)]
             /\ UNCHANGED missed
          \/ /\ s # "oidc"
             /\ breaks < MaxBreaks
             /\ missed' = [missed EXCEPT ![r] = @ \cup {s}]
             /\ UNCHANGED cache
       /\ breaks' = IF missed' = missed THEN breaks ELSE breaks + 1
    /\ toLoad' = [toLoad EXCEPT ![r] = Tail(@)]
    /\ UNCHANGED <<row, client, phase, virgin, listener, work, request, peeked, saves, crashes>>

\* lifespan: the OIDC providers are registered from the snapshots just loaded,
\* then the listener starts, and requests are served before it has connected.
Serve(r) ==
    /\ phase[r] = "loading"
    /\ toLoad[r] = <<>>
    /\ phase' = [phase EXCEPT ![r] = "serving"]
    /\ client' = [client EXCEPT ![r] =
                    [c \in Clients |-> IF c = "oidc" THEN {<<s, cache[r][s]>> : s \in BuiltFrom(c)}
                                       ELSE @[c]]]
    /\ UNCHANGED <<row, cache, toLoad, virgin, listener, work, request, missed, peeked,
                   saves, breaks, crashes>>

\* The process dies: everything it held in memory goes with it, and its
\* requests; what they committed stays.
Crash(r) ==
    /\ phase[r] # "off"
    /\ crashes < MaxCrashes
    /\ crashes' = crashes + 1
    /\ phase' = [phase EXCEPT ![r] = "off"]
    /\ toLoad' = [toLoad EXCEPT ![r] = <<>>]
    /\ cache' = [cache EXCEPT ![r] = [s \in Scopes |-> Unloaded]]
    /\ client' = [client EXCEPT ![r] = [c \in Clients |-> NotBuilt]]
    /\ virgin' = [virgin EXCEPT ![r] = TRUE]
    /\ listener' = [listener EXCEPT ![r] = Started]
    /\ work' = [work EXCEPT ![r] = [t \in Tasks |-> Idle]]
    /\ request' = [q \in Requests |-> IF request[q].home = r THEN Unsent ELSE request[q]]
    /\ missed' = [missed EXCEPT ![r] = {}]
    /\ peeked' = [peeked EXCEPT ![r] = FALSE]
    /\ UNCHANGED <<row, saves, breaks>>

-----------------------------------------------------------------------------
(***************************************************************************)
(* PUT /<scope>/settings.                                                  *)
(***************************************************************************)
Serving(home) == home \in Replicas => phase[home] = "serving"

\* update_settings reads the row and validates the patch against what it read;
\* a refused patch changes nothing.
SaveRead(q, home, patch) ==
    /\ request[q].stage = "idle"
    /\ Serving(home)
    /\ saves < MaxSaves
    /\ Valid(patch.scope, Patched(row[patch.scope], patch))
    /\ request' = [request EXCEPT ![q] = [stage |-> "read", home |-> home, patch |-> patch]]
    /\ UNCHANGED <<row, cache, client, phase, toLoad, virgin, listener, work, missed, peeked,
                   saves, breaks, crashes>>

\* Mutant: the scope is announced in no transaction.
SaveCommitUnannounced(q) ==
    LET s == request[q].patch.scope IN
    /\ request[q].stage = "read"
    /\ saves < MaxSaves
    /\ saves' = saves + 1
    /\ row' = [row EXCEPT ![s] = Patched(@, request[q].patch)]
    /\ request' = [request EXCEPT ![q] =
           IF @.home = Elsewhere THEN Unsent
           ELSE [stage |-> "committed", home |-> @.home, scope |-> s]]
    /\ UNCHANGED <<cache, client, phase, toLoad, virgin, listener, work, missed, peeked,
                   breaks, crashes>>

\* The UPDATE and publish_config_changed, in one commit.  A replica that loaded
\* the scope and has not subscribed for the first time loses the announcement
\* for good: its first connect recovers nothing.
SaveCommit(q) ==
    LET s == request[q].patch.scope IN
    /\ request[q].stage = "read"
    /\ saves < MaxSaves
    /\ saves' = saves + 1
    /\ row' = [row EXCEPT ![s] = Patched(@, request[q].patch)]
    /\ listener' = [r \in Replicas |-> Notified(listener[r], s)]
    /\ missed' = [r \in Replicas |->
           IF /\ virgin[r] /\ phase[r] # "off"
              /\ s \notin ToSet(toLoad[r])
           THEN missed[r] \cup {s} ELSE missed[r]]
    /\ request' = [request EXCEPT ![q] =
           IF @.home = Elsewhere THEN Unsent
           ELSE [stage |-> "committed", home |-> @.home, scope |-> s]]
    /\ UNCHANGED <<cache, client, phase, toLoad, virgin, work, peeked, breaks, crashes>>

\* session.refresh(row)
SaveReload(q) ==
    /\ request[q].stage = "committed"
    /\ request' = [request EXCEPT ![q] =
           [stage |-> "reloaded", home |-> @.home, scope |-> @.scope, read |-> row[@.scope]]]
    /\ UNCHANGED <<row, cache, client, phase, toLoad, virgin, listener, work, missed, peeked,
                   saves, breaks, crashes>>

\* set_config on this replica, and the clients built from the old snapshot.
SaveInstall(q) ==
    LET r == request[q].home
        s == request[q].scope IN
    /\ request[q].stage = "reloaded"
    /\ Assign(r, s, request[q].read)
    /\ client' = [client EXCEPT ![r] = Reset(@, s)]
    /\ peeked' = IF s = "proxy" THEN [peeked EXCEPT ![r] = FALSE] ELSE peeked
    /\ request' = [request EXCEPT ![q] = Unsent]
    /\ UNCHANGED <<row, phase, toLoad, virgin, listener, work, saves, breaks, crashes>>

-----------------------------------------------------------------------------
(***************************************************************************)
(* The listener's two tasks: the consumer, and the connection task that    *)
(* runs the reconnect hooks.                                               *)
(***************************************************************************)
Arrive(r) ==
    /\ listener[r].wire # <<>>
    /\ listener' = [listener EXCEPT ![r] = OnNotify(@)]
    /\ missed' = IF Full(listener[r])
                 THEN [missed EXCEPT ![r] = @ \cup {Head(listener[r].wire)}]
                 ELSE missed
    /\ UNCHANGED <<row, cache, client, phase, toLoad, virgin, work, request, peeked,
                   saves, breaks, crashes>>

\* _consume: one notification at a time.
Consume(r) ==
    /\ phase[r] = "serving"
    /\ listener[r].queue # <<>>
    /\ work[r]["consumer"].todo = <<>>
    /\ work' = [work EXCEPT ![r]["consumer"].todo = <<Head(listener[r].queue)>>]
    /\ listener' = [listener EXCEPT ![r] = Taken(@)]
    /\ UNCHANGED <<row, cache, client, phase, toLoad, virgin, request, missed, peeked,
                   saves, breaks, crashes>>

Break(r) ==
    /\ listener[r].link = "up"
    /\ breaks < MaxBreaks
    /\ breaks' = breaks + 1
    /\ listener' = [listener EXCEPT ![r] = Broken(@)]
    /\ UNCHANGED <<row, cache, client, phase, toLoad, virgin, work, request, missed, peeked,
                   saves, crashes>>

\* The connection task is back in _hold_open, and its SELECT 1 fails.
KeepAlive(r) ==
    /\ listener[r].link = "broken"
    /\ work[r]["hook"].todo = <<>>
    /\ listener' = [listener EXCEPT ![r] = Closed(@)]
    /\ UNCHANGED <<row, cache, client, phase, toLoad, virgin, work, request, missed, peeked,
                   saves, breaks, crashes>>

\* Mutant: no reconnect hook is registered.
ConnectOnly(r) ==
    /\ phase[r] = "serving"
    /\ listener[r].link = "down"
    /\ work[r]["hook"].todo = <<>>
    /\ listener' = [listener EXCEPT ![r] = Subscribed(@)]
    /\ virgin' = [virgin EXCEPT ![r] = FALSE]
    /\ UNCHANGED <<row, cache, client, phase, toLoad, work, request, missed, peeked,
                   saves, breaks, crashes>>

\* _connect_and_subscribe, then on_bus_connected: nothing on the first
\* connect, every scope afterwards.
Connect(r) ==
    /\ phase[r] = "serving"
    /\ listener[r].link = "down"
    /\ work[r]["hook"].todo = <<>>
    /\ listener' = [listener EXCEPT ![r] = Subscribed(@)]
    /\ virgin' = [virgin EXCEPT ![r] = FALSE]
    /\ work' = [work EXCEPT ![r]["hook"].todo = IF virgin[r] THEN <<>> ELSE LoadOrder]
    /\ UNCHANGED <<row, cache, client, phase, toLoad, request, missed, peeked,
                   saves, breaks, crashes>>

\* refresh_scope: the row is read,
RefreshRead(r, t) ==
    /\ work[r][t].todo # <<>>
    /\ work[r][t].read = Unloaded
    /\ work' = [work EXCEPT ![r][t].read = row[Head(work[r][t].todo)]]
    /\ UNCHANGED <<row, cache, client, phase, toLoad, virgin, listener, request, missed, peeked,
                   saves, breaks, crashes>>

\* and its snapshot installed, with the clients built from the old one dropped.
\* An invalid OIDC row raises before either.
RefreshInstall(r, t) ==
    LET s == Head(work[r][t].todo)
        raises == s = "oidc" /\ ~Valid(s, work[r][t].read) IN
    /\ work[r][t].todo # <<>>
    /\ work[r][t].read # Unloaded
    /\ work' = [work EXCEPT ![r][t] = [todo |-> Tail(@.todo), read |-> Unloaded]]
    /\ IF raises
       THEN UNCHANGED <<cache, client, missed, peeked>>
       ELSE /\ Assign(r, s, Refreshed(s, work[r][t].read, cache[r][s]))
            /\ client' = [client EXCEPT ![r] = Reset(@, s)]
            /\ peeked' = IF s = "proxy" THEN [peeked EXCEPT ![r] = FALSE] ELSE peeked
    /\ UNCHANGED <<row, phase, toLoad, virgin, listener, request, saves, breaks, crashes>>

-----------------------------------------------------------------------------
(***************************************************************************)
(* What the snapshots are for.                                             *)
(***************************************************************************)

\* active_provider, ensure_registered: built once from the snapshots, kept.
Use(r, c) ==
    /\ phase[r] = "serving"
    /\ client[r][c] = NotBuilt
    /\ client' = [client EXCEPT ![r][c] = {<<s, cache[r][s]>> : s \in BuiltFrom(c)}]
    /\ UNCHANGED <<row, cache, phase, toLoad, virgin, listener, work, request, missed, peeked,
                   saves, breaks, crashes>>

\* POST /proxy/test, /email/test, /audit/test reload their snapshot from the
\* row first: the snapshot alone, not the clients built from it.
Test(r, s) ==
    /\ phase[r] = "serving"
    /\ s \in {"proxy", "email", "siem"}
    /\ cache[r][s] # row[s]
    /\ Assign(r, s, row[s])
    /\ peeked' = IF s = "proxy" THEN [peeked EXCEPT ![r] = TRUE] ELSE peeked
    /\ UNCHANGED <<row, client, phase, toLoad, virgin, listener, work, request,
                   saves, breaks, crashes>>

Next ==
    \/ \E r \in Replicas :
          \/ Boot(r) \/ Load(r) \/ Serve(r) \/ Crash(r)
          \/ Arrive(r) \/ Consume(r) \/ Break(r) \/ KeepAlive(r) \/ Connect(r)
          \/ \E t \in Tasks : RefreshRead(r, t) \/ RefreshInstall(r, t)
          \/ \E c \in Clients : Use(r, c)
          \/ \E s \in Scopes : Test(r, s)
    \/ \E q \in Requests :
          \/ \E home \in Homes, patch \in Patches : SaveRead(q, home, patch)
          \/ SaveCommit(q) \/ SaveReload(q) \/ SaveInstall(q)

\* A replica's own tasks keep running; nobody has to save, test or crash.
Fairness ==
    \A r \in Replicas :
       /\ WF_vars(Arrive(r)) /\ WF_vars(Consume(r))
       /\ WF_vars(KeepAlive(r)) /\ WF_vars(Connect(r))
       /\ \A t \in Tasks : WF_vars(RefreshRead(r, t)) /\ WF_vars(RefreshInstall(r, t))

Spec == Init /\ [][Next]_vars
FairSpec == Spec /\ Fairness

-----------------------------------------------------------------------------
(***************************************************************************)
(* Properties.                                                             *)
(***************************************************************************)
TypeOK ==
    /\ row \in [Scopes -> Rows]
    /\ cache \in [Replicas -> [Scopes -> Snapshots]]
    /\ client \in [Replicas -> [Clients -> SUBSET (Scopes \X Snapshots)]]
    /\ phase \in [Replicas -> {"off", "loading", "serving"}]
    /\ toLoad \in [Replicas -> Seq(Scopes)]
    /\ virgin \in [Replicas -> BOOLEAN]
    /\ listener \in [Replicas -> ListenerOf(Scopes)]
    /\ work \in [Replicas -> [Tasks -> [todo : Seq(Scopes), read : Snapshots]]]
    /\ request \in [Requests -> RequestStates]
    /\ missed \in [Replicas -> SUBSET Scopes]
    /\ peeked \in [Replicas -> BOOLEAN]
    /\ saves \in 0..MaxSaves /\ breaks \in 0..MaxBreaks /\ crashes \in 0..MaxCrashes

\* The replica will still read the row of s, or has read its latest version
\* and not installed it yet.
Coming(r, s) ==
    \/ s \in InHand(listener[r])
    \/ listener[r].link # "up" /\ ~virgin[r]
    \/ \E t \in Tasks : \E i \in DOMAIN work[r][t].todo :
          /\ work[r][t].todo[i] = s
          /\ i = 1 => work[r][t].read = Unloaded \/ work[r][t].read.ver = row[s].ver

\* A replica that serves from an outdated snapshot is about to re-read it,
\* unless the announcement was lost in one of three ways (missed): before its
\* first subscription, to a full queue, or to a slower reader that put an older
\* snapshot back; or unless the row itself is one OIDC refuses to load.
StaleIsOwed ==
    \A r \in Replicas, s \in Scopes :
       phase[r] = "serving" /\ Stale(r, s) =>
          \/ Coming(r, s)
          \/ s \in missed[r]
          \/ s = "oidc" /\ ~Valid(s, row[s])

\* No client a replica goes on using was built from snapshots it has since
\* replaced; a connectivity test is the one thing that can part them, for the
\* proxy, until the next refresh of the proxy.
ClientsFollowCache ==
    \A r \in Replicas : \A c \in Clients : \A entry \in client[r][c] :
       \/ entry[2] = cache[r][entry[1]]
       \/ entry[1] = "proxy" /\ peeked[r]

\* A reconnected replica recovers everything it missed: once a subscription is
\* back after a break, every snapshot becomes current, unless something is
\* missed again.
Recovered(r) ==
    \/ phase[r] # "serving"
    \/ \A s \in Scopes : \/ ~Stale(r, s)
                         \/ s \in missed[r]
                         \/ s = "oidc" /\ ~Valid(s, row[s])
Converges == \A r \in Replicas : []<>Recovered(r)
=============================================================================

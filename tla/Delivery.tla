------------------------------ MODULE Delivery ------------------------------
(***************************************************************************)
(* How a committed fact reaches the browsers watching an exercise          *)
(* (services/domain_events, pg_bus, pg_listener, ws_relay, ws_projector,   *)
(* ws_manager, routers/ws, and the page's half in static/js).              *)
(*                                                                         *)
(* A unit of work records events in its session.  COMMIT hands them to     *)
(* Postgres for the other replicas and to dispatch() for this one;         *)
(* ROLLBACK forgets them.  Each replica projects an event once, onto the   *)
(* sockets it holds: it reads the row back, picks the sockets whose        *)
(* authorization (a snapshot taken at the handshake and refreshed by each  *)
(* ping) lets them see it, and sends to each independently.                *)
(*                                                                         *)
(* Sockets come and go under all of this: the network drops them, a        *)
(* stalled one is closed by the sender, a change of role closes a user's   *)
(* sockets everywhere, a replica dies with all of its own.                 *)
(***************************************************************************)
EXTENDS Listener, Audience, FiniteSets

CONSTANTS Replicas, Clients,   \* a client is one user's page
          Events,              \* the facts, by name
          Item,                \* [Events -> Items]: what each is about
          Viewer,              \* [Clients -> Viewers]: who is at each page
          MaxDials,            \* bound on a page's handshakes
          MaxFaults,           \* bound on broken LISTENs, crashes, handlers and
                               \* subscribers that raise
          MaxChanges           \* bound on changes of role or membership

ASSUME ItemAssumption == Item \in [Events -> Items]
ASSUME ViewerAssumption == Viewer \in [Clients -> Viewers]

\* An author is in the team they wrote from: the roster is locked from the first
\* release on (roster_changes_allowed).  What was written before a change of team
\* that came earlier than that is left out.
ASSUME AuthorAssumption ==
    \A e \in Events, c \in Clients :
       Item[e].author = Viewer[c].user => Item[e].team \in {NoGroup, Viewer[c].group}

VARIABLES
    account,   \* [Clients -> [role, member, epoch]]: the user's rows
    fate,      \* [Events -> "new", "pending", "committed", "rolled_back", "deleted"]
    unit,      \* [Replicas -> [pending, committed]]: a request session's buffer
    listener,  \* Listener records
    sending,   \* [Replicas -> [Tasks -> the frame being fanned out, or Quiet]]
    room,      \* the connections of every replica
    page,      \* [Clients -> [phase, dial, again]]: where its socket is
    view,      \* [Clients -> the events the page shows]
    skipped,   \* [Replicas -> events this replica will never project]
    faults, changes

vars == <<account, fate, unit, listener, sending, room, page, view,
          skipped, faults, changes>>

Tasks == {"request", "consumer"}
Quiet == [event |-> "none", to |-> {}]
Durable == {e \in Events : fate[e] \in {"committed", "deleted"}}

\* ttx_events carries events and the instruction to drop a user's sockets, each
\* stamped with the replica it comes from (pg_bus.envelope).
EventMessage(e, origin) == [event |-> e, origin |-> origin]
CloseMessage(c, origin) == [close |-> c, origin |-> origin]
IsEvent(m) == "event" \in DOMAIN m
Messages == {EventMessage(e, r) : e \in Events, r \in Replicas}
            \cup {CloseMessage(c, r) : c \in Clients, r \in Replicas}

\* A connection: its socket (the page, and the number of the handshake), the
\* replica that holds it, the authorization it was granted, whether it is in the
\* room yet, and, since then, the frames it got and the events committed.
Socket(c) == <<c, page[c].dial>>
On(r) == {k \in room : k.home = r /\ k.joined}
Open(k) == page[k.socket[1]].phase = "open" /\ k.socket = Socket(k.socket[1])
SeenBy(k) == [user |-> Viewer[k.socket[1]].user, role |-> k.role,
              group |-> Viewer[k.socket[1]].group]
Now(c) == [user |-> Viewer[c].user, role |-> account[c].role, group |-> Viewer[c].group]

\* close_user_connections on replica r: every registered socket of the user
\* leaves the room, and is then closed with 4003.
Closing(r, c) ==
    LET mine == {k \in On(r) : k.socket[1] = c} IN
    /\ room' = room \ mine
    /\ page' = IF \E k \in mine : Open(k) THEN [page EXCEPT ![c].phase = "denied"] ELSE page

Init ==
    /\ account = [c \in Clients |-> [role |-> Viewer[c].role, member |-> TRUE, epoch |-> 0]]
    /\ fate = [e \in Events |-> "new"]
    /\ unit = [r \in Replicas |-> [pending |-> {}, committed |-> {}]]
    /\ listener = [r \in Replicas |-> Subscribed(Started)]
    /\ sending = [r \in Replicas |-> [t \in Tasks |-> Quiet]]
    /\ room = {}
    /\ page = [c \in Clients |-> [phase |-> "left", dial |-> 0, again |-> FALSE]]
    /\ view = [c \in Clients |-> {}]
    /\ skipped = [r \in Replicas |-> {}]
    /\ faults = 0 /\ changes = 0

-----------------------------------------------------------------------------
(***************************************************************************)
(* The session-scoped buffer.                                              *)
(***************************************************************************)

\* record: inside the transaction, and only with an id.  Every caller records
\* one event per unit of work.
Record(r, e) ==
    /\ fate[e] = "new"
    /\ unit[r] = [pending |-> {}, committed |-> {}]
    /\ fate' = [fate EXCEPT ![e] = "pending"]
    /\ unit' = [unit EXCEPT ![r].pending = {e}]
    /\ UNCHANGED <<account, listener, sending, room, page, view, skipped,
                   faults, changes>>

\* What a commit of e by r does to everything but the bus.
Promoted(r, e) ==
    /\ fate' = [fate EXCEPT ![e] = "committed"]
    /\ unit' = [unit EXCEPT ![r] = [pending |-> {}, committed |-> @.committed \cup {e}]]
    /\ room' = {IF k.joined /\ Open(k) THEN [k EXCEPT !.due = @ \cup {e}] ELSE k : k \in room}
    /\ skipped' = [h \in Replicas |->
           IF h # r /\ listener[h].link # "up" THEN skipped[h] \cup {e} ELSE skipped[h]]
    /\ UNCHANGED <<account, sending, page, view, faults, changes>>

\* Mutant: nothing is put on the bus.
CommitUnpublished(r, e) ==
    /\ e \in unit[r].pending
    /\ Promoted(r, e)
    /\ UNCHANGED listener

\* COMMIT: _publish_on_commit put the notification in the transaction,
\* _promote_on_commit moves the event to the committed half.  A replica whose
\* subscription is down is never told.
Commit(r, e) ==
    /\ e \in unit[r].pending
    /\ Promoted(r, e)
    /\ listener' = [h \in Replicas |-> Notified(listener[h], EventMessage(e, r))]

\* Mutant: the promoting hook runs on a rollback too.
RollbackKeeps(r, e) ==
    /\ e \in unit[r].pending
    /\ fate' = [fate EXCEPT ![e] = "rolled_back"]
    /\ unit' = [unit EXCEPT ![r] = [pending |-> {}, committed |-> @.committed \cup {e}]]
    /\ UNCHANGED <<account, listener, sending, room, page, view, skipped,
                   faults, changes>>

\* ROLLBACK, or a session closed with its transaction open:
\* _discard_on_rollback.
Rollback(r, e) ==
    /\ e \in unit[r].pending
    /\ fate' = [fate EXCEPT ![e] = "rolled_back"]
    /\ unit' = [unit EXCEPT ![r].pending = {}]
    /\ UNCHANGED <<account, listener, sending, room, page, view, skipped,
                   faults, changes>>

\* The handler raises between its commit and its dispatch: get_session's drain
\* stands after the yield and is not reached.
Abandon(r) ==
    /\ unit[r].committed # {}
    /\ faults < MaxFaults
    /\ faults' = faults + 1
    /\ skipped' = [skipped EXCEPT ![r] = @ \cup unit[r].committed]
    /\ unit' = [unit EXCEPT ![r].committed = {}]
    /\ UNCHANGED <<account, fate, listener, sending, room, page, view, changes>>

\* The row an event names is deleted after all (a pending inject, an exercise).
Delete(e) ==
    /\ fate[e] = "committed"
    /\ Item[e].kind = "inject_updated"
    /\ fate' = [fate EXCEPT ![e] = "deleted"]
    /\ UNCHANGED <<account, unit, listener, sending, room, page, view, skipped,
                   faults, changes>>

-----------------------------------------------------------------------------
(***************************************************************************)
(* The fan-out, and the bus.                                               *)
(***************************************************************************)

\* project: the handler reads the row back, gives up if it is gone, and picks
\* its sockets, all before the first send.
Project(r, t, e) ==
    LET to == IF fate[e] = "deleted" THEN {}
              ELSE {k.socket : k \in {j \in On(r) : Pushed(Item[e], SeenBy(j))}} IN
    sending' = IF to = {} THEN sending
               ELSE [sending EXCEPT ![r][t] = [event |-> e, to |-> to]]

\* dispatch, called at the end of the unit of work or by get_session's
\* teardown: the buffer is emptied and each event projected.
Dispatch(r, e) ==
    /\ e \in unit[r].committed
    /\ sending[r]["request"] = Quiet
    /\ unit' = [unit EXCEPT ![r].committed = @ \ {e}]
    /\ Project(r, "request", e)
    /\ UNCHANGED <<account, fate, listener, room, page, view, skipped,
                   faults, changes>>

\* A subscriber that raises (its read of the row, say) is logged by project and
\* swallowed: the request goes on, and this replica's sockets are not told.
DispatchFails(r, e) ==
    /\ e \in unit[r].committed
    /\ sending[r]["request"] = Quiet
    /\ faults < MaxFaults
    /\ faults' = faults + 1
    /\ unit' = [unit EXCEPT ![r].committed = @ \ {e}]
    /\ skipped' = [skipped EXCEPT ![r] = @ \cup {e}]
    /\ UNCHANGED <<account, fate, listener, sending, room, page, view, changes>>

\* _on_notify.
Arrive(r) ==
    /\ listener[r].wire # <<>>
    /\ listener' = [listener EXCEPT ![r] = OnNotify(@)]
    /\ LET m == Head(listener[r].wire) IN
       skipped' = IF Full(listener[r]) /\ IsEvent(m) /\ m.origin # r
                  THEN [skipped EXCEPT ![r] = @ \cup {m.event}] ELSE skipped
    /\ UNCHANGED <<account, fate, unit, sending, room, page, view, faults,
                   changes>>

\* Mutant: the relay acts on what this replica published too.
RelayAll(r) ==
    LET m == Head(listener[r].queue) IN
    /\ listener[r].queue # <<>>
    /\ sending[r]["consumer"] = Quiet
    /\ listener' = [listener EXCEPT ![r] = Taken(@)]
    /\ IF IsEvent(m) THEN Project(r, "consumer", m.event) /\ UNCHANGED <<room, page>>
       ELSE Closing(r, m.close) /\ UNCHANGED sending
    /\ UNCHANGED <<account, fate, unit, view, skipped, faults, changes>>

\* _consume and ws_relay.handle: a replica's own messages are skipped, the
\* others are acted on one at a time.
Relay(r) ==
    LET m == Head(listener[r].queue) IN
    /\ listener[r].queue # <<>>
    /\ sending[r]["consumer"] = Quiet
    /\ listener' = [listener EXCEPT ![r] = Taken(@)]
    /\ CASE m.origin = r -> UNCHANGED <<sending, room, page>>
         [] m.origin # r /\ IsEvent(m) ->
               Project(r, "consumer", m.event) /\ UNCHANGED <<room, page>>
         [] OTHER -> Closing(r, m.close) /\ UNCHANGED sending
    /\ UNCHANGED <<account, fate, unit, view, skipped, faults, changes>>

\* The relay's projection raises: the consumer has taken the message, and goes on.
RelayFails(r) ==
    LET m == Head(listener[r].queue) IN
    /\ listener[r].queue # <<>>
    /\ sending[r]["consumer"] = Quiet
    /\ m.origin # r /\ IsEvent(m)
    /\ faults < MaxFaults
    /\ faults' = faults + 1
    /\ listener' = [listener EXCEPT ![r] = Taken(@)]
    /\ skipped' = [skipped EXCEPT ![r] = @ \cup {m.event}]
    /\ UNCHANGED <<account, fate, unit, sending, room, page, view, changes>>

\* The LISTEN connection breaks: what was on its way is lost.
Break(r) ==
    /\ listener[r].link = "up"
    /\ faults < MaxFaults
    /\ faults' = faults + 1
    /\ listener' = [listener EXCEPT ![r] = Broken(@)]
    /\ skipped' = [skipped EXCEPT ![r] = @ \cup
           {e \in Events : \E i \in DOMAIN listener[r].wire :
               LET m == listener[r].wire[i] IN IsEvent(m) /\ m.event = e /\ m.origin # r}]
    /\ UNCHANGED <<account, fate, unit, sending, room, page, view, changes>>

\* The keepalive notices, and the connection task subscribes again.  Nothing is
\* recovered here: ttx_events has no reconnect hook.
Resubscribe(r) ==
    /\ listener[r].link # "up"
    /\ listener' = [listener EXCEPT ![r] = Subscribed(Closed(@))]
    /\ UNCHANGED <<account, fate, unit, sending, room, page, view, skipped,
                   faults, changes>>

\* One socket's send is over.
SentTo(r, t, s) ==
    LET fan == sending[r][t] IN
    sending' = [sending EXCEPT ![r][t] =
        IF fan.to = {s} THEN Quiet ELSE [fan EXCEPT !.to = @ \ {s}]]

\* send_json succeeds, and the page's onmessage shows the row.
Send(r, t, c) ==
    LET s == Socket(c)
        e == sending[r][t].event IN
    /\ s \in sending[r][t].to
    /\ page[c].phase = "open"
    /\ SentTo(r, t, s)
    /\ room' = {IF k.socket = s THEN [k EXCEPT !.got[e] = @ + 1] ELSE k : k \in room}
    /\ view' = [view EXCEPT ![c] = @ \cup {e}]
    /\ UNCHANGED <<account, fate, unit, listener, page, skipped, faults, changes>>

\* send_json raises (the socket is gone) or times out (the page is stalled):
\* the connection is dropped and closed, and a page still on it reconnects.
SendFails(r, t, s) ==
    LET c == s[1] IN
    /\ s \in sending[r][t].to
    /\ SentTo(r, t, s)
    /\ room' = {k \in room : k.socket # s}
    /\ page' = IF page[c].phase = "open" /\ Socket(c) = s
               THEN [page EXCEPT ![c].phase = "away"] ELSE page
    /\ UNCHANGED <<account, fate, unit, listener, view, skipped, faults,
                   changes>>

-----------------------------------------------------------------------------
(***************************************************************************)
(* The page and its socket.                                                *)
(***************************************************************************)

\* init: load() fetches every list, as the user is now; the socket comes after.
Load(c) ==
    /\ page[c].phase \in {"left", "denied", "login"}
    /\ account[c].member
    /\ page[c].dial < MaxDials
    /\ page' = [page EXCEPT ![c].phase = "loaded", ![c].again = FALSE]
    /\ view' = [view EXCEPT ![c] = {e \in Events : fate[e] = "committed"
                                                     /\ Listed(Item[e], Now(c))}]
    /\ UNCHANGED <<account, fate, unit, listener, sending, room, skipped,
                   faults, changes>>

\* connectExerciseWs, again 3 s after a close that was not a refusal; on the
\* server the handshake authenticates and reads role and membership.
Dial(c, r) ==
    /\ page[c].phase \in {"loaded", "away"}
    /\ page[c].dial < MaxDials
    /\ page' = [page EXCEPT ![c] =
           [phase |-> IF account[c].member THEN "handshake" ELSE "denied",
            dial |-> page[c].dial + 1, again |-> @.phase = "away"]]
    /\ room' = IF ~account[c].member THEN room ELSE room \cup
           {[socket |-> <<c, page[c].dial + 1>>, home |-> r, role |-> account[c].role,
             epoch |-> account[c].epoch, joined |-> FALSE,
             got |-> [e \in Events |-> 0], due |-> {}]}
    /\ UNCHANGED <<account, fate, unit, listener, sending, view, skipped, faults,
                   changes>>

\* manager.connect: accepted, and in the room with what the handshake read.
Register(c) ==
    /\ page[c].phase = "handshake"
    /\ page' = [page EXCEPT ![c].phase = "open"]
    /\ room' = {IF k.socket = Socket(c) THEN [k EXCEPT !.joined = TRUE] ELSE k : k \in room}
    /\ UNCHANGED <<account, fate, unit, listener, sending, view, skipped,
                   faults, changes>>

\* Mutant: the heartbeat only answers.
PingPong(c, k) ==
    /\ page[c].phase = "open" /\ k.socket = Socket(c)
    /\ k.role # account[c].role
    /\ room' = (room \ {k}) \cup {[k EXCEPT !.due = {}]}
    /\ UNCHANGED <<account, fate, unit, listener, sending, page, view, skipped,
                   faults, changes>>

\* The page's ping, every 30 s: the token, the membership and the role are read
\* again, and the socket is closed or its snapshot refreshed.
Ping(c, k) ==
    /\ page[c].phase = "open" /\ k.socket = Socket(c)
    /\ \/ /\ k.epoch < account[c].epoch \/ ~account[c].member
          /\ page' = [page EXCEPT ![c].phase =
                         IF k.epoch < account[c].epoch THEN "login" ELSE "denied"]
          /\ room' = room \ {k}
       \/ /\ k.epoch = account[c].epoch /\ account[c].member
          /\ k.role # account[c].role
          /\ room' = (room \ {k}) \cup {[k EXCEPT !.role = account[c].role, !.due = {}]}
          /\ UNCHANGED page
    /\ UNCHANGED <<account, fate, unit, listener, sending, view, skipped,
                   faults, changes>>

\* destroy: the page goes, and its handler's finally takes the socket out.
Leave(c) ==
    /\ page[c].phase = "open"
    /\ page' = [page EXCEPT ![c].phase = "left"]
    /\ room' = {k \in room : k.socket # Socket(c)}
    /\ view' = [view EXCEPT ![c] = {}]
    /\ UNCHANGED <<account, fate, unit, listener, sending, skipped, faults,
                   changes>>

\* The network drops the socket: the page notices first, and a handshake that
\* had not been answered goes nowhere.
NetworkLoss(c) ==
    /\ page[c].phase \in {"handshake", "open"}
    /\ page' = [page EXCEPT ![c].phase = "away"]
    /\ room' = {k \in room : k.socket # Socket(c) \/ k.joined}
    /\ UNCHANGED <<account, fate, unit, listener, sending, view, skipped,
                   faults, changes>>

\* heartbeat_task: a socket that has not pinged for 90 s is dropped and closed.
Prune(k) ==
    /\ k.joined /\ ~Open(k)
    /\ room' = room \ {k}
    /\ UNCHANGED <<account, fate, unit, listener, sending, page, view, skipped,
                   faults, changes>>

-----------------------------------------------------------------------------
(***************************************************************************)
(* Changes of authorization, and crashes.                                  *)
(***************************************************************************)

\* An IdP-managed role changes at a sign-in handled by r: the row, the cutoff
\* for earlier tokens and the bus message in one commit, and then this replica's
\* own sockets of the user.  The cutoff is truncated to the second, so a token
\* of the same second outlives it.
RoleSync(c, r, role) ==
    /\ changes < MaxChanges
    /\ role # account[c].role
    /\ changes' = changes + 1
    /\ \E epoch \in {account[c].epoch, changes'} :
          account' = [account EXCEPT ![c].role = role, ![c].epoch = epoch]
    /\ listener' = [h \in Replicas |-> Notified(listener[h], CloseMessage(c, r))]
    /\ Closing(r, c)
    /\ UNCHANGED <<fate, unit, sending, view, skipped, faults>>

\* A new password moves the cutoff; a member is removed or enrolled.
\* Neither is announced.
Revoke(c) ==
    /\ changes < MaxChanges
    /\ changes' = changes + 1
    /\ \/ account' = [account EXCEPT ![c].epoch = changes']
       \/ account' = [account EXCEPT ![c].member = ~@]
    /\ UNCHANGED <<fate, unit, listener, sending, room, page, view, skipped,
                   faults>>

\* A replica dies and is started again.
Crash(r) ==
    /\ faults < MaxFaults
    /\ faults' = faults + 1
    /\ fate' = [e \in Events |-> IF e \in unit[r].pending THEN "rolled_back" ELSE fate[e]]
    /\ unit' = [unit EXCEPT ![r] = [pending |-> {}, committed |-> {}]]
    /\ listener' = [listener EXCEPT ![r] = Started]
    /\ sending' = [sending EXCEPT ![r] = [t \in Tasks |-> Quiet]]
    /\ room' = {k \in room : k.home # r}
    /\ page' = [c \in Clients |->
           IF page[c].phase \in {"handshake", "open"}
              /\ \E k \in room : k.home = r /\ k.socket = Socket(c)
           THEN [page[c] EXCEPT !.phase = "away"] ELSE page[c]]
    /\ UNCHANGED <<account, view, skipped, changes>>

Next ==
    \/ \E r \in Replicas :
          \/ \E e \in Events : \/ Record(r, e) \/ Commit(r, e) \/ Rollback(r, e)
                               \/ Dispatch(r, e) \/ DispatchFails(r, e)
          \/ Abandon(r) \/ Arrive(r) \/ Relay(r) \/ RelayFails(r)
          \/ Break(r) \/ Resubscribe(r) \/ Crash(r)
          \/ \E t \in Tasks : \/ \E c \in Clients : Send(r, t, c)
                              \/ \E s \in sending[r][t].to : SendFails(r, t, s)
          \/ \E c \in Clients : \/ Dial(c, r)
                                \/ \E role \in Roles : RoleSync(c, r, role)
    \/ \E e \in Events : Delete(e)
    \/ \E c \in Clients : \/ Load(c) \/ Register(c) \/ Leave(c) \/ NetworkLoss(c) \/ Revoke(c)
                          \/ \E k \in room : Ping(c, k)
    \/ \E k \in room : Prune(k)

\* The pages ping, the heartbeat prunes, and a handshake that got in goes on.
Fairness ==
    /\ \A c \in Clients : WF_vars(\E k \in room : Ping(c, k)) /\ WF_vars(Register(c))
    /\ WF_vars(\E k \in room : Prune(k))

Spec == Init /\ [][Next]_vars
FairSpec == Spec /\ Fairness

-----------------------------------------------------------------------------
(***************************************************************************)
(* Properties.                                                             *)
(***************************************************************************)
Sockets == Clients \X Nat
Phases == {"left", "loaded", "handshake", "open", "away", "denied", "login"}
Connections == [socket : Sockets, home : Replicas, role : Roles, epoch : Nat,
                joined : BOOLEAN, got : [Events -> Nat], due : SUBSET Events]

\* Every row, buffer, listener, fan-out, connection and page keeps its type.
TypeOK ==
    /\ account \in [Clients -> [role : Roles, member : BOOLEAN, epoch : Nat]]
    /\ fate \in [Events -> {"new", "pending", "committed", "rolled_back", "deleted"}]
    /\ unit \in [Replicas -> [pending : SUBSET Events, committed : SUBSET Events]]
    /\ listener \in [Replicas -> ListenerOf(Messages)]
    /\ sending \in [Replicas -> [Tasks -> {Quiet} \cup [event : Events, to : SUBSET Sockets]]]
    /\ room \subseteq Connections
    /\ page \in [Clients -> [phase : Phases, dial : Nat, again : BOOLEAN]]
    /\ view \in [Clients -> SUBSET Events]
    /\ skipped \in [Replicas -> SUBSET Events]
    /\ faults \in Nat /\ changes \in Nat

\* No page shows what was rolled back, and a page whose user's authorization
\* has not changed shows only what that user could fetch: the push fan-outs and
\* the pull filters agree, except for a comment from a participant without a
\* team, which is pushed to everybody and listed for the teamless only.
ShownIsReal ==
    \A c \in Clients : \A e \in view[c] :
       /\ e \in Durable
       /\ changes = 0 => \/ Readable(Item[e], Now(c))
                         \/ Item[e].kind = "inject_comment_created" /\ Item[e].groups = {}

\* A socket gets at most one frame of an event, although the replica that
\* recorded it is told of it twice: by its own dispatch and by the bus.
AtMostOneFrame == \A k \in room : \A e \in Events : k.got[e] <= 1

\* Where an event still is on its way to the sockets of r.
OnItsWay(r, e, s) ==
    \/ e \in unit[r].committed
    \/ \E t \in Tasks : sending[r][t].event = e /\ s \in sending[r][t].to
    \/ \E o \in Replicas \ {r} : EventMessage(e, o) \in InHand(listener[r])

\* An event committed while a socket is registered reaches it, is on its way to
\* it, or was lost by its replica for one of the reasons that are allowed to
\* lose it: no subscription, a full queue, a handler that failed before its
\* dispatch, or a projection that raised, which is logged and swallowed.
LiveFrameIsOwed ==
    \A k \in room : \A e \in k.due :
       Open(k) /\ Pushed(Item[e], SeenBy(k)) =>
          \/ k.got[e] = 1
          \/ OnItsWay(k.home, e, k.socket)
          \/ e \in skipped[k.home]
          \/ fate[e] = "deleted"

\* A registered socket never keeps, for good, an authorization its user has
\* lost: a ping closes or refreshes it, or it is pruned.
StaleSocket(k) ==
    LET c == k.socket[1] IN
    k.role # account[c].role \/ k.epoch < account[c].epoch \/ ~account[c].member
StaleSocketsEnd == []<>(\A k \in room : ~StaleSocket(k))

\* pg_bus: "clients refetch on WebSocket reconnect".
CaughtUpOnReconnect ==
    \A k \in room :
       Open(k) /\ page[k.socket[1]].again =>
          \A e \in Events \ k.due :
             fate[e] = "committed" /\ Listed(Item[e], Now(k.socket[1])) => e \in view[k.socket[1]]
=============================================================================

------------------------------ MODULE Listener ------------------------------
(***************************************************************************)
(* One replica's end of the message bus (pg_listener.Listener): the LISTEN *)
(* connection, the bounded queue behind it, and its keepalive.  The        *)
(* operators work on one replica's listener record; ConfigSync and         *)
(* Delivery keep one such record per replica.                              *)
(*                                                                         *)
(*   link   "down"    no connection                                        *)
(*          "up"      subscribed: a committed NOTIFY reaches this replica  *)
(*          "broken"  the socket is dead and neither end knows it yet      *)
(*   wire   notifications Postgres has sent and the client has not read    *)
(*   queue  notifications the client read and the consumer has not taken   *)
(***************************************************************************)
EXTENDS Naturals, Sequences

\* asyncio.Queue(maxsize=_QUEUE_MAXSIZE)
CONSTANT QueueMaxsize
ASSUME QueueMaxsizeAssumption == QueueMaxsize \in Nat \ {0}

Links == {"down", "up", "broken"}

ListenerOf(Message) ==
    [link : Links, wire : Seq(Message), queue : Seq(Message)]

\* Listener.start: the queue exists, the connection does not yet.
Started == [link |-> "down", wire |-> <<>>, queue |-> <<>>]

\* Postgres hands a committed notification to every live subscription, and to
\* nobody else: delivery is at most once.
Notified(l, message) ==
    IF l.link = "up" THEN [l EXCEPT !.wire = Append(@, message)] ELSE l

\* QueueFull
Full(l) == Len(l.queue) >= QueueMaxsize

\* _on_notify: put_nowait, or drop the notification when the queue is full.
OnNotify(l) ==
    [l EXCEPT !.wire = Tail(@),
              !.queue = IF Full(l) THEN @ ELSE Append(@, Head(l.wire))]

\* _consume: take the oldest notification.
Taken(l) == [l EXCEPT !.queue = Tail(@)]

\* The socket dies: what was on the wire is gone, what was queued is not.
Broken(l) == [l EXCEPT !.link = "broken", !.wire = <<>>]

\* _hold_open finds out at the next keepalive and the connection is closed.
Closed(l) == [l EXCEPT !.link = "down"]

\* _connect_and_subscribe.
Subscribed(l) == [l EXCEPT !.link = "up"]

\* The messages a replica has been told of and has not acted on.
InHand(l) == {l.wire[i] : i \in DOMAIN l.wire} \cup {l.queue[i] : i \in DOMAIN l.queue}
=============================================================================

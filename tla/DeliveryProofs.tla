--------------------------- MODULE DeliveryProofs ---------------------------
(***************************************************************************)
(* For any replicas, pages, events and queue: a socket gets a frame at most *)
(* once, a frame it is owed is on its way or was lost by its replica for a  *)
(* reason that may lose it, and what a page shows is real.                  *)
(*                                                                         *)
(* AtMostOneFrame is not inductive.  A replica is told of an event by its   *)
(* own dispatch or by the bus, never by both and never twice (Bus), a       *)
(* replica that is fanning an event out will not be told of it again, and   *)
(* only sockets that have not had it are in its hands (Fans).               *)
(*                                                                          *)
(* LiveFrameIsOwed is about open pages; Owed is about every socket in the   *)
(* room, whatever its page does.  ShownIsReal needs that no fan-out and no  *)
(* connection has more than was granted (AsGranted).                        *)
(***************************************************************************)
EXTENDS Delivery, SequenceTheorems, TLAPS

\* What a sequence holds, and that it holds a thing once at most; a message is
\* in a replica's hands at one place only.
In(s) == {s[i] : i \in DOMAIN s}
Single(s, m) == \A i, j \in DOMAIN s : s[i] = m /\ s[j] = m => i = j
Once(l, m) == Single(l.wire, m) /\ Single(l.queue, m) /\ m \notin In(l.wire) \cap In(l.queue)

\* The replica still has the event to project.
Yet(r, e) ==
    \/ e \in unit[r].committed
    \/ \E o \in Replicas \ {r} : EventMessage(e, o) \in InHand(listener[r])

\* What is pending is one replica's; what is handed over is durable, and handed
\* over once.
PendingIsOwn ==
    \A r \in Replicas : \A e \in unit[r].pending :
       fate[e] = "pending" /\ \A h \in Replicas : e \in unit[h].pending => h = r
ToldIsDurable ==
    \A r \in Replicas :
       /\ unit[r].committed \subseteq Durable
       /\ \A e \in Events, o \in Replicas :
             EventMessage(e, o) \in InHand(listener[r]) => e \in Durable
ToldOnce ==
    \A r, o \in Replicas, e \in Events :
       EventMessage(e, o) \in InHand(listener[r]) =>
          /\ Once(listener[r], EventMessage(e, o))
          /\ \A p \in Replicas : EventMessage(e, p) \in InHand(listener[r]) => p = o
          /\ e \in unit[r].committed => o = r
Bus == PendingIsOwn /\ ToldIsDurable /\ ToldOnce

\* A handshake's number is a socket's own.  Who is being sent an event has not
\* had it, is this replica's, and will not be sent it by anything else; and
\* that goes for one that has had it.
OneSocket ==
    \A k \in room :
       /\ k.socket[2] <= page[k.socket[1]].dial
       /\ \A q \in room : q.socket = k.socket => q = k
OneFan ==
    \A r \in Replicas, t \in Tasks, e \in Events, s \in Sockets :
       e = sending[r][t].event /\ s \in sending[r][t].to =>
       /\ s[2] <= page[s[1]].dial
       /\ ~Yet(r, e)
       /\ \A u \in Tasks : sending[r][u].event = e /\ s \in sending[r][u].to => u = t
       /\ \A k \in room : k.socket = s => k.home = r /\ k.got[e] = 0
OneFrame ==
    \A k \in room, e \in Events : k.got[e] # 0 => k.got[e] = 1 /\ ~Yet(k.home, e)
SentIsDurable ==
    /\ \A r \in Replicas, t \in Tasks : sending[r][t].to # {} => sending[r][t].event \in Durable
    /\ \A k \in room, e \in Events : k.got[e] # 0 => e \in Durable
    /\ \A c \in Clients : view[c] \subseteq Durable
Fans == OneSocket /\ OneFan /\ OneFrame /\ SentIsDurable

-----------------------------------------------------------------------------
(* The listener.                                                           *)

\* The operators on a listener, field by field.
LEMMA Fields ==
    ASSUME NEW M, NEW l \in ListenerOf(M)
    PROVE  /\ l.link \in Links /\ l.wire \in Seq(M) /\ l.queue \in Seq(M)
           /\ Broken(l) = [link |-> "broken", wire |-> <<>>, queue |-> l.queue]
           /\ Closed(l) = [link |-> "down", wire |-> l.wire, queue |-> l.queue]
           /\ Subscribed(l) = [link |-> "up", wire |-> l.wire, queue |-> l.queue]
           /\ \A m : Notified(l, m) = IF l.link = "up"
                     THEN [link |-> l.link, wire |-> Append(l.wire, m), queue |-> l.queue]
                     ELSE l
           /\ OnNotify(l) = [link |-> l.link, wire |-> Tail(l.wire),
                  queue |-> IF Full(l) THEN l.queue ELSE Append(l.queue, Head(l.wire))]
           /\ Taken(l) = [link |-> l.link, wire |-> l.wire, queue |-> Tail(l.queue)]
<1>1. /\ l = [link |-> l.link, wire |-> l.wire, queue |-> l.queue]
      /\ l.link \in Links /\ l.wire \in Seq(M) /\ l.queue \in Seq(M)
  BY DEF ListenerOf
<1>2. \A x, y : /\ [l EXCEPT !.link = x] = [link |-> x, wire |-> l.wire, queue |-> l.queue]
                /\ [l EXCEPT !.wire = x] = [link |-> l.link, wire |-> x, queue |-> l.queue]
                /\ [l EXCEPT !.queue = x] = [link |-> l.link, wire |-> l.wire, queue |-> x]
  BY <1>1
<1>3. ASSUME NEW x, NEW y
      PROVE  [l EXCEPT !.link = x, !.wire = y] = [link |-> x, wire |-> y, queue |-> l.queue]
  <2> DEFINE first == [l EXCEPT !.link = x]
  <2>1. first = [link |-> x, wire |-> l.wire, queue |-> l.queue]
    BY <1>2
  <2> HIDE DEF first
  <2>2. [first EXCEPT !.wire = y] = [link |-> x, wire |-> y, queue |-> l.queue]
    BY <2>1
  <2> QED BY <2>2 DEF first
<1>4. ASSUME NEW x, NEW y
      PROVE  [l EXCEPT !.wire = x, !.queue = y] = [link |-> l.link, wire |-> x, queue |-> y]
  <2> DEFINE first == [l EXCEPT !.wire = x]
  <2>1. first = [link |-> l.link, wire |-> x, queue |-> l.queue]
    BY <1>2
  <2> HIDE DEF first
  <2>2. [first EXCEPT !.queue = y] = [link |-> l.link, wire |-> x, queue |-> y]
    BY <2>1
  <2> QED BY <2>2 DEF first
<1>5. Broken(l) = [link |-> "broken", wire |-> <<>>, queue |-> l.queue]
  BY <1>3 DEF Broken
<1>6. /\ Closed(l) = [link |-> "down", wire |-> l.wire, queue |-> l.queue]
      /\ Subscribed(l) = [link |-> "up", wire |-> l.wire, queue |-> l.queue]
  BY <1>2 DEF Closed, Subscribed
<1>7. ASSUME NEW m
      PROVE  Notified(l, m) = IF l.link = "up"
                THEN [link |-> l.link, wire |-> Append(l.wire, m), queue |-> l.queue] ELSE l
  <2>1. [l EXCEPT !.wire = Append(l.wire, m)]
           = [link |-> l.link, wire |-> Append(l.wire, m), queue |-> l.queue]
    BY <1>2, Zenon
  <2> QED BY <2>1 DEF Notified
<1>8. OnNotify(l) = [link |-> l.link, wire |-> Tail(l.wire),
         queue |-> IF Full(l) THEN l.queue ELSE Append(l.queue, Head(l.wire))]
  <2> DEFINE x == Tail(l.wire)
             y == IF Full(l) THEN l.queue ELSE Append(l.queue, Head(l.wire))
  <2>1. OnNotify(l) = [l EXCEPT !.wire = x, !.queue = y]
    BY DEF OnNotify
  <2> HIDE DEF x, y
  <2>2. OnNotify(l) = [link |-> l.link, wire |-> x, queue |-> y]
    BY <1>4, <2>1
  <2> QED BY <2>2 DEF x, y
<1>9. Taken(l) = [link |-> l.link, wire |-> l.wire, queue |-> Tail(l.queue)]
  <2> DEFINE y == Tail(l.queue)
  <2>1. Taken(l) = [l EXCEPT !.queue = y]
    BY DEF Taken
  <2> HIDE DEF y
  <2>2. Taken(l) = [link |-> l.link, wire |-> l.wire, queue |-> y]
    BY <1>2, <2>1
  <2> QED BY <2>2 DEF y
<1> QED BY <1>1, <1>5, <1>6, <1>7, <1>8, <1>9

\* The same, one field at a time.
LEMMA Parts ==
    ASSUME NEW M, NEW l \in ListenerOf(M)
    PROVE  /\ Started.wire = <<>> /\ Started.queue = <<>>
           /\ Broken(l).wire = <<>> /\ Broken(l).queue = l.queue
           /\ Closed(l).wire = l.wire /\ Closed(l).queue = l.queue
           /\ Subscribed(l).wire = l.wire /\ Subscribed(l).queue = l.queue
           /\ \A m : /\ Notified(l, m).queue = l.queue
                    /\ Notified(l, m).wire = IF l.link = "up" THEN Append(l.wire, m) ELSE l.wire
           /\ OnNotify(l).wire = Tail(l.wire)
           /\ OnNotify(l).queue = IF Full(l) THEN l.queue ELSE Append(l.queue, Head(l.wire))
           /\ Taken(l).wire = l.wire /\ Taken(l).queue = Tail(l.queue)
<1>0. \A r, a, b, c : r = [link |-> a, wire |-> b, queue |-> c] => r.wire = b /\ r.queue = c
  OBVIOUS
<1>1. /\ Started.wire = <<>> /\ Started.queue = <<>>
      /\ Broken(l).wire = <<>> /\ Broken(l).queue = l.queue
      /\ Closed(l).wire = l.wire /\ Closed(l).queue = l.queue
      /\ Subscribed(l).wire = l.wire /\ Subscribed(l).queue = l.queue
  BY Fields DEF Started
<1>2. ASSUME NEW m
      PROVE  /\ Notified(l, m).queue = l.queue
             /\ Notified(l, m).wire = IF l.link = "up" THEN Append(l.wire, m) ELSE l.wire
  <2>1. CASE l.link = "up"
    <3>1. Notified(l, m) = [link |-> l.link, wire |-> Append(l.wire, m), queue |-> l.queue]
      BY <2>1, Fields
    <3>2. Notified(l, m).queue = l.queue /\ Notified(l, m).wire = Append(l.wire, m)
      BY <1>0, <3>1, Zenon
    <3> QED BY <2>1, <3>2, Zenon
  <2>2. CASE l.link # "up"
    BY <2>2 DEF Notified
  <2> QED BY <2>1, <2>2, Zenon
<1>3. /\ OnNotify(l).wire = Tail(l.wire)
      /\ OnNotify(l).queue = IF Full(l) THEN l.queue ELSE Append(l.queue, Head(l.wire))
  <2> DEFINE q == IF Full(l) THEN l.queue ELSE Append(l.queue, Head(l.wire))
  <2>1. OnNotify(l) = [link |-> l.link, wire |-> Tail(l.wire), queue |-> q]
    BY Fields
  <2> HIDE DEF q
  <2>2. OnNotify(l).wire = Tail(l.wire) /\ OnNotify(l).queue = q
    BY <1>0, <2>1, Zenon
  <2> QED BY <2>2 DEF q
<1>4. Taken(l).wire = l.wire /\ Taken(l).queue = Tail(l.queue)
  <2>1. Taken(l) = [link |-> l.link, wire |-> l.wire, queue |-> Tail(l.queue)]
    BY Fields
  <2> QED BY <1>0, <2>1, Zenon
<1> QED BY <1>1, <1>2, <1>3, <1>4

\* They keep its type.
LEMMA ListenerTypes ==
    ASSUME NEW M, NEW l \in ListenerOf(M)
    PROVE  /\ Broken(l) \in ListenerOf(M) /\ Closed(l) \in ListenerOf(M)
           /\ Subscribed(l) \in ListenerOf(M) /\ Started \in ListenerOf(M)
           /\ \A m \in M : Notified(l, m) \in ListenerOf(M)
           /\ l.wire # <<>> => Head(l.wire) \in M /\ OnNotify(l) \in ListenerOf(M)
           /\ l.queue # <<>> => Head(l.queue) \in M /\ Taken(l) \in ListenerOf(M)
<1> DEFINE w == l.wire
           q == l.queue
<1>1. l.link \in Links /\ w \in Seq(M) /\ q \in Seq(M)
  BY Fields
<1>2. \A x \in Links, y, z \in Seq(M) : [link |-> x, wire |-> y, queue |-> z] \in ListenerOf(M)
  BY DEF ListenerOf
<1>3. <<>> \in Seq(M) /\ "broken" \in Links /\ "down" \in Links /\ "up" \in Links
  BY DEF Links
<1>4. ASSUME NEW m \in M PROVE Notified(l, m) \in ListenerOf(M)
  <2>1. Append(w, m) \in Seq(M)
    BY <1>1, AppendProperties
  <2>2. CASE l.link = "up"
    <3>1. Notified(l, m) = [link |-> l.link, wire |-> Append(w, m), queue |-> q]
      BY <2>2, Fields
    <3> QED BY <1>1, <1>2, <2>1, <3>1, Zenon
  <2>3. CASE l.link # "up"
    BY <2>3 DEF Notified
  <2> QED BY <2>2, <2>3, Zenon
<1>5. ASSUME w # <<>> PROVE Head(w) \in M /\ OnNotify(l) \in ListenerOf(M)
  <2>1. Head(w) \in M /\ Tail(w) \in Seq(M)
    BY <1>1, <1>5, HeadTailProperties
  <2>2. Append(q, Head(w)) \in Seq(M)
    BY <1>1, <2>1, AppendProperties
  <2>3. OnNotify(l) = [link |-> l.link, wire |-> Tail(w),
                       queue |-> IF Full(l) THEN q ELSE Append(q, Head(w))]
    BY Fields
  <2> QED BY <1>1, <1>2, <2>1, <2>2, <2>3, Zenon
<1>6. ASSUME q # <<>> PROVE Head(q) \in M /\ Taken(l) \in ListenerOf(M)
  <2>1. Head(q) \in M /\ Tail(q) \in Seq(M)
    BY <1>1, <1>6, HeadTailProperties
  <2>2. Taken(l) = [link |-> l.link, wire |-> w, queue |-> Tail(q)]
    BY Fields
  <2> QED BY <1>1, <1>2, <2>1, <2>2, Zenon
<1>7. /\ Broken(l) \in ListenerOf(M) /\ Closed(l) \in ListenerOf(M)
      /\ Subscribed(l) \in ListenerOf(M) /\ Started \in ListenerOf(M)
  <2>1. /\ Broken(l) = [link |-> "broken", wire |-> <<>>, queue |-> q]
        /\ Closed(l) = [link |-> "down", wire |-> w, queue |-> q]
        /\ Subscribed(l) = [link |-> "up", wire |-> w, queue |-> q]
    BY Fields
  <2> QED BY <1>1, <1>2, <1>3, <2>1, Zenon DEF Started
<1> QED BY <1>4, <1>5, <1>6, <1>7

\* A sequence that grows by one.
LEMMA Appended ==
    ASSUME NEW M, NEW s \in Seq(M), NEW x \in M
    PROVE  /\ In(Append(s, x)) = In(s) \cup {x}
           /\ \A m : Single(s, m) /\ (m # x \/ m \notin In(s)) => Single(Append(s, x), m)
<1> DEFINE a == Append(s, x)
<1>1. /\ Len(s) \in Nat /\ DOMAIN s = 1..Len(s) /\ DOMAIN a = 1..(Len(s) + 1)
      /\ \A i \in 1..Len(s) : a[i] = s[i]
      /\ a[Len(s) + 1] = x
  BY AppendProperties, LenProperties
<1> HIDE DEF a
<1>2. In(a) = In(s) \cup {x}
  <2>1. In(a) \subseteq In(s) \cup {x}
    BY <1>1 DEF In
  <2>2. In(s) \subseteq In(a) /\ x \in In(a)
    BY <1>1 DEF In
  <2> QED BY <2>1, <2>2
<1>3. ASSUME NEW m, Single(s, m), m # x \/ m \notin In(s) PROVE Single(a, m)
  BY <1>1, <1>3 DEF Single, In
<1> QED BY <1>2, <1>3 DEF a

\* A sequence that loses its first.
LEMMA Beheaded ==
    ASSUME NEW M, NEW s \in Seq(M), s # <<>>
    PROVE  /\ In(s) = In(Tail(s)) \cup {Head(s)}
           /\ \A m : Single(s, m) => Single(Tail(s), m)
           /\ Single(s, Head(s)) => Head(s) \notin In(Tail(s))
<1> DEFINE a == Tail(s)
<1>1. /\ Len(s) \in Nat \ {0} /\ DOMAIN s = 1..Len(s) /\ DOMAIN a = 1..(Len(s) - 1)
      /\ \A i \in 1..(Len(s) - 1) : a[i] = s[i + 1]
      /\ Head(s) = s[1]
  BY HeadTailProperties, LenProperties, EmptySeq
<1> HIDE DEF a
<1>2. In(s) = In(a) \cup {Head(s)}
  <2>1. ASSUME NEW i \in DOMAIN s PROVE s[i] \in In(a) \cup {Head(s)}
    <3>1. CASE i = 1
      BY <1>1, <3>1
    <3>2. CASE i # 1
      <4>1. i - 1 \in DOMAIN a /\ a[i - 1] = s[i]
        BY <1>1, <3>2
      <4> QED BY <4>1 DEF In
    <3> QED BY <3>1, <3>2
  <2>2. In(a) \cup {Head(s)} \subseteq In(s)
    BY <1>1 DEF In
  <2> QED BY <2>1, <2>2 DEF In
<1>3. ASSUME NEW m, Single(s, m) PROVE Single(a, m)
  BY <1>1, <1>3 DEF Single
<1>4. ASSUME Single(s, Head(s)), Head(s) \in In(a) PROVE FALSE
  <2>1. PICK i \in DOMAIN a : a[i] = Head(s)
    BY <1>4 DEF In
  <2>2. i + 1 \in DOMAIN s /\ s[i + 1] = Head(s) /\ 1 \in DOMAIN s /\ s[1] = Head(s)
    BY <1>1, <2>1
  <2> QED BY <1>1, <1>4, <2>1, <2>2 DEF Single
<1> QED BY <1>2, <1>3, <1>4 DEF a

\* What is in hand after each operator.
LEMMA Hands ==
    ASSUME NEW M, NEW l \in ListenerOf(M)
    PROVE  /\ InHand(l) = In(l.wire) \cup In(l.queue)
           /\ InHand(Started) = {}
           /\ InHand(Closed(l)) = InHand(l) /\ InHand(Subscribed(l)) = InHand(l)
           /\ InHand(Broken(l)) = In(l.queue)
           /\ \A m \in M : InHand(Notified(l, m)) =
                 IF l.link = "up" THEN InHand(l) \cup {m} ELSE InHand(l)
           /\ l.wire # <<>> =>
                 /\ InHand(OnNotify(l)) \subseteq InHand(l)
                 /\ InHand(l) \subseteq InHand(OnNotify(l)) \cup {Head(l.wire)}
                 /\ ~Full(l) => InHand(OnNotify(l)) = InHand(l)
           /\ l.queue # <<>> => InHand(l) = InHand(Taken(l)) \cup {Head(l.queue)}
<1>1. \A x : InHand(x) = In(x.wire) \cup In(x.queue)
  BY DEF InHand, In
<1>2. InHand(l) = In(l.wire) \cup In(l.queue)
  BY <1>1
<1>3. In(<<>>) = {}
  BY DEF In
<1>4. l.wire \in Seq(M) /\ l.queue \in Seq(M)
  BY Fields
<1>5. /\ InHand(Started) = {}
      /\ InHand(Closed(l)) = InHand(l) /\ InHand(Subscribed(l)) = InHand(l)
      /\ InHand(Broken(l)) = In(l.queue)
  BY <1>1, <1>2, <1>3, Parts
<1>6. ASSUME NEW m \in M
      PROVE  InHand(Notified(l, m)) = IF l.link = "up" THEN InHand(l) \cup {m} ELSE InHand(l)
  <2>1. In(Append(l.wire, m)) = In(l.wire) \cup {m}
    BY <1>4, Appended
  <2>2. /\ Notified(l, m).queue = l.queue
        /\ Notified(l, m).wire = IF l.link = "up" THEN Append(l.wire, m) ELSE l.wire
    BY Parts
  <2> QED BY <1>1, <1>2, <2>1, <2>2
<1>7. ASSUME l.wire # <<>>
      PROVE  /\ InHand(OnNotify(l)) \subseteq InHand(l)
             /\ InHand(l) \subseteq InHand(OnNotify(l)) \cup {Head(l.wire)}
             /\ ~Full(l) => InHand(OnNotify(l)) = InHand(l)
  <2>1. In(l.wire) = In(Tail(l.wire)) \cup {Head(l.wire)} /\ Head(l.wire) \in M
    BY <1>4, <1>7, Beheaded, HeadTailProperties
  <2>2. In(Append(l.queue, Head(l.wire))) = In(l.queue) \cup {Head(l.wire)}
    BY <1>4, <2>1, Appended
  <2>3. /\ OnNotify(l).wire = Tail(l.wire)
        /\ OnNotify(l).queue = IF Full(l) THEN l.queue ELSE Append(l.queue, Head(l.wire))
    BY Parts
  <2>4. InHand(OnNotify(l)) = In(Tail(l.wire)) \cup
           In(IF Full(l) THEN l.queue ELSE Append(l.queue, Head(l.wire)))
    BY <1>1, <2>3
  <2> QED BY <1>2, <2>1, <2>2, <2>4
<1>8. ASSUME l.queue # <<>> PROVE InHand(l) = InHand(Taken(l)) \cup {Head(l.queue)}
  <2>1. In(l.queue) = In(Tail(l.queue)) \cup {Head(l.queue)}
    BY <1>4, <1>8, Beheaded
  <2>2. Taken(l).wire = l.wire /\ Taken(l).queue = Tail(l.queue)
    BY Parts
  <2>3. InHand(Taken(l)) = In(l.wire) \cup In(Tail(l.queue))
    BY <1>1, <2>2
  <2> QED BY <1>2, <2>1, <2>3
<1> QED BY <1>2, <1>5, <1>6, <1>7, <1>8

\* A notification is in hand where the link is up.
LEMMA NotifiedHands ==
    ASSUME NEW M, NEW l \in ListenerOf(M), NEW m \in M
    PROVE  InHand(Notified(l, m)) = IF l.link = "up" THEN InHand(l) \cup {m} ELSE InHand(l)
BY Hands

\* What is in hand once stays so, and leaves for good when it is taken.
LEMMA OnceKept ==
    ASSUME NEW M, NEW l \in ListenerOf(M), NEW x, Once(l, x)
    PROVE  /\ Once(Closed(l), x) /\ Once(Subscribed(l), x) /\ Once(Broken(l), x)
           /\ \A m \in M : m # x \/ x \notin InHand(l) => Once(Notified(l, m), x)
           /\ l.wire # <<>> => Once(OnNotify(l), x)
           /\ l.queue # <<>> =>
                 Once(Taken(l), x) /\ (x = Head(l.queue) => x \notin InHand(Taken(l)))
<1>1. \A a : Once(a, x) <=> /\ Single(a.wire, x) /\ Single(a.queue, x)
                            /\ x \notin In(a.wire) \cap In(a.queue)
  BY DEF Once
<1>2. /\ Single(l.wire, x) /\ Single(l.queue, x) /\ x \notin In(l.wire) \cap In(l.queue)
      /\ InHand(l) = In(l.wire) \cup In(l.queue)
  BY Hands DEF Once
<1>3. In(<<>>) = {} /\ Single(<<>>, x)
  BY DEF In, Single
<1>4. l.wire \in Seq(M) /\ l.queue \in Seq(M)
  BY Fields
<1>5. Once(Closed(l), x) /\ Once(Subscribed(l), x) /\ Once(Broken(l), x)
  BY <1>1, <1>2, <1>3, Parts
<1>6. ASSUME NEW m \in M, m # x \/ x \notin InHand(l) PROVE Once(Notified(l, m), x)
  <2>1. In(Append(l.wire, m)) = In(l.wire) \cup {m} /\ Single(Append(l.wire, m), x)
    BY <1>2, <1>4, <1>6, Appended
  <2>2. /\ Notified(l, m).queue = l.queue
        /\ Notified(l, m).wire = IF l.link = "up" THEN Append(l.wire, m) ELSE l.wire
    BY Parts
  <2> QED BY <1>1, <1>2, <1>6, <2>1, <2>2
<1>7. ASSUME l.wire # <<>> PROVE Once(OnNotify(l), x)
  <2> DEFINE h == Head(l.wire)
             q == IF Full(l) THEN l.queue ELSE Append(l.queue, h)
  <2>1. /\ In(l.wire) = In(Tail(l.wire)) \cup {h} /\ h \in M
        /\ Single(Tail(l.wire), x)
        /\ h = x => x \notin In(Tail(l.wire))
    BY <1>2, <1>4, <1>7, Beheaded, HeadTailProperties
  <2>2. /\ In(Append(l.queue, h)) = In(l.queue) \cup {h}
        /\ h # x \/ x \notin In(l.queue) => Single(Append(l.queue, h), x)
    BY <1>2, <1>4, <2>1, Appended
  <2>3. OnNotify(l).wire = Tail(l.wire) /\ OnNotify(l).queue = q
    BY Parts
  <2>4. Single(q, x) /\ x \notin In(Tail(l.wire)) \cap In(q)
    BY <1>2, <2>1, <2>2
  <2> HIDE DEF q
  <2> QED BY <1>1, <2>1, <2>3, <2>4
<1>8. ASSUME l.queue # <<>>
      PROVE  Once(Taken(l), x) /\ (x = Head(l.queue) => x \notin InHand(Taken(l)))
  <2>1. /\ In(l.queue) = In(Tail(l.queue)) \cup {Head(l.queue)}
        /\ Single(Tail(l.queue), x)
        /\ Head(l.queue) = x => x \notin In(Tail(l.queue))
    BY <1>2, <1>4, <1>8, Beheaded
  <2>2. Taken(l).wire = l.wire /\ Taken(l).queue = Tail(l.queue)
    BY Parts
  <2>3. InHand(Taken(l)) = In(l.wire) \cup In(Tail(l.queue))
    BY <2>2 DEF InHand, In
  <2> QED BY <1>1, <1>2, <2>1, <2>2, <2>3
<1> QED BY <1>5, <1>6, <1>7, <1>8

-----------------------------------------------------------------------------
(* Types.                                                                  *)

\* A message says what it is, and which event and replica it is about.
LEMMA MessageKinds ==
    /\ \A e, o : /\ IsEvent(EventMessage(e, o)) /\ EventMessage(e, o).event = e
                 /\ EventMessage(e, o).origin = o
    /\ \A c, o : /\ ~IsEvent(CloseMessage(c, o)) /\ CloseMessage(c, o).close = c
                 /\ CloseMessage(c, o).origin = o
    /\ \A m \in Messages : /\ m.origin \in Replicas
                           /\ IsEvent(m) => m.event \in Events /\ m = EventMessage(m.event, m.origin)
                           /\ ~IsEvent(m) => m.close \in Clients
<1>1. \A e, o : /\ IsEvent(EventMessage(e, o)) /\ EventMessage(e, o).event = e
                /\ EventMessage(e, o).origin = o
  BY DEF IsEvent, EventMessage
<1>2. \A c, o : /\ ~IsEvent(CloseMessage(c, o)) /\ CloseMessage(c, o).close = c
                /\ CloseMessage(c, o).origin = o
  BY DEF IsEvent, CloseMessage
<1> QED BY <1>1, <1>2 DEF Messages

\* What the actions write into a connection.
LEMMA ConnectionFields ==
    ASSUME NEW k \in Connections
    PROVE  /\ \A d \in SUBSET Events : LET q == [k EXCEPT !.due = d] IN
                 /\ q \in Connections /\ q.socket = k.socket /\ q.home = k.home /\ q.role = k.role
                 /\ q.joined = k.joined /\ q.got = k.got /\ q.due = d
           /\ LET q == [k EXCEPT !.joined = TRUE] IN
                 /\ q \in Connections /\ q.socket = k.socket /\ q.home = k.home /\ q.role = k.role
                 /\ q.joined /\ q.got = k.got /\ q.due = k.due
           /\ \A role \in Roles : LET q == [k EXCEPT !.role = role, !.due = {}] IN
                 /\ q \in Connections /\ q.socket = k.socket /\ q.home = k.home /\ q.role = role
                 /\ q.joined = k.joined /\ q.got = k.got /\ q.due = {}
           /\ \A e \in Events : LET q == [k EXCEPT !.got[e] = @ + 1] IN
                 /\ q \in Connections /\ q.socket = k.socket /\ q.home = k.home /\ q.role = k.role
                 /\ q.joined = k.joined /\ q.got = [k.got EXCEPT ![e] = @ + 1] /\ q.due = k.due
<1> USE DEF Connections
<1>1. ASSUME NEW d \in SUBSET Events
      PROVE  LET q == [k EXCEPT !.due = d] IN
             /\ q \in Connections /\ q.socket = k.socket /\ q.home = k.home /\ q.role = k.role
             /\ q.joined = k.joined /\ q.got = k.got /\ q.due = d
  OBVIOUS
<1>2. LET q == [k EXCEPT !.joined = TRUE] IN
         /\ q \in Connections /\ q.socket = k.socket /\ q.home = k.home /\ q.role = k.role
         /\ q.joined /\ q.got = k.got /\ q.due = k.due
  OBVIOUS
<1>3. ASSUME NEW role \in Roles
      PROVE  LET q == [k EXCEPT !.role = role, !.due = {}] IN
             /\ q \in Connections /\ q.socket = k.socket /\ q.home = k.home /\ q.role = role
             /\ q.joined = k.joined /\ q.got = k.got /\ q.due = {}
  OBVIOUS
<1>4. ASSUME NEW e \in Events
      PROVE  LET q == [k EXCEPT !.got[e] = @ + 1] IN
             /\ q \in Connections /\ q.socket = k.socket /\ q.home = k.home /\ q.role = k.role
             /\ q.joined = k.joined /\ q.got = [k.got EXCEPT ![e] = @ + 1] /\ q.due = k.due
  <2> DEFINE g == [k.got EXCEPT ![e] = k.got[e] + 1]
  <2>1. g \in [Events -> Nat]
    OBVIOUS
  <2>2. [k EXCEPT !.got[e] = @ + 1] = [k EXCEPT !.got = g]
    OBVIOUS
  <2> HIDE DEF g
  <2>3. LET q == [k EXCEPT !.got = g] IN
           /\ q \in Connections /\ q.socket = k.socket /\ q.home = k.home /\ q.role = k.role
           /\ q.joined = k.joined /\ q.got = g /\ q.due = k.due
    BY <2>1
  <2> QED BY <2>2, <2>3 DEF g
<1> QED BY <1>1, <1>2, <1>3, <1>4

Pages == [Clients -> [phase : Phases, dial : Nat, again : BOOLEAN]]

\* A page that moves on, and one that is closed by its replica.
LEMMA PageTypes ==
    ASSUME page \in Pages, NEW c \in Clients, NEW p \in Phases
    PROVE  [page EXCEPT ![c].phase = p] \in Pages
BY DEF Pages

\* Closing a user's sockets keeps the types.
LEMMA ClosingTypes ==
    ASSUME page \in Pages, NEW c \in Clients, NEW r \in Replicas, Closing(r, c)
    PROVE  page' \in Pages /\ room' \subseteq room
<1>1. [page EXCEPT ![c].phase = "denied"] \in Pages
  BY PageTypes DEF Phases
<1> QED BY <1>1 DEF Closing

\* What a fan-out is aimed at.
LEMMA ProjectTypes ==
    ASSUME TypeOK, NEW r \in Replicas, NEW t \in Tasks, NEW e \in Events, Project(r, t, e)
    PROVE  sending' \in [Replicas -> [Tasks -> {Quiet} \cup [event : Events, to : SUBSET Sockets]]]
<1> DEFINE to == IF fate[e] = "deleted" THEN {}
                 ELSE {k.socket : k \in {j \in On(r) : Pushed(Item[e], SeenBy(j))}}
           fan == [event |-> e, to |-> to]
<1>1. to \subseteq Sockets
  BY DEF TypeOK, On, Connections
<1>2. fan \in [event : Events, to : SUBSET Sockets]
  BY <1>1
<1>3. sending' = IF to = {} THEN sending ELSE [sending EXCEPT ![r][t] = fan]
  BY DEF Project
<1> HIDE DEF fan, to
<1> QED BY <1>2, <1>3 DEF TypeOK

\* One socket less to send to.
LEMMA SentToTypes ==
    ASSUME TypeOK, NEW r \in Replicas, NEW t \in Tasks, NEW s \in sending[r][t].to, SentTo(r, t, s)
    PROVE  sending' \in [Replicas -> [Tasks -> {Quiet} \cup [event : Events, to : SUBSET Sockets]]]
<1> DEFINE FanSet == {Quiet} \cup [event : Events, to : SUBSET Sockets]
           fan == IF sending[r][t].to = {s} THEN Quiet
                  ELSE [sending[r][t] EXCEPT !.to = @ \ {s}]
<1>1. sending[r][t] \in [event : Events, to : SUBSET Sockets]
  BY DEF TypeOK, Quiet
<1>2. fan \in FanSet
  BY <1>1
<1>3. sending' = [sending EXCEPT ![r][t] = fan]
  BY DEF SentTo
<1> HIDE DEF fan
<1> QED BY <1>2, <1>3 DEF TypeOK

\* A notification for every replica.
LEMMA NotifiedTypes ==
    ASSUME TypeOK, NEW m \in Messages,
           listener' = [h \in Replicas |-> Notified(listener[h], m)]
    PROVE  listener' \in [Replicas -> ListenerOf(Messages)]
<1>1. \A h \in Replicas : Notified(listener[h], m) \in ListenerOf(Messages)
  BY ListenerTypes DEF TypeOK
<1> QED BY <1>1

\* Every step keeps the types.
LEMMA Typed == TypeOK /\ [Next]_vars => TypeOK'
<1> SUFFICES ASSUME TypeOK, [Next]_vars PROVE TypeOK'
  OBVIOUS
<1>u. CASE UNCHANGED vars
  BY <1>u DEF TypeOK, vars
<1>p. page \in Pages /\ (page' \in Pages => page' \in [Clients -> [phase : Phases, dial : Nat, again : BOOLEAN]])
  BY DEF TypeOK, Pages
<1>1. ASSUME NEW r \in Replicas, NEW e \in Events, Record(r, e) PROVE TypeOK'
  BY <1>1 DEF TypeOK, Record
<1>2. ASSUME NEW r \in Replicas, NEW e \in Events, Commit(r, e) PROVE TypeOK'
  <2>1. EventMessage(e, r) \in Messages
    BY DEF Messages
  <2>2. listener' \in [Replicas -> ListenerOf(Messages)]
    BY <1>2, <2>1, NotifiedTypes DEF Commit
  <2>3. room' \subseteq Connections
    <3>1. \A k \in room : /\ k \in Connections
                          /\ [k EXCEPT !.due = k.due \cup {e}] \in Connections
      <4>1. \A k \in room : k \in Connections /\ k.due \cup {e} \in SUBSET Events
        BY DEF TypeOK, Connections
      <4> QED BY <4>1, ConnectionFields
    <3> QED BY <1>2, <3>1 DEF Commit, Promoted
  <2>4. fate' \in [Events -> {"new", "pending", "committed", "rolled_back", "deleted"}]
    BY <1>2 DEF Commit, Promoted, TypeOK
  <2>5. unit' \in [Replicas -> [pending : SUBSET Events, committed : SUBSET Events]]
    BY <1>2 DEF Commit, Promoted, TypeOK
  <2>6. skipped' \in [Replicas -> SUBSET Events]
    BY <1>2 DEF Commit, Promoted, TypeOK
  <2> QED BY <1>2, <2>2, <2>3, <2>4, <2>5, <2>6 DEF Commit, Promoted, TypeOK
<1>3. ASSUME NEW r \in Replicas, NEW e \in Events, Rollback(r, e) PROVE TypeOK'
  <2>1. unit' \in [Replicas -> [pending : SUBSET Events, committed : SUBSET Events]]
    <3>1. unit \in [Replicas -> [pending : SUBSET Events, committed : SUBSET Events]]
      BY DEF TypeOK
    <3>2. [unit[r] EXCEPT !.pending = {}] \in [pending : SUBSET Events, committed : SUBSET Events]
      BY <3>1
    <3> QED BY <1>3, <3>1, <3>2 DEF Rollback
  <2>2. fate' \in [Events -> {"new", "pending", "committed", "rolled_back", "deleted"}]
    BY <1>3 DEF Rollback, TypeOK
  <2>3. UNCHANGED <<account, listener, sending, room, page, view, skipped, faults, changes>>
    BY <1>3 DEF Rollback
  <2> QED BY <2>1, <2>2, <2>3 DEF TypeOK
<1>4. ASSUME NEW r \in Replicas, NEW e \in Events, Dispatch(r, e) PROVE TypeOK'
  <2>1. "request" \in Tasks
    BY DEF Tasks
  <2>2. sending' \in [Replicas -> [Tasks -> {Quiet} \cup [event : Events, to : SUBSET Sockets]]]
    BY <1>4, <2>1, ProjectTypes DEF Dispatch
  <2>3. unit' \in [Replicas -> [pending : SUBSET Events, committed : SUBSET Events]]
    <3>1. unit \in [Replicas -> [pending : SUBSET Events, committed : SUBSET Events]]
      BY DEF TypeOK
    <3>2. [unit[r] EXCEPT !.committed = unit[r].committed \ {e}]
             \in [pending : SUBSET Events, committed : SUBSET Events]
      BY <3>1
    <3> QED BY <1>4, <3>1, <3>2 DEF Dispatch
  <2>4. UNCHANGED <<account, fate, listener, room, page, view, skipped, faults, changes>>
    BY <1>4 DEF Dispatch
  <2> QED BY <2>2, <2>3, <2>4 DEF TypeOK
<1>5. ASSUME NEW r \in Replicas, Abandon(r) PROVE TypeOK'
  <2>1. unit' \in [Replicas -> [pending : SUBSET Events, committed : SUBSET Events]]
    BY <1>5 DEF Abandon, TypeOK
  <2>2. skipped' \in [Replicas -> SUBSET Events]
    BY <1>5 DEF Abandon, TypeOK
  <2>3. /\ faults' = faults + 1
        /\ UNCHANGED <<account, fate, listener, sending, room, page, view, changes>>
    BY <1>5 DEF Abandon
  <2> QED BY <2>1, <2>2, <2>3 DEF TypeOK
<1>6. ASSUME NEW r \in Replicas, Arrive(r) PROVE TypeOK'
  <2>1. /\ Head(listener[r].wire) \in Messages /\ OnNotify(listener[r]) \in ListenerOf(Messages)
    BY <1>6, ListenerTypes DEF Arrive, TypeOK
  <2>2. listener' \in [Replicas -> ListenerOf(Messages)]
    BY <1>6, <2>1 DEF Arrive, TypeOK
  <2>3. skipped' \in [Replicas -> SUBSET Events]
    BY <1>6, <2>1, MessageKinds DEF Arrive, TypeOK
  <2> QED BY <1>6, <2>2, <2>3 DEF Arrive, TypeOK
<1>7. ASSUME NEW r \in Replicas, Relay(r) PROVE TypeOK'
  <2> DEFINE m == Head(listener[r].queue)
  <2>1. m \in Messages /\ Taken(listener[r]) \in ListenerOf(Messages)
    BY <1>7, ListenerTypes DEF Relay, TypeOK
  <2>2. listener' \in [Replicas -> ListenerOf(Messages)]
    BY <1>7, <2>1 DEF Relay, TypeOK
  <2>3. /\ sending' \in [Replicas -> [Tasks -> {Quiet} \cup [event : Events, to : SUBSET Sockets]]]
        /\ page' \in Pages /\ room' \subseteq Connections
    <3>1. CASE m.origin = r
      BY <1>7, <3>1, <1>p DEF Relay, TypeOK
    <3>2. CASE m.origin # r /\ IsEvent(m)
      <4>1. m.event \in Events /\ "consumer" \in Tasks
        BY <2>1, <3>2, MessageKinds DEF Tasks
      <4>2. Project(r, "consumer", m.event) /\ UNCHANGED <<room, page>>
        BY <1>7, <3>2 DEF Relay
      <4> QED BY <4>1, <4>2, <1>p, ProjectTypes DEF TypeOK
    <3>3. CASE m.origin # r /\ ~IsEvent(m)
      <4>1. Closing(r, m.close) /\ UNCHANGED sending
        BY <1>7, <3>3 DEF Relay
      <4>2. m.close \in Clients
        BY <2>1, <3>3, MessageKinds
      <4> QED BY <4>1, <4>2, <1>p, ClosingTypes DEF TypeOK
    <3> QED BY <3>1, <3>2, <3>3
  <2> QED BY <1>7, <1>p, <2>2, <2>3 DEF Relay, TypeOK
<1>8. ASSUME NEW r \in Replicas, Break(r) PROVE TypeOK'
  <2>1. listener' \in [Replicas -> ListenerOf(Messages)]
    BY <1>8, ListenerTypes DEF Break, TypeOK
  <2>2. skipped' \in [Replicas -> SUBSET Events]
    BY <1>8 DEF Break, TypeOK
  <2> QED BY <1>8, <2>1, <2>2 DEF Break, TypeOK
<1>9. ASSUME NEW r \in Replicas, Resubscribe(r) PROVE TypeOK'
  <2>1. listener' \in [Replicas -> ListenerOf(Messages)]
    <3>1. Closed(listener[r]) \in ListenerOf(Messages)
      BY ListenerTypes DEF TypeOK
    <3>2. Subscribed(Closed(listener[r])) \in ListenerOf(Messages)
      BY <3>1, ListenerTypes
    <3> QED BY <1>9, <3>2 DEF Resubscribe, TypeOK
  <2> QED BY <1>9, <2>1 DEF Resubscribe, TypeOK
<1>10. ASSUME NEW r \in Replicas, NEW t \in Tasks, NEW c \in Clients, Send(r, t, c) PROVE TypeOK'
  <2> DEFINE s == Socket(c)
             e == sending[r][t].event
  <2>1. s \in sending[r][t].to /\ SentTo(r, t, s) /\ e \in Events
    BY <1>10 DEF Send, TypeOK, Quiet
  <2>2. sending' \in [Replicas -> [Tasks -> {Quiet} \cup [event : Events, to : SUBSET Sockets]]]
    BY <2>1, SentToTypes
  <2>3. room' \subseteq Connections
    <3>1. \A k \in room : k \in Connections /\ [k EXCEPT !.got[e] = @ + 1] \in Connections
      BY <2>1, ConnectionFields DEF TypeOK
    <3> QED BY <1>10, <3>1 DEF Send
  <2>4. view' \in [Clients -> SUBSET Events]
    BY <1>10, <2>1 DEF Send, TypeOK
  <2> QED BY <1>10, <2>2, <2>3, <2>4 DEF Send, TypeOK
<1>11. ASSUME NEW r \in Replicas, NEW t \in Tasks, NEW s \in sending[r][t].to, SendFails(r, t, s)
       PROVE  TypeOK'
  <2>1. s[1] \in Clients
    <3>1. sending[r][t] \in {Quiet} \cup [event : Events, to : SUBSET Sockets]
      BY DEF TypeOK
    <3>2. s \in Sockets
      BY <3>1 DEF Quiet
    <3> QED BY <3>2 DEF Sockets
  <2>2. sending' \in [Replicas -> [Tasks -> {Quiet} \cup [event : Events, to : SUBSET Sockets]]]
    BY <1>11, SentToTypes DEF SendFails
  <2>3. page' \in Pages
    BY <1>11, <1>p, <2>1, PageTypes DEF SendFails, Phases
  <2> QED BY <1>11, <1>p, <2>2, <2>3 DEF SendFails, TypeOK
<1>12. ASSUME NEW r \in Replicas, NEW c \in Clients, Dial(c, r) PROVE TypeOK'
  <2> DEFINE new == [socket |-> <<c, page[c].dial + 1>>, home |-> r, role |-> account[c].role,
                     epoch |-> account[c].epoch, joined |-> FALSE,
                     got |-> [e \in Events |-> 0], due |-> {}]
  <2>1. new \in Connections
    BY DEF TypeOK, Connections, Sockets
  <2>2. room' = IF ~account[c].member THEN room ELSE room \cup {new}
    BY <1>12 DEF Dial
  <2>3. page' \in Pages
    BY <1>12 DEF Dial, TypeOK, Pages, Phases
  <2> HIDE DEF new
  <2>4. room' \subseteq Connections
    BY <2>1, <2>2 DEF TypeOK
  <2> QED BY <1>12, <1>p, <2>3, <2>4 DEF Dial, TypeOK
<1>13. ASSUME NEW r \in Replicas, NEW c \in Clients, NEW role \in Roles, RoleSync(c, r, role)
       PROVE  TypeOK'
  <2>1. CloseMessage(c, r) \in Messages
    BY DEF Messages
  <2>2. listener' \in [Replicas -> ListenerOf(Messages)]
    BY <1>13, <2>1, NotifiedTypes DEF RoleSync
  <2>3. page' \in Pages /\ room' \subseteq Connections
    BY <1>13, <1>p, ClosingTypes DEF RoleSync, TypeOK
  <2>4. account' \in [Clients -> [role : Roles, member : BOOLEAN, epoch : Nat]] /\ changes' \in Nat
    <3>1. PICK epoch \in {account[c].epoch, changes'} :
             account' = [account EXCEPT ![c].role = role, ![c].epoch = epoch]
      BY <1>13 DEF RoleSync
    <3>2. changes' \in Nat /\ epoch \in Nat
      BY <1>13, <3>1 DEF RoleSync, TypeOK
    <3> DEFINE first == [account EXCEPT ![c].role = role]
    <3>3. first \in [Clients -> [role : Roles, member : BOOLEAN, epoch : Nat]]
      BY DEF TypeOK
    <3>4. account' = [first EXCEPT ![c].epoch = epoch]
      BY <3>1
    <3> HIDE DEF first
    <3> QED BY <3>2, <3>3, <3>4
  <2> QED BY <1>13, <1>p, <2>2, <2>3, <2>4 DEF RoleSync, TypeOK
<1>14. ASSUME NEW r \in Replicas, Crash(r) PROVE TypeOK'
  <2>1. listener' \in [Replicas -> ListenerOf(Messages)]
    BY <1>14, ListenerTypes DEF Crash, TypeOK
  <2>2. page' \in Pages
    <3>1. \A c \in Clients : [page[c] EXCEPT !.phase = "away"]
                                \in [phase : Phases, dial : Nat, again : BOOLEAN]
      BY <1>p DEF Pages, Phases
    <3> QED BY <1>14, <1>p, <3>1 DEF Crash, Pages
  <2>3. unit' \in [Replicas -> [pending : SUBSET Events, committed : SUBSET Events]]
    BY <1>14 DEF Crash, TypeOK
  <2>4. sending' \in [Replicas -> [Tasks -> {Quiet} \cup [event : Events, to : SUBSET Sockets]]]
    BY <1>14 DEF Crash, TypeOK
  <2>5. fate' \in [Events -> {"new", "pending", "committed", "rolled_back", "deleted"}]
    BY <1>14 DEF Crash, TypeOK
  <2>6. /\ room' \subseteq room /\ faults' = faults + 1
        /\ UNCHANGED <<account, view, skipped, changes>>
    BY <1>14 DEF Crash
  <2> QED BY <1>p, <2>1, <2>2, <2>3, <2>4, <2>5, <2>6 DEF TypeOK
<1>15. ASSUME NEW e \in Events, Delete(e) PROVE TypeOK'
  BY <1>15 DEF TypeOK, Delete
<1>16. ASSUME NEW c \in Clients, Load(c) PROVE TypeOK'
  <2>1. view' \in [Clients -> SUBSET Events]
    BY <1>16 DEF Load, TypeOK
  <2>2. page' \in Pages
    <3> DEFINE first == [page EXCEPT ![c].phase = "loaded"]
    <3>1. first \in Pages
      BY <1>p, PageTypes DEF Phases
    <3>2. page' = [first EXCEPT ![c].again = FALSE]
      BY <1>16 DEF Load
    <3> HIDE DEF first
    <3> QED BY <3>1, <3>2 DEF Pages
  <2> QED BY <1>16, <1>p, <2>1, <2>2 DEF Load, TypeOK
<1>17. ASSUME NEW c \in Clients, Register(c) PROVE TypeOK'
  <2>1. page' \in Pages
    BY <1>17, <1>p, PageTypes DEF Register, Phases
  <2>2. room' \subseteq Connections
    <3>1. \A k \in room : k \in Connections /\ [k EXCEPT !.joined = TRUE] \in Connections
      BY ConnectionFields DEF TypeOK
    <3> QED BY <1>17, <3>1 DEF Register
  <2> QED BY <1>17, <1>p, <2>1, <2>2 DEF Register, TypeOK
<1>18. ASSUME NEW c \in Clients, Leave(c) PROVE TypeOK'
  <2>1. page' \in Pages
    BY <1>18, <1>p, PageTypes DEF Leave, Phases
  <2> QED BY <1>18, <1>p, <2>1 DEF Leave, TypeOK
<1>19. ASSUME NEW c \in Clients, NetworkLoss(c) PROVE TypeOK'
  <2>1. page' \in Pages
    BY <1>19, <1>p, PageTypes DEF NetworkLoss, Phases
  <2>2. /\ room' \subseteq room
        /\ UNCHANGED <<account, fate, unit, listener, sending, view, skipped, faults, changes>>
    BY <1>19 DEF NetworkLoss
  <2> QED BY <1>p, <2>1, <2>2 DEF TypeOK
<1>20. ASSUME NEW c \in Clients, Revoke(c) PROVE TypeOK'
  <2>1. account' \in [Clients -> [role : Roles, member : BOOLEAN, epoch : Nat]]
    <3>1. changes' \in Nat
      BY <1>20 DEF Revoke, TypeOK
    <3>2. CASE account' = [account EXCEPT ![c].epoch = changes']
      BY <3>1, <3>2 DEF TypeOK
    <3>3. CASE account' = [account EXCEPT ![c].member = ~@]
      <4>1. account[c].member \in BOOLEAN /\ (~account[c].member) \in BOOLEAN
        BY DEF TypeOK
      <4> DEFINE there == ~account[c].member
      <4>2. account' = [account EXCEPT ![c].member = there]
        BY <3>3
      <4> HIDE DEF there
      <4>3. there \in BOOLEAN
        BY <4>1 DEF there
      <4> QED BY <4>2, <4>3 DEF TypeOK
    <3> QED BY <1>20, <3>2, <3>3 DEF Revoke
  <2>2. /\ changes' = changes + 1
        /\ UNCHANGED <<fate, unit, listener, sending, room, page, view, skipped, faults>>
    BY <1>20 DEF Revoke
  <2> QED BY <2>1, <2>2 DEF TypeOK
<1>21. ASSUME NEW c \in Clients, NEW k \in room, Ping(c, k) PROVE TypeOK'
  <2>1. page' \in Pages
    BY <1>21, <1>p, PageTypes DEF Ping, Phases
  <2>2. room' \subseteq Connections
    <3>1. account[c].role \in Roles /\ k \in Connections
      BY DEF TypeOK
    <3>2. [k EXCEPT !.role = account[c].role, !.due = {}] \in Connections
      BY <3>1, ConnectionFields
    <3> QED BY <1>21, <3>2 DEF Ping, TypeOK
  <2> QED BY <1>21, <1>p, <2>1, <2>2 DEF Ping, TypeOK
<1>22. ASSUME NEW k \in room, Prune(k) PROVE TypeOK'
  BY <1>22 DEF TypeOK, Prune
<1>23. ASSUME NEW r \in Replicas, NEW e \in Events, DispatchFails(r, e) PROVE TypeOK'
  <2>1. unit' \in [Replicas -> [pending : SUBSET Events, committed : SUBSET Events]]
    <3>1. unit \in [Replicas -> [pending : SUBSET Events, committed : SUBSET Events]]
      BY DEF TypeOK
    <3>2. [unit[r] EXCEPT !.committed = unit[r].committed \ {e}]
             \in [pending : SUBSET Events, committed : SUBSET Events]
      BY <3>1
    <3> QED BY <1>23, <3>1, <3>2 DEF DispatchFails
  <2>2. skipped' \in [Replicas -> SUBSET Events]
    BY <1>23 DEF DispatchFails, TypeOK
  <2>3. /\ faults' = faults + 1
        /\ UNCHANGED <<account, fate, listener, sending, room, page, view, changes>>
    BY <1>23 DEF DispatchFails
  <2> QED BY <2>1, <2>2, <2>3 DEF TypeOK
<1>24. ASSUME NEW r \in Replicas, RelayFails(r) PROVE TypeOK'
  <2> DEFINE m == Head(listener[r].queue)
  <2>1. m \in Messages /\ Taken(listener[r]) \in ListenerOf(Messages)
    BY <1>24, ListenerTypes DEF RelayFails, TypeOK
  <2>2. listener' \in [Replicas -> ListenerOf(Messages)]
    BY <1>24, <2>1 DEF RelayFails, TypeOK
  <2>3. skipped' \in [Replicas -> SUBSET Events]
    <3>1. m.event \in Events /\ skipped' = [skipped EXCEPT ![r] = @ \cup {m.event}]
      BY <1>24, <2>1, MessageKinds DEF RelayFails
    <3> HIDE DEF m
    <3> QED BY <3>1 DEF TypeOK
  <2>4. /\ faults' = faults + 1
        /\ UNCHANGED <<account, fate, unit, sending, room, page, view, changes>>
    BY <1>24 DEF RelayFails
  <2> QED BY <2>2, <2>3, <2>4 DEF TypeOK
<1> QED
  BY <1>u, <1>1, <1>2, <1>3, <1>4, <1>5, <1>6, <1>7, <1>8, <1>9, <1>10, <1>11, <1>12, <1>13, <1>14,
     <1>15, <1>16, <1>17, <1>18, <1>19, <1>20, <1>21, <1>22, <1>23, <1>24 DEF Next

-----------------------------------------------------------------------------
(* The bus.                                                                *)

\* A replica is told of nothing twice, and of nothing that it was not told of.
Untouched(r, e, o) ==
    EventMessage(e, o) \in InHand(listener'[r]) =>
       /\ EventMessage(e, o) \in InHand(listener[r])
       /\ Once(listener[r], EventMessage(e, o)) => Once(listener'[r], EventMessage(e, o))

NothingNew == \A r \in Replicas, e \in Events : Yet(r, e)' => Yet(r, e) \/ e \notin Durable

\* A step in which nothing new is handed over.
LEMMA NothingHandedOver ==
    ASSUME TypeOK, Bus, Durable \subseteq Durable',
           \A r \in Replicas : /\ unit'[r].pending \subseteq unit[r].pending
                               /\ unit'[r].committed \subseteq unit[r].committed
                               /\ \A e \in unit'[r].pending : fate'[e] = fate[e]
                               /\ \A e \in Events, o \in Replicas : Untouched(r, e, o)
    PROVE  Bus' /\ NothingNew
<1>1. PendingIsOwn'
  BY DEF Bus, PendingIsOwn
<1>2. ToldIsDurable'
  BY DEF Bus, ToldIsDurable, Untouched
<1>3. ToldOnce'
  BY DEF Bus, ToldOnce, Untouched
<1>4. NothingNew
  BY DEF NothingNew, Yet, Untouched
<1> QED BY <1>1, <1>2, <1>3, <1>4 DEF Bus

\* Every step keeps what is said of the bus: a message comes once and from one side.
LEMMA BusStep == TypeOK /\ Bus /\ [Next]_vars => Bus' /\ Durable \subseteq Durable' /\ NothingNew
<1> SUFFICES ASSUME TypeOK, Bus, [Next]_vars
             PROVE  Bus' /\ Durable \subseteq Durable' /\ NothingNew
  OBVIOUS
<1> DEFINE Goal == Bus' /\ Durable \subseteq Durable' /\ NothingNew
<1>l. listener \in [Replicas -> ListenerOf(Messages)]
  BY DEF TypeOK
<1>m. \A e \in Events, r \in Replicas : EventMessage(e, r) \in Messages
  BY DEF Messages
\* Most steps leave the bus alone.
<1>s. ASSUME fate' = fate, unit' = unit, listener' = listener PROVE Goal
  <2>1. Durable \subseteq Durable'
    BY <1>s DEF Durable
  <2>2. \A r \in Replicas, e \in Events, o \in Replicas : Untouched(r, e, o)
    BY <1>s DEF Untouched
  <2> QED BY <1>s, <2>1, <2>2, NothingHandedOver
<1>1. ASSUME NEW r \in Replicas, NEW e \in Events, Record(r, e) PROVE Goal
  <2>1. /\ fate[e] = "new" /\ unit[r] = [pending |-> {}, committed |-> {}]
        /\ fate' = [fate EXCEPT ![e] = "pending"] /\ listener' = listener
        /\ unit' = [unit EXCEPT ![r].pending = {e}]
    BY <1>1 DEF Record
  <2>2. Durable' = Durable
    BY <2>1 DEF Durable, TypeOK
  <2>3. \A h \in Replicas : /\ unit'[h].committed = unit[h].committed
                            /\ unit'[h].pending = IF h = r THEN {e} ELSE unit[h].pending
    BY <2>1 DEF TypeOK
  <2>4. \A h \in Replicas : e \notin unit[h].pending
    BY <2>1 DEF Bus, PendingIsOwn
  <2>5. PendingIsOwn'
    BY <2>1, <2>3, <2>4 DEF Bus, PendingIsOwn, TypeOK
  <2>6. ToldIsDurable'
    BY <2>1, <2>2, <2>3 DEF Bus, ToldIsDurable
  <2>7. ToldOnce'
    BY <2>1, <2>3 DEF Bus, ToldOnce
  <2>8. NothingNew
    BY <2>1, <2>3 DEF NothingNew, Yet
  <2> QED BY <2>2, <2>5, <2>6, <2>7, <2>8 DEF Bus
<1>2. ASSUME NEW r \in Replicas, NEW e \in Events, Commit(r, e) PROVE Goal
  <2>1. /\ e \in unit[r].pending /\ fate' = [fate EXCEPT ![e] = "committed"]
        /\ unit' = [unit EXCEPT ![r] = [pending |-> {}, committed |-> unit[r].committed \cup {e}]]
        /\ listener' = [h \in Replicas |-> Notified(listener[h], EventMessage(e, r))]
    BY <1>2 DEF Commit, Promoted
  <2>2. fate[e] = "pending" /\ e \notin Durable /\ e \in Durable' /\ Durable \subseteq Durable'
    BY <2>1 DEF Bus, PendingIsOwn, Durable, TypeOK
  <2>3. \A h \in Replicas :
           /\ h # r => unit'[h] = unit[h] /\ e \notin unit[h].pending
           /\ unit'[r].pending = {} /\ unit'[r].committed = unit[r].committed \cup {e}
    BY <2>1 DEF TypeOK, Bus, PendingIsOwn
  <2>4. \A h, o \in Replicas : EventMessage(e, o) \notin InHand(listener[h])
    BY <2>2 DEF Bus, ToldIsDurable
  <2>5. \A h \in Replicas : e \notin unit[h].committed
    BY <2>2 DEF Bus, ToldIsDurable
  <2>6. ASSUME NEW h \in Replicas, NEW f \in Events, NEW o \in Replicas,
               EventMessage(f, o) \in InHand(listener'[h])
        PROVE  /\ \/ EventMessage(f, o) \in InHand(listener[h]) /\ f # e
                  \/ f = e /\ o = r
               /\ Once(listener[h], EventMessage(f, o)) => Once(listener'[h], EventMessage(f, o))
    <3>1. listener'[h] = Notified(listener[h], EventMessage(e, r))
      BY <2>1
    <3>2. EventMessage(f, o) \in InHand(listener[h]) \cup {EventMessage(e, r)}
      BY <1>l, <1>m, <2>6, <3>1, Hands
    <3>3. EventMessage(f, o) = EventMessage(e, r) => f = e /\ o = r
      BY MessageKinds
    <3>4. EventMessage(e, r) # EventMessage(f, o) \/ EventMessage(f, o) \notin InHand(listener[h])
      BY <2>4
    <3>5. Once(listener[h], EventMessage(f, o)) => Once(listener'[h], EventMessage(f, o))
      BY <1>l, <1>m, <3>1, <3>4, OnceKept
    <3> QED BY <2>4, <3>2, <3>3, <3>5
  <2>7. PendingIsOwn'
    <3>1. \A f \in Events : f # e => fate'[f] = fate[f]
      BY <2>1 DEF TypeOK
    <3>2. \A h \in Replicas : \A f : f \in unit'[h].pending =>
             f \in unit[h].pending /\ f # e /\ f \in Events
      BY <2>3 DEF TypeOK
    <3> QED BY <3>1, <3>2 DEF Bus, PendingIsOwn
  <2>8. ToldIsDurable'
    <3>1. \A h \in Replicas : unit'[h].committed \subseteq Durable'
      BY <2>2, <2>3 DEF Bus, ToldIsDurable
    <3>2. \A h, o \in Replicas, f \in Events :
             EventMessage(f, o) \in InHand(listener'[h]) => f \in Durable'
      BY <2>2, <2>6 DEF Bus, ToldIsDurable
    <3> QED BY <3>1, <3>2 DEF ToldIsDurable
  <2>9. ToldOnce'
    <3> SUFFICES ASSUME NEW h \in Replicas, NEW o \in Replicas, NEW f \in Events,
                        EventMessage(f, o) \in InHand(listener'[h])
                 PROVE  /\ Once(listener'[h], EventMessage(f, o))
                        /\ \A p \in Replicas :
                              EventMessage(f, p) \in InHand(listener'[h]) => p = o
                        /\ f \in unit'[h].committed => o = h
      BY DEF ToldOnce
    <3>1. CASE f # e
      <4>1. EventMessage(f, o) \in InHand(listener[h])
        BY <2>6, <3>1
      <4>2. Once(listener'[h], EventMessage(f, o))
        BY <2>6, <4>1 DEF Bus, ToldOnce
      <4>3. \A p \in Replicas : EventMessage(f, p) \in InHand(listener'[h])
                                   => EventMessage(f, p) \in InHand(listener[h])
        BY <2>6, <3>1
      <4>4. f \in unit'[h].committed => f \in unit[h].committed
        BY <2>3, <3>1
      <4> QED BY <4>1, <4>2, <4>3, <4>4 DEF Bus, ToldOnce
    <3>2. CASE f = e
      <4>1. o = r /\ \A p \in Replicas : EventMessage(f, p) \in InHand(listener'[h]) => p = r
        BY <2>6, <3>2
      <4>2. Once(listener[h], EventMessage(f, o))
        <5>1. EventMessage(f, o) \notin InHand(listener[h])
          BY <2>4, <3>2
        <5>2. EventMessage(f, o) \notin In(listener[h].wire) \cup In(listener[h].queue)
          BY <1>l, <5>1, Hands
        <5> QED BY <5>2 DEF Once, Single, In
      <4>3. f \in unit'[h].committed => h = r
        BY <2>3, <2>5, <3>2
      <4> QED BY <2>6, <4>1, <4>2, <4>3
    <3> QED BY <3>1, <3>2
  <2>10. NothingNew
    BY <2>2, <2>3, <2>6 DEF NothingNew, Yet
  <2> QED BY <2>2, <2>7, <2>8, <2>9, <2>10 DEF Bus
<1>3. ASSUME NEW r \in Replicas, NEW e \in Events, Rollback(r, e) PROVE Goal
  <2>1. /\ e \in unit[r].pending /\ fate' = [fate EXCEPT ![e] = "rolled_back"]
        /\ unit' = [unit EXCEPT ![r].pending = {}] /\ listener' = listener
    BY <1>3 DEF Rollback
  <2>2. fate[e] = "pending" /\ \A h \in Replicas : e \in unit[h].pending => h = r
    BY <2>1 DEF Bus, PendingIsOwn
  <2>3. Durable \subseteq Durable'
    BY <2>1, <2>2 DEF Durable, TypeOK
  <2>4. \A h \in Replicas : /\ unit'[h].pending = IF h = r THEN {} ELSE unit[h].pending
                            /\ unit'[h].committed = unit[h].committed
    BY <2>1 DEF TypeOK
  <2>5. \A h \in Replicas : \A f \in unit'[h].pending : fate'[f] = fate[f]
    BY <2>1, <2>2, <2>4 DEF TypeOK
  <2>6. \A h \in Replicas, f \in Events, o \in Replicas : Untouched(h, f, o)
    BY <2>1 DEF Untouched
  <2> QED BY <2>3, <2>4, <2>5, <2>6, NothingHandedOver
<1>4. ASSUME NEW r \in Replicas, NEW e \in Events, Dispatch(r, e) PROVE Goal
  <2>1. /\ fate' = fate /\ listener' = listener
        /\ unit' = [unit EXCEPT ![r].committed = @ \ {e}]
    BY <1>4 DEF Dispatch
  <2>2. \A h \in Replicas : /\ unit'[h].pending = unit[h].pending
                            /\ unit'[h].committed \subseteq unit[h].committed
    BY <2>1 DEF TypeOK
  <2>3. \A h \in Replicas, f \in Events, o \in Replicas : Untouched(h, f, o)
    BY <2>1 DEF Untouched
  <2>4. Durable \subseteq Durable'
    BY <2>1 DEF Durable
  <2> QED BY <2>1, <2>2, <2>3, <2>4, NothingHandedOver
<1>10. ASSUME NEW r \in Replicas, NEW e \in Events, DispatchFails(r, e) PROVE Goal
  <2>1. /\ fate' = fate /\ listener' = listener
        /\ unit' = [unit EXCEPT ![r].committed = @ \ {e}]
    BY <1>10 DEF DispatchFails
  <2>2. \A h \in Replicas : /\ unit'[h].pending = unit[h].pending
                            /\ unit'[h].committed \subseteq unit[h].committed
    BY <2>1 DEF TypeOK
  <2>3. \A h \in Replicas, f \in Events, o \in Replicas : Untouched(h, f, o)
    BY <2>1 DEF Untouched
  <2>4. Durable \subseteq Durable'
    BY <2>1 DEF Durable
  <2> QED BY <2>1, <2>2, <2>3, <2>4, NothingHandedOver
<1>5. ASSUME NEW r \in Replicas, Abandon(r) PROVE Goal
  <2>1. /\ fate' = fate /\ listener' = listener
        /\ unit' = [unit EXCEPT ![r].committed = {}]
    BY <1>5 DEF Abandon
  <2>2. \A h \in Replicas : /\ unit'[h].pending = unit[h].pending
                            /\ unit'[h].committed \subseteq unit[h].committed
    BY <2>1 DEF TypeOK
  <2>3. \A h \in Replicas, f \in Events, o \in Replicas : Untouched(h, f, o)
    BY <2>1 DEF Untouched
  <2>4. Durable \subseteq Durable'
    BY <2>1 DEF Durable
  <2> QED BY <2>1, <2>2, <2>3, <2>4, NothingHandedOver
\* The steps of one listener.
<1>r. ASSUME NEW r \in Replicas, NEW l, fate' = fate, unit' = unit,
             listener' = [listener EXCEPT ![r] = l], InHand(l) \subseteq InHand(listener[r]),
             \A x : Once(listener[r], x) => Once(l, x)
      PROVE  Goal
  <2>1. \A h \in Replicas : listener'[h] = IF h = r THEN l ELSE listener[h]
    BY <1>l, <1>r
  <2>2. \A h \in Replicas, f \in Events, o \in Replicas : Untouched(h, f, o)
    BY <1>r, <2>1 DEF Untouched
  <2>3. Durable \subseteq Durable'
    BY <1>r DEF Durable
  <2> QED BY <1>r, <2>2, <2>3, NothingHandedOver
<1>6. ASSUME NEW r \in Replicas, Arrive(r) PROVE Goal
  <2>1. /\ fate' = fate /\ unit' = unit /\ listener[r].wire # <<>>
        /\ listener' = [listener EXCEPT ![r] = OnNotify(listener[r])]
    BY <1>6 DEF Arrive
  <2>2. /\ InHand(OnNotify(listener[r])) \subseteq InHand(listener[r])
        /\ \A x : Once(listener[r], x) => Once(OnNotify(listener[r]), x)
    BY <1>l, <2>1, Hands, OnceKept
  <2> QED BY <1>r, <2>1, <2>2
<1>7. ASSUME NEW r \in Replicas, Relay(r) PROVE Goal
  <2>1. /\ fate' = fate /\ unit' = unit /\ listener[r].queue # <<>>
        /\ listener' = [listener EXCEPT ![r] = Taken(listener[r])]
    BY <1>7 DEF Relay
  <2>2. /\ InHand(Taken(listener[r])) \subseteq InHand(listener[r])
        /\ \A x : Once(listener[r], x) => Once(Taken(listener[r]), x)
    BY <1>l, <2>1, Hands, OnceKept
  <2> QED BY <1>r, <2>1, <2>2
<1>11. ASSUME NEW r \in Replicas, RelayFails(r) PROVE Goal
  <2>1. /\ fate' = fate /\ unit' = unit /\ listener[r].queue # <<>>
        /\ listener' = [listener EXCEPT ![r] = Taken(listener[r])]
    BY <1>11 DEF RelayFails
  <2>2. /\ InHand(Taken(listener[r])) \subseteq InHand(listener[r])
        /\ \A x : Once(listener[r], x) => Once(Taken(listener[r]), x)
    BY <1>l, <2>1, Hands, OnceKept
  <2> QED BY <1>r, <2>1, <2>2
<1>8. ASSUME NEW r \in Replicas, Break(r) PROVE Goal
  <2>1. /\ fate' = fate /\ unit' = unit
        /\ listener' = [listener EXCEPT ![r] = Broken(listener[r])]
    BY <1>8 DEF Break
  <2>2. /\ InHand(Broken(listener[r])) \subseteq InHand(listener[r])
        /\ \A x : Once(listener[r], x) => Once(Broken(listener[r]), x)
    BY <1>l, Hands, OnceKept
  <2> QED BY <1>r, <2>1, <2>2
<1>9. ASSUME NEW r \in Replicas, Resubscribe(r) PROVE Goal
  <2>1. /\ fate' = fate /\ unit' = unit
        /\ listener' = [listener EXCEPT ![r] = Subscribed(Closed(listener[r]))]
    BY <1>9 DEF Resubscribe
  <2>2. Closed(listener[r]) \in ListenerOf(Messages)
    BY <1>l, ListenerTypes
  <2>3. /\ InHand(Subscribed(Closed(listener[r]))) \subseteq InHand(listener[r])
        /\ \A x : Once(listener[r], x) => Once(Subscribed(Closed(listener[r])), x)
    BY <1>l, <2>2, Hands, OnceKept
  <2> QED BY <1>r, <2>1, <2>3
<1>13. ASSUME NEW r \in Replicas, NEW c \in Clients, NEW role \in Roles, RoleSync(c, r, role)
       PROVE  Goal
  <2>1. /\ fate' = fate /\ unit' = unit
        /\ listener' = [h \in Replicas |-> Notified(listener[h], CloseMessage(c, r))]
    BY <1>13 DEF RoleSync
  <2>2. CloseMessage(c, r) \in Messages
    BY DEF Messages
  <2>3. \A h \in Replicas, f \in Events, o \in Replicas : Untouched(h, f, o)
    <3> SUFFICES ASSUME NEW h \in Replicas, NEW f \in Events, NEW o \in Replicas
                 PROVE  Untouched(h, f, o)
      OBVIOUS
    <3>1. listener'[h] = Notified(listener[h], CloseMessage(c, r))
      BY <2>1
    <3>2. EventMessage(f, o) # CloseMessage(c, r)
      BY MessageKinds
    <3>3. InHand(listener'[h]) \subseteq InHand(listener[h]) \cup {CloseMessage(c, r)}
      BY <1>l, <2>2, <3>1, Hands
    <3>4. Once(listener[h], EventMessage(f, o)) => Once(listener'[h], EventMessage(f, o))
      BY <1>l, <2>2, <3>1, <3>2, OnceKept
    <3> QED BY <3>2, <3>3, <3>4 DEF Untouched
  <2>4. Durable \subseteq Durable'
    BY <2>1 DEF Durable
  <2> QED BY <2>1, <2>3, <2>4, NothingHandedOver
<1>14. ASSUME NEW r \in Replicas, Crash(r) PROVE Goal
  <2>1. /\ fate' = [e \in Events |-> IF e \in unit[r].pending THEN "rolled_back" ELSE fate[e]]
        /\ unit' = [unit EXCEPT ![r] = [pending |-> {}, committed |-> {}]]
        /\ listener' = [listener EXCEPT ![r] = Started]
    BY <1>14 DEF Crash
  <2>2. \A h \in Replicas : unit'[h] = IF h = r THEN [pending |-> {}, committed |-> {}] ELSE unit[h]
    BY <2>1 DEF TypeOK
  <2>3. \A h \in Replicas : listener'[h] = IF h = r THEN Started ELSE listener[h]
    BY <1>l, <2>1
  <2>4. \A h \in Replicas, f \in Events, o \in Replicas : Untouched(h, f, o)
    <3>1. InHand(Started) = {}
      BY <1>l, Hands
    <3> QED BY <2>3, <3>1 DEF Untouched
  <2>5. Durable \subseteq Durable'
    BY <2>1 DEF Durable, TypeOK, Bus, PendingIsOwn
  <2>6. \A h \in Replicas : \A f \in unit'[h].pending : fate'[f] = fate[f]
    BY <2>1, <2>2 DEF TypeOK, Bus, PendingIsOwn
  <2>7. \A h \in Replicas : /\ unit'[h].pending \subseteq unit[h].pending
                            /\ unit'[h].committed \subseteq unit[h].committed
    BY <2>2
  <2> QED BY <2>4, <2>5, <2>6, <2>7, NothingHandedOver
<1>15. ASSUME NEW e \in Events, Delete(e) PROVE Goal
  <2>1. /\ fate[e] = "committed" /\ fate' = [fate EXCEPT ![e] = "deleted"]
        /\ unit' = unit /\ listener' = listener
    BY <1>15 DEF Delete
  <2>2. Durable \subseteq Durable'
    BY <2>1 DEF Durable, TypeOK
  <2>3. \A h \in Replicas, f \in Events, o \in Replicas : Untouched(h, f, o)
    BY <2>1 DEF Untouched
  <2>4. \A h \in Replicas : \A f \in unit'[h].pending : fate'[f] = fate[f]
    BY <2>1 DEF TypeOK, Bus, PendingIsOwn
  <2> QED BY <2>1, <2>2, <2>3, <2>4, NothingHandedOver
<1>o. ASSUME \/ UNCHANGED vars
             \/ \E r \in Replicas :
                   \/ \E t \in Tasks : \/ \E c \in Clients : Send(r, t, c)
                                       \/ \E s \in sending[r][t].to : SendFails(r, t, s)
                   \/ \E c \in Clients : Dial(c, r)
             \/ \E c \in Clients : \/ Load(c) \/ Register(c) \/ Leave(c) \/ NetworkLoss(c)
                                   \/ Revoke(c) \/ \E k \in room : Ping(c, k)
             \/ \E k \in room : Prune(k)
      PROVE  Goal
  <2>1. fate' = fate /\ unit' = unit /\ listener' = listener
    BY <1>o DEF vars, Send, SendFails, Dial, Load, Register, Leave, NetworkLoss, Revoke, Ping, Prune
  <2> QED BY <2>1, <1>s
<1> QED
  BY <1>1, <1>2, <1>3, <1>4, <1>5, <1>6, <1>7, <1>8, <1>9, <1>10, <1>11, <1>13, <1>14, <1>15,
     <1>o DEF Next

-----------------------------------------------------------------------------
(* The fan-out.                                                            *)

\* A connection that was there before, and one of a new handshake.
Same(q, k) == q.socket = k.socket /\ q.home = k.home /\ q.got = k.got
Fresh(q) == /\ q.socket[2] > page[q.socket[1]].dial
            /\ q.socket[2] <= page'[q.socket[1]].dial
            /\ \A e \in Events : q.got[e] = 0

\* A step that sends nothing.
LEMMA NothingSent ==
    ASSUME TypeOK, TypeOK', Fans, Durable \subseteq Durable', NothingNew,
           \A c \in Clients : page[c].dial <= page'[c].dial /\ view'[c] \subseteq view[c] \cup Durable,
           \A q \in room' : Fresh(q) \/ \E k \in room : Same(q, k),
           \A p, q \in room' : p.socket = q.socket => p = q,
           \A r \in Replicas, t \in Tasks : \A s \in sending'[r][t].to :
              sending'[r][t].event = sending[r][t].event /\ s \in sending[r][t].to
    PROVE  Fans'
<1>1. ASSUME NEW q \in room'
      PROVE  q \in Connections /\ q.socket[1] \in Clients /\ q.socket[2] \in Nat
  BY <1>1 DEF TypeOK, Connections, Sockets
<1>2. ASSUME NEW r \in Replicas, NEW t \in Tasks, NEW s \in sending[r][t].to
      PROVE  s[1] \in Clients /\ s[2] \in Nat /\ sending[r][t].event \in Events
  BY DEF TypeOK, Sockets, Quiet
<1>3. \A c \in Clients : page[c].dial \in Nat /\ page'[c].dial \in Nat
  BY DEF TypeOK
<1>4. OneSocket'
  <2> SUFFICES ASSUME NEW q \in room' PROVE q.socket[2] <= page'[q.socket[1]].dial
    BY DEF OneSocket
  <2>1. CASE Fresh(q)
    BY <2>1 DEF Fresh
  <2>2. CASE \E k \in room : Same(q, k)
    BY <1>1, <1>3, <2>2 DEF Fans, OneSocket, Same
  <2> QED BY <2>1, <2>2
<1>5. OneFan'
  <2> SUFFICES ASSUME NEW r \in Replicas, NEW t \in Tasks, NEW e \in Events, NEW s \in Sockets,
                      e = sending'[r][t].event, s \in sending'[r][t].to
               PROVE  /\ s[2] <= page'[s[1]].dial
                      /\ ~Yet(r, e)'
                      /\ \A u \in Tasks :
                            sending'[r][u].event = e /\ s \in sending'[r][u].to => u = t
                      /\ \A k \in room' : k.socket = s => k.home = r /\ k.got[e] = 0
    BY DEF OneFan, Tasks, Yet
  <2>1. e = sending[r][t].event /\ s \in sending[r][t].to
    OBVIOUS
  <2>2. e \in Events /\ e \in Durable /\ s[1] \in Clients /\ s[2] \in Nat
    BY <1>2, <2>1 DEF Fans, SentIsDurable
  <2>3. s[2] <= page[s[1]].dial /\ ~Yet(r, e)
    BY <2>1 DEF Fans, OneFan
  <2>4. s[2] <= page'[s[1]].dial
    BY <1>3, <2>2, <2>3
  <2>5. ~Yet(r, e)'
    BY <2>2, <2>3 DEF NothingNew
  <2>6. \A u \in Tasks : sending'[r][u].event = e /\ s \in sending'[r][u].to => u = t
    BY <2>1 DEF Fans, OneFan
  <2>7. ASSUME NEW q \in room', q.socket = s PROVE q.home = r /\ q.got[e] = 0
    <3>1. ~Fresh(q)
      BY <1>3, <2>2, <2>3, <2>7 DEF Fresh
    <3>2. PICK k \in room : Same(q, k)
      BY <3>1
    <3> QED BY <2>1, <2>7, <3>2 DEF Fans, OneFan, Same
  <2> QED BY <2>4, <2>5, <2>6, <2>7
<1>6. OneFrame'
  <2> SUFFICES ASSUME NEW q \in room', NEW e \in Events, q.got[e] # 0
               PROVE  q.got[e] = 1 /\ ~Yet(q.home, e)'
    BY DEF OneFrame, Yet
  <2>1. PICK k \in room : Same(q, k)
    BY DEF Fresh
  <2>2. q.got[e] = 1 /\ ~Yet(q.home, e) /\ e \in Durable /\ q.home \in Replicas
    BY <2>1 DEF Fans, OneFrame, SentIsDurable, Same, TypeOK, Connections
  <2> QED BY <2>2 DEF NothingNew
<1>7. SentIsDurable'
  <2>1. ASSUME NEW r \in Replicas, NEW t \in Tasks, sending'[r][t].to # {}
        PROVE  sending'[r][t].event \in Durable'
    BY <2>1 DEF Fans, SentIsDurable
  <2>2. ASSUME NEW q \in room', NEW e \in Events, q.got[e] # 0 PROVE e \in Durable'
    <3>1. PICK k \in room : Same(q, k)
      BY <2>2 DEF Fresh
    <3> QED BY <2>2, <3>1 DEF Fans, SentIsDurable, Same
  <2>3. \A c \in Clients : view'[c] \subseteq Durable'
    BY DEF Fans, SentIsDurable
  <2> QED BY <2>1, <2>2, <2>3 DEF SentIsDurable, Tasks
<1> QED BY <1>4, <1>5, <1>6, <1>7 DEF Fans

\* A replica starts to fan out an event it will not be told of again.
LEMMA ProjectFans ==
    ASSUME TypeOK, TypeOK', Fans, Durable \subseteq Durable', NothingNew,
           NEW r \in Replicas, NEW t \in Tasks, NEW e \in Durable,
           Project(r, t, e), sending[r][t] = Quiet, Yet(r, e), ~Yet(r, e)',
           UNCHANGED <<room, page, view>>
    PROVE  Fans'
<1> DEFINE to == IF fate[e] = "deleted" THEN {}
                 ELSE {k.socket : k \in {j \in On(r) : Pushed(Item[e], SeenBy(j))}}
           fan == [event |-> e, to |-> to]
<1>1. sending' = IF to = {} THEN sending ELSE [sending EXCEPT ![r][t] = fan]
  BY DEF Project
<1>2. \A s \in to : \E k \in room : k.socket = s /\ k.home = r
  BY DEF On
<1>3. \A h \in Replicas, u \in Tasks :
         \/ sending'[h][u] = sending[h][u]
         \/ h = r /\ u = t /\ sending'[h][u] = fan
  BY <1>1 DEF TypeOK
<1>e. fan.event = e /\ fan.to = to /\ e \in Events
  BY DEF Durable
<1> HIDE DEF fan, to
<1>4. OneSocket'
  BY DEF Fans, OneSocket
<1>5. OneFrame'
  <2> SUFFICES ASSUME NEW q \in room, NEW f \in Events, q.got[f] # 0
               PROVE  q.got[f] = 1 /\ ~Yet(q.home, f)'
    BY DEF OneFrame, Yet
  <2>1. q.got[f] = 1 /\ ~Yet(q.home, f) /\ f \in Durable /\ q.home \in Replicas
    BY DEF Fans, OneFrame, SentIsDurable, TypeOK, Connections
  <2> QED BY <2>1 DEF NothingNew
<1>6. SentIsDurable'
  <2>1. ASSUME NEW h \in Replicas, NEW u \in Tasks, sending'[h][u].to # {}
        PROVE  sending'[h][u].event \in Durable'
    BY <1>3, <1>e, <2>1 DEF Fans, SentIsDurable
  <2>2. \A q \in room, f \in Events : q.got[f] # 0 => f \in Durable'
    BY DEF Fans, SentIsDurable
  <2>3. \A c \in Clients : view'[c] \subseteq Durable'
    BY DEF Fans, SentIsDurable
  <2> QED BY <2>1, <2>2, <2>3 DEF SentIsDurable, Tasks
\* Nobody on this replica has had the event, or is being sent it.
<1>7. \A k \in room : k.home = r => k.got[e] = 0
  BY <1>e DEF Fans, OneFrame
<1>8. \A u \in Tasks : sending[r][u].event = e => sending[r][u].to = {}
  <2>1. ASSUME NEW u \in Tasks PROVE sending[r][u].to \subseteq Sockets
    <3>1. sending[r][u] \in {Quiet} \cup [event : Events, to : SUBSET Sockets]
      BY DEF TypeOK
    <3> QED BY <3>1 DEF Quiet
  <2> QED BY <1>e, <2>1 DEF Fans, OneFan
<1>9. OneFan'
  <2> SUFFICES ASSUME NEW h \in Replicas, NEW u \in Tasks, NEW f \in Events, NEW s \in Sockets,
                      f = sending'[h][u].event, s \in sending'[h][u].to
               PROVE  /\ s[2] <= page[s[1]].dial
                      /\ ~Yet(h, f)'
                      /\ \A v \in Tasks :
                            sending'[h][v].event = f /\ s \in sending'[h][v].to => v = u
                      /\ \A k \in room : k.socket = s => k.home = h /\ k.got[f] = 0
    BY DEF OneFan, Tasks, Yet
  <2>1. CASE h = r /\ u = t /\ sending'[h][u] = fan
    <3>1. f = e /\ s \in to
      BY <1>e, <2>1
    <3>2. PICK k \in room : k.socket = s /\ k.home = r
      BY <1>2, <3>1
    <3>3. s[2] <= page[s[1]].dial /\ \A q \in room : q.socket = s => q = k
      BY <3>2 DEF Fans, OneSocket
    <3>4. \A v \in Tasks : sending'[h][v].event = f /\ s \in sending'[h][v].to => v = u
      BY <1>3, <1>8, <2>1, <3>1
    <3> QED BY <1>7, <2>1, <3>1, <3>2, <3>3, <3>4
  <2>2. CASE sending'[h][u] = sending[h][u] /\ ~(h = r /\ u = t /\ sending'[h][u] = fan)
    <3>1. f = sending[h][u].event /\ s \in sending[h][u].to
      BY <2>2
    <3>2. f \in Durable /\ f \in Events /\ ~Yet(h, f) /\ s[2] <= page[s[1]].dial
      BY <3>1 DEF Fans, OneFan, SentIsDurable, Durable
    <3>3. ~Yet(h, f)'
      BY <3>2 DEF NothingNew
    <3>4. \A k \in room : k.socket = s => k.home = h /\ k.got[f] = 0
      BY <3>1 DEF Fans, OneFan
    <3>5. ASSUME NEW v \in Tasks, sending'[h][v].event = f, s \in sending'[h][v].to PROVE v = u
      <4>1. CASE sending'[h][v] = sending[h][v]
        BY <3>1, <3>5, <4>1 DEF Fans, OneFan
      <4>2. CASE h = r /\ v = t /\ sending'[h][v] = fan
        <5>1. f = e
          BY <1>e, <3>5, <4>2
        <5> QED BY <1>8, <3>1, <4>2, <5>1
      <4> QED BY <1>3, <4>1, <4>2
    <3> QED BY <3>2, <3>3, <3>4, <3>5
  <2> QED BY <1>3, <2>1, <2>2
<1> QED BY <1>4, <1>5, <1>6, <1>9 DEF Fans

\* What sending to one socket leaves to send.
LEMMA SentToLeaves ==
    ASSUME TypeOK, NEW r \in Replicas, NEW t \in Tasks, NEW s \in sending[r][t].to, SentTo(r, t, s)
    PROVE  /\ sending'[r][t].to = sending[r][t].to \ {s}
           /\ sending'[r][t].to # {} => sending'[r][t].event = sending[r][t].event
           /\ \A h \in Replicas, u \in Tasks :
                 h # r \/ u # t => sending'[h][u] = sending[h][u]
<1> DEFINE old == sending[r][t]
           fan == IF old.to = {s} THEN Quiet ELSE [old EXCEPT !.to = old.to \ {s}]
<1>1. sending' = [sending EXCEPT ![r][t] = fan]
  BY DEF SentTo
<1>2. old \in [event : Events, to : SUBSET Sockets]
  BY DEF TypeOK, Quiet
<1>3. fan.to = old.to \ {s} /\ (fan.to # {} => fan.event = old.event)
  BY <1>2 DEF Quiet
<1> HIDE DEF fan, old
<1>4. \A h \in Replicas, u \in Tasks :
         sending'[h][u] = IF h = r /\ u = t THEN fan ELSE sending[h][u]
  BY <1>1 DEF TypeOK
<1> QED BY <1>3, <1>4 DEF old

\* A frame reaches a socket: it is the first of that event.
LEMMA SendFans ==
    ASSUME TypeOK, TypeOK', Fans, NothingNew, NEW r \in Replicas, NEW t \in Tasks, NEW c \in Clients,
           Send(r, t, c)
    PROVE  Fans'
<1> DEFINE s == Socket(c)
           e == sending[r][t].event
<1>1. /\ s \in sending[r][t].to /\ SentTo(r, t, s)
      /\ view' = [view EXCEPT ![c] = @ \cup {e}]
      /\ fate' = fate /\ page' = page
  BY DEF Send
<1>2. e \in Events /\ s \in Sockets
  BY <1>1 DEF TypeOK, Quiet
<1>3. e \in Durable /\ Durable' = Durable
  BY <1>1 DEF Fans, SentIsDurable, Durable
<1>4. /\ ~Yet(r, e)
      /\ \A u \in Tasks : sending[r][u].event = e /\ s \in sending[r][u].to => u = t
      /\ \A k \in room : k.socket = s => k.home = r /\ k.got[e] = 0
  BY <1>1, <1>2 DEF Fans, OneFan
<1>5. ASSUME NEW q \in room'
      PROVE  \E k \in room :
                /\ q.socket = k.socket /\ q.home = k.home
                /\ q.got = IF k.socket = s THEN [k.got EXCEPT ![e] = @ + 1] ELSE k.got
                /\ q = IF k.socket = s THEN [k EXCEPT !.got[e] = @ + 1] ELSE k
                /\ k.got \in [Events -> Nat] /\ k.home \in Replicas
  <2>1. PICK k \in room : q = IF k.socket = s THEN [k EXCEPT !.got[e] = @ + 1] ELSE k
    BY DEF Send
  <2>2. k \in Connections
    BY DEF TypeOK
  <2>3. k.got \in [Events -> Nat] /\ k.home \in Replicas
    BY <2>2 DEF Connections
  <2>4. CASE k.socket = s
    <3>1. q = [k EXCEPT !.got[e] = @ + 1]
      BY <2>1, <2>4
    <3>2. q.socket = k.socket /\ q.home = k.home /\ q.got = [k.got EXCEPT ![e] = @ + 1]
      BY <1>2, <2>2, <3>1, ConnectionFields
    <3> QED BY <2>3, <2>4, <3>1, <3>2
  <2>5. CASE k.socket # s
    BY <2>1, <2>3, <2>5
  <2> QED BY <2>4, <2>5
<1>6. /\ sending'[r][t].to = sending[r][t].to \ {s}
      /\ sending'[r][t].to # {} => sending'[r][t].event = e
      /\ \A h \in Replicas, u \in Tasks : h # r \/ u # t => sending'[h][u] = sending[h][u]
  BY <1>1, SentToLeaves
<1>7. \A h \in Replicas, u \in Tasks : \A x \in sending'[h][u].to :
         sending'[h][u].event = sending[h][u].event /\ x \in sending[h][u].to
  BY <1>6
<1> HIDE DEF s, e
<1>8. OneSocket'
  <2> SUFFICES ASSUME NEW q \in room', NEW p \in room'
               PROVE  /\ q.socket[2] <= page[q.socket[1]].dial
                      /\ p.socket = q.socket => p = q
    BY <1>1 DEF OneSocket
  <2>1. PICK k \in room : /\ q.socket = k.socket
                          /\ q = IF k.socket = s THEN [k EXCEPT !.got[e] = @ + 1] ELSE k
    BY <1>5
  <2>2. PICK j \in room : /\ p.socket = j.socket
                          /\ p = IF j.socket = s THEN [j EXCEPT !.got[e] = @ + 1] ELSE j
    BY <1>5
  <2>3. k.socket[2] <= page[k.socket[1]].dial /\ (j.socket = k.socket => j = k)
    BY DEF Fans, OneSocket
  <2>4. p.socket = q.socket => p = q
    BY <2>1, <2>2, <2>3
  <2> QED BY <2>1, <2>3, <2>4
<1>9. OneFrame'
  <2> SUFFICES ASSUME NEW q \in room', NEW f \in Events, q.got[f] # 0
               PROVE  q.got[f] = 1 /\ ~Yet(q.home, f)'
    BY DEF OneFrame, Yet
  <2>1. PICK k \in room :
           /\ q.socket = k.socket /\ q.home = k.home
           /\ q.got = IF k.socket = s THEN [k.got EXCEPT ![e] = @ + 1] ELSE k.got
           /\ k.got \in [Events -> Nat] /\ k.home \in Replicas
    BY <1>5
  <2>2. CASE k.socket = s /\ f = e
    <3>1. k.home = r /\ k.got[e] = 0
      BY <1>4, <2>2
    <3>2. q.got[f] = 1
      BY <1>2, <2>1, <2>2, <3>1
    <3> QED BY <1>2, <1>3, <1>4, <2>1, <2>2, <3>1, <3>2 DEF NothingNew
  <2>3. CASE ~(k.socket = s /\ f = e)
    <3>1. q.got[f] = k.got[f]
      BY <1>2, <2>1, <2>3
    <3>2. q.got[f] = 1 /\ ~Yet(k.home, f) /\ f \in Durable
      BY <3>1 DEF Fans, OneFrame, SentIsDurable
    <3> QED BY <2>1, <3>2 DEF NothingNew
  <2> QED BY <2>2, <2>3
<1>10. OneFan'
  <2> SUFFICES ASSUME NEW h \in Replicas, NEW u \in Tasks, NEW f \in Events, NEW x \in Sockets,
                      f = sending'[h][u].event, x \in sending'[h][u].to
               PROVE  /\ x[2] <= page'[x[1]].dial
                      /\ ~Yet(h, f)'
                      /\ \A v \in Tasks :
                            sending'[h][v].event = f /\ x \in sending'[h][v].to => v = u
                      /\ \A k \in room' : k.socket = x => k.home = h /\ k.got[f] = 0
    BY DEF OneFan, Tasks, Yet
  <2>1. f = sending[h][u].event /\ x \in sending[h][u].to
    BY <1>7
  <2>2. /\ x[2] <= page[x[1]].dial /\ ~Yet(h, f)
        /\ \A v \in Tasks : sending[h][v].event = f /\ x \in sending[h][v].to => v = u
        /\ \A k \in room : k.socket = x => k.home = h /\ k.got[f] = 0
    BY <2>1 DEF Fans, OneFan
  <2>3. f \in Durable
    BY <2>1 DEF Fans, SentIsDurable
  <2>4. ~Yet(h, f)'
    BY <2>2, <2>3 DEF NothingNew
  <2>5. \A v \in Tasks : sending'[h][v].event = f /\ x \in sending'[h][v].to => v = u
    BY <1>7, <2>2
  <2>6. ASSUME NEW q \in room', q.socket = x PROVE q.home = h /\ q.got[f] = 0
    <3>1. PICK k \in room :
             /\ q.socket = k.socket /\ q.home = k.home
             /\ q.got = IF k.socket = s THEN [k.got EXCEPT ![e] = @ + 1] ELSE k.got
             /\ k.got \in [Events -> Nat] /\ k.home \in Replicas
      BY <1>5
    <3>2. k.home = h /\ k.got[f] = 0
      BY <2>2, <2>6, <3>1
    <3>3. ~(k.socket = s /\ f = e)
      <4> SUFFICES ASSUME k.socket = s, f = e PROVE FALSE
        OBVIOUS
      <4>1. h = r /\ x = s
        BY <1>4, <2>6, <3>1, <3>2
      <4>2. u = t
        BY <1>4, <2>1, <4>1
      <4> QED BY <1>6, <4>1, <4>2
    <3> QED BY <1>2, <3>1, <3>2, <3>3
  <2> QED BY <1>1, <2>2, <2>4, <2>5, <2>6
<1>11. SentIsDurable'
  <2>1. ASSUME NEW h \in Replicas, NEW u \in Tasks, sending'[h][u].to # {}
        PROVE  sending'[h][u].event \in Durable'
    BY <1>3, <1>7, <2>1 DEF Fans, SentIsDurable
  <2>2. ASSUME NEW q \in room', NEW f \in Events, q.got[f] # 0 PROVE f \in Durable'
    <3>1. PICK k \in room :
             /\ q.got = IF k.socket = s THEN [k.got EXCEPT ![e] = @ + 1] ELSE k.got
             /\ k.got \in [Events -> Nat]
      BY <1>5
    <3>2. f = e \/ q.got[f] = k.got[f]
      BY <1>2, <3>1
    <3> QED BY <1>3, <2>2, <3>2 DEF Fans, SentIsDurable
  <2>3. \A d \in Clients : view'[d] \subseteq Durable'
    BY <1>1, <1>3 DEF Fans, SentIsDurable, TypeOK
  <2> QED BY <2>1, <2>2, <2>3 DEF SentIsDurable, Tasks
<1> QED BY <1>8, <1>9, <1>10, <1>11 DEF Fans

\* Closing a user's sockets only takes connections out.
LEMMA ClosingKeeps ==
    ASSUME TypeOK, NEW c \in Clients, NEW r \in Replicas, Closing(r, c)
    PROVE  room' \subseteq room /\ \A d \in Clients : page'[d].dial = page[d].dial
<1>1. page' = page \/ page' = [page EXCEPT ![c].phase = "denied"]
  BY DEF Closing
<1> QED BY <1>1 DEF Closing, TypeOK

\* A page that moves on keeps its handshakes.
LEMMA DialsStay ==
    ASSUME TypeOK, NEW c \in Clients, NEW p, page' = page \/ page' = [page EXCEPT ![c].phase = p]
    PROVE  \A d \in Clients : page'[d].dial = page[d].dial
<1>1. page \in [Clients -> [phase : Phases, dial : Nat, again : BOOLEAN]]
  BY DEF TypeOK
<1>2. [page[c] EXCEPT !.phase = p].dial = page[c].dial
  BY <1>1
<1>3. CASE page' = [page EXCEPT ![c].phase = p]
  <2> DEFINE new == [page[c] EXCEPT !.phase = p]
  <2>1. page' = [page EXCEPT ![c] = new]
    BY <1>3
  <2> HIDE DEF new
  <2>2. \A d \in Clients : page'[d] = IF d = c THEN new ELSE page[d]
    BY <1>1, <2>1
  <2> QED BY <1>2, <2>2 DEF new
<1> QED BY <1>3

\* Every step keeps what is said of the fan-outs: they have only fresh sockets in hand.
LEMMA FansStep ==
    ASSUME TypeOK, TypeOK', Bus, Fans, Durable \subseteq Durable', NothingNew, [Next]_vars
    PROVE  Fans'
<1>d. \A c \in Clients : page[c].dial \in Nat /\ view[c] \subseteq Events
  BY DEF TypeOK
<1>r. \A p, q \in room : p.socket = q.socket => p = q
  BY DEF Fans, OneSocket
<1> DEFINE SameFans == \A h \in Replicas, t \in Tasks : \A s \in sending'[h][t].to :
                          sending'[h][t].event = sending[h][t].event /\ s \in sending[h][t].to
           SamePages == \A c \in Clients : /\ page[c].dial <= page'[c].dial
                                           /\ view'[c] \subseteq view[c] \cup Durable
\* Most steps add nothing to the room.
<1>k. ASSUME room' \subseteq room, SamePages, SameFans PROVE Fans'
  <2>1. \A q \in room' : \E k \in room : Same(q, k)
    BY <1>k DEF Same
  <2>2. \A p, q \in room' : p.socket = q.socket => p = q
    BY <1>r, <1>k
  <2> QED BY <1>k, <2>1, <2>2, NothingSent
<1>s. ASSUME room' \subseteq room, page' = page, view' = view, sending' = sending PROVE Fans'
  <2>1. SamePages /\ SameFans
    BY <1>d, <1>s
  <2> QED BY <1>k, <1>s, <2>1
\* Dials stay, and so do the shown.
<1>p. ASSUME \A c \in Clients : page'[c].dial = page[c].dial /\ view'[c] \subseteq view[c] \cup Durable
      PROVE  SamePages
  BY <1>d, <1>p
<1>1. ASSUME NEW r \in Replicas, NEW e \in Events, Commit(r, e) PROVE Fans'
  <2> DEFINE f(k) == IF k.joined /\ Open(k) THEN [k EXCEPT !.due = @ \cup {e}] ELSE k
  <2>1. ASSUME NEW k \in room PROVE Same(f(k), k)
    <3>1. k \in Connections /\ k.due \cup {e} \in SUBSET Events
      BY DEF TypeOK, Connections
    <3>2. Same([k EXCEPT !.due = k.due \cup {e}], k)
      BY <3>1, ConnectionFields DEF Same
    <3> QED BY <3>2 DEF Same
  <2>2. room' = {f(k) : k \in room}
    BY <1>1 DEF Commit, Promoted
  <2>3. page' = page /\ view' = view /\ sending' = sending
    BY <1>1 DEF Commit, Promoted
  <2> HIDE DEF f
  <2>4. \A q \in room' : \E k \in room : q = f(k) /\ Same(q, k)
    BY <2>1, <2>2
  <2>5. \A p, q \in room' : p.socket = q.socket => p = q
    BY <1>r, <2>4 DEF Same
  <2>6. SamePages /\ SameFans
    BY <1>p, <2>3
  <2> QED BY <2>4, <2>5, <2>6, NothingSent
<1>2. ASSUME NEW c \in Clients, Register(c) PROVE Fans'
  <2> DEFINE f(k) == IF k.socket = Socket(c) THEN [k EXCEPT !.joined = TRUE] ELSE k
  <2>1. \A k \in room : Same(f(k), k)
    <3>1. \A k \in room : k \in Connections
      BY DEF TypeOK
    <3> QED BY <3>1, ConnectionFields DEF Same
  <2>2. room' = {f(k) : k \in room}
    BY <1>2 DEF Register
  <2>3. view' = view /\ sending' = sending /\ page' = [page EXCEPT ![c].phase = "open"]
    BY <1>2 DEF Register
  <2> HIDE DEF f
  <2>4. \A q \in room' : \E k \in room : q = f(k) /\ Same(q, k)
    BY <2>1, <2>2
  <2>5. \A p, q \in room' : p.socket = q.socket => p = q
    BY <1>r, <2>4 DEF Same
  <2>6. SamePages /\ SameFans
    BY <1>p, <2>3, DialsStay
  <2> QED BY <2>4, <2>5, <2>6, NothingSent
<1>3. ASSUME NEW c \in Clients, NEW x \in room, Ping(c, x) PROVE Fans'
  <2>1. CASE room' = room \ {x}
    <3>1. SamePages /\ SameFans
      <4>1. /\ view' = view /\ sending' = sending
            /\ page' = page \/ \E p : page' = [page EXCEPT ![c].phase = p]
        BY <1>3 DEF Ping
      <4>2. \A d \in Clients : page'[d].dial = page[d].dial
        BY <4>1, DialsStay
      <4> QED BY <1>p, <4>1, <4>2
    <3> QED BY <1>k, <2>1, <3>1
  <2>2. CASE room' = (room \ {x}) \cup {[x EXCEPT !.role = account[c].role, !.due = {}]}
    <3> DEFINE new == [x EXCEPT !.role = account[c].role, !.due = {}]
    <3>1. account[c].role \in Roles /\ x \in Connections
      BY DEF TypeOK
    <3>2. Same(new, x)
      BY <3>1, ConnectionFields DEF Same
    <3>3. SamePages /\ SameFans
      <4>1. /\ view' = view /\ sending' = sending
            /\ page' = page \/ \E p : page' = [page EXCEPT ![c].phase = p]
        BY <1>3 DEF Ping
      <4>2. \A d \in Clients : page'[d].dial = page[d].dial
        BY <4>1, DialsStay
      <4> QED BY <1>p, <4>1, <4>2
    <3>4. room' = (room \ {x}) \cup {new}
      BY <2>2
    <3> HIDE DEF new
    <3>5. \A q \in room' : q = new \/ q \in room \ {x}
      BY <3>4
    <3>6. \A q \in room' : \E k \in room : Same(q, k)
      BY <3>2, <3>5 DEF Same
    <3>7. \A p, q \in room' : p.socket = q.socket => p = q
      BY <1>r, <3>2, <3>5 DEF Same
    <3> QED BY <3>3, <3>6, <3>7, NothingSent
  <2> QED BY <1>3, <2>1, <2>2 DEF Ping
<1>4. ASSUME NEW r \in Replicas, NEW c \in Clients, Dial(c, r) PROVE Fans'
  <2> DEFINE new == [socket |-> <<c, page[c].dial + 1>>, home |-> r, role |-> account[c].role,
                     epoch |-> account[c].epoch, joined |-> FALSE,
                     got |-> [e \in Events |-> 0], due |-> {}]
  <2>1. room' \subseteq room \cup {new}
    BY <1>4 DEF Dial
  <2>2. SamePages /\ SameFans /\ page'[c].dial = page[c].dial + 1
    <3>1. /\ view' = view /\ sending' = sending
          /\ \E p, a : page' = [page EXCEPT ![c] =
                                   [phase |-> p, dial |-> page[c].dial + 1, again |-> a]]
      BY <1>4 DEF Dial
    <3>2. \A d \in Clients :
             page'[d].dial = IF d = c THEN page[c].dial + 1 ELSE page[d].dial
      BY <3>1 DEF TypeOK
    <3> QED BY <1>d, <3>1, <3>2
  <2>3. Fresh(new) /\ new.socket = <<c, page[c].dial + 1>>
    BY <1>d, <2>2 DEF Fresh
  <2> HIDE DEF new
  <2>4. \A q \in room : q.socket # new.socket
    <3> SUFFICES ASSUME NEW q \in room, q.socket = new.socket PROVE FALSE
      OBVIOUS
    <3>1. q.socket[2] <= page[q.socket[1]].dial
      BY DEF Fans, OneSocket
    <3>2. q.socket[1] = c /\ q.socket[2] = page[c].dial + 1
      BY <2>3
    <3> QED BY <1>d, <3>1, <3>2
  <2>5. \A q \in room' : Fresh(q) \/ \E k \in room : Same(q, k)
    BY <2>1, <2>3 DEF Same
  <2>6. \A p, q \in room' : p.socket = q.socket => p = q
    BY <1>r, <2>1, <2>4
  <2> QED BY <2>2, <2>5, <2>6, NothingSent
<1>5. ASSUME NEW r \in Replicas, NEW e \in Events, Dispatch(r, e) PROVE Fans'
  <2>1. /\ e \in unit[r].committed /\ sending[r]["request"] = Quiet
        /\ unit' = [unit EXCEPT ![r].committed = @ \ {e}] /\ Project(r, "request", e)
        /\ UNCHANGED <<listener, room, page, view>>
    BY <1>5 DEF Dispatch
  <2>2. e \in Durable /\ Yet(r, e)
    BY <2>1 DEF Bus, ToldIsDurable, Yet
  <2>3. e \notin unit'[r].committed
    BY <2>1 DEF TypeOK
  <2>4. ~Yet(r, e)'
    BY <2>1, <2>3 DEF Yet, Bus, ToldOnce
  <2> QED BY <2>1, <2>2, <2>4, ProjectFans DEF Tasks
<1>6. ASSUME NEW r \in Replicas, Relay(r) PROVE Fans'
  <2> DEFINE m == Head(listener[r].queue)
  <2>1. /\ listener[r] \in ListenerOf(Messages) /\ listener[r].queue # <<>>
        /\ listener'[r] = Taken(listener[r])
        /\ sending[r]["consumer"] = Quiet /\ unit' = unit /\ view' = view
    BY <1>6 DEF Relay, TypeOK
  <2>2. m \in Messages /\ InHand(listener[r]) = InHand(listener'[r]) \cup {m}
    BY <2>1, ListenerTypes, Hands
  <2>3. CASE m.origin = r
    BY <1>6, <2>3, <1>s DEF Relay
  <2>4. CASE m.origin # r /\ IsEvent(m)
    <3>1. Project(r, "consumer", m.event) /\ UNCHANGED <<room, page>>
      BY <1>6, <2>4 DEF Relay
    <3>2. m.event \in Events /\ m.origin \in Replicas /\ m = EventMessage(m.event, m.origin)
      BY <2>2, <2>4, MessageKinds
    <3> HIDE DEF m
    <3>3. PICK e \in Events, o \in Replicas \ {r} :
             /\ e = m.event /\ m = EventMessage(e, o)
             /\ EventMessage(e, o) \in InHand(listener[r])
      BY <2>2, <2>4, <3>2
    <3>4. Yet(r, e) /\ e \in Durable
      BY <3>3 DEF Yet, Bus, ToldIsDurable
    <3>5. /\ Once(listener[r], EventMessage(e, o)) /\ e \notin unit[r].committed
          /\ \A p \in Replicas : EventMessage(e, p) \in InHand(listener[r]) => p = o
      BY <3>3 DEF Bus, ToldOnce
    <3>6. EventMessage(e, o) \notin InHand(listener'[r])
      BY <2>1, <3>3, <3>5, OnceKept DEF m
    <3>7. ~Yet(r, e)'
      BY <2>1, <2>2, <3>5, <3>6 DEF Yet
    <3> QED BY <2>1, <3>1, <3>3, <3>4, <3>7, ProjectFans DEF Tasks
  <2>5. CASE m.origin # r /\ ~IsEvent(m)
    <3>1. Closing(r, m.close) /\ UNCHANGED sending
      BY <1>6, <2>5 DEF Relay
    <3>2. m.close \in Clients
      BY <2>2, <2>5, MessageKinds
    <3> HIDE DEF m
    <3>3. room' \subseteq room /\ \A d \in Clients : page'[d].dial = page[d].dial
      BY <3>1, <3>2, ClosingKeeps
    <3>4. SamePages /\ SameFans
      BY <1>p, <2>1, <3>1, <3>3
    <3> QED BY <1>k, <3>3, <3>4
  <2> QED BY <2>3, <2>4, <2>5
<1>7. ASSUME NEW r \in Replicas, NEW t \in Tasks, NEW c \in Clients, Send(r, t, c) PROVE Fans'
  BY <1>7, SendFans
<1>8. ASSUME NEW r \in Replicas, NEW t \in Tasks, NEW s \in sending[r][t].to, SendFails(r, t, s)
      PROVE  Fans'
  <2>1. s[1] \in Clients
    BY DEF TypeOK, Quiet, Sockets
  <2>2. SamePages /\ room' \subseteq room
    <3>1. /\ room' \subseteq room /\ view' = view
          /\ page' = page \/ page' = [page EXCEPT ![s[1]].phase = "away"]
      BY <1>8 DEF SendFails
    <3> QED BY <1>p, <2>1, <3>1, DialsStay
  <2>3. SameFans
    BY <1>8, SentToLeaves DEF SendFails
  <2> QED BY <1>k, <2>2, <2>3
<1>9. ASSUME NEW r \in Replicas, NEW c \in Clients, NEW role \in Roles, RoleSync(c, r, role)
      PROVE  Fans'
  <2>1. Closing(r, c) /\ UNCHANGED <<sending, view>>
    BY <1>9 DEF RoleSync
  <2>2. room' \subseteq room /\ \A d \in Clients : page'[d].dial = page[d].dial
    BY <2>1, ClosingKeeps
  <2>3. SamePages /\ SameFans
    BY <1>p, <2>1, <2>2
  <2> QED BY <1>k, <2>2, <2>3
<1>10. ASSUME NEW r \in Replicas, Crash(r) PROVE Fans'
  <2>1. /\ sending' = [sending EXCEPT ![r] = [t \in Tasks |-> Quiet]]
        /\ room' \subseteq room /\ view' = view
        /\ \A c \in Clients : page'[c] = page[c] \/ page'[c] = [page[c] EXCEPT !.phase = "away"]
    BY <1>10 DEF Crash
  <2>2. SamePages
    <3>1. ASSUME NEW c \in Clients PROVE page'[c].dial = page[c].dial
      <4>1. page[c] \in [phase : Phases, dial : Nat, again : BOOLEAN]
        BY DEF TypeOK
      <4>2. [page[c] EXCEPT !.phase = "away"].dial = page[c].dial
        BY <4>1
      <4> QED BY <2>1, <4>2
    <3> QED BY <1>p, <2>1, <3>1
  <2>3. SameFans
    <3>1. \A h \in Replicas, t \in Tasks : sending'[h][t] = IF h = r THEN Quiet ELSE sending[h][t]
      BY <2>1 DEF TypeOK
    <3> QED BY <3>1 DEF Quiet
  <2> QED BY <1>k, <2>1, <2>2, <2>3
<1>11. ASSUME NEW c \in Clients, Load(c) PROVE Fans'
  <2>1. /\ room' = room /\ sending' = sending
        /\ view' = [view EXCEPT ![c] = {e \in Events : fate[e] = "committed"
                                                        /\ Listed(Item[e], Now(c))}]
        /\ page' = [page EXCEPT ![c].phase = "loaded", ![c].again = FALSE]
    BY <1>11 DEF Load
  <2>2. \A d \in Clients : view'[d] \subseteq view[d] \cup Durable
    BY <2>1 DEF TypeOK, Durable
  <2>3. \A d \in Clients : page'[d].dial = page[d].dial
    BY <2>1 DEF TypeOK
  <2>4. SamePages /\ SameFans
    BY <1>p, <2>1, <2>2, <2>3
  <2> QED BY <1>k, <2>1, <2>4
<1>12. ASSUME NEW c \in Clients, Leave(c) \/ NetworkLoss(c) PROVE Fans'
  <2>1. room' \subseteq room /\ sending' = sending
    BY <1>12 DEF Leave, NetworkLoss
  <2>2. \A d \in Clients : view'[d] \subseteq view[d]
    BY <1>12 DEF Leave, NetworkLoss, TypeOK
  <2>3. \E p : page' = [page EXCEPT ![c].phase = p]
    BY <1>12 DEF Leave, NetworkLoss
  <2>4. SamePages /\ SameFans
    BY <1>p, <2>1, <2>2, <2>3, DialsStay
  <2> QED BY <1>k, <2>1, <2>4
<1>13. ASSUME \/ UNCHANGED vars
              \/ \E r \in Replicas :
                    \/ \E e \in Events : Record(r, e) \/ Rollback(r, e) \/ DispatchFails(r, e)
                    \/ Abandon(r) \/ Arrive(r) \/ RelayFails(r) \/ Break(r) \/ Resubscribe(r)
              \/ \E e \in Events : Delete(e)
              \/ \E c \in Clients : Revoke(c)
              \/ \E k \in room : Prune(k)
       PROVE  Fans'
  <2>1. room' \subseteq room /\ page' = page /\ view' = view /\ sending' = sending
    BY <1>13 DEF vars, Record, Rollback, DispatchFails, Abandon, Arrive, RelayFails, Break,
                 Resubscribe, Delete, Revoke, Prune
  <2> QED BY <1>s, <2>1
<1> QED
  BY <1>1, <1>2, <1>3, <1>4, <1>5, <1>6, <1>7, <1>8, <1>9, <1>10, <1>11, <1>12, <1>13 DEF Next

Told == TypeOK /\ Bus /\ Fans

\* Nobody has been told of anything at the start.
LEMMA InitTold == Init => Told
<1> SUFFICES ASSUME Init PROVE Told
  OBVIOUS
<1>1. Started \in ListenerOf(Messages) /\ InHand(Subscribed(Started)) = {}
      /\ Subscribed(Started) \in ListenerOf(Messages)
  <2>1. Started \in ListenerOf(Messages)
    BY DEF Started, ListenerOf, Links
  <2> QED BY <2>1, ListenerTypes, Hands
<1>2. TypeOK
  <2>1. \A c \in Clients : Viewer[c].role \in Roles
    BY ViewerAssumption DEF Viewers
  <2> QED BY <1>1, <2>1 DEF Init, TypeOK, Phases, Connections
<1>3. Bus
  BY <1>1 DEF Init, Bus, PendingIsOwn, ToldIsDurable, ToldOnce
<1>4. Fans
  BY DEF Init, Fans, OneSocket, OneFan, OneFrame, SentIsDurable, Quiet
<1> QED BY <1>2, <1>3, <1>4 DEF Told

\* The three together, with what they say of a single step.
LEMMA ToldStep == Told /\ [Next]_vars => Told' /\ Durable \subseteq Durable' /\ NothingNew
BY Typed, BusStep, FansStep DEF Told

\* Rows, buffers, listeners, fan-outs, connections and pages keep their types.
THEOREM TypeCorrect == Spec => []TypeOK
BY InitTold, ToldStep, PTL DEF Spec, Told

\* A socket gets at most one frame of an event, for any replicas, pages, events
\* and queue: the bus and the local dispatch never both bring it one.
THEOREM FramesAreSingle == Spec => []AtMostOneFrame
<1>1. Told => AtMostOneFrame
  BY DEF Told, Fans, OneFrame, AtMostOneFrame, TypeOK, Connections
<1> QED BY <1>1, InitTold, ToldStep, PTL DEF Spec

-----------------------------------------------------------------------------
(* No frame is forgotten.  LiveFrameIsOwed holds of a socket that is not open *)
(* too, as long as it is in the room: that makes it inductive.               *)

\* What a connection got of an event, or why it may still wait.
Excused(r, e, s) == OnItsWay(r, e, s) \/ e \in skipped[r] \/ fate[e] = "deleted"
Owed ==
    \A k \in room : \A e \in k.due :
       /\ k.joined
       /\ Pushed(Item[e], SeenBy(k)) => k.got[e] = 1 \/ Excused(k.home, e, k.socket)

Keeps(q, k) == /\ q.socket = k.socket /\ q.home = k.home /\ q.role = k.role /\ q.got = k.got
               /\ k.joined => q.joined

\* A connection that keeps what it had is owed what it was.
LEMMA StillOwed ==
    ASSUME Told, Owed,
           \A q \in room' : \A e \in q.due : \E k \in room : Keeps(q, k) /\ e \in k.due,
           \A q \in room' : \A e \in q.due :
              Excused(q.home, e, q.socket) => Excused(q.home, e, q.socket)'
    PROVE  Owed'
<1> SUFFICES ASSUME NEW q \in room', NEW e \in q.due
             PROVE  /\ q.joined
                    /\ Pushed(Item[e], SeenBy(q)) =>
                          q.got[e] = 1 \/ Excused(q.home, e, q.socket)'
  BY DEF Owed, SeenBy, Pushed, Addressed, Oversees, ConsoleKinds
<1>1. PICK k \in room : Keeps(q, k) /\ e \in k.due
  OBVIOUS
<1>2. SeenBy(q) = SeenBy(k)
  BY <1>1 DEF SeenBy, Keeps
<1> QED BY <1>1, <1>2 DEF Owed, Keeps

\* When nothing that was on its way moves.
LEMMA StillOnItsWay ==
    ASSUME Told, UNCHANGED <<listener, sending>>,
           \A r \in Replicas : /\ unit[r].committed \subseteq unit'[r].committed
                               /\ skipped[r] \subseteq skipped'[r],
           \A e \in Events : fate[e] = "deleted" => fate'[e] = "deleted"
    PROVE  \A r \in Replicas, e \in Events : \A s : Excused(r, e, s) => Excused(r, e, s)'
BY DEF Excused, OnItsWay

\* A fan-out reaches every socket that the event is pushed to.
LEMMA ProjectReaches ==
    ASSUME TypeOK, NEW r \in Replicas, NEW t \in Tasks, NEW e \in Events,
           Project(r, t, e), sending[r][t] = Quiet
    PROVE  /\ \A h \in Replicas, u \in Tasks : \A s :
                 s \in sending[h][u].to => sending'[h][u] = sending[h][u]
           /\ \A k \in room : k.joined /\ k.home = r /\ Pushed(Item[e], SeenBy(k)) =>
                 \/ fate[e] = "deleted"
                 \/ sending'[r][t].event = e /\ k.socket \in sending'[r][t].to
<1> DEFINE to == IF fate[e] = "deleted" THEN {}
                 ELSE {k.socket : k \in {j \in On(r) : Pushed(Item[e], SeenBy(j))}}
           fan == [event |-> e, to |-> to]
<1>1. sending' = IF to = {} THEN sending ELSE [sending EXCEPT ![r][t] = fan]
  BY DEF Project
<1>2. \A k \in room : k.joined /\ k.home = r /\ Pushed(Item[e], SeenBy(k)) =>
         fate[e] = "deleted" \/ k.socket \in to
  BY DEF On
<1>3. fan.event = e /\ fan.to = to
  OBVIOUS
<1> HIDE DEF fan, to
<1>4. \A h \in Replicas, u \in Tasks :
         sending'[h][u] = IF h = r /\ u = t /\ to # {} THEN fan ELSE sending[h][u]
  BY <1>1 DEF TypeOK
<1> QED BY <1>2, <1>3, <1>4 DEF Quiet

\* A commit: the sockets in the room are owed the event by their own replicas.
LEMMA CommitOwes ==
    ASSUME Told, Owed, NEW r \in Replicas, NEW e \in Events, Commit(r, e)
    PROVE  Owed'
<1>0. TypeOK /\ Bus /\ Fans
  BY DEF Told
<1>1. /\ fate' = [fate EXCEPT ![e] = "committed"] /\ e \in unit[r].pending
      /\ unit' = [unit EXCEPT ![r] = [pending |-> {}, committed |-> unit[r].committed \cup {e}]]
      /\ listener' = [h \in Replicas |-> Notified(listener[h], EventMessage(e, r))]
      /\ skipped' = [h \in Replicas |->
             IF h # r /\ listener[h].link # "up" THEN skipped[h] \cup {e} ELSE skipped[h]]
      /\ sending' = sending
      /\ room' = {IF k.joined /\ Open(k) THEN [k EXCEPT !.due = @ \cup {e}] ELSE k : k \in room}
  BY DEF Commit, Promoted
<1>2. fate[e] = "pending"
  BY <1>0, <1>1 DEF Bus, PendingIsOwn
<1>3. ASSUME NEW h \in Replicas
      PROVE  InHand(listener'[h]) = IF listener[h].link = "up"
                THEN InHand(listener[h]) \cup {EventMessage(e, r)} ELSE InHand(listener[h])
  <2>1. listener[h] \in ListenerOf(Messages) /\ EventMessage(e, r) \in Messages
    <3>1. EventMessage(e, r) \in Messages
      BY DEF Messages
    <3> QED BY <1>0, <3>1 DEF TypeOK
  <2>2. listener'[h] = Notified(listener[h], EventMessage(e, r))
    BY <1>1
  <2>3. InHand(Notified(listener[h], EventMessage(e, r))) = IF listener[h].link = "up"
           THEN InHand(listener[h]) \cup {EventMessage(e, r)} ELSE InHand(listener[h])
    BY <2>1, NotifiedHands
  <2> QED BY <2>2, <2>3
<1>4. /\ \A h \in Replicas : unit[h].committed \subseteq unit'[h].committed
      /\ e \in unit'[r].committed
      /\ \A h \in Replicas : skipped[h] \subseteq skipped'[h]
      /\ \A h \in Replicas : h # r /\ listener[h].link # "up" => e \in skipped'[h]
  BY <1>0, <1>1 DEF TypeOK
<1>5. ASSUME NEW q \in room'
      PROVE  \E k \in room : Keeps(q, k) /\ (q.due = k.due \/ (k.joined /\ q.due = k.due \cup {e}))
                             /\ k.home \in Replicas /\ k.due \subseteq Events
  <2>1. PICK k \in room : q = IF k.joined /\ Open(k) THEN [k EXCEPT !.due = k.due \cup {e}] ELSE k
    BY <1>1
  <2>2. k \in Connections /\ k.due \cup {e} \in SUBSET Events /\ k.home \in Replicas
    BY <1>0 DEF TypeOK, Connections
  <2>3. CASE k.joined /\ Open(k)
    <3>1. q = [k EXCEPT !.due = k.due \cup {e}]
      BY <2>1, <2>3
    <3> DEFINE d == k.due \cup {e}
    <3> HIDE DEF d
    <3>0. d \in SUBSET Events /\ q = [k EXCEPT !.due = d]
      BY <2>2, <3>1 DEF d
    <3>1a. /\ q.socket = k.socket /\ q.home = k.home /\ q.role = k.role
           /\ q.joined = k.joined /\ q.got = k.got /\ q.due = d
      BY <2>2, <3>0 DEF Connections
    <3>2. Keeps(q, k) /\ q.due = d
      BY <3>1a DEF Keeps
    <3> QED BY <2>2, <2>3, <3>2 DEF d
  <2>4. CASE ~(k.joined /\ Open(k))
    BY <2>1, <2>2, <2>4 DEF Keeps
  <2> QED BY <2>3, <2>4
<1>6. \A h \in Replicas, f \in Events : \A s : Excused(h, f, s) => Excused(h, f, s)'
  <2> SUFFICES ASSUME NEW h \in Replicas, NEW f \in Events, NEW s, Excused(h, f, s)
               PROVE  Excused(h, f, s)'
    OBVIOUS
  <2>1. fate[f] = "deleted" => fate'[f] = "deleted"
    BY <1>0, <1>1, <1>2 DEF TypeOK
  <2>2. OnItsWay(h, f, s) => OnItsWay(h, f, s)'
    BY <1>1, <1>3, <1>4 DEF OnItsWay
  <2> QED BY <1>4, <2>1, <2>2 DEF Excused
<1>7. \A h \in Replicas : \A s : Excused(h, e, s)'
  BY <1>3, <1>4 DEF Excused, OnItsWay
<1> SUFFICES ASSUME NEW q \in room', NEW f \in q.due
             PROVE  /\ q.joined
                    /\ Pushed(Item[f], SeenBy(q)) =>
                          q.got[f] = 1 \/ Excused(q.home, f, q.socket)'
  BY DEF Owed, SeenBy
<1>8. PICK k \in room : Keeps(q, k) /\ (q.due = k.due \/ (k.joined /\ q.due = k.due \cup {e}))
                        /\ k.home \in Replicas /\ k.due \subseteq Events
  BY <1>5
<1>9. SeenBy(q) = SeenBy(k)
  BY <1>8 DEF SeenBy, Keeps
<1>10. CASE f \in k.due
  BY <1>6, <1>8, <1>9, <1>10 DEF Owed, Keeps
<1>11. CASE f \notin k.due
  BY <1>7, <1>8, <1>11 DEF Keeps
<1> QED BY <1>10, <1>11

\* A frame is sent: the one it was for has it now, the others still wait.
LEMMA SendOwes ==
    ASSUME Told, Owed, NEW r \in Replicas, NEW t \in Tasks, NEW c \in Clients, Send(r, t, c)
    PROVE  Owed'
<1>0. TypeOK /\ Bus /\ Fans
  BY DEF Told
<1> DEFINE s == Socket(c)
           e == sending[r][t].event
<1>1. /\ s \in sending[r][t].to /\ SentTo(r, t, s)
      /\ room' = {IF k.socket = s THEN [k EXCEPT !.got[e] = @ + 1] ELSE k : k \in room}
      /\ UNCHANGED <<fate, unit, listener, skipped>>
  BY DEF Send
<1>2. e \in Events /\ s \in Sockets
  BY <1>0, <1>1 DEF TypeOK, Quiet
<1>3. \A k \in room : k.socket = s => k.home = r /\ k.got[e] = 0
  BY <1>0, <1>1, <1>2 DEF Fans, OneFan
<1>4. /\ sending'[r][t].to = sending[r][t].to \ {s}
      /\ sending'[r][t].to # {} => sending'[r][t].event = e
      /\ \A h \in Replicas, u \in Tasks : h # r \/ u # t => sending'[h][u] = sending[h][u]
  BY <1>0, <1>1, SentToLeaves
<1>5. ASSUME NEW h \in Replicas, NEW f \in Events, NEW x, x # s \/ f # e, Excused(h, f, x)
      PROVE  Excused(h, f, x)'
  <2>1. ASSUME NEW u \in Tasks, sending[h][u].event = f, x \in sending[h][u].to
        PROVE  sending'[h][u].event = f /\ x \in sending'[h][u].to
    BY <1>4, <1>5, <2>1
  <2> QED BY <1>1, <1>5, <2>1 DEF Excused, OnItsWay
<1> HIDE DEF s, e
<1> SUFFICES ASSUME NEW q \in room', NEW f \in q.due
             PROVE  /\ q.joined
                    /\ Pushed(Item[f], SeenBy(q)) =>
                          q.got[f] = 1 \/ Excused(q.home, f, q.socket)'
  BY DEF Owed, SeenBy
<1>6. PICK k \in room : q = IF k.socket = s THEN [k EXCEPT !.got[e] = @ + 1] ELSE k
  BY <1>1
<1>7. k \in Connections /\ k.home \in Replicas /\ k.due \subseteq Events /\ k.got \in [Events -> Nat]
  BY <1>0 DEF TypeOK, Connections
<1>8. /\ q.socket = k.socket /\ q.home = k.home /\ q.role = k.role /\ q.joined = k.joined
      /\ q.due = k.due
      /\ q.got = IF k.socket = s THEN [k.got EXCEPT ![e] = @ + 1] ELSE k.got
  <2>1. CASE k.socket = s
    <3>1. q = [k EXCEPT !.got[e] = @ + 1]
      BY <1>6, <2>1
    <3>2. /\ q.socket = k.socket /\ q.home = k.home /\ q.role = k.role /\ q.joined = k.joined
          /\ q.got = [k.got EXCEPT ![e] = @ + 1] /\ q.due = k.due
      BY <1>2, <1>7, <3>1 DEF Connections
    <3> QED BY <2>1, <3>2
  <2>2. CASE k.socket # s
    BY <1>6, <2>2
  <2> QED BY <2>1, <2>2
<1>9. SeenBy(q) = SeenBy(k) /\ f \in k.due /\ f \in Events
  BY <1>7, <1>8 DEF SeenBy
<1>10. CASE k.socket = s /\ f = e
  <2>1. q.got[f] = 1
    BY <1>2, <1>3, <1>7, <1>8, <1>10
  <2> QED BY <1>8, <1>9, <2>1 DEF Owed
<1>11. CASE k.socket # s \/ f # e
  <2>1. q.got[f] = k.got[f]
    BY <1>2, <1>7, <1>8, <1>11
  <2>2. Excused(k.home, f, k.socket) => Excused(k.home, f, k.socket)'
    BY <1>5, <1>7, <1>9, <1>11
  <2> QED BY <1>8, <1>9, <2>1, <2>2 DEF Owed
<1> QED BY <1>10, <1>11

\* When sockets only leave, what counts is what happens to a frame on its way.
LEMMA RoomShrinks ==
    ASSUME Told, Owed, room' \subseteq room,
           \A k \in room : \A e \in k.due :
              /\ k \in room' /\ k.joined /\ Pushed(Item[e], SeenBy(k))
              /\ Excused(k.home, e, k.socket)
              => Excused(k.home, e, k.socket)'
    PROVE  Owed'
<1> SUFFICES ASSUME NEW k \in room', NEW e \in k.due
             PROVE  /\ k.joined
                    /\ Pushed(Item[e], SeenBy(k)) =>
                          k.got[e] = 1 \/ Excused(k.home, e, k.socket)'
  BY DEF Owed, SeenBy, Pushed, Addressed, Oversees, ConsoleKinds
<1> QED BY DEF Owed

\* No step but a commit makes a socket due a frame, and none loses one that is
\* on its way without saying so.
LEMMA OwedStep ==
    ASSUME Told, Owed, [Next]_vars
    PROVE  Owed'
<1>0. TypeOK /\ Bus /\ Fans
  BY DEF Told
<1>c. \A k \in room : /\ k \in Connections /\ k.home \in Replicas /\ k.due \subseteq Events
                      /\ k.socket \in Sockets
  BY <1>0 DEF TypeOK, Connections
<1>l. \A h \in Replicas : listener[h] \in ListenerOf(Messages)
  BY <1>0 DEF TypeOK
<1>p. \A h \in Replicas : \A f \in unit[h].pending : fate[f] = "pending"
  BY <1>0 DEF Bus, PendingIsOwn
\* Sockets only leave and nothing on its way is lost.
<1>x. ASSUME room' \subseteq room,
             \A h \in Replicas, f \in Events : \A s : Excused(h, f, s) => Excused(h, f, s)'
      PROVE  Owed'
  <2>1. \A k \in room : \A f \in k.due :
           Excused(k.home, f, k.socket) => Excused(k.home, f, k.socket)'
    BY <1>c, <1>x
  <2> QED BY <1>x, <2>1, RoomShrinks
<1> DEFINE SameBus ==
              /\ UNCHANGED <<listener, sending, skipped>>
              /\ \A h \in Replicas : unit[h].committed \subseteq unit'[h].committed
              /\ \A f \in Events : fate[f] = "deleted" => fate'[f] = "deleted"
<1>b. ASSUME SameBus
      PROVE  \A h \in Replicas, f \in Events : \A s : Excused(h, f, s) => Excused(h, f, s)'
  BY <1>b, StillOnItsWay
<1>1. ASSUME NEW r \in Replicas, NEW e \in Events, Record(r, e) \/ Rollback(r, e) PROVE Owed'
  <2>1. \A h \in Replicas : unit[h].committed \subseteq unit'[h].committed
    <3>1. PICK x : unit' = [unit EXCEPT ![r].pending = x]
      BY <1>1 DEF Record, Rollback
    <3>2. unit \in [Replicas -> [pending : SUBSET Events, committed : SUBSET Events]]
      BY <1>0 DEF TypeOK
    <3> QED BY <3>1, <3>2
  <2>2. \A f \in Events : fate[f] = "deleted" => fate'[f] = "deleted"
    BY <1>0, <1>1, <1>p DEF Record, Rollback, TypeOK
  <2>3. UNCHANGED <<listener, sending, skipped, room>>
    BY <1>1 DEF Record, Rollback
  <2> QED BY <1>b, <1>x, <2>1, <2>2, <2>3
<1>2. ASSUME \/ UNCHANGED vars
             \/ \E e \in Events : Delete(e)
             \/ \E c \in Clients : Load(c) \/ Leave(c) \/ NetworkLoss(c) \/ Revoke(c)
             \/ \E k \in room : Prune(k)
      PROVE  Owed'
  <2>1. UNCHANGED <<listener, sending, skipped, unit>> /\ room' \subseteq room
    BY <1>2 DEF vars, Delete, Load, Leave, NetworkLoss, Revoke, Prune
  <2>2. \A f \in Events : fate[f] = "deleted" => fate'[f] = "deleted"
    BY <1>0, <1>2 DEF vars, Delete, Load, Leave, NetworkLoss, Revoke, Prune, TypeOK
  <2> QED BY <1>b, <1>x, <2>1, <2>2
<1>3. ASSUME NEW c \in Clients, Register(c) PROVE Owed'
  <2>1. SameBus
    BY <1>3 DEF Register
  <2>2. \A q \in room' : \E k \in room : Keeps(q, k) /\ q.due = k.due
    <3> DEFINE f(k) == IF k.socket = Socket(c) THEN [k EXCEPT !.joined = TRUE] ELSE k
    <3>1. room' = {f(k) : k \in room}
      BY <1>3 DEF Register
    <3>2. ASSUME NEW k \in room
          PROVE  Keeps([k EXCEPT !.joined = TRUE], k) /\ [k EXCEPT !.joined = TRUE].due = k.due
      BY <1>c DEF Keeps, Connections
    <3>3. \A k \in room : Keeps(f(k), k) /\ f(k).due = k.due
      BY <3>2 DEF Keeps
    <3> HIDE DEF f
    <3> QED BY <3>1, <3>3
  <2>3. \A q \in room' : q.home \in Replicas /\ q.due \subseteq Events
    BY <1>c, <2>2 DEF Keeps
  <2> QED BY <1>b, <2>1, <2>2, <2>3, StillOwed
<1>4. ASSUME NEW c \in Clients, NEW x \in room, Ping(c, x) PROVE Owed'
  <2>1. SameBus
    BY <1>4 DEF Ping
  <2>2. CASE room' = room \ {x}
    BY <1>b, <1>x, <2>1, <2>2
  <2>3. CASE room' = (room \ {x}) \cup {[x EXCEPT !.role = account[c].role, !.due = {}]}
    <3>1. [x EXCEPT !.role = account[c].role, !.due = {}].due = {}
      BY <1>c DEF Connections
    <3>2. \A q \in room' : q \in room \/ q.due = {}
      BY <2>3, <3>1
    <3> QED BY <1>b, <1>c, <2>1, <3>2, StillOwed DEF Keeps
  <2> QED BY <1>4, <2>2, <2>3 DEF Ping
<1>5. ASSUME NEW r \in Replicas, NEW c \in Clients, Dial(c, r) PROVE Owed'
  <2>1. SameBus
    BY <1>5 DEF Dial
  <2>2. \A q \in room' : q \in room \/ q.due = {}
    BY <1>5 DEF Dial
  <2> QED BY <1>b, <1>c, <2>1, <2>2, StillOwed DEF Keeps
<1>6. ASSUME NEW r \in Replicas, NEW e \in Events, Dispatch(r, e) PROVE Owed'
  <2>1. /\ e \in unit[r].committed /\ sending[r]["request"] = Quiet
        /\ unit' = [unit EXCEPT ![r].committed = unit[r].committed \ {e}]
        /\ Project(r, "request", e)
        /\ UNCHANGED <<fate, listener, room, skipped>>
    BY <1>6 DEF Dispatch
  <2>2. "request" \in Tasks
    BY DEF Tasks
  <2>3. /\ \A h \in Replicas, u \in Tasks : \A s :
              s \in sending[h][u].to => sending'[h][u] = sending[h][u]
        /\ \A k \in room : k.joined /\ k.home = r /\ Pushed(Item[e], SeenBy(k)) =>
              \/ fate[e] = "deleted"
              \/ sending'[r]["request"].event = e /\ k.socket \in sending'[r]["request"].to
    BY <1>0, <2>1, <2>2, ProjectReaches
  <2>4. \A h \in Replicas, f \in Events :
           f \in unit[h].committed => f \in unit'[h].committed \/ (h = r /\ f = e)
    <3>1. unit \in [Replicas -> [pending : SUBSET Events, committed : SUBSET Events]]
      BY <1>0 DEF TypeOK
    <3> QED BY <2>1, <3>1
  <2>5. ASSUME NEW k \in room, NEW f \in k.due, k.joined, Pushed(Item[f], SeenBy(k)),
               Excused(k.home, f, k.socket)
        PROVE  Excused(k.home, f, k.socket)'
    <3>1. k.home \in Replicas /\ f \in Events
      BY <1>c
    <3>2. CASE f \in unit[k.home].committed /\ f \notin unit'[k.home].committed
      BY <2>1, <2>2, <2>3, <2>4, <2>5, <3>1, <3>2 DEF Excused, OnItsWay
    <3>3. CASE ~(f \in unit[k.home].committed /\ f \notin unit'[k.home].committed)
      BY <2>1, <2>3, <2>5, <3>1, <3>3 DEF Excused, OnItsWay
    <3> QED BY <3>2, <3>3
  <2> QED BY <2>1, <2>5, RoomShrinks
<1>7. ASSUME NEW r \in Replicas, Relay(r) PROVE Owed'
  <2> DEFINE m == Head(listener[r].queue)
  <2>1. /\ listener[r] \in ListenerOf(Messages) /\ listener[r].queue # <<>>
        /\ listener' = [listener EXCEPT ![r] = Taken(listener[r])]
        /\ listener'[r] = Taken(listener[r])
        /\ \A h \in Replicas \ {r} : listener'[h] = listener[h]
        /\ sending[r]["consumer"] = Quiet /\ UNCHANGED <<fate, unit, skipped>>
    BY <1>0, <1>7 DEF Relay, TypeOK
  <2>2. m \in Messages /\ InHand(listener[r]) = InHand(listener'[r]) \cup {m}
    BY <2>1, ListenerTypes, Hands
  <2>3. \/ m.origin = r /\ UNCHANGED <<sending, room>>
        \/ m.origin # r /\ IsEvent(m) /\ Project(r, "consumer", m.event) /\ UNCHANGED room
        \/ m.origin # r /\ ~IsEvent(m) /\ Closing(r, m.close) /\ UNCHANGED sending
    BY <1>7 DEF Relay
  <2>4. \A h \in Replicas, f \in Events, o \in Replicas :
           EventMessage(f, o) \in InHand(listener[h]) =>
              EventMessage(f, o) \in InHand(listener'[h]) \/ (h = r /\ EventMessage(f, o) = m)
    BY <2>1, <2>2
  <2> HIDE DEF m
  <2>5. CASE m.origin = r \/ ~IsEvent(m)
    <3>1. UNCHANGED sending /\ room' \subseteq room
      BY <1>0, <2>2, <2>3, <2>5, MessageKinds, ClosingKeeps
    <3>2. \A f \in Events, o \in Replicas \ {r} : EventMessage(f, o) # m
      BY <2>5, MessageKinds
    <3>3. ASSUME NEW h \in Replicas, NEW f \in Events, NEW s, Excused(h, f, s)
          PROVE  Excused(h, f, s)'
      BY <2>1, <2>4, <3>1, <3>2, <3>3 DEF Excused, OnItsWay
    <3> QED BY <1>x, <3>1, <3>3
  <2>6. CASE m.origin # r /\ IsEvent(m)
    <3>1. PICK e \in Events : e = m.event
      BY <2>2, <2>6, MessageKinds
    <3>2. Project(r, "consumer", e) /\ UNCHANGED room
      BY <2>3, <2>6, <3>1
    <3>3. "consumer" \in Tasks
      BY DEF Tasks
    <3>4. /\ \A h \in Replicas, u \in Tasks : \A s :
                s \in sending[h][u].to => sending'[h][u] = sending[h][u]
          /\ \A k \in room : k.joined /\ k.home = r /\ Pushed(Item[e], SeenBy(k)) =>
                \/ fate[e] = "deleted"
                \/ sending'[r]["consumer"].event = e /\ k.socket \in sending'[r]["consumer"].to
      BY <1>0, <2>1, <3>2, <3>3, ProjectReaches
    <3>5. \A f \in Events, o \in Replicas : EventMessage(f, o) = m => f = e
      BY <3>1, MessageKinds
    <3>6. ASSUME NEW k \in room, NEW f \in k.due, k.joined, Pushed(Item[f], SeenBy(k)),
                 Excused(k.home, f, k.socket)
          PROVE  Excused(k.home, f, k.socket)'
      <4>1. k.home \in Replicas /\ f \in Events
        BY <1>c
      <4>2. CASE k.home = r /\ f = e
        BY <2>1, <3>3, <3>4, <3>6, <4>1, <4>2 DEF Excused, OnItsWay
      <4>3. CASE ~(k.home = r /\ f = e)
        BY <2>1, <2>4, <3>4, <3>5, <3>6, <4>1, <4>3 DEF Excused, OnItsWay
      <4> QED BY <4>2, <4>3
    <3> QED BY <3>2, <3>6, RoomShrinks
  <2> QED BY <2>5, <2>6
<1>8. ASSUME NEW r \in Replicas, Abandon(r) PROVE Owed'
  <2>1. /\ skipped' = [skipped EXCEPT ![r] = skipped[r] \cup unit[r].committed]
        /\ \A h \in Replicas \ {r} : unit'[h] = unit[h]
        /\ UNCHANGED <<fate, listener, sending, room>>
    BY <1>0, <1>8 DEF Abandon, TypeOK
  <2>2. \A h \in Replicas : /\ skipped[h] \subseteq skipped'[h]
                            /\ h = r => unit[h].committed \subseteq skipped'[h]
    BY <1>0, <2>1 DEF TypeOK
  <2>3. ASSUME NEW h \in Replicas, NEW f \in Events, NEW s, Excused(h, f, s)
        PROVE  Excused(h, f, s)'
    BY <2>1, <2>2, <2>3 DEF Excused, OnItsWay
  <2> QED BY <1>x, <2>1, <2>3
<1>15. ASSUME NEW r \in Replicas, NEW e \in Events, DispatchFails(r, e) PROVE Owed'
  <2>1. /\ skipped' = [skipped EXCEPT ![r] = skipped[r] \cup {e}]
        /\ unit' = [unit EXCEPT ![r].committed = unit[r].committed \ {e}]
        /\ UNCHANGED <<fate, listener, sending, room>>
    BY <1>15 DEF DispatchFails
  <2>2. \A h \in Replicas : /\ skipped[h] \subseteq skipped'[h]
                            /\ unit[h].committed \subseteq unit'[h].committed \cup skipped'[h]
    BY <1>0, <2>1 DEF TypeOK
  <2>3. ASSUME NEW h \in Replicas, NEW f \in Events, NEW s, Excused(h, f, s)
        PROVE  Excused(h, f, s)'
    BY <2>1, <2>2, <2>3 DEF Excused, OnItsWay
  <2> QED BY <1>x, <2>1, <2>3
<1>16. ASSUME NEW r \in Replicas, RelayFails(r) PROVE Owed'
  <2> DEFINE m == Head(listener[r].queue)
  <2>1. /\ listener[r] \in ListenerOf(Messages) /\ listener[r].queue # <<>>
        /\ listener'[r] = Taken(listener[r])
        /\ \A h \in Replicas \ {r} : listener'[h] = listener[h]
        /\ skipped' = [skipped EXCEPT ![r] = @ \cup {m.event}]
        /\ UNCHANGED <<fate, unit, sending, room>>
    BY <1>0, <1>16 DEF RelayFails, TypeOK
  <2>2. InHand(listener[r]) = InHand(listener'[r]) \cup {m}
    BY <2>1, Hands
  <2> HIDE DEF m
  <2>3. /\ \A h \in Replicas : skipped[h] \subseteq skipped'[h]
        /\ m.event \in skipped'[r]
    BY <1>0, <2>1 DEF TypeOK
  <2>4. \A f \in Events, o \in Replicas : EventMessage(f, o) = m => f = m.event
    BY MessageKinds
  <2>5. ASSUME NEW h \in Replicas, NEW f \in Events, NEW s, Excused(h, f, s)
        PROVE  Excused(h, f, s)'
    BY <2>1, <2>2, <2>3, <2>4, <2>5 DEF Excused, OnItsWay
  <2> QED BY <1>x, <2>1, <2>5
<1>9. ASSUME NEW r \in Replicas, Arrive(r) PROVE Owed'
  <2> DEFINE m == Head(listener[r].wire)
  <2>1. /\ listener[r] \in ListenerOf(Messages) /\ listener[r].wire # <<>>
        /\ listener'[r] = OnNotify(listener[r])
        /\ \A h \in Replicas \ {r} : listener'[h] = listener[h]
        /\ UNCHANGED <<fate, unit, sending, room>>
    BY <1>0, <1>9 DEF Arrive, TypeOK
  <2>2. /\ m \in Messages
        /\ InHand(listener[r]) \subseteq InHand(listener'[r]) \cup {m}
        /\ ~Full(listener[r]) => InHand(listener'[r]) = InHand(listener[r])
    BY <2>1, ListenerTypes, Hands
  <2>3. skipped' = IF Full(listener[r]) /\ IsEvent(m) /\ m.origin # r
                   THEN [skipped EXCEPT ![r] = @ \cup {m.event}] ELSE skipped
    BY <1>9 DEF Arrive
  <2> HIDE DEF m
  <2>4. \A h \in Replicas : skipped[h] \subseteq skipped'[h]
    BY <1>0, <2>3 DEF TypeOK
  <2>5. ASSUME NEW f \in Events, NEW o \in Replicas \ {r},
               EventMessage(f, o) \in InHand(listener[r]),
               EventMessage(f, o) \notin InHand(listener'[r])
        PROVE  f \in skipped'[r]
    <3>1. Full(listener[r]) /\ EventMessage(f, o) = m
      BY <2>2, <2>5
    <3>2. IsEvent(m) /\ m.origin = o /\ m.event = f
      BY <3>1, MessageKinds
    <3> QED BY <1>0, <2>3, <3>1, <3>2 DEF TypeOK
  <2>6. ASSUME NEW h \in Replicas, NEW f \in Events, NEW s, Excused(h, f, s)
        PROVE  Excused(h, f, s)'
    BY <2>1, <2>4, <2>5, <2>6 DEF Excused, OnItsWay
  <2> QED BY <1>x, <2>1, <2>6
<1>10. ASSUME NEW r \in Replicas, Break(r) PROVE Owed'
  <2>1. /\ listener[r] \in ListenerOf(Messages) /\ listener'[r] = Broken(listener[r])
        /\ \A h \in Replicas \ {r} : listener'[h] = listener[h]
        /\ UNCHANGED <<fate, unit, sending, room>>
        /\ skipped' = [skipped EXCEPT ![r] = @ \cup
              {e \in Events : \E i \in DOMAIN listener[r].wire :
                  /\ IsEvent(listener[r].wire[i]) /\ listener[r].wire[i].event = e
                  /\ listener[r].wire[i].origin # r}]
    BY <1>0, <1>10 DEF Break, TypeOK
  <2>2. InHand(listener[r]) = In(listener[r].wire) \cup InHand(listener'[r])
    BY <2>1, Hands
  <2>3. \A h \in Replicas : skipped[h] \subseteq skipped'[h]
    BY <1>0, <2>1 DEF TypeOK
  <2>4. ASSUME NEW f \in Events, NEW o \in Replicas \ {r},
               EventMessage(f, o) \in In(listener[r].wire)
        PROVE  f \in skipped'[r]
    <3>1. PICK i \in DOMAIN listener[r].wire : listener[r].wire[i] = EventMessage(f, o)
      BY <2>4 DEF In
    <3>2. /\ IsEvent(listener[r].wire[i]) /\ listener[r].wire[i].event = f
          /\ listener[r].wire[i].origin # r
      BY <3>1, MessageKinds
    <3>3. skipped'[r] = skipped[r] \cup
              {e \in Events : \E j \in DOMAIN listener[r].wire :
                  /\ IsEvent(listener[r].wire[j]) /\ listener[r].wire[j].event = e
                  /\ listener[r].wire[j].origin # r}
      BY <1>0, <2>1 DEF TypeOK
    <3> QED BY <3>2, <3>3
  <2>5. ASSUME NEW h \in Replicas, NEW f \in Events, NEW s, Excused(h, f, s)
        PROVE  Excused(h, f, s)'
    BY <2>1, <2>2, <2>3, <2>4, <2>5 DEF Excused, OnItsWay
  <2> QED BY <1>x, <2>1, <2>5
<1>11. ASSUME NEW r \in Replicas, Resubscribe(r) PROVE Owed'
  <2>1. /\ listener[r] \in ListenerOf(Messages)
        /\ listener'[r] = Subscribed(Closed(listener[r]))
        /\ \A h \in Replicas \ {r} : listener'[h] = listener[h]
        /\ UNCHANGED <<fate, unit, sending, room, skipped>>
    BY <1>0, <1>11 DEF Resubscribe, TypeOK
  <2>2. InHand(listener'[r]) = InHand(listener[r])
    BY <2>1, ListenerTypes, Hands
  <2>3. ASSUME NEW h \in Replicas, NEW f \in Events, NEW s, Excused(h, f, s)
        PROVE  Excused(h, f, s)'
    BY <2>1, <2>2, <2>3 DEF Excused, OnItsWay
  <2> QED BY <1>x, <2>1, <2>3
<1>12. ASSUME NEW r \in Replicas, NEW c \in Clients, NEW role \in Roles, RoleSync(c, r, role)
       PROVE  Owed'
  <2>1. /\ listener' = [h \in Replicas |-> Notified(listener[h], CloseMessage(c, r))]
        /\ Closing(r, c) /\ UNCHANGED <<fate, unit, sending, skipped>>
    BY <1>12 DEF RoleSync
  <2>2. CloseMessage(c, r) \in Messages
    BY DEF Messages
  <2>3. ASSUME NEW h \in Replicas PROVE InHand(listener[h]) \subseteq InHand(listener'[h])
    <3>1. InHand(listener[h]) \subseteq InHand(Notified(listener[h], CloseMessage(c, r)))
      BY <1>l, <2>2, NotifiedHands
    <3> QED BY <2>1, <3>1
  <2>4. ASSUME NEW h \in Replicas, NEW f \in Events, NEW s, Excused(h, f, s)
        PROVE  Excused(h, f, s)'
    BY <2>1, <2>3, <2>4 DEF Excused, OnItsWay
  <2> QED BY <1>0, <1>x, <2>1, <2>4, ClosingKeeps
<1>13. ASSUME NEW r \in Replicas, Crash(r) PROVE Owed'
  <2>1. /\ fate' = [e \in Events |-> IF e \in unit[r].pending THEN "rolled_back" ELSE fate[e]]
        /\ \A h \in Replicas \ {r} : /\ unit'[h] = unit[h] /\ listener'[h] = listener[h]
                                     /\ sending'[h] = sending[h]
        /\ room' = {k \in room : k.home # r} /\ UNCHANGED skipped
    BY <1>0, <1>13 DEF Crash, TypeOK
  <2>2. \A f \in Events : fate[f] = "deleted" => fate'[f] = "deleted"
    BY <1>p, <2>1
  <2>3. ASSUME NEW h \in Replicas \ {r}, NEW f \in Events, NEW s, Excused(h, f, s)
        PROVE  Excused(h, f, s)'
    BY <2>1, <2>2, <2>3 DEF Excused, OnItsWay
  <2>4. \A k \in room : \A f \in k.due :
           k \in room' /\ Excused(k.home, f, k.socket) => Excused(k.home, f, k.socket)'
    BY <1>c, <2>1, <2>3
  <2> QED BY <2>1, <2>4, RoomShrinks
<1>14. ASSUME NEW r \in Replicas, NEW t \in Tasks, NEW s \in sending[r][t].to, SendFails(r, t, s)
       PROVE  Owed'
  <2>1. /\ SentTo(r, t, s) /\ room' = {k \in room : k.socket # s}
        /\ UNCHANGED <<fate, unit, listener, skipped>>
    BY <1>14 DEF SendFails
  <2>2. /\ sending'[r][t].to = sending[r][t].to \ {s}
        /\ sending'[r][t].to # {} => sending'[r][t].event = sending[r][t].event
        /\ \A h \in Replicas, u \in Tasks : h # r \/ u # t => sending'[h][u] = sending[h][u]
    BY <1>0, <2>1, SentToLeaves
  <2>3. ASSUME NEW h \in Replicas, NEW f \in Events, NEW x, x # s, Excused(h, f, x)
        PROVE  Excused(h, f, x)'
    <3>1. ASSUME NEW u \in Tasks, sending[h][u].event = f, x \in sending[h][u].to
          PROVE  sending'[h][u].event = f /\ x \in sending'[h][u].to
      BY <2>2, <2>3, <3>1
    <3> QED BY <2>1, <2>3, <3>1 DEF Excused, OnItsWay
  <2>4. \A k \in room : \A f \in k.due :
           k \in room' /\ Excused(k.home, f, k.socket) => Excused(k.home, f, k.socket)'
    BY <1>c, <2>1, <2>3
  <2> QED BY <2>1, <2>4, RoomShrinks
<1> QED
  BY <1>1, <1>2, <1>3, <1>4, <1>5, <1>6, <1>7, <1>8, <1>9, <1>10, <1>11, <1>12, <1>13, <1>14,
     <1>15, <1>16, CommitOwes, SendOwes DEF Next

\* An event committed while a socket is registered reaches it, is on its way to
\* it, or was lost by its replica: no subscription, a full queue, a handler
\* that failed, a projection that raised, or the row is gone.
THEOREM FramesAreOwed == Spec => []LiveFrameIsOwed
<1>1. Init => Owed
  BY DEF Init, Owed
<1>2. Told /\ Owed => LiveFrameIsOwed
  BY DEF Owed, Excused, LiveFrameIsOwed
<1>3. Told /\ Owed /\ [Next]_vars => Told' /\ Owed'
  BY ToldStep, OwedStep
<1> QED BY <1>1, <1>2, <1>3, InitTold, PTL DEF Spec

-----------------------------------------------------------------------------
(* What a page shows is real.  Until an authorization changes, every socket  *)
(* carries the role its user has, so whoever a frame is being sent to could  *)
(* fetch the row.                                                            *)

\* Who is at page c, as of the handshake's own rows, and what may be shown there.
Home(c) == [user |-> Viewer[c].user, role |-> Viewer[c].role, group |-> Viewer[c].group]
MayShow(e, c) == \/ Readable(Item[e], Home(c))
                 \/ Item[e].kind = "inject_comment_created" /\ Item[e].groups = {}

RolesAsGranted ==
    /\ \A c \in Clients : account[c].role = Viewer[c].role
    /\ \A k \in room : k.role = Viewer[k.socket[1]].role
FansMayShow ==
    \A r \in Replicas, t \in Tasks : \A s \in sending[r][t].to : MayShow(sending[r][t].event, s[1])
ViewsMayShow == \A c \in Clients : \A e \in view[c] : MayShow(e, c)
AsGranted == changes = 0 => RolesAsGranted /\ FansMayShow /\ ViewsMayShow

\* The lists show what the details would.
LEMMA ListedIsReadable ==
    ASSUME NEW e \in Events, NEW c \in Clients, Listed(Item[e], Home(c))
    PROVE  MayShow(e, c)
<1>1. Viewer[c].role \in Roles /\ Home(c).role = Viewer[c].role
  BY ViewerAssumption DEF Viewers, Home
<1> QED BY <1>1 DEF Listed, Readable, MayShow, Roles, ConsoleKinds

\* The fan-outs push what the details would show, but for the comment of a
\* participant without a team.
LEMMA PushedIsReadable ==
    ASSUME NEW e \in Events, NEW c \in Clients, Pushed(Item[e], Home(c))
    PROVE  MayShow(e, c)
<1> DEFINE v == Home(c)
           item == Item[e]
<1>1. /\ v.user = Viewer[c].user /\ v.role = Viewer[c].role /\ v.group = Viewer[c].group
      /\ v.role \in Roles
  BY ViewerAssumption DEF Viewers, Home
<1>2. /\ item.kind \in Kinds /\ item.groups \subseteq Groups
      /\ item.kind = "inject_comment_created" => item.groups \subseteq {item.team}
  BY ItemAssumption DEF Items
<1>3. item.author = v.user => item.team \in {NoGroup, v.group}
  BY <1>1, AuthorAssumption
<1>4. /\ Pushed(item, v)
      /\ Readable(item, v) => MayShow(e, c)
      /\ item.kind = "inject_comment_created" /\ item.groups = {} => MayShow(e, c)
  BY DEF MayShow
<1> HIDE DEF v, item
<1>5. CASE v.role \in {"facilitator", "observer"}
  BY <1>2, <1>4, <1>5 DEF Pushed, Readable, ConsoleKinds, Kinds
<1>6. CASE v.role = "participant"
  <2>1. CASE item.kind = "inject_comment_created"
    <3>1. item.groups = {} \/ v.group \in item.groups
      BY <1>4, <1>6, <2>1 DEF Pushed, ConsoleKinds, Addressed, Oversees
    <3>2. CASE v.group \in item.groups
      <4>1. v.group # NoGroup /\ item.groups = {v.group}
        BY <1>2, <2>1, <3>2, NoGroupAssumption
      <4> QED BY <1>4, <1>6, <2>1, <4>1 DEF Readable, ConsoleKinds
    <3> QED BY <1>4, <2>1, <3>1, <3>2
  <2>2. CASE item.kind = "outbound"
    BY <1>3, <1>4, <1>6, <2>2 DEF Pushed, Readable, SentBy, ConsoleKinds
  <2>3. CASE item.kind \notin {"inject_comment_created", "outbound"}
    BY <1>2, <1>4, <1>6, <2>3 DEF Pushed, Readable, ConsoleKinds, Kinds, Addressed, Oversees
  <2> QED BY <2>1, <2>2, <2>3
<1> QED BY <1>1, <1>5, <1>6 DEF Roles

\* A connection keeps its role, or takes the one its user has.
LEMMA RolesRead ==
    ASSUME TypeOK, [Next]_vars
    PROVE  \A q \in room' : \/ \E k \in room : q.socket = k.socket /\ q.role = k.role
                            \/ q.role = account[q.socket[1]].role
<1>c. \A k \in room : k \in Connections
  BY DEF TypeOK
<1>1. ASSUME room' \subseteq room
      PROVE  \A q \in room' : \E k \in room : q.socket = k.socket /\ q.role = k.role
  BY <1>1
<1>2. ASSUME NEW r \in Replicas, NEW e \in Events, Commit(r, e)
      PROVE  \A q \in room' : \E k \in room : q.socket = k.socket /\ q.role = k.role
  <2>1. room' = {IF k.joined /\ Open(k) THEN [k EXCEPT !.due = k.due \cup {e}] ELSE k : k \in room}
    BY <1>2 DEF Commit, Promoted
  <2>2. \A k \in room : /\ [k EXCEPT !.due = k.due \cup {e}].socket = k.socket
                        /\ [k EXCEPT !.due = k.due \cup {e}].role = k.role
    BY <1>c DEF Connections
  <2> QED BY <2>1, <2>2
<1>3. ASSUME NEW c \in Clients, Register(c)
      PROVE  \A q \in room' : \E k \in room : q.socket = k.socket /\ q.role = k.role
  <2>1. room' = {IF k.socket = Socket(c) THEN [k EXCEPT !.joined = TRUE] ELSE k : k \in room}
    BY <1>3 DEF Register
  <2>2. \A k \in room : /\ [k EXCEPT !.joined = TRUE].socket = k.socket
                        /\ [k EXCEPT !.joined = TRUE].role = k.role
    BY <1>c DEF Connections
  <2> QED BY <2>1, <2>2
<1>4. ASSUME NEW r \in Replicas, NEW t \in Tasks, NEW c \in Clients, Send(r, t, c)
      PROVE  \A q \in room' : \E k \in room : q.socket = k.socket /\ q.role = k.role
  <2>1. PICK e \in Events, s \in Sockets :
           room' = {IF k.socket = s THEN [k EXCEPT !.got[e] = @ + 1] ELSE k : k \in room}
    <3>1. /\ Socket(c) \in sending[r][t].to
          /\ room' = {IF k.socket = Socket(c) THEN [k EXCEPT !.got[sending[r][t].event] = @ + 1]
                      ELSE k : k \in room}
      BY <1>4 DEF Send
    <3>2. sending[r][t].event \in Events /\ Socket(c) \in Sockets
      BY <3>1 DEF TypeOK, Quiet
    <3> QED BY <3>1, <3>2
  <2>2. ASSUME NEW k \in room
        PROVE  /\ [k EXCEPT !.got[e] = @ + 1].socket = k.socket
               /\ [k EXCEPT !.got[e] = @ + 1].role = k.role
    <3>1. k \in Connections /\ k.got \in [Events -> Nat]
      BY <1>c DEF Connections
    <3>2. PICK q : q = [k EXCEPT !.got[e] = @ + 1]
      OBVIOUS
    <3>3. q.socket = k.socket /\ q.role = k.role
      BY <2>1, <3>1, <3>2 DEF Connections
    <3> QED BY <3>2, <3>3
  <2> QED BY <2>1, <2>2
<1>5. ASSUME NEW c \in Clients, NEW x \in room, Ping(c, x)
      PROVE  \A q \in room' : \/ \E k \in room : q.socket = k.socket /\ q.role = k.role
                              \/ q.role = account[q.socket[1]].role
  <2>1. \/ room' = room \ {x}
        \/ room' = (room \ {x}) \cup {[x EXCEPT !.role = account[c].role, !.due = {}]}
    BY <1>5 DEF Ping
  <2>2. /\ [x EXCEPT !.role = account[c].role, !.due = {}].socket = x.socket
        /\ [x EXCEPT !.role = account[c].role, !.due = {}].role = account[c].role
    BY <1>c DEF Connections
  <2>3. x.socket[1] = c
    BY <1>5 DEF Ping, Socket
  <2> QED BY <1>1, <2>1, <2>2, <2>3
<1>6. ASSUME NEW r \in Replicas, NEW c \in Clients, Dial(c, r)
      PROVE  \A q \in room' : q \in room \/ q.role = account[q.socket[1]].role
  BY <1>6 DEF Dial
<1>7. ASSUME \/ UNCHANGED vars
             \/ \E r \in Replicas : \/ \E e \in Events : \/ Record(r, e) \/ Rollback(r, e)
                                                         \/ Dispatch(r, e) \/ DispatchFails(r, e)
                                    \/ Abandon(r) \/ Arrive(r) \/ RelayFails(r) \/ Break(r)
                                    \/ Resubscribe(r)
             \/ \E e \in Events : Delete(e)
             \/ \E c \in Clients : Load(c) \/ Revoke(c)
      PROVE  room' \subseteq room
  BY <1>7 DEF vars, Record, Rollback, Dispatch, DispatchFails, Abandon, Arrive, RelayFails, Break,
              Resubscribe, Delete, Load, Revoke
<1>8. ASSUME \/ \E r \in Replicas : \/ Relay(r) \/ Crash(r)
                                    \/ \E c \in Clients, role \in Roles : RoleSync(c, r, role)
                                    \/ \E t \in Tasks : \E s \in sending[r][t].to : SendFails(r, t, s)
             \/ \E c \in Clients : Leave(c) \/ NetworkLoss(c)
             \/ \E k \in room : Prune(k)
      PROVE  room' \subseteq room
  BY <1>8 DEF Relay, Crash, RoleSync, SendFails, Leave, NetworkLoss, Prune, Closing
<1> QED BY <1>1, <1>2, <1>3, <1>4, <1>5, <1>6, <1>7, <1>8 DEF Next

\* Who is being sent a frame was picked by a fan-out's filter.
PickedFrom(h, u, s) ==
    \/ sending'[h][u].event = sending[h][u].event /\ s \in sending[h][u].to
    \/ /\ sending'[h][u].event \in Events
       /\ \E k \in room : k.socket = s /\ Pushed(Item[sending'[h][u].event], SeenBy(k))

\* A fan-out picks its sockets by what the event is and who they are.
LEMMA ProjectPicks ==
    ASSUME TypeOK, NEW r \in Replicas, NEW t \in Tasks, NEW e \in Events, Project(r, t, e)
    PROVE  \A h \in Replicas, u \in Tasks : \A s \in sending'[h][u].to : PickedFrom(h, u, s)
<1> DEFINE to == IF fate[e] = "deleted" THEN {}
                 ELSE {k.socket : k \in {j \in On(r) : Pushed(Item[e], SeenBy(j))}}
           fan == [event |-> e, to |-> to]
<1>1. sending' = IF to = {} THEN sending ELSE [sending EXCEPT ![r][t] = fan]
  BY DEF Project
<1>2. \A s \in to : \E k \in room : k.socket = s /\ Pushed(Item[e], SeenBy(k))
  BY DEF On
<1>3. fan.event = e /\ fan.to = to
  OBVIOUS
<1> HIDE DEF fan, to
<1>4. \A h \in Replicas, u \in Tasks :
         sending'[h][u] = IF h = r /\ u = t /\ to # {} THEN fan ELSE sending[h][u]
  BY <1>1 DEF TypeOK
<1> QED BY <1>2, <1>3, <1>4 DEF PickedFrom

\* No other step adds a socket to a fan-out.
LEMMA FansPicked ==
    ASSUME TypeOK, [Next]_vars
    PROVE  \A h \in Replicas, u \in Tasks : \A s \in sending'[h][u].to : PickedFrom(h, u, s)
<1> DEFINE Picked == \A h \in Replicas, u \in Tasks : \A s \in sending'[h][u].to : PickedFrom(h, u, s)
<1>s. ASSUME sending' = sending PROVE Picked
  BY <1>s DEF PickedFrom
<1>1. ASSUME NEW r \in Replicas, NEW e \in Events, Dispatch(r, e) PROVE Picked
  BY <1>1, ProjectPicks DEF Dispatch, Tasks
<1>2. ASSUME NEW r \in Replicas, Relay(r) PROVE Picked
  <2> DEFINE m == Head(listener[r].queue)
  <2>1. m \in Messages
    BY <1>2, ListenerTypes DEF Relay, TypeOK
  <2>2. sending' = sending \/ (IsEvent(m) /\ Project(r, "consumer", m.event))
    BY <1>2 DEF Relay
  <2> HIDE DEF m
  <2> QED BY <1>s, <2>1, <2>2, MessageKinds, ProjectPicks DEF Tasks
<1>3. ASSUME NEW r \in Replicas, NEW t \in Tasks, NEW s \in sending[r][t].to, SentTo(r, t, s)
      PROVE  Picked
  BY <1>3, SentToLeaves DEF PickedFrom
<1>4. ASSUME NEW r \in Replicas, Crash(r) PROVE Picked
  <2>1. \A h \in Replicas, u \in Tasks : sending'[h][u] = IF h = r THEN Quiet ELSE sending[h][u]
    BY <1>4 DEF Crash, TypeOK
  <2> QED BY <2>1 DEF PickedFrom, Quiet
<1>5. ASSUME \/ UNCHANGED vars
             \/ \E r \in Replicas : \/ \E e \in Events : \/ Record(r, e) \/ Commit(r, e)
                                                         \/ Rollback(r, e) \/ DispatchFails(r, e)
                                    \/ Abandon(r) \/ Arrive(r) \/ RelayFails(r) \/ Break(r)
                                    \/ Resubscribe(r)
                                    \/ \E c \in Clients : \/ Dial(c, r)
                                                          \/ \E role \in Roles : RoleSync(c, r, role)
             \/ \E e \in Events : Delete(e)
      PROVE  sending' = sending
  <2>1. \A r \in Replicas, e \in Events :
           Record(r, e) \/ Commit(r, e) \/ Rollback(r, e) \/ DispatchFails(r, e)
           => sending' = sending
    BY DEF Record, Commit, Promoted, Rollback, DispatchFails
  <2>2. \A r \in Replicas :
           Abandon(r) \/ Arrive(r) \/ RelayFails(r) \/ Break(r) \/ Resubscribe(r)
           => sending' = sending
    BY DEF Abandon, Arrive, RelayFails, Break, Resubscribe
  <2>3. \A r \in Replicas, c \in Clients :
           Dial(c, r) \/ (\E role \in Roles : RoleSync(c, r, role)) => sending' = sending
    BY DEF Dial, RoleSync
  <2>4. UNCHANGED vars \/ (\E e \in Events : Delete(e)) => sending' = sending
    BY DEF vars, Delete
  <2> QED BY <1>5, <2>1, <2>2, <2>3, <2>4
<1>6. ASSUME \/ \E c \in Clients : \/ Load(c) \/ Register(c) \/ Leave(c) \/ NetworkLoss(c) \/ Revoke(c)
                                   \/ \E k \in room : Ping(c, k)
             \/ \E k \in room : Prune(k)
      PROVE  sending' = sending
  BY <1>6 DEF Load, Register, Leave, NetworkLoss, Revoke, Ping, Prune
<1>7. ASSUME NEW r \in Replicas, NEW t \in Tasks, NEW c \in Clients, Send(r, t, c) PROVE Picked
  BY <1>3, <1>7 DEF Send
<1>8. ASSUME NEW r \in Replicas, NEW t \in Tasks, NEW s \in sending[r][t].to, SendFails(r, t, s)
      PROVE  Picked
  BY <1>3, <1>8 DEF SendFails
<1> HIDE DEF Picked
<1>9. Picked
  BY <1>s, <1>1, <1>2, <1>4, <1>5, <1>6, <1>7, <1>8 DEF Next
<1> QED BY <1>9 DEF Picked

\* What a page shows it had, it fetched, or it was sent.
LEMMA ViewsShown ==
    ASSUME TypeOK, [Next]_vars
    PROVE  \A c \in Clients : \A e \in view'[c] :
              \/ e \in view[c]
              \/ e \in Events /\ Listed(Item[e], Now(c))
              \/ \E r \in Replicas, t \in Tasks : e = sending[r][t].event /\ Socket(c) \in sending[r][t].to
<1>1. ASSUME NEW d \in Clients, Load(d)
      PROVE  \A c \in Clients : \A e \in view'[c] :
                e \in view[c] \/ (e \in Events /\ Listed(Item[e], Now(c)))
  <2>1. view' = [view EXCEPT ![d] = {e \in Events : fate[e] = "committed" /\ Listed(Item[e], Now(d))}]
    BY <1>1 DEF Load
  <2> QED BY <2>1 DEF TypeOK
<1>2. ASSUME NEW r \in Replicas, NEW t \in Tasks, NEW d \in Clients, Send(r, t, d)
      PROVE  \A c \in Clients : \A e \in view'[c] :
                e \in view[c] \/ (c = d /\ e = sending[r][t].event /\ Socket(c) \in sending[r][t].to)
  BY <1>2 DEF Send, TypeOK
<1>3. ASSUME NEW d \in Clients, Leave(d) PROVE \A c \in Clients : view'[c] \subseteq view[c]
  BY <1>3 DEF Leave, TypeOK
<1>4. ASSUME \/ UNCHANGED vars
             \/ \E r \in Replicas : \/ \E e \in Events : \/ Record(r, e) \/ Commit(r, e) \/ Rollback(r, e)
                                                         \/ Dispatch(r, e) \/ DispatchFails(r, e)
                                    \/ Abandon(r) \/ Arrive(r) \/ Relay(r) \/ RelayFails(r) \/ Break(r)
                                    \/ Resubscribe(r) \/ Crash(r)
             \/ \E e \in Events : Delete(e)
      PROVE  view' = view
  BY <1>4 DEF vars, Record, Commit, Promoted, Rollback, Dispatch, DispatchFails, Abandon, Arrive, Relay,
              RelayFails, Break, Resubscribe, Crash, Delete
<1>5. ASSUME \/ \E r \in Replicas : \/ \E c \in Clients : \/ Dial(c, r)
                                                          \/ \E role \in Roles : RoleSync(c, r, role)
                                    \/ \E t \in Tasks : \E s \in sending[r][t].to : SendFails(r, t, s)
             \/ \E c \in Clients : \/ Register(c) \/ NetworkLoss(c) \/ Revoke(c)
                                   \/ \E k \in room : Ping(c, k)
             \/ \E k \in room : Prune(k)
      PROVE  view' = view
  BY <1>5 DEF Dial, RoleSync, SendFails, Register, NetworkLoss, Revoke, Ping, Prune
<1> QED BY <1>1, <1>2, <1>3, <1>4, <1>5 DEF Next

\* A change of authorization is counted.
LEMMA ChangesCount ==
    ASSUME TypeOK, [Next]_vars, changes' = 0
    PROVE  changes = 0 /\ account' = account
<1>1. \A n \in Nat : n + 1 # 0
  OBVIOUS
<1>2. \A r \in Replicas, c \in Clients, role \in Roles : ~RoleSync(c, r, role) /\ ~Revoke(c)
  BY <1>1 DEF TypeOK, RoleSync, Revoke
<1>3. ASSUME \/ UNCHANGED vars
             \/ \E r \in Replicas : \/ \E e \in Events : \/ Record(r, e) \/ Commit(r, e) \/ Rollback(r, e)
                                                         \/ Dispatch(r, e) \/ DispatchFails(r, e)
                                    \/ Abandon(r) \/ Arrive(r) \/ Relay(r) \/ RelayFails(r) \/ Break(r)
                                    \/ Resubscribe(r) \/ Crash(r)
             \/ \E e \in Events : Delete(e)
      PROVE  changes' = changes /\ account' = account
  <2>1. \A r \in Replicas, e \in Events :
           \/ Record(r, e) \/ Commit(r, e) \/ Rollback(r, e)
           \/ Dispatch(r, e) \/ DispatchFails(r, e)
           => changes' = changes /\ account' = account
    BY DEF Record, Commit, Promoted, Rollback, Dispatch, DispatchFails
  <2>2. \A r \in Replicas :
           \/ Abandon(r) \/ Arrive(r) \/ Relay(r) \/ RelayFails(r) \/ Break(r)
           \/ Resubscribe(r) \/ Crash(r)
           => changes' = changes /\ account' = account
    BY DEF Abandon, Arrive, Relay, RelayFails, Break, Resubscribe, Crash
  <2>3. UNCHANGED vars \/ (\E e \in Events : Delete(e)) => changes' = changes /\ account' = account
    BY DEF vars, Delete
  <2> QED BY <1>3, <2>1, <2>2, <2>3
<1>4. ASSUME \/ \E r \in Replicas : \/ \E c \in Clients : Dial(c, r)
                                    \/ \E t \in Tasks : \/ \E c \in Clients : Send(r, t, c)
                                                        \/ \E s \in sending[r][t].to : SendFails(r, t, s)
             \/ \E c \in Clients : \/ Load(c) \/ Register(c) \/ Leave(c) \/ NetworkLoss(c)
                                   \/ \E k \in room : Ping(c, k)
             \/ \E k \in room : Prune(k)
      PROVE  changes' = changes /\ account' = account
  BY <1>4 DEF Dial, Send, SendFails, Load, Register, Leave, NetworkLoss, Ping, Prune
<1>5. ASSUME NEW c \in Clients, Revoke(c) PROVE FALSE
  BY <1>1, <1>5 DEF TypeOK, Revoke
<1> QED BY <1>2, <1>3, <1>4, <1>5 DEF Next

\* While no authorization changes, every step shows only what is granted.
LEMMA GrantedStep ==
    ASSUME TypeOK, AsGranted, [Next]_vars
    PROVE  AsGranted'
<1> SUFFICES ASSUME changes' = 0 PROVE (RolesAsGranted /\ FansMayShow /\ ViewsMayShow)'
  BY DEF AsGranted
<1>1. changes = 0 /\ account' = account
  BY ChangesCount
<1>2. RolesAsGranted /\ FansMayShow /\ ViewsMayShow
  BY <1>1 DEF AsGranted
<1>3. \A k \in room : k.socket[1] \in Clients
  BY DEF TypeOK, Connections, Sockets
<1>4. \A q \in room' : q.socket[1] \in Clients /\ q.role = Viewer[q.socket[1]].role
  <2>1. \A q \in room' : \/ \E k \in room : q.socket = k.socket /\ q.role = k.role
                         \/ q.role = account[q.socket[1]].role
    BY RolesRead
  <2>2. TypeOK'
    BY Typed
  <2>3. \A q \in room' : q.socket[1] \in Clients
    BY <2>2 DEF TypeOK, Connections, Sockets
  <2> QED BY <1>2, <2>1, <2>3 DEF RolesAsGranted
<1>5. RolesAsGranted'
  BY <1>1, <1>2, <1>4 DEF RolesAsGranted
<1>6. \A k \in room : SeenBy(k) = Home(k.socket[1])
  BY <1>2 DEF RolesAsGranted, SeenBy, Home
<1>7. \A c \in Clients : Now(c) = Home(c)
  BY <1>2 DEF RolesAsGranted, Now, Home
<1>8. \A r \in Replicas, t \in Tasks : \A s \in sending'[r][t].to : MayShow(sending'[r][t].event, s[1])
  <2> SUFFICES ASSUME NEW r \in Replicas, NEW t \in Tasks, NEW s \in sending'[r][t].to
               PROVE  MayShow(sending'[r][t].event, s[1])
    OBVIOUS
  <2>1. PickedFrom(r, t, s)
    BY FansPicked
  <2>2. PICK f : f = sending'[r][t].event
    OBVIOUS
  <2>3. CASE f = sending[r][t].event /\ s \in sending[r][t].to
    BY <1>2, <2>2, <2>3 DEF FansMayShow
  <2>4. ASSUME f \in Events, NEW k \in room, k.socket = s, Pushed(Item[f], SeenBy(k))
        PROVE  MayShow(f, s[1])
    <3>1. Pushed(Item[f], Home(s[1])) /\ s[1] \in Clients
      BY <1>3, <1>6, <2>4
    <3> QED BY <2>4, <3>1, PushedIsReadable
  <2> QED BY <2>1, <2>2, <2>3, <2>4 DEF PickedFrom
<1>9. \A c \in Clients : \A e \in view'[c] : MayShow(e, c)
  <2> SUFFICES ASSUME NEW c \in Clients, NEW e \in view'[c] PROVE MayShow(e, c)
    OBVIOUS
  <2>1. \/ e \in view[c]
        \/ e \in Events /\ Listed(Item[e], Now(c))
        \/ \E r \in Replicas, t \in Tasks : e = sending[r][t].event /\ Socket(c) \in sending[r][t].to
    BY ViewsShown
  <2>2. CASE e \in view[c]
    BY <1>2, <2>2 DEF ViewsMayShow
  <2>3. CASE e \in Events /\ Listed(Item[e], Now(c))
    BY <1>7, <2>3, ListedIsReadable
  <2>4. ASSUME NEW r \in Replicas, NEW t \in Tasks, e = sending[r][t].event,
               Socket(c) \in sending[r][t].to
        PROVE  MayShow(e, c)
    BY <1>2, <2>4 DEF FansMayShow, Socket
  <2> QED BY <2>1, <2>2, <2>3, <2>4
<1> QED BY <1>5, <1>8, <1>9 DEF FansMayShow, ViewsMayShow, MayShow, Home

\* No page shows what was rolled back; and until somebody's authorization
\* changes, a page shows only what its user could fetch: the push fan-outs agree
\* with the pull filters.
THEOREM WhatIsShownIsReal == Spec => []ShownIsReal
<1>1. Init => AsGranted
  BY DEF Init, AsGranted, RolesAsGranted, FansMayShow, ViewsMayShow, Quiet
<1>2. Told /\ AsGranted => ShownIsReal
  <2> SUFFICES ASSUME Told, AsGranted, NEW c \in Clients, NEW e \in view[c]
               PROVE  /\ e \in Durable
                      /\ changes = 0 => \/ Readable(Item[e], Now(c))
                                        \/ Item[e].kind = "inject_comment_created" /\ Item[e].groups = {}
    BY DEF ShownIsReal
  <2>1. e \in Durable
    BY DEF Told, Fans, SentIsDurable
  <2>2. ASSUME changes = 0 PROVE MayShow(e, c) /\ Now(c) = Home(c)
    BY <2>2 DEF AsGranted, RolesAsGranted, ViewsMayShow, Now, Home
  <2> QED BY <2>1, <2>2 DEF MayShow
<1>3. Told /\ AsGranted /\ [Next]_vars => Told' /\ AsGranted'
  BY ToldStep, GrantedStep DEF Told
<1> QED BY <1>1, <1>2, <1>3, InitTold, PTL DEF Spec
=============================================================================

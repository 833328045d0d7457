------------------------- MODULE EventStreamProofs -------------------------
(* Theorems about EventStream, for any number of notifications, batches,     *)
(* connections and events and any buffer.                                    *)
EXTENDS EventStream, SequenceTheorems, TLAPS

LEMMA TypeInit == Init => TypeOK
BY StreamAssumption DEF Init, TypeOK, Event, Stages

\* The bridge: each of its steps keeps the types.
LEMMA BridgeType == ASSUME TypeOK, Bridge PROVE TypeOK'
<1>. USE DEF TypeOK, streamVars
<1>1. CASE Match
    <2>1. Head(wire) \in Event /\ Tail(wire) \in Seq(Event)
        BY <1>1 DEF Match
    <2>2. owed' \in [Clients -> Seq(Event)]
        BY <1>1, <2>1 DEF Match
    <2>. QED BY <1>1, <2>1, <2>2 DEF Match
<1>2. ASSUME NEW c \in Clients, Offer(c) PROVE TypeOK'
    <2>1. bridge = "offer" /\ event \in Event BY <1>2 DEF Offer
    <2>2. Append(buffer[c], event) \in Seq(Event) BY <2>1
    <2>3. buffer' \in [Clients -> Seq(Event)] BY <1>2, <2>2 DEF Offer
    <2>. QED BY <1>2, <2>1, <2>3 DEF Offer
<1>3. CASE Release BY <1>3 DEF Release
<1>. QED BY <1>1, <1>2, <1>3 DEF Bridge

\* A handler: each of its steps keeps the types.
LEMMA StreamType == ASSUME TypeOK, NEW c \in Clients, Stream(c) PROVE TypeOK'
<1>. USE DEF TypeOK, Stages, hubVars
<1>1. CASE Subscribe(c) BY <1>1 DEF Subscribe
<1>2. CASE Receive(c)
    <2>1. Head(buffer[c]) \in Event /\ Tail(buffer[c]) \in Seq(Event)
        BY <1>2 DEF Receive
    <2>2. <<Head(buffer[c])>> \in Seq(Event) BY <2>1
    <2>3. buffer' \in [Clients -> Seq(Event)] BY <1>2, <2>1 DEF Receive
    <2>4. writing' \in [Clients -> Seq(Event)] BY <1>2, <2>2 DEF Receive
    <2>5. handler' \in [Clients -> Stages] BY <1>2 DEF Receive
    <2>. QED BY <1>2, <2>3, <2>4, <2>5 DEF Receive
<1>3. CASE Disconnected(c) BY <1>3 DEF Disconnected
<1>4. CASE Write(c)
    <2>1. got[c] \o writing[c] \in Seq(Event) /\ <<>> \in Seq(Event) OBVIOUS
    <2>2. got' \in [Clients -> Seq(Event)] BY <1>4, <2>1 DEF Write
    <2>3. writing' \in [Clients -> Seq(Event)] BY <1>4, <2>1 DEF Write
    <2>4. handler' \in [Clients -> Stages] BY <1>4 DEF Write
    <2>. QED BY <1>4, <2>2, <2>3, <2>4 DEF Write
<1>5. CASE Unsubscribe(c) BY <1>5 DEF Unsubscribe
<1>. QED BY <1>1, <1>2, <1>3, <1>4, <1>5 DEF Stream

LEMMA TypeStep == TypeOK /\ [Next]_vars => TypeOK'
<1>. SUFFICES ASSUME TypeOK, [Next]_vars PROVE TypeOK'
    OBVIOUS
<1>1. ASSUME NEW n \in Notif, Publish(n) PROVE TypeOK'
    <2>1. [no |-> published + 1, id |-> n] \in Event
        BY <1>1, StreamAssumption DEF Publish, TypeOK, Event
    <2>2. wire' \in Seq(Event)
        <3>1. Append(wire, [no |-> published + 1, id |-> n]) \in Seq(Event)
            BY <2>1 DEF TypeOK
        <3>. QED BY <1>1, <3>1 DEF Publish, TypeOK
    <2>3. published' \in 0..MaxEvents
        BY <1>1, StreamAssumption DEF Publish, TypeOK
    <2>. QED BY <1>1, <2>2, <2>3 DEF Publish, TypeOK, hubVars, streamVars
<1>2. ASSUME NEW c \in Clients, Reader(c) PROVE TypeOK'
    BY <1>2 DEF Reader, TypeOK, hubVars
<1>3. ASSUME NEW c \in Clients, Client(c) PROVE TypeOK'
    BY <1>3 DEF Client, TypeOK, hubVars, streamVars
<1>4. CASE UNCHANGED vars BY <1>4 DEF vars, hubVars, streamVars, TypeOK
<1>. QED BY <1>1, <1>2, <1>3, <1>4, BridgeType, StreamType DEF Next

\* The types of the event stream, for every instance.
THEOREM StreamTypeCorrect == Spec => []TypeOK
<1>. QED BY TypeInit, TypeStep, PTL DEF Spec

-----------------------------------------------------------------------------
\* Every channel in the hub is open, and so is every channel Hub.Publish still
\* has to reach.
OpenInv == TypeOK /\ NoSendOnClosed /\ \A c \in subs : Subscribed(c)

LEMMA OpenStep == OpenInv /\ [Next]_vars => OpenInv'
<1>. SUFFICES ASSUME OpenInv, [Next]_vars
              PROVE  \A c \in todo' \cup subs' : Subscribed(c)'
    BY TypeStep DEF OpenInv, NoSendOnClosed
<1>. USE DEF OpenInv, NoSendOnClosed, Subscribed
<1>. TypeOK BY DEF OpenInv
<1>1. CASE Match BY <1>1 DEF Match, streamVars
<1>2. ASSUME NEW c \in Clients, Offer(c) PROVE \A d \in todo' \cup subs' : Subscribed(d)'
    BY <1>2 DEF Offer
<1>3. CASE Release BY <1>3 DEF Release, streamVars
<1>4. ASSUME NEW c \in Clients, Subscribe(c) PROVE \A d \in todo' \cup subs' : Subscribed(d)'
    BY <1>4 DEF Subscribe, hubVars, TypeOK
<1>5. ASSUME NEW c \in Clients, Receive(c) PROVE \A d \in todo' \cup subs' : Subscribed(d)'
    BY <1>5 DEF Receive, hubVars, TypeOK
<1>6. ASSUME NEW c \in Clients, Disconnected(c) PROVE \A d \in todo' \cup subs' : Subscribed(d)'
    BY <1>6 DEF Disconnected, hubVars, TypeOK
<1>7. ASSUME NEW c \in Clients, Write(c) PROVE \A d \in todo' \cup subs' : Subscribed(d)'
    BY <1>7 DEF Write, hubVars, TypeOK
<1>8. ASSUME NEW c \in Clients, Unsubscribe(c) PROVE \A d \in todo' \cup subs' : Subscribed(d)'
    \* the lock: no publication is under way, so todo is empty
    <2>1. bridge = "receive" /\ todo = {} BY <1>8 DEF Unsubscribe, TypeOK
    <2>. QED BY <1>8, <2>1 DEF Unsubscribe, hubVars, TypeOK
<1>9. ASSUME NEW n \in Notif, Publish(n) PROVE \A d \in todo' \cup subs' : Subscribed(d)'
    BY <1>9 DEF Publish, hubVars, streamVars
<1>10. ASSUME NEW c \in Clients, Reader(c) \/ Client(c)
       PROVE \A d \in todo' \cup subs' : Subscribed(d)'
    BY <1>10 DEF Reader, Client, hubVars, streamVars
<1>11. CASE UNCHANGED vars BY <1>11 DEF vars, hubVars, streamVars
<1>. QED BY <1>1, <1>2, <1>3, <1>4, <1>5, <1>6, <1>7, <1>8, <1>9, <1>10, <1>11
         DEF Next, Bridge, Stream

\* Hub.Publish never sends on a channel that Hub.Unsubscribe has closed, for any
\* number of connections that come and go.
THEOREM NoSendOnClosedCorrect == Spec => []NoSendOnClosed
<1>1. Init => OpenInv BY TypeInit DEF Init, OpenInv, NoSendOnClosed
<1>2. OpenInv => NoSendOnClosed BY DEF OpenInv
<1>. QED BY <1>1, <1>2, OpenStep, PTL DEF Spec

-----------------------------------------------------------------------------
(* StreamInOrder *)

Ordered(s) == \A i, j \in 1..Len(s) : i < j => s[i].no < s[j].no

Below(s, t) == \A i \in 1..Len(s), j \in 1..Len(t) : s[i].no < t[j].no

\* Events go over the wire in the order of publication, and all that the hub has
\* seen came before those that are still under way.
WireInv == /\ Ordered(wire)
           /\ \A i \in 1..Len(wire) : wire[i].no <= published
           /\ \A c \in Clients :
                  /\ Ordered(owed[c])
                  /\ Below(owed[c], wire)
                  /\ \A i \in 1..Len(owed[c]) : owed[c][i].no <= published

\* What a handler has at each stage; the hub knows the handlers that listen.
StageInv == \A c \in Clients :
    /\ Subscribed(c) => c \in subs
    /\ handler[c] # "write" => writing[c] = <<>>
    /\ handler[c] = "subscribe" =>
           buffer[c] = <<>> /\ got[c] = <<>> /\ owed[c] = <<>>

\* The event in Hub.Publish is the last one owed to those it has yet to reach.
TodoInv == \A c \in todo : owed[c] # <<>> /\ Last(owed[c]) = event

\* The channel of a client the hub has yet to reach has room, unless it was full
\* when the publication began: only its handler touches it meanwhile.
RoomInv == \A c \in todo : event \notin crowded[c] => Len(buffer[c]) < Capacity

\* A client that is sent the events of `due' has come to those of `arrived', which
\* lack none but some of `full'.
Follows(arrived, due, full) ==
    /\ Ordered(arrived)
    /\ \A i \in 1..Len(arrived) : \E j \in 1..Len(due) : arrived[i] = due[j]
    /\ \A j \in 1..Len(due) :
           due[j] \notin full => \E i \in 1..Len(arrived) : arrived[i] = due[j]

LEMMA NumberType == \A s \in Seq(Event) : \A i \in 1..Len(s) : s[i] \in Event /\ s[i].no \in Int
<1>1. \A e \in Event : e.no \in Int BY StreamAssumption DEF Event
<1>2. \A s \in Seq(Event) : \A i \in 1..Len(s) : s[i] \in Event OBVIOUS
<1>. QED BY <1>1, <1>2

LEMMA OrderedAppend ==
    ASSUME NEW s \in Seq(Event), NEW e \in Event, Ordered(s),
           \A i \in 1..Len(s) : s[i].no < e.no
    PROVE  Ordered(Append(s, e))
<1>. DEFINE a == Append(s, e)
<1>1. /\ Len(s) \in Nat /\ Len(a) = Len(s) + 1 /\ a[Len(s) + 1] = e
      /\ \A i \in 1..Len(s) : a[i] = s[i]
    BY AppendProperties
<1>. HIDE DEF a
<1>2. ASSUME NEW i \in 1..Len(a), NEW j \in 1..Len(a), i < j
      PROVE  a[i].no < a[j].no
    <2>1. i \in 1..Len(s) /\ a[i] = s[i] BY <1>1, <1>2
    <2>2. CASE j = Len(s) + 1 BY <1>1, <2>1, <2>2
    <2>3. CASE j \in 1..Len(s)
        <3>1. a[j] = s[j] /\ s[i].no < s[j].no BY <1>1, <1>2, <2>1, <2>3 DEF Ordered
        <3>. QED BY <2>1, <3>1
    <2>. QED BY <1>1, <2>2, <2>3
<1>3. Ordered(a) BY <1>2 DEF Ordered
<1>. QED BY <1>3 DEF a

LEMMA OrderedTail ==
    ASSUME NEW s \in Seq(Event), s # <<>>, Ordered(s)
    PROVE  /\ Head(s) \in Event /\ Tail(s) \in Seq(Event)
           /\ Ordered(Tail(s))
           /\ \A i \in 1..Len(Tail(s)) : Head(s).no < Tail(s)[i].no /\ Tail(s)[i] = s[i + 1]
<1>1. /\ Head(s) = s[1] /\ 1 \in 1..Len(s) /\ Tail(s) \in Seq(Event)
      /\ Len(Tail(s)) = Len(s) - 1
    OBVIOUS
<1>2. \A i \in 1..Len(Tail(s)) : Tail(s)[i] = s[i + 1] /\ i + 1 \in 1..Len(s)
    BY <1>1
<1>3. Ordered(Tail(s)) BY <1>1, <1>2 DEF Ordered
<1>4. \A i \in 1..Len(Tail(s)) : s[1].no < Tail(s)[i].no
    BY <1>1, <1>2 DEF Ordered
<1>. QED BY <1>1, <1>2, <1>3, <1>4, NumberType

LEMMA WireInit == Init => WireInv
BY DEF Init, WireInv, Ordered, Below

LEMMA WireStep == TypeOK /\ WireInv /\ [Next]_vars => WireInv'
<1>. SUFFICES ASSUME TypeOK, WireInv, [Next]_vars PROVE WireInv'
    OBVIOUS
<1>. USE DEF WireInv
<1>. published \in Int /\ wire \in Seq(Event) BY StreamAssumption DEF TypeOK
<1>1. ASSUME NEW n \in Notif, Publish(n), UNCHANGED wire PROVE WireInv'
    <2>1. \A i \in 1..Len(wire) : wire[i].no <= published + 1
        BY NumberType
    <2>2. \A c \in Clients : \A i \in 1..Len(owed[c]) : owed[c][i].no <= published + 1
        BY NumberType DEF TypeOK
    <2>. QED BY <1>1, <2>1, <2>2 DEF Publish
<1>2. ASSUME NEW n \in Notif, Publish(n), wire' # wire PROVE WireInv'
    <2>. DEFINE e == [no |-> published + 1, id |-> n]
    <2>1. e \in Event /\ wire' = Append(wire, e)
        BY <1>2, StreamAssumption DEF Publish, TypeOK, Event
    <2>0. /\ published' = published + 1
          /\ Len(wire) \in Nat /\ Len(wire') = Len(wire) + 1
          /\ wire'[Len(wire) + 1].no = published + 1
          /\ \A i \in 1..Len(wire) : wire'[i] = wire[i]
        <3>1. published' = published + 1 BY <1>2 DEF Publish
        <3>. HIDE DEF e
        <3>2. /\ Len(wire) \in Nat /\ Len(wire') = Len(wire) + 1
              /\ wire'[Len(wire) + 1] = e
              /\ \A i \in 1..Len(wire) : wire'[i] = wire[i]
            BY <2>1, AppendProperties
        <3>3. e.no = published + 1 BY DEF e
        <3>. QED BY <3>1, <3>2, <3>3
    <2>2. Ordered(wire')
        <3>1. ASSUME NEW i \in 1..Len(wire) PROVE wire[i].no < e.no
            BY NumberType
        <3>. HIDE DEF e
        <3>. QED BY <2>1, <3>1, OrderedAppend
    <2>3. ASSUME NEW c \in Clients
          PROVE  /\ Below(owed[c], wire')
                 /\ \A i \in 1..Len(owed[c]) : owed[c][i].no <= published'
        <3>1. owed[c] \in Seq(Event) BY DEF TypeOK
        <3>2. ASSUME NEW i \in 1..Len(owed[c])
              PROVE  owed[c][i].no \in Int /\ owed[c][i].no <= published
            BY <3>1, NumberType
        <3>3. ASSUME NEW i \in 1..Len(owed[c]), NEW j \in 1..Len(wire')
              PROVE  owed[c][i].no < wire'[j].no
            <4>1. CASE j \in 1..Len(wire)
                BY <2>0, <4>1 DEF Below
            <4>2. CASE j = Len(wire) + 1
                BY <2>0, <3>2, <4>2
            <4>. QED BY <2>0, <4>1, <4>2
        <3>4. \A i \in 1..Len(owed[c]) : owed[c][i].no <= published + 1 BY <3>2
        <3>. QED BY <2>0, <3>3, <3>4 DEF Below
    <2>4. ASSUME NEW i \in 1..Len(wire') PROVE wire'[i].no <= published'
        <3>1. CASE i \in 1..Len(wire)
            <4>1. wire[i].no \in Int /\ wire[i].no <= published BY <3>1, NumberType
            <4>. QED BY <2>0, <3>1, <4>1
        <3>2. CASE i = Len(wire) + 1 BY <2>0, <3>2
        <3>. QED BY <2>0, <3>1, <3>2
    <2>5. UNCHANGED owed BY <1>2 DEF Publish
    <2>. QED BY <2>2, <2>3, <2>4, <2>5
<1>3. CASE Match
    <2>. DEFINE e == Head(wire)
    <2>1. /\ e \in Event /\ e = wire[1] /\ wire' \in Seq(Event) /\ Ordered(wire')
          /\ \A i \in 1..Len(wire') : e.no < wire'[i].no /\ wire'[i] = wire[i + 1]
                                     /\ i + 1 \in 1..Len(wire)
        BY <1>3, OrderedTail DEF Match
    <2>2. ASSUME NEW c \in Clients
          PROVE  /\ Ordered(owed'[c]) /\ Below(owed'[c], wire')
                 /\ \A i \in 1..Len(owed'[c]) : owed'[c][i].no <= published
        <3>1. owed[c] \in Seq(Event) BY DEF TypeOK
        <3>2. \A i \in 1..Len(owed[c]) : owed[c][i].no < e.no
            <4>1. wire # <<>> BY <1>3 DEF Match
            <4>2. 1 \in 1..Len(wire) BY <4>1
            <4>. QED BY <2>1, <4>2 DEF Below
        <3>3. Below(owed[c], wire')
            BY <2>1, <3>1 DEF Below
        <3>4. CASE owed'[c] = owed[c] BY <3>3, <3>4
        <3>5. CASE owed'[c] = Append(owed[c], e)
            <4>1. Ordered(owed'[c]) BY <2>1, <3>1, <3>2, <3>5, OrderedAppend
            <4>2. ASSUME NEW i \in 1..Len(owed'[c])
                  PROVE  \/ owed'[c][i] = e
                         \/ i \in 1..Len(owed[c]) /\ owed'[c][i] = owed[c][i]
                <5>1. CASE i = Len(owed[c]) + 1 BY <3>1, <3>5, <5>1
                <5>2. CASE i # Len(owed[c]) + 1 BY <2>1, <3>1, <3>5, <5>2
                <5>. QED BY <5>1, <5>2
            <4>3. Below(owed'[c], wire') BY <2>1, <3>3, <4>2 DEF Below
            <4>4. e.no <= published
                <5>1. wire # <<>> BY <1>3 DEF Match
                <5>2. 1 \in 1..Len(wire) BY <5>1
                <5>. QED BY <2>1, <5>2
            <4>5. \A i \in 1..Len(owed'[c]) : owed'[c][i].no <= published BY <4>2, <4>4
            <4>. QED BY <4>1, <4>3, <4>5
        <3>. QED BY <1>3, <3>4, <3>5 DEF Match
    <2>3. \A i \in 1..Len(wire') : wire'[i].no <= published BY <2>1
    <2>. QED BY <1>3, <2>1, <2>2, <2>3 DEF Match
<1>4. CASE UNCHANGED <<published, wire, owed>>
    BY <1>4
<1>. QED BY <1>1, <1>2, <1>3, <1>4
         DEF Next, Bridge, Stream, Offer, Release, Subscribe, Receive, Disconnected,
             Write, Unsubscribe, Reader, Client, vars

\* Only a subscriber is owed an event.
LEMMA StageStep == OpenInv /\ StageInv /\ [Next]_vars => StageInv'
<1>. SUFFICES ASSUME OpenInv, StageInv, [Next]_vars, NEW d \in Clients
              PROVE  /\ Subscribed(d)' => d \in subs'
                     /\ handler'[d] # "write" => writing'[d] = <<>>
                     /\ handler'[d] = "subscribe" =>
                            buffer'[d] = <<>> /\ got'[d] = <<>> /\ owed'[d] = <<>>
    BY DEF StageInv, Subscribed
<1>. DEFINE Goal == /\ Subscribed(d)' => d \in subs'
                    /\ handler'[d] # "write" => writing'[d] = <<>>
                    /\ handler'[d] = "subscribe" =>
                           buffer'[d] = <<>> /\ got'[d] = <<>> /\ owed'[d] = <<>>
<1>. TypeOK BY DEF OpenInv
<1>. USE DEF StageInv, Subscribed, TypeOK
<1>1. ASSUME NEW n \in Notif, Publish(n) PROVE Goal
    BY <1>1 DEF Publish, streamVars
<1>2. CASE Match BY <1>2 DEF Match, streamVars
<1>3. ASSUME NEW c \in Clients, Offer(c) PROVE Goal
    BY <1>3 DEF Offer, OpenInv, NoSendOnClosed
<1>4. CASE Release BY <1>4 DEF Release, streamVars
<1>5. ASSUME NEW c \in Clients, Subscribe(c) PROVE Goal BY <1>5 DEF Subscribe
<1>6. ASSUME NEW c \in Clients, Receive(c) PROVE Goal BY <1>6 DEF Receive
<1>7. ASSUME NEW c \in Clients, Disconnected(c) PROVE Goal BY <1>7 DEF Disconnected
<1>8. ASSUME NEW c \in Clients, Write(c) PROVE Goal BY <1>8 DEF Write
<1>9. ASSUME NEW c \in Clients, Unsubscribe(c) PROVE Goal BY <1>9 DEF Unsubscribe
<1>10. ASSUME NEW c \in Clients, Reader(c) \/ Client(c) PROVE Goal
    BY <1>10 DEF Reader, Client, streamVars
<1>11. CASE UNCHANGED vars BY <1>11 DEF vars, streamVars
<1>. QED BY <1>1, <1>2, <1>3, <1>4, <1>5, <1>6, <1>7, <1>8, <1>9, <1>10, <1>11
         DEF Next, Bridge, Stream

LEMMA LastOfAppend ==
    ASSUME NEW s \in Seq(Event), NEW e \in Event
    PROVE  /\ Append(s, e) \in Seq(Event) /\ Append(s, e) # <<>>
           /\ Last(Append(s, e)) = e /\ Front(Append(s, e)) = s
<1>1. Append(s, e) \in Seq(Event) /\ Len(Append(s, e)) = Len(s) + 1
      /\ Append(s, e)[Len(s) + 1] = e
    OBVIOUS
<1>2. Front(Append(s, e)) = SubSeq(Append(s, e), 1, Len(s)) BY <1>1 DEF Front
<1>3. SubSeq(Append(s, e), 1, Len(s)) = s
    BY <1>1, SubSeqProperties
<1>. QED BY <1>1, <1>2, <1>3 DEF Last

LEMMA TodoStep == OpenInv /\ StageInv /\ TodoInv /\ [Next]_vars => TodoInv'
<1>. SUFFICES ASSUME OpenInv, StageInv, TodoInv, [Next]_vars, NEW d \in todo'
              PROVE  owed'[d] # <<>> /\ Last(owed'[d]) = event'
    BY DEF TodoInv
<1>. USE DEF TodoInv
<1>1. CASE Match
    <2>1. d \in Clients /\ owed[d] \in Seq(Event) /\ Head(wire) \in Event
          /\ Subscribed(d)
        BY <1>1 DEF Match, OpenInv, TypeOK
    <2>2. owed'[d] = Append(owed[d], Head(wire)) /\ event' = Head(wire)
        BY <1>1, <2>1 DEF Match
    <2>. QED BY <2>1, <2>2, LastOfAppend
<1>2. CASE Release BY <1>2 DEF Release
<1>3. CASE todo' \subseteq todo /\ UNCHANGED <<event, owed>> BY <1>3
<1>. QED BY <1>1, <1>2, <1>3
         DEF Next, Bridge, Stream, Publish, Offer, Subscribe, Receive, Disconnected,
             Write, Unsubscribe, Reader, Client, vars, hubVars

LEMMA RoomStep == OpenInv /\ RoomInv /\ [Next]_vars => RoomInv'
<1>. SUFFICES ASSUME OpenInv, RoomInv, [Next]_vars, NEW d \in todo', event' \notin crowded'[d]
              PROVE  Len(buffer'[d]) < Capacity
    BY DEF RoomInv
<1>. TypeOK BY DEF OpenInv
<1>1. d \in Clients BY TypeStep DEF TypeOK
<1>2. buffer[d] \in Seq(Event) BY <1>1 DEF TypeOK
<1>3. CASE Match
    <2>1. Len(buffer[d]) \in Nat BY <1>2
    <2>. QED BY <1>1, <1>3, <2>1, StreamAssumption DEF Match, streamVars
<1>4. ASSUME NEW c \in Clients, Offer(c) PROVE Len(buffer'[d]) < Capacity
    <2>1. d \in todo /\ d # c /\ UNCHANGED <<event, crowded>> /\ buffer'[d] = buffer[d]
        BY <1>1, <1>4 DEF Offer, TypeOK
    <2>. QED BY <2>1 DEF RoomInv
<1>5. CASE Release BY <1>5 DEF Release, TypeOK
<1>6. ASSUME NEW c \in Clients, Receive(c) PROVE Len(buffer'[d]) < Capacity
    <2>1. d \in todo /\ UNCHANGED <<event, crowded>> /\ Len(buffer[d]) < Capacity
        BY <1>6 DEF Receive, hubVars, RoomInv
    <2>2. CASE c # d BY <1>1, <1>6, <2>1, <2>2 DEF Receive, TypeOK
    <2>3. CASE c = d
        <3>1. buffer'[d] = Tail(buffer[d]) /\ buffer[d] # <<>>
            BY <1>1, <1>6, <2>3 DEF Receive, TypeOK
        <3>2. Len(Tail(buffer[d])) = Len(buffer[d]) - 1 /\ Len(buffer[d]) \in Nat
            BY <1>2, <3>1
        <3>. QED BY <2>1, <3>1, <3>2, StreamAssumption
    <2>. QED BY <2>2, <2>3
<1>7. ASSUME NEW c \in Clients, Unsubscribe(c) PROVE Len(buffer'[d]) < Capacity
    BY <1>7 DEF Unsubscribe, hubVars, TypeOK
<1>8. CASE UNCHANGED <<todo, event, crowded, buffer>> BY <1>8 DEF RoomInv
<1>. QED BY <1>3, <1>4, <1>5, <1>6, <1>7, <1>8
         DEF Next, Bridge, Stream, Publish, Subscribe, Disconnected, Write, Reader, Client,
             vars, hubVars, streamVars

\* The channel has room: the next event due arrives behind the others.
LEMMA FollowsAppend ==
    ASSUME NEW arrived \in Seq(Event), NEW due \in Seq(Event), NEW e \in Event,
           NEW full, Follows(arrived, due, full), Ordered(Append(due, e))
    PROVE  Follows(Append(arrived, e), Append(due, e), full)
<1>. DEFINE a == Append(arrived, e)
            o == Append(due, e)
<1>1. /\ a \in Seq(Event) /\ Len(a) = Len(arrived) + 1 /\ a[Len(arrived) + 1] = e
      /\ \A i \in 1..Len(arrived) : a[i] = arrived[i]
    BY AppendProperties
<1>2. /\ o \in Seq(Event) /\ Len(o) = Len(due) + 1 /\ o[Len(due) + 1] = e
      /\ \A i \in 1..Len(due) : o[i] = due[i]
    BY AppendProperties
<1>. HIDE DEF a, o
<1>3. \A i \in 1..Len(a) : \E j \in 1..Len(o) : a[i] = o[j]
    <2>. SUFFICES ASSUME NEW i \in 1..Len(a) PROVE \E j \in 1..Len(o) : a[i] = o[j]
        OBVIOUS
    <2>1. CASE i = Len(arrived) + 1
        <3>1. Len(due) + 1 \in 1..Len(o) /\ a[i] = o[Len(due) + 1] BY <1>1, <1>2, <2>1
        <3>. QED BY <3>1
    <2>2. CASE i \in 1..Len(arrived)
        <3>1. PICK j \in 1..Len(due) : arrived[i] = due[j] BY <2>2 DEF Follows
        <3>2. j \in 1..Len(o) /\ o[j] = due[j] BY <1>2
        <3>. QED BY <1>1, <2>2, <3>1, <3>2
    <2>. QED BY <1>1, <2>1, <2>2
<1>4. \A i \in 1..Len(arrived) : arrived[i].no < e.no
    <2>. SUFFICES ASSUME NEW i \in 1..Len(arrived) PROVE arrived[i].no < e.no
        OBVIOUS
    <2>1. PICK j \in 1..Len(due) : arrived[i] = due[j] BY DEF Follows
    <2>2. o[j].no < o[Len(due) + 1].no
        BY <1>2 DEF o, Ordered
    <2>. QED BY <1>2, <2>1, <2>2
<1>5. Ordered(a) BY <1>4, OrderedAppend DEF a, Follows
<1>6. ASSUME NEW j \in 1..Len(o), o[j] \notin full
      PROVE  \E i \in 1..Len(a) : a[i] = o[j]
    <2>1. CASE j = Len(due) + 1
        <3>1. Len(arrived) + 1 \in 1..Len(a) /\ a[Len(arrived) + 1] = o[j]
            BY <1>1, <1>2, <2>1
        <3>. QED BY <3>1
    <2>2. CASE j \in 1..Len(due)
        <3>1. PICK i \in 1..Len(arrived) : arrived[i] = due[j] BY <1>2, <1>6, <2>2 DEF Follows
        <3>2. i \in 1..Len(a) /\ a[i] = o[j] BY <1>1, <1>2, <2>2, <3>1
        <3>. QED BY <3>2
    <2>. QED BY <1>2, <2>1, <2>2
<1>. QED BY <1>3, <1>5, <1>6 DEF Follows, a, o

\* The channel is full: the event is dropped.
LEMMA FollowsDrop ==
    ASSUME NEW arrived \in Seq(Event), NEW due \in Seq(Event), NEW e \in Event,
           NEW full, Follows(arrived, due, full), e \in full
    PROVE  Follows(arrived, Append(due, e), full)
<1>1. /\ Len(Append(due, e)) = Len(due) + 1 /\ Append(due, e)[Len(due) + 1] = e
      /\ \A i \in 1..Len(due) : Append(due, e)[i] = due[i]
    BY AppendProperties
<1>2. \A j \in 1..Len(Append(due, e)) : j \in 1..Len(due) \/ j = Len(due) + 1
    BY <1>1
<1>3. \A j \in 1..Len(Append(due, e)) :
          Append(due, e)[j] \notin full =>
              \E i \in 1..Len(arrived) : arrived[i] = Append(due, e)[j]
    BY <1>1, <1>2 DEF Follows
<1>4. \A i \in 1..Len(arrived) : \E j \in 1..Len(Append(due, e)) : arrived[i] = Append(due, e)[j]
    <2>. SUFFICES ASSUME NEW i \in 1..Len(arrived)
                  PROVE  \E j \in 1..Len(Append(due, e)) : arrived[i] = Append(due, e)[j]
        OBVIOUS
    <2>1. PICK j \in 1..Len(due) : arrived[i] = due[j] BY DEF Follows
    <2>2. j \in 1..Len(Append(due, e)) BY <1>1
    <2>. QED BY <1>1, <2>1, <2>2
<1>. QED BY <1>3, <1>4 DEF Follows

\* The event in the hands of the handler moves from the channel to the client.
LEMMA Taken ==
    ASSUME NEW g \in Seq(Event), NEW b \in Seq(Event), b # <<>>
    PROVE  g \o <<Head(b)>> \o Tail(b) = g \o <<>> \o b
<1>1. Head(b) \in Event /\ Tail(b) \in Seq(Event) /\ <<Head(b)>> \in Seq(Event)
    OBVIOUS
<1>2. g \o <<Head(b)>> \o Tail(b) = g \o (<<Head(b)>> \o Tail(b))
    BY <1>1, ConcatAssociative
<1>3. <<Head(b)>> \o Tail(b) = b BY <1>1
<1>4. g \o <<>> = g BY ConcatEmptySeq
<1>. QED BY <1>2, <1>3, <1>4

LEMMA Written ==
    ASSUME NEW g \in Seq(Event), NEW w \in Seq(Event)
    PROVE  g \o w \in Seq(Event) /\ (g \o w) \o <<>> = g \o w
<1>1. g \o w \in Seq(Event) BY ConcatProperties
<1>. QED BY <1>1, ConcatEmptySeq

\* An event put into the channel comes after all that has arrived.
LEMMA Sent ==
    ASSUME NEW g \in Seq(Event), NEW b \in Seq(Event), NEW e \in Event
    PROVE  g \o Append(b, e) = Append(g \o b, e)
<1>1. <<e>> \in Seq(Event) /\ g \o b \in Seq(Event) BY ConcatProperties
<1>2. Append(b, e) = b \o <<e>> BY AppendIsConcat
<1>3. Append(g \o b, e) = (g \o b) \o <<e>> BY <1>1, AppendIsConcat
<1>4. (g \o b) \o <<e>> = g \o (b \o <<e>>) BY <1>1, ConcatAssociative
<1>. QED BY <1>2, <1>3, <1>4

LEMMA ArrivedType ==
    ASSUME TypeOK, NEW c \in Clients
    PROVE  /\ got[c] \in Seq(Event) /\ writing[c] \in Seq(Event) /\ buffer[c] \in Seq(Event)
           /\ got[c] \o writing[c] \in Seq(Event)
           /\ Arrived(c) \in Seq(Event) /\ Len(Arrived(c)) >= Len(buffer[c])
<1>1. got[c] \in Seq(Event) /\ writing[c] \in Seq(Event) /\ buffer[c] \in Seq(Event)
    BY DEF TypeOK
<1>2. got[c] \o writing[c] \in Seq(Event) BY <1>1, ConcatProperties
<1>3. /\ Arrived(c) \in Seq(Event)
      /\ Len(Arrived(c)) = Len(got[c] \o writing[c]) + Len(buffer[c])
    BY <1>1, <1>2, ConcatProperties DEF Arrived
<1>4. \A s \in Seq(Event) : Len(s) \in Nat OBVIOUS
<1>5. Len(got[c] \o writing[c]) \in Nat BY <1>2, <1>4
<1>6. Len(buffer[c]) \in Nat BY <1>1, <1>4
<1>7. \A m, n \in Nat : m + n >= n OBVIOUS
<1>8. Len(Arrived(c)) >= Len(buffer[c]) BY <1>3, <1>5, <1>6, <1>7, Zenon
<1>. QED BY <1>1, <1>2, <1>3, <1>8

Ordering == \A c \in Clients :
    Subscribed(c) /\ conn[c] # "gone" => Follows(Arrived(c), Due(c), crowded[c])

OrderInv == OpenInv /\ WireInv /\ StageInv /\ TodoInv /\ RoomInv /\ Ordering

\* A step that leaves the events of a client where they are.
LEMMA OrderKept ==
    ASSUME Ordering, NEW d \in Clients, Subscribed(d)' => Subscribed(d),
           conn'[d] # "gone" => conn[d] # "gone",
           Arrived(d)' = Arrived(d), Due(d)' = Due(d), crowded[d] \subseteq crowded'[d]
    PROVE  Subscribed(d)' /\ conn'[d] # "gone" => Follows(Arrived(d), Due(d), crowded[d])'
BY DEF Ordering, Follows, Ordered

LEMMA MatchOrder ==
    ASSUME OrderInv, Match, NEW d \in Clients
    PROVE  Subscribed(d)' /\ conn'[d] # "gone" => Follows(Arrived(d), Due(d), crowded[d])'
<1>. TypeOK BY DEF OrderInv, OpenInv
<1>1. /\ owed[d] \in Seq(Event) /\ Head(wire) \in Event /\ todo = {}
      /\ Subscribed(d)' = Subscribed(d) /\ conn'[d] = conn[d]
      /\ Arrived(d)' = Arrived(d) /\ crowded[d] \subseteq crowded'[d]
    BY DEF Match, TypeOK, streamVars, Subscribed, Arrived
<1>2. CASE Subscribed(d) /\ KeyOf[d] \in KeysOf(Head(wire))
    <2>1. d \in todo' /\ owed'[d] = Append(owed[d], Head(wire))
        BY <1>2 DEF Match, OrderInv, StageInv
    <2>2. Due(d)' = Due(d) BY <1>1, <2>1, LastOfAppend DEF Due
    <2>. QED BY <1>1, <2>2, OrderKept DEF OrderInv
<1>3. CASE Subscribed(d) /\ ~ (KeyOf[d] \in KeysOf(Head(wire)))
    <2>1. d \notin todo' /\ owed'[d] = owed[d] BY <1>3 DEF Match
    <2>2. Due(d)' = Due(d) BY <1>1, <2>1 DEF Due
    <2>. QED BY <1>1, <2>2, OrderKept DEF OrderInv
<1>. QED BY <1>1, <1>2, <1>3

LEMMA OfferOrder ==
    ASSUME OrderInv, NEW c \in Clients, Offer(c), NEW d \in Clients
    PROVE  Subscribed(d)' /\ conn'[d] # "gone" => Follows(Arrived(d), Due(d), crowded[d])'
<1>. TypeOK BY DEF OrderInv, OpenInv
<1>1. /\ Subscribed(d)' = Subscribed(d) /\ conn'[d] = conn[d]
      /\ owed'[d] = owed[d] /\ crowded' = crowded
    BY DEF Offer, Subscribed
<1>2. CASE c # d
    <2>1. Arrived(d)' = Arrived(d) /\ Due(d)' = Due(d)
        BY <1>2 DEF Offer, Arrived, Due, TypeOK
    <2>. QED BY <1>1, <2>1, OrderKept DEF OrderInv
<1>3. CASE c = d
    <2>. SUFFICES ASSUME Subscribed(d), conn[d] # "gone" PROVE Follows(Arrived(d), Due(d), crowded[d])'
        BY <1>1
    <2>. DEFINE e == event
                due == Front(owed[d])
    <2>1. /\ owed[d] \in Seq(Event) /\ e \in Event /\ owed[d] # <<>> /\ Last(owed[d]) = e
          /\ got[d] \in Seq(Event) /\ writing[d] \in Seq(Event) /\ buffer[d] \in Seq(Event)
        BY <1>3 DEF Offer, TypeOK, OrderInv, TodoInv
    <2>2. PICK s \in Seq(Event), x \in Event : owed[d] = Append(s, x)
        BY <2>1, SequenceEmptyOrAppend
    <2>3. due = s /\ e = x BY <2>1, <2>2, LastOfAppend
    <2>4. Follows(Arrived(d), s, crowded[d])
        BY <1>3, <2>3 DEF OrderInv, Ordering, Due, Offer
    <2>5. Ordered(Append(s, x)) BY <2>2 DEF OrderInv, WireInv
    <2>6. Due(d)' = Append(s, x) BY <1>1, <1>3, <2>2 DEF Due, Offer
    <2>7. Arrived(d) \in Seq(Event) /\ Len(Arrived(d)) >= Len(buffer[d])
        BY ArrivedType
    <2>8. CASE Len(buffer[d]) < Capacity
        <3>. DEFINE g == got[d] \o writing[d]
        <3>0. g \in Seq(Event) BY ArrivedType
        <3>1. g \o Append(buffer[d], e) = Append(g \o buffer[d], e)
            <4>. HIDE DEF g
            <4>. QED BY <2>1, <3>0, Sent
        <3>2. buffer'[d] = Append(buffer[d], e) /\ got'[d] = got[d] /\ writing'[d] = writing[d]
            BY <1>3, <2>8 DEF Offer, TypeOK
        <3>3. Arrived(d)' = Append(Arrived(d), x)
            BY <2>3, <3>1, <3>2 DEF Arrived
        <3>. QED BY <1>1, <2>2, <2>4, <2>5, <2>6, <2>7, <3>3, FollowsAppend
    <2>9. CASE ~ (Len(buffer[d]) < Capacity)
        <3>1. Arrived(d)' = Arrived(d) BY <1>3, <2>9 DEF Offer, Arrived
        <3>2. x \in crowded[d] BY <1>3, <2>3, <2>9 DEF Offer, OrderInv, RoomInv
        <3>. QED BY <1>1, <2>2, <2>4, <2>6, <2>7, <3>1, <3>2, FollowsDrop
    <2>. QED BY <2>8, <2>9
<1>. QED BY <1>2, <1>3

LEMMA HandlerOrder ==
    ASSUME OrderInv, NEW c \in Clients, Stream(c), NEW d \in Clients
    PROVE  Subscribed(d)' /\ conn'[d] # "gone" => Follows(Arrived(d), Due(d), crowded[d])'
<1>. TypeOK BY DEF OrderInv, OpenInv
<1>1. /\ conn'[d] = conn[d] /\ Due(d)' = Due(d) /\ crowded' = crowded
      /\ got[d] \in Seq(Event) /\ writing[d] \in Seq(Event) /\ buffer[d] \in Seq(Event)
    BY DEF Stream, Subscribe, Receive, Disconnected, Write, Unsubscribe, hubVars, Due, TypeOK
<1>2. CASE c # d
    <2>1. Arrived(d)' = Arrived(d) /\ Subscribed(d)' = Subscribed(d)
        BY <1>2 DEF Stream, Subscribe, Receive, Disconnected, Write, Unsubscribe,
                    Arrived, Subscribed, TypeOK
    <2>. QED BY <1>1, <2>1, OrderKept DEF OrderInv
<1>3. CASE c = d /\ Subscribe(c)
    <2>1. d \notin todo /\ owed[d] = <<>> /\ got[d] = <<>> /\ buffer[d] = <<>> /\ writing[d] = <<>>
        BY <1>3 DEF Subscribe, OrderInv, StageInv, TypeOK
    <2>2. Due(d)' = <<>> /\ Arrived(d)' = <<>> \o <<>> \o <<>>
        BY <1>1, <1>3, <2>1 DEF Due, Arrived, Subscribe
    <2>3. Arrived(d)' = <<>> BY <2>2
    <2>. QED BY <2>2, <2>3 DEF Follows, Ordered
<1>4. CASE c = d /\ (Receive(c) \/ Disconnected(c) \/ Write(c))
    <2>1. Subscribed(d) BY <1>4 DEF Receive, Disconnected, Write, Subscribed
    <2>2. ASSUME Receive(d) PROVE Arrived(d)' = Arrived(d)
        <3>1. writing[d] = <<>> /\ buffer[d] # <<>>
            BY <2>2 DEF Receive, OrderInv, StageInv
        <3>2. got'[d] = got[d] /\ writing'[d] = <<Head(buffer[d])>> /\ buffer'[d] = Tail(buffer[d])
            BY <2>2 DEF Receive, TypeOK
        <3>3. got[d] \o <<Head(buffer[d])>> \o Tail(buffer[d]) = got[d] \o <<>> \o buffer[d]
            BY <1>1, <3>1, Taken
        <3>. QED BY <3>1, <3>2, <3>3 DEF Arrived
    <2>3. ASSUME Disconnected(d) PROVE Arrived(d)' = Arrived(d)
        BY <2>3 DEF Disconnected, Arrived
    <2>4. ASSUME Write(d), conn[d] # "gone" PROVE Arrived(d)' = Arrived(d)
        <3>1. got'[d] = got[d] \o writing[d] /\ writing'[d] = <<>> /\ buffer'[d] = buffer[d]
            BY <2>4 DEF Write, TypeOK
        <3>. QED BY <1>1, <3>1, Written DEF Arrived
    <2>5. CASE conn[d] = "gone" BY <1>1, <2>5
    <2>6. CASE conn[d] # "gone"
        <3>1. Arrived(d)' = Arrived(d) BY <1>4, <2>2, <2>3, <2>4, <2>6
        <3>. QED BY <1>1, <2>1, <3>1, OrderKept DEF OrderInv
    <2>. QED BY <2>5, <2>6
<1>5. CASE c = d /\ Unsubscribe(c)
    BY <1>5 DEF Unsubscribe, Subscribed, TypeOK
<1>. QED BY <1>2, <1>3, <1>4, <1>5 DEF Stream

LEMMA OrderStep == OrderInv /\ [Next]_vars => OrderInv'
<1>. SUFFICES ASSUME OrderInv, [Next]_vars PROVE OrderInv'
    OBVIOUS
<1>. TypeOK BY DEF OrderInv, OpenInv
<1>1. OpenInv' /\ WireInv' /\ StageInv' /\ TodoInv' /\ RoomInv'
    BY OpenStep, WireStep, StageStep, TodoStep, RoomStep DEF OrderInv
<1>2. ASSUME NEW d \in Clients
      PROVE  Subscribed(d)' /\ conn'[d] # "gone" => Follows(Arrived(d), Due(d), crowded[d])'
    <2>. DEFINE Goal == Subscribed(d)' /\ conn'[d] # "gone" => Follows(Arrived(d), Due(d), crowded[d])'
    <2>1. CASE \/ \E n \in Notif : Publish(n)
               \/ Release
               \/ \E c \in Clients : Reader(c) \/ Client(c)
               \/ UNCHANGED vars
        <3>1. UNCHANGED <<todo, owed, crowded, got, writing, buffer, handler>>
            BY <2>1 DEF Publish, Release, Reader, Client, vars, hubVars, streamVars
        <3>2. conn'[d] # "gone" => conn[d] # "gone"
            BY <2>1 DEF Publish, Release, Reader, Client, vars, TypeOK
        <3>3. /\ Subscribed(d)' = Subscribed(d)
              /\ Arrived(d)' = Arrived(d) /\ Due(d)' = Due(d)
            BY <3>1 DEF Subscribed, Arrived, Due
        <3>. QED BY <3>1, <3>2, <3>3, OrderKept DEF OrderInv
    <2>. HIDE DEF Goal
    <2>2. CASE Match BY <2>2, MatchOrder DEF Goal
    <2>3. ASSUME NEW c \in Clients, Offer(c) PROVE Goal BY <2>3, OfferOrder DEF Goal
    <2>4. ASSUME NEW c \in Clients, Stream(c) PROVE Goal BY <2>4, HandlerOrder DEF Goal
    <2>5. Goal BY <2>1, <2>2, <2>3, <2>4 DEF Next, Bridge, Goal
    <2>. QED BY <2>5 DEF Goal
<1>. QED BY <1>1, <1>2 DEF OrderInv, Ordering

\* A connected client gets events of its key in the order of publication, each at
\* most once, and all but those that found its channel full when the hub saw them:
\* for any number of clients that come and go, stall and read on, however much they
\* got before, and any size of the channels.
THEOREM StreamInOrderCorrect == Spec => []StreamInOrder
<1>1. Init => OrderInv
    BY TypeInit, WireInit DEF Init, OrderInv, OpenInv, NoSendOnClosed, StageInv, TodoInv,
       RoomInv, Ordering, Subscribed
<1>2. OrderInv => StreamInOrder
    <2>. SUFFICES ASSUME OrderInv, NEW c \in Clients, Subscribed(c), conn[c] # "gone"
                  PROVE  /\ \A i, j \in 1..Len(Arrived(c)) :
                                i < j => Arrived(c)[i].no < Arrived(c)[j].no
                         /\ ToSet(Arrived(c)) \subseteq ToSet(Due(c))
                         /\ ToSet(Due(c)) \ crowded[c] \subseteq ToSet(Arrived(c))
        BY DEF StreamInOrder
    <2>1. Follows(Arrived(c), Due(c), crowded[c]) BY DEF OrderInv, Ordering
    <2>. TypeOK BY DEF OrderInv, OpenInv
    <2>2. Arrived(c) \in Seq(Event) BY ArrivedType
    <2>3. Due(c) \in Seq(Event)
        <3>1. CASE c \in todo
            <4>1. owed[c] \in Seq(Event) /\ owed[c] # <<>>
                BY <3>1 DEF OrderInv, TodoInv, TypeOK
            <4>2. PICK s \in Seq(Event), x \in Event : owed[c] = Append(s, x)
                BY <4>1, SequenceEmptyOrAppend
            <4>. QED BY <3>1, <4>2, LastOfAppend DEF Due
        <3>2. CASE c \notin todo BY <3>2 DEF Due, TypeOK
        <3>. QED BY <3>1, <3>2
    <2>4. DOMAIN Arrived(c) = 1..Len(Arrived(c)) /\ DOMAIN Due(c) = 1..Len(Due(c))
        BY <2>2, <2>3
    <2>5. /\ ToSet(Arrived(c)) \subseteq ToSet(Due(c))
          /\ ToSet(Due(c)) \ crowded[c] \subseteq ToSet(Arrived(c))
        <3>1. ToSet(Arrived(c)) = {Arrived(c)[i] : i \in 1..Len(Arrived(c))}
            BY <2>4 DEF ToSet
        <3>2. ToSet(Due(c)) = {Due(c)[j] : j \in 1..Len(Due(c))} BY <2>4 DEF ToSet
        <3>3. /\ \A i \in 1..Len(Arrived(c)) : \E j \in 1..Len(Due(c)) : Arrived(c)[i] = Due(c)[j]
              /\ \A j \in 1..Len(Due(c)) : Due(c)[j] \notin crowded[c] =>
                     \E i \in 1..Len(Arrived(c)) : Arrived(c)[i] = Due(c)[j]
            BY <2>1 DEF Follows
        <3>. QED BY <3>1, <3>2, <3>3
    <2>. QED BY <2>1, <2>5 DEF Follows, Ordered
<1>. QED BY <1>1, <1>2, OrderStep, PTL DEF Spec
=============================================================================

---------------------------- MODULE EventStream ----------------------------
(***************************************************************************)
(* Status events on their way to WebSocket clients: workers PUBLISH them   *)
(* on a Redis channel, the bridge goroutine of an API process takes them   *)
(* off and hands them to the Hub, the Hub puts them into the buffered      *)
(* channel of every subscriber, and the handler goroutine of each          *)
(* connection writes them to its client.                                   *)
(*                                                                         *)
(* A client is one connection.  The hub's RWMutex is held by the bridge    *)
(* for reading from Match to the last Offer and by a handler for writing   *)
(* inside one step of Subscribe or Unsubscribe.                            *)
(***************************************************************************)
EXTENDS Integers, Sequences, SequencesExt

CONSTANTS
    Notif,     \* notifications that change status
    Batches,   \* batch ids
    BatchOf,   \* [Notif -> Batches \cup {NoBatch}]
    NoBatch,
    Clients,   \* WebSocket connections
    KeyOf,     \* [Clients -> Notif \cup Batches]: the id or batch in the query
    Capacity,  \* buffer of a subscriber channel, 8 in the code
    MaxEvents  \* bound: status changes the workers publish

ASSUME StreamAssumption ==
    /\ NoBatch \notin Batches /\ Notif \cap Batches = {}
    /\ BatchOf \in [Notif -> Batches \cup {NoBatch}]
    /\ KeyOf \in [Clients -> Notif \cup Batches]
    /\ Capacity \in Nat \ {0}
    /\ MaxEvents \in Nat

VARIABLES
    published, \* number of events published so far; each carries its number
    wire,      \* the Redis channel, up to the channel of the bridge
    bridge,    \* "receive", or "offer" while Hub.Publish holds the read lock
    todo,      \* subscribers that Hub.Publish has not reached yet
    event,     \* the event in Hub.Publish
    subs,      \* Hub.subs, by subscriber instead of by key
    buffer,    \* [Clients -> Seq(Event)]: the subscriber channels
    handler,   \* [Clients -> Stages]: what Handler.Stream does
    writing,   \* [Clients -> Seq(Event)]: the event in WriteJSON, or none
    done,      \* [Clients -> BOOLEAN]: the reading goroutine has ended
    conn,      \* [Clients -> {"reading", "stalled", "gone"}]
    got,       \* history: what was written to a client
    owed,      \* history: events of its key the hub saw while it was subscribed
    crowded    \* history: those of them that found its channel full

hubVars    == <<bridge, todo, event>>
streamVars == <<subs, buffer, handler, writing, done>>
vars == <<published, wire, hubVars, streamVars, conn, got, owed, crowded>>

Event == [no : 1..MaxEvents, id : Notif]

Stages == {"subscribe", "select", "write", "unsubscribe", "returned"}

\* Handlers between the end of Subscribe and the start of Unsubscribe.
Subscribed(c) == handler[c] \in {"select", "write", "unsubscribe"}

\* The keys Hub.Publish delivers an event to.
KeysOf(e) == {e.id, BatchOf[e.id]} \ {NoBatch}

Init ==
    /\ published = 0 /\ wire = <<>>
    /\ bridge = "receive" /\ todo = {} /\ event = <<>>
    /\ subs = {}
    /\ buffer  = [c \in Clients |-> <<>>]
    /\ handler = [c \in Clients |-> "subscribe"]
    /\ writing = [c \in Clients |-> <<>>]
    /\ done    = [c \in Clients |-> FALSE]
    /\ conn    = [c \in Clients |-> "reading"]
    /\ got     = [c \in Clients |-> <<>>]
    /\ owed    = [c \in Clients |-> <<>>]
    /\ crowded = [c \in Clients |-> {}]

-----------------------------------------------------------------------------
(* RedisPublisher and BridgeToHub *)

\* RedisPublisher.Publish is best-effort: an event is lost when the command
\* fails, when no bridge is subscribed or when the client library drops it.
Publish(n) ==
    /\ published < MaxEvents
    /\ published' = published + 1
    /\ \/ wire' = Append(wire, [no |-> published + 1, id |-> n])
       \/ UNCHANGED wire
    /\ UNCHANGED <<hubVars, streamVars, conn, got, owed, crowded>>

\* BridgeToHub receives a message; Hub.Publish takes the read lock.
Match ==
    /\ bridge = "receive" /\ wire # <<>>
    /\ bridge' = "offer"
    /\ event' = Head(wire)
    /\ wire' = Tail(wire)
    /\ todo' = {c \in subs : KeyOf[c] \in KeysOf(Head(wire))}
    /\ owed' = [c \in Clients |->
                   IF Subscribed(c) /\ KeyOf[c] \in KeysOf(Head(wire))
                   THEN Append(owed[c], Head(wire)) ELSE owed[c]]
    /\ crowded' = [c \in Clients |->
                      IF c \in todo' /\ Len(buffer[c]) >= Capacity
                      THEN crowded[c] \cup {Head(wire)} ELSE crowded[c]]
    /\ UNCHANGED <<published, streamVars, conn, got>>

OfferOrWait(c) == \* mutant: the send blocks until the consumer has room
    /\ c \in todo
    /\ Len(buffer[c]) < Capacity
    /\ todo' = todo \ {c}
    /\ buffer' = [buffer EXCEPT ![c] = Append(@, event)]
    /\ UNCHANGED <<published, wire, bridge, event, subs, handler, writing, done,
                   conn, got, owed, crowded>>

\* Mutant: what the client has already got still takes room in its channel.
OfferEarlyDrop(c) ==
    /\ c \in todo
    /\ todo' = todo \ {c}
    /\ IF Len(got[c]) + Len(writing[c]) + Len(buffer[c]) < Capacity
       THEN buffer' = [buffer EXCEPT ![c] = Append(@, event)]
       ELSE UNCHANGED buffer
    /\ UNCHANGED <<published, wire, bridge, event, subs, handler, writing, done,
                   conn, got, owed, crowded>>

\* Hub.deliver: send, or skip a subscriber whose channel is full.
Offer(c) ==
    /\ c \in todo
    /\ todo' = todo \ {c}
    /\ IF Len(buffer[c]) < Capacity
       THEN buffer' = [buffer EXCEPT ![c] = Append(@, event)]
       ELSE UNCHANGED buffer
    /\ UNCHANGED <<published, wire, bridge, event, subs, handler, writing, done,
                   conn, got, owed, crowded>>

ReleaseEarly == \* mutant: returns before the last subscriber
    /\ bridge = "offer"
    /\ bridge' = "receive" /\ event' = <<>>
    /\ UNCHANGED <<published, wire, todo, streamVars, conn, got, owed, crowded>>

\* Hub.Publish returns and releases the lock.
Release ==
    /\ bridge = "offer" /\ todo = {}
    /\ bridge' = "receive" /\ event' = <<>>
    /\ UNCHANGED <<published, wire, todo, streamVars, conn, got, owed, crowded>>

-----------------------------------------------------------------------------
(* Handler.Stream *)

\* Hub.Subscribe: a new channel, under the write lock.
Subscribe(c) ==
    /\ handler[c] = "subscribe"
    /\ bridge # "offer"
    /\ subs' = subs \cup {c}
    /\ handler' = [handler EXCEPT ![c] = "select"]
    /\ UNCHANGED <<published, wire, hubVars, buffer, writing, done, conn, got, owed, crowded>>

\* The select of the handler: its channel, or the end of the connection.
Receive(c) ==
    /\ handler[c] = "select"
    /\ buffer[c] # <<>>
    /\ writing' = [writing EXCEPT ![c] = <<Head(buffer[c])>>]
    /\ buffer'  = [buffer  EXCEPT ![c] = Tail(@)]
    /\ handler' = [handler EXCEPT ![c] = "write"]
    /\ UNCHANGED <<published, wire, hubVars, subs, done, conn, got, owed, crowded>>

Disconnected(c) ==
    /\ handler[c] = "select"
    /\ done[c]
    /\ handler' = [handler EXCEPT ![c] = "unsubscribe"]
    /\ UNCHANGED <<published, wire, hubVars, subs, buffer, writing, done, conn,
                   got, owed, crowded>>

\* conn.WriteJSON blocks on a stalled client; to one that is gone it fails, or
\* succeeds and goes nowhere.
Write(c) ==
    /\ handler[c] = "write"
    /\ conn[c] # "stalled"
    /\ IF conn[c] = "reading"
       THEN /\ got' = [got EXCEPT ![c] = @ \o writing[c]]
            /\ handler' = [handler EXCEPT ![c] = "select"]
       ELSE /\ \E next \in {"select", "unsubscribe"} :
                   handler' = [handler EXCEPT ![c] = next]
            /\ UNCHANGED got
    /\ writing' = [writing EXCEPT ![c] = <<>>]
    /\ UNCHANGED <<published, wire, hubVars, subs, buffer, done, conn, owed, crowded>>

\* Mutant: the hub is changed without its lock.
UnsubscribeUnlocked(c) ==
    /\ handler[c] = "unsubscribe"
    /\ subs' = subs \ {c}
    /\ handler' = [handler EXCEPT ![c] = "returned"]
    /\ buffer'  = [buffer  EXCEPT ![c] = <<>>]
    /\ UNCHANGED <<published, wire, hubVars, writing, done, conn, got, owed, crowded>>

\* The deferred Hub.Unsubscribe, which closes the channel, and conn.Close.
Unsubscribe(c) ==
    /\ handler[c] = "unsubscribe"
    /\ bridge # "offer"
    /\ subs' = subs \ {c}
    /\ handler' = [handler EXCEPT ![c] = "returned"]
    /\ buffer'  = [buffer  EXCEPT ![c] = <<>>]
    /\ UNCHANGED <<published, wire, hubVars, writing, done, conn, got, owed, crowded>>

NoReader(c) == FALSE /\ UNCHANGED vars \* mutant: nobody reads the connection

\* The goroutine that only reads ends with the connection.
Reader(c) ==
    /\ handler[c] # "subscribe" /\ ~done[c]
    /\ conn[c] = "gone" \/ handler[c] = "returned"
    /\ done' = [done EXCEPT ![c] = TRUE]
    /\ UNCHANGED <<published, wire, hubVars, subs, buffer, handler, writing,
                   conn, got, owed, crowded>>

\* A client stops or goes on reading, or leaves.
Client(c) ==
    /\ conn[c] # "gone"
    /\ \E next \in {"reading", "stalled", "gone"} \ {conn[c]} :
           conn' = [conn EXCEPT ![c] = next]
    /\ UNCHANGED <<published, wire, hubVars, streamVars, got, owed, crowded>>

-----------------------------------------------------------------------------
Bridge == Match \/ (\E c \in Clients : Offer(c)) \/ Release

Stream(c) == Subscribe(c) \/ Receive(c) \/ Disconnected(c) \/ Write(c) \/ Unsubscribe(c)

\* At rest: everything is published and delivered, everybody has left.
Rest == /\ published = MaxEvents /\ wire = <<>> /\ bridge = "receive"
        /\ \A c \in Clients : handler[c] = "returned" /\ done[c]

Next == \/ \E n \in Notif : Publish(n)
        \/ Bridge
        \/ \E c \in Clients : Stream(c) \/ Reader(c) \/ Client(c)
        \/ Rest /\ UNCHANGED vars

Spec == Init /\ [][Next]_vars

(* The goroutines run; a writer that waits for the hub's lock gets it, for a *)
(* RWMutex lets no new reader in before it.  Clients and workers owe nothing. *)
Fairness == /\ WF_vars(Bridge)
            /\ \A c \in Clients :
                   /\ WF_vars(Receive(c) \/ Disconnected(c) \/ Write(c))
                   /\ SF_vars(Disconnected(c))
                   /\ SF_vars(Subscribe(c) \/ Unsubscribe(c))
                   /\ WF_vars(Reader(c))

FairSpec == Spec /\ Fairness

-----------------------------------------------------------------------------
(* Properties *)

\* The variables have their types, and a publication that is over has reached
\* every subscriber.
TypeOK ==
    /\ published \in 0..MaxEvents
    /\ wire \in Seq(Event)
    /\ bridge \in {"receive", "offer"}
    /\ todo \subseteq Clients /\ subs \subseteq Clients
    /\ bridge = "receive" => todo = {}
    /\ event \in Event \cup {<<>>} /\ (bridge = "offer" => event \in Event)
    /\ buffer  \in [Clients -> Seq(Event)]
    /\ handler \in [Clients -> Stages]
    /\ writing \in [Clients -> Seq(Event)]
    /\ done    \in [Clients -> BOOLEAN]
    /\ conn    \in [Clients -> {"reading", "stalled", "gone"}]
    /\ got     \in [Clients -> Seq(Event)]
    /\ owed    \in [Clients -> Seq(Event)]
    /\ crowded \in [Clients -> SUBSET Event]

\* Hub.Publish never sends on a closed channel, which would panic: a channel
\* it has still to reach is open, however handlers come and go.
NoSendOnClosed == \A c \in todo : Subscribed(c)

\* Where an event for client c is after the hub saw it.
Arrived(c) == got[c] \o writing[c] \o buffer[c]

Due(c) == IF c \in todo THEN Front(owed[c]) ELSE owed[c]

\* A connected client gets events of its own key, each at most once and in the
\* order of publication, and misses only those that found its channel full when
\* the hub saw them, however much it got before.
StreamInOrder ==
    \A c \in Clients :
        Subscribed(c) /\ conn[c] # "gone" =>
            /\ \A i, j \in 1..Len(Arrived(c)) :
                   i < j => Arrived(c)[i].no < Arrived(c)[j].no
            /\ ToSet(Arrived(c)) \subseteq ToSet(Due(c))
            /\ ToSet(Due(c)) \ crowded[c] \subseteq ToSet(Arrived(c))

\* A slow or stuck client never blocks the bridge: Hub.Publish always returns.
PublishReturns == bridge = "offer" ~> bridge = "receive"

\* No connection leaks: once the client is gone its handler and its reader end
\* and the hub forgets its channel.
GoneIsForgotten ==
    \A c \in Clients :
        conn[c] = "gone" ~> handler[c] = "returned" /\ done[c] /\ c \notin subs
=============================================================================

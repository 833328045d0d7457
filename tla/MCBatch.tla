------------------------------ MODULE MCBatch ------------------------------
(* Small instances of Batch for TLC. *)
EXTENDS Batch, TLC

CONSTANTS n1, n2, n3, n4, b1, b2, b3, k1, k2, t1

\* b2 is b1 sent again in part and the single n4 another try, all with the key
\* of its first item; b3 is empty.
TheItems == b1 :> <<n1, n2>> @@ b2 :> <<n3>> @@ b3 :> <<>>

TheKeys == n1 :> k1 @@ n2 :> k2 @@ n3 :> k1 @@ n4 :> k1

AllNormal == [n \in Notif |-> "normal"]

NoSources == [p \in Promoters |-> "sched"]

\* Lengths are in a unit of which 2, 3 and 4 stand for 1600, 4000 and 100000.
TheLimits == [sms |-> 2, push |-> 3, email |-> 4]

\* "Hello {{name}}"
TheBody == t1 :> [text |-> 1, needs |-> {"name"}]

Plain == [channel |-> "sms", priority |-> "", recipient |-> TRUE, content |-> 2,
          template |-> NoTemplate, values |-> [v \in {} |-> 0]]

Greeting(length) ==
    [Plain EXCEPT !.content = 0, !.template = t1, !.values = [name |-> length]]

Anonymous == [Plain EXCEPT !.recipient = FALSE]

\* What the second item of b1 and the single request may ask for.
TheWishes ==
    n1 :> {Plain} @@ n3 :> {Plain} @@ n4 :> {Greeting(1), Anonymous}
    @@ n2 :> {Plain, Greeting(1), Greeting(2), Anonymous,
              [Greeting(1) EXCEPT !.values = [v \in {} |-> 0]]}
=============================================================================

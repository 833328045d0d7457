----------------------------- MODULE Throttling -----------------------------
(***************************************************************************)
(* The rate limiter of one channel and the way a throttled item takes      *)
(* through the retry set of a worker process, on one clock: a fixed window *)
(* of a second is a Redis counter that expires, an item that finds its     *)
(* window full is due again a second later, and due times are whole        *)
(* seconds.  (Notifier lets the limiter answer either way and due times    *)
(* pass at any moment.)                                                    *)
(***************************************************************************)
EXTENDS Integers, FiniteSets

CONSTANTS
    Items,       \* bound: the work items that are on their way at once
    Workers,
    None,        \* no item, no expiry
    PerSec,      \* the limit of the channel
    Fractions,   \* instants that a second is divided into
    LastSecond,  \* bound: the clock
    MaxFaults    \* bound: calls that fail and workers that die

Windows == 0..LastSecond

Unset == 0 \* the score of an item that waits in no set

Time == [s : Nat, f : 0..Fractions - 1]

ASSUME ThrottlingAssumption ==
    /\ IsFiniteSet(Workers)
    /\ PerSec \in Nat /\ LastSecond \in Nat /\ MaxFaults \in Nat
    /\ Fractions \in Nat \ {0}
    /\ None \notin Items \cup Time

VARIABLES
    sec, frac,       \* the clock
    count, expires,  \* the counters rate:<channel>:<window> and their expiry
    place, due,      \* of an item: where it is, the time it is next due
    pc, item,        \* of a worker: its next step, its item,
    window, got,     \* the window it asks and the count it was answered
    asked,           \* history: the window an item asked last,
    admitted,        \* the items let through by a window up to its expiry,
    recent,          \* and what was let through in the last second: by which
                     \* window and count, to which worker and when
    faults

clockVars  == <<sec, frac>>
itemVars   == <<place, due>>
keyVars    == <<count, expires>>
workerVars == <<pc, item, window, got>>
history    == <<asked, admitted, recent>>
vars       == <<clockVars, keyVars, itemVars, workerVars, history, faults>>

Init ==
    /\ sec = 0 /\ frac = 0
    /\ count    = [s \in Windows |-> 0]
    /\ expires  = [s \in Windows |-> None]
    /\ place    = [i \in Items |-> "none"]
    /\ due      = [i \in Items |-> Unset]
    /\ pc       = [w \in Workers |-> "idle"]
    /\ item     = [w \in Workers |-> None]
    /\ window   = [w \in Workers |-> 0]
    /\ got      = [w \in Workers |-> 0]
    /\ asked    = [i \in Items |-> -1]
    /\ admitted = [s \in Windows |-> 0]
    /\ recent   = {}
    /\ faults   = 0

Fault == faults < MaxFaults /\ faults' = faults + 1

Goto(w, step) == pc' = [pc EXCEPT ![w] = step]

Done(w) == /\ Goto(w, "idle")
           /\ item'   = [item   EXCEPT ![w] = None]
           /\ window' = [window EXCEPT ![w] = 0]
           /\ got'    = [got    EXCEPT ![w] = 0]

-----------------------------------------------------------------------------
\* Redis drops a key when its time to live has run out.
Expired(s, now) ==
    /\ expires[s] # None
    /\ expires[s].s < now.s \/ (expires[s].s = now.s /\ expires[s].f <= now.f)

\* Less than a second ago.
JustBefore(t, now) == t.s = now.s \/ (t.s + 1 = now.s /\ t.f > now.f)

Tick ==
    LET now == IF frac + 1 < Fractions THEN [s |-> sec, f |-> frac + 1]
                                       ELSE [s |-> sec + 1, f |-> 0]
    IN  /\ now.s <= LastSecond
        /\ sec' = now.s /\ frac' = now.f
        /\ count'   = [s \in Windows |-> IF Expired(s, now) THEN 0 ELSE count[s]]
        /\ expires' = [s \in Windows |-> IF Expired(s, now) THEN None ELSE expires[s]]
        /\ recent'  = {a \in recent : JustBefore(a.at, now)}
        /\ UNCHANGED <<itemVars, workerVars, asked, admitted, faults>>

\* The item of a notification is pushed to its list.
Enqueue(i) ==
    /\ place[i] = "none"
    /\ place' = [place EXCEPT ![i] = "queue"]
    /\ UNCHANGED <<clockVars, keyVars, due, workerVars, history, faults>>

\* A worker has an item; Allow names the window by the clock of the worker.
Take(w, i) ==
    /\ pc[w] = "idle" /\ place[i] = "queue"
    /\ Goto(w, "incr")
    /\ place'  = [place  EXCEPT ![i] = "worker"]
    /\ item'   = [item   EXCEPT ![w] = i]
    /\ window' = [window EXCEPT ![w] = sec]
    /\ asked'  = [asked  EXCEPT ![i] = sec]
    /\ UNCHANGED <<clockVars, keyVars, due, got, admitted, recent, faults>>

AdmitsOneMore(n) == n <= PerSec + 1 \* mutant

\* n <= perSec
Admits(n) == n <= PerSec

ExpireAtLimit(n) == n = PerSec + 1 \* mutant: the full window is given its expiry

\* The count at which the expiry is set.
First(n) == n = 1

Admission(w, s, n) == [window |-> s, no |-> n, by |-> w, at |-> [s |-> sec, f |-> frac]]

\* INCR creates the key of a window or counts on.
Incr(w) ==
    LET s == window[w]
        n == count[s] + 1
    IN  /\ pc[w] = "incr"
        /\ count' = [count EXCEPT ![s] = n]
        /\ got'   = [got   EXCEPT ![w] = n]
        /\ Goto(w, IF First(n) THEN "expire" ELSE "verdict")
        /\ admitted' = [admitted EXCEPT ![s] =
                            IF Admits(n) /\ sec < s + 2 THEN @ + 1 ELSE @]
        /\ recent' = recent \cup {a \in {Admission(w, s, n)} : Admits(n)}
        /\ UNCHANGED <<clockVars, expires, itemVars, item, window, asked, faults>>

LivesOneSecond == [s |-> sec + 1, f |-> frac] \* mutant

\* Two seconds from now.
KeyExpiry == [s |-> sec + 2, f |-> frac]

\* EXPIRE, its error ignored.
Expire(w) ==
    /\ pc[w] = "expire"
    /\ \/ /\ expires' = [expires EXCEPT ![window[w]] = KeyExpiry]
          /\ UNCHANGED faults
       \/ Fault /\ UNCHANGED expires
    /\ Goto(w, "verdict")
    /\ UNCHANGED <<clockVars, count, itemVars, item, window, got, history>>

\* Now and a second, in whole seconds: the score of the item in the retry set.
InASecond == sec + 1

\* The item is sent, or the worker reads the clock for Retry.Schedule.
Decide(w) ==
    /\ pc[w] = "verdict"
    /\ IF Admits(got[w])
       THEN /\ place' = [place EXCEPT ![item[w]] = "none"]
            /\ asked' = [asked EXCEPT ![item[w]] = -1]
            /\ Done(w)
            /\ UNCHANGED due
       ELSE /\ due' = [due EXCEPT ![item[w]] = InASecond]
            /\ Goto(w, "schedule")
            /\ UNCHANGED <<place, item, window, got, asked>>
    /\ UNCHANGED <<clockVars, keyVars, admitted, recent, faults>>

\* ZADD
Schedule(w) ==
    /\ pc[w] = "schedule"
    /\ place' = [place EXCEPT ![item[w]] = "retry"]
    /\ Done(w)
    /\ UNCHANGED <<clockVars, keyVars, due, history, faults>>

\* The item is lost: the call fails or the worker dies.
Die(w) ==
    /\ pc[w] # "idle"
    /\ Fault
    /\ place' = [place EXCEPT ![item[w]] = "none"]
    /\ Done(w)
    /\ due' = [due EXCEPT ![item[w]] = Unset]
    /\ asked' = [asked EXCEPT ![item[w]] = -1]
    /\ UNCHANGED <<clockVars, keyVars, admitted, recent>>

DueRounded(i) == due[i] <= sec + 1 \* mutant: the promoter's clock is rounded up

\* Both the score and the promoter's now are cut to whole seconds.
DuePassed(i) == due[i] <= sec

\* Mutant: the answer of ZREM is not looked at.
PromoteRegardless(i) ==
    /\ place[i] \in {"retry", "worker"}
    /\ DuePassed(i)
    /\ place' = [place EXCEPT ![i] = "queue"]
    /\ due'   = [due   EXCEPT ![i] = Unset]
    /\ UNCHANGED <<clockVars, keyVars, workerVars, history, faults>>

\* The promoter of the worker process moves a due item back to its list: with
\* one of them no snapshot is stale (with more, see Promoter and Notifier).
Promote(i) ==
    /\ place[i] = "retry"
    /\ DuePassed(i)
    /\ place' = [place EXCEPT ![i] = "queue"]
    /\ due'   = [due   EXCEPT ![i] = Unset]
    /\ UNCHANGED <<clockVars, keyVars, workerVars, history, faults>>

Step(w) == Incr(w) \/ Expire(w) \/ Decide(w) \/ Schedule(w)

\* The end of the clock.
Rest == sec = LastSecond /\ \A w \in Workers : pc[w] = "idle"

Next ==
    \/ Tick
    \/ \E w \in Workers : (\E i \in Items : Take(w, i)) \/ Step(w) \/ Die(w)
    \/ \E i \in Items : Enqueue(i) \/ Promote(i)
    \/ Rest /\ UNCHANGED vars

Spec == Init /\ [][Next]_vars

-----------------------------------------------------------------------------
Types ==
    /\ sec \in Windows /\ frac \in 0..Fractions - 1
    /\ count \in [Windows -> Nat]
    /\ expires \in [Windows -> Time \cup {None}]
    /\ place \in [Items -> {"none", "queue", "worker", "retry"}]
    /\ due \in [Items -> Nat]
    /\ pc \in [Workers -> {"idle", "incr", "expire", "verdict", "schedule"}]
    /\ item \in [Workers -> Items \cup {None}]
    /\ window \in [Workers -> Windows] /\ got \in [Workers -> Nat]
    /\ asked \in [Items -> Windows \cup {-1}]
    /\ admitted \in [Windows -> Nat]
    /\ recent \subseteq [window : Windows, no : Nat, by : Workers, at : Time]
    /\ faults \in 0..MaxFaults

\* The clock, the counters, the items and the workers have the types of their
\* operations, and an item is with a worker exactly while one has it.
TypeOK ==
    /\ Types
    /\ \A w \in Workers : pc[w] = "idle" <=> item[w] = None
    /\ \A i \in Items : place[i] = "worker" <=> \E w \in Workers : item[w] = i

\* A window lets PerSec items through and no more, whatever workers ask it,
\* late or again, until its expiry two seconds after it began.
WindowLimit == \A s \in Windows : admitted[s] <= PerSec

\* What the fixed windows leave of the limit: within any one second two windows let
\* items through, and every worker may come with one answer more from a window it
\* named before that second.  It is all that holds in place of AtMostPerSecond.
BurstBounded == Cardinality(recent) <= 2 * PerSec + Cardinality(Workers)

\* An item in its list has not asked the current window yet: however due times
\* are rounded, the window that refused an item is not asked by it again.
RetriesMeetNewWindow ==
    \A i \in Items : place[i] = "queue" => asked[i] < sec

\* Unless a call failed, no counter stays without an expiry.
CountersExpire ==
    faults = 0 =>
        \A s \in Windows : count[s] > 0 /\ expires[s] = None =>
            \E w \in Workers : pc[w] = "expire" /\ window[w] = s

-----------------------------------------------------------------------------
(* What the documentation says and the code does not do *)

\* "per-channel rate limiting (max 100 msg/s/channel)": no more than PerSec items of
\* a channel are let through within any one second, wherever it begins.
AtMostPerSecond == Cardinality(recent) <= PerSec
=============================================================================

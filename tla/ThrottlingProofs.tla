-------------------------- MODULE ThrottlingProofs --------------------------
(* Theorems about Throttling, for any limit, number of items, workers and    *)
(* faults, and any length and resolution of the clock.                       *)
EXTENDS Throttling, FiniteSetTheorems, FunctionTheorems, TLAPS

\* Who has an item: a worker that is busy, and one worker only.
Owners ==
    /\ \A w \in Workers : pc[w] = "idle" <=> item[w] = None
    /\ \A i \in Items : place[i] = "worker" <=> \E w \in Workers : item[w] = i
    /\ \A v, w \in Workers : item[v] = item[w] /\ item[v] # None => v = w

Typed == TypeOK /\ Owners

LEMMA Times == /\ 0 \in Windows
               /\ Unset \in Nat
               /\ None \notin Time
               /\ Types => InASecond \in Nat /\ KeyExpiry \in Time
<1>1. 0 \in Windows BY ThrottlingAssumption DEF Windows
<1>2. Unset \in Nat BY ThrottlingAssumption DEF Unset
<1>3. None \notin Time BY ThrottlingAssumption DEF Time
<1>4. ASSUME Types PROVE InASecond \in Nat /\ KeyExpiry \in Time
    <2>1. sec \in Nat /\ frac \in 0..Fractions - 1
        BY <1>4, ThrottlingAssumption DEF Types, Windows
    <2>. QED BY <2>1 DEF InASecond, KeyExpiry, Time
<1>. QED BY <1>1, <1>2, <1>3, <1>4

LEMMA TypedInit == Init => Typed
<1>. SUFFICES ASSUME Init PROVE Typed OBVIOUS
<1>1. Types
    BY ThrottlingAssumption, Times DEF Init, Types, Windows
<1>2. \A i \in Items : i # None BY ThrottlingAssumption
<1>3. Owners BY <1>2 DEF Init, Owners
<1>. QED BY <1>1, <1>3 DEF Typed, TypeOK, Owners

LEMMA OwnersStep == Typed /\ [Next]_vars => Owners'
<1>. SUFFICES ASSUME Typed, [Next]_vars PROVE Owners' OBVIOUS
<1>. /\ place \in [Items -> {"none", "queue", "worker", "retry"}]
     /\ pc \in [Workers -> {"idle", "incr", "expire", "verdict", "schedule"}]
     /\ item \in [Workers -> Items \cup {None}]
     /\ None \notin Items
     /\ Owners
    BY ThrottlingAssumption DEF Typed, TypeOK, Types
<1>. USE DEF Owners, itemVars, workerVars
<1>1. CASE Tick BY <1>1 DEF Tick
<1>2. ASSUME NEW i \in Items, Enqueue(i) PROVE Owners' BY <1>2 DEF Enqueue
<1>3. ASSUME NEW w \in Workers, NEW i \in Items, Take(w, i) PROVE Owners'
    BY <1>3 DEF Take, Goto
<1>4. ASSUME NEW w \in Workers, Incr(w) PROVE Owners' BY <1>4 DEF Incr, Goto
<1>5. ASSUME NEW w \in Workers, Expire(w) PROVE Owners' BY <1>5 DEF Expire, Goto
<1>6. ASSUME NEW w \in Workers, Decide(w) PROVE Owners' BY <1>6 DEF Decide, Goto, Done
<1>7. ASSUME NEW w \in Workers, Schedule(w) PROVE Owners' BY <1>7 DEF Schedule, Goto, Done
<1>8. ASSUME NEW w \in Workers, Die(w) PROVE Owners' BY <1>8 DEF Die, Goto, Done
<1>9. ASSUME NEW i \in Items, Promote(i) PROVE Owners' BY <1>9 DEF Promote
<1>10. CASE UNCHANGED vars BY <1>10 DEF vars
<1>. QED BY <1>1, <1>2, <1>3, <1>4, <1>5, <1>6, <1>7, <1>8, <1>9, <1>10 DEF Next, Step

LEMMA TypedStep == Typed /\ [Next]_vars => Typed'
<1>. SUFFICES ASSUME Typed, [Next]_vars, Owners' PROVE Types' 
    BY OwnersStep DEF Typed, TypeOK, Owners
<1>. USE ThrottlingAssumption
     DEF Types, clockVars, keyVars, itemVars, workerVars, history
<1>0. Types BY DEF Typed, TypeOK
<1>b. \A w \in Workers : pc[w] # "idle" => item[w] \in Items
    BY <1>0 DEF Typed, Owners
<1>1. CASE Tick
    <2>1. sec' \in Windows /\ frac' \in 0..Fractions - 1
        BY <1>0, <1>1 DEF Tick, Windows
    <2>2. count' \in [Windows -> Nat] BY <1>0, <1>1 DEF Tick
    <2>3. expires' \in [Windows -> Time \cup {None}] BY <1>0, <1>1 DEF Tick
    <2>4. recent' \subseteq recent BY <1>1 DEF Tick
    <2>. QED BY <1>0, <1>1, <2>1, <2>2, <2>3, <2>4 DEF Tick
<1>2. ASSUME NEW i \in Items, Enqueue(i) PROVE Types' BY <1>0, <1>2 DEF Enqueue
<1>3. ASSUME NEW w \in Workers, NEW i \in Items, Take(w, i) PROVE Types'
    <2>1. asked' \in [Items -> Windows \cup {-1}] BY <1>0, <1>3 DEF Take
    <2>2. window' \in [Workers -> Windows] /\ item' \in [Workers -> Items \cup {None}]
        BY <1>0, <1>3 DEF Take
    <2>. QED BY <1>0, <1>3, <2>1, <2>2 DEF Take, Goto
<1>4. ASSUME NEW w \in Workers, Incr(w) PROVE Types'
    <2>1. count' \in [Windows -> Nat] /\ got' \in [Workers -> Nat] BY <1>0, <1>4 DEF Incr
    <2>2. admitted' \in [Windows -> Nat] BY <1>0, <1>4 DEF Incr
    <2>3. recent' \subseteq [window : Windows, no : Nat, by : Workers, at : Time]
        <3>1. [s |-> sec, f |-> frac] \in Time BY <1>0 DEF Time, Windows
        <3>2. Admission(w, window[w], count[window[w]] + 1)
                 \in [window : Windows, no : Nat, by : Workers, at : Time]
            BY <1>0, <3>1 DEF Admission
        <3>. QED BY <1>0, <1>4, <3>2 DEF Incr
    <2>4. pc' \in [Workers -> {"idle", "incr", "expire", "verdict", "schedule"}]
        BY <1>0, <1>4 DEF Incr, Goto
    <2>. QED BY <1>0, <1>4, <2>1, <2>2, <2>3, <2>4 DEF Incr, Goto
<1>5. ASSUME NEW w \in Workers, Expire(w) PROVE Types'
    <2>1. expires' \in [Windows -> Time \cup {None}] BY <1>0, <1>5, Times DEF Expire
    <2>2. faults' \in 0..MaxFaults BY <1>0, <1>5 DEF Expire, Fault
    <2>. QED BY <1>0, <1>5, <2>1, <2>2 DEF Expire, Goto
<1>6. ASSUME NEW w \in Workers, Decide(w) PROVE Types'
    <2>1. item[w] \in Items BY <1>b, <1>6 DEF Decide
    <2>2. CASE Admits(got[w])
        <3>0. Done(w) BY <1>6, <2>2 DEF Decide
        <3>1. window' \in [Workers -> Windows] /\ got' \in [Workers -> Nat]
            BY <1>0, <3>0, Times DEF Done
        <3>. QED BY <1>0, <1>6, <2>1, <2>2, <3>1 DEF Decide, Goto, Done
    <2>3. CASE ~Admits(got[w])
        <3>1. due' \in [Items -> Nat] BY <1>0, <1>6, <2>1, <2>3, Times DEF Decide
        <3>. QED BY <1>0, <1>6, <2>1, <2>3, <3>1 DEF Decide, Goto
    <2>. QED BY <2>2, <2>3
<1>7. ASSUME NEW w \in Workers, Schedule(w) PROVE Types'
    <2>1. window' \in [Workers -> Windows] /\ got' \in [Workers -> Nat]
        BY <1>0, <1>7, Times DEF Schedule, Done
    <2>. QED BY <1>0, <1>7, <2>1 DEF Schedule, Goto, Done
<1>8. ASSUME NEW w \in Workers, Die(w) PROVE Types'
    <2>1. window' \in [Workers -> Windows] /\ got' \in [Workers -> Nat]
        BY <1>0, <1>8, Times DEF Die, Done
    <2>2. due' \in [Items -> Nat] BY <1>0, <1>8, Times DEF Die
    <2>3. faults' \in 0..MaxFaults BY <1>0, <1>8 DEF Die, Fault
    <2>. QED BY <1>0, <1>8, <2>1, <2>2, <2>3 DEF Die, Goto, Done
<1>9. ASSUME NEW i \in Items, Promote(i) PROVE Types'
    <2>1. due' \in [Items -> Nat] BY <1>0, <1>9, Times DEF Promote
    <2>. QED BY <1>0, <1>9, <2>1 DEF Promote
<1>10. CASE UNCHANGED vars BY <1>0, <1>10 DEF vars
<1>. QED BY <1>1, <1>2, <1>3, <1>4, <1>5, <1>6, <1>7, <1>8, <1>9, <1>10 DEF Next, Step

\* The clock, the counters, the items and the workers keep their types.
THEOREM ThrottlingTypeCorrect == Spec => []TypeOK
BY TypedInit, TypedStep, PTL DEF Spec, Typed

-----------------------------------------------------------------------------
(* A window that can still be asked in time has its counter, which is not    *)
(* below the number of items it let through.                                 *)

NamedInPast == \A w \in Workers : window[w] <= sec

Counted(s) ==
    /\ admitted[s] <= PerSec
    /\ sec < s + 2 => /\ admitted[s] <= count[s]
                      /\ expires[s] = None \/ expires[s].s >= s + 2

Limited == NamedInPast /\ \A s \in Windows : Counted(s)

LEMMA LimitedInit == Init => Limited
BY ThrottlingAssumption DEF Init, Limited, NamedInPast, Counted, Windows

LEMMA LimitedStep == Types /\ Limited /\ [Next]_vars => Limited'
<1>. SUFFICES ASSUME Types, Limited, [Next]_vars PROVE Limited' OBVIOUS
<1>. USE DEF Limited, NamedInPast, Counted, clockVars, keyVars, itemVars,
     workerVars, history
<1>0. /\ PerSec \in Nat /\ LastSecond \in Nat /\ Fractions \in Nat \ {0}
      /\ sec \in Nat /\ frac \in Nat
      /\ count \in [Windows -> Nat] /\ admitted \in [Windows -> Nat]
      /\ expires \in [Windows -> Time \cup {None}]
      /\ window \in [Workers -> Windows]
      /\ \A s \in Windows : s \in Nat
    BY ThrottlingAssumption DEF Types, Windows
<1>1. CASE Tick
    <2>1. sec <= sec' /\ sec' \in Nat BY <1>0, <1>1 DEF Tick
    <2>2. NamedInPast' BY <1>0, <1>1, <2>1 DEF Tick
    <2>3. ASSUME NEW s \in Windows PROVE Counted(s)'
        <3>1. CASE sec' < s + 2
            <4>. DEFINE now == [s |-> sec', f |-> frac']
            <4>1. now = IF frac + 1 < Fractions THEN [s |-> sec, f |-> frac + 1]
                                                ELSE [s |-> sec + 1, f |-> 0]
                BY <1>0, <1>1 DEF Tick
            <4>2. ~Expired(s, now)
                BY <1>0, <2>1, <2>3, <3>1, ThrottlingAssumption DEF Expired, Time
            <4>3. count'[s] = count[s] /\ expires'[s] = expires[s]
                BY <1>0, <1>1, <2>3, <4>1, <4>2 DEF Tick
            <4>. QED BY <1>0, <1>1, <2>1, <2>3, <3>1, <4>3 DEF Tick
        <3>2. CASE ~(sec' < s + 2) BY <1>0, <1>1, <2>3, <3>2 DEF Tick
        <3>. QED BY <3>1, <3>2
    <2>. QED BY <2>2, <2>3
<1>2. ASSUME NEW i \in Items, Enqueue(i) PROVE Limited' BY <1>0, <1>2 DEF Enqueue
<1>3. ASSUME NEW w \in Workers, NEW i \in Items, Take(w, i) PROVE Limited'
    BY <1>0, <1>3 DEF Take
<1>4. ASSUME NEW w \in Workers, Incr(w) PROVE Limited'
    <2>1. NamedInPast' BY <1>0, <1>4 DEF Incr
    <2>2. ASSUME NEW s \in Windows PROVE Counted(s)'
        <3>1. CASE s = window[w] BY <1>0, <1>4, <2>2, <3>1 DEF Incr, Admits
        <3>2. CASE s # window[w] BY <1>0, <1>4, <2>2, <3>2 DEF Incr
        <3>. QED BY <3>1, <3>2
    <2>. QED BY <2>1, <2>2
<1>5. ASSUME NEW w \in Workers, Expire(w) PROVE Limited'
    <2>1. KeyExpiry.s >= window[w] + 2 BY <1>0, <1>5 DEF KeyExpiry
    <2>. QED BY <1>0, <1>5, <2>1 DEF Expire
<1>6. ASSUME NEW w \in Workers, Decide(w) PROVE Limited' BY <1>0, <1>6 DEF Decide, Done
<1>7. ASSUME NEW w \in Workers, Schedule(w) PROVE Limited' BY <1>0, <1>7 DEF Schedule, Done
<1>8. ASSUME NEW w \in Workers, Die(w) PROVE Limited' BY <1>0, <1>8 DEF Die, Done
<1>9. ASSUME NEW i \in Items, Promote(i) PROVE Limited' BY <1>0, <1>9 DEF Promote
<1>10. CASE UNCHANGED vars BY <1>0, <1>10 DEF vars
<1>. QED BY <1>1, <1>2, <1>3, <1>4, <1>5, <1>6, <1>7, <1>8, <1>9, <1>10 DEF Next, Step

\* A window never lets more than PerSec items through, however late its key is
\* given an expiry, and whatever calls fail and workers die.
THEOREM WindowLimitCorrect == Spec => []WindowLimit
<1>1. Init => Typed /\ Limited BY TypedInit, LimitedInit
<1>2. Typed /\ Limited /\ [Next]_vars => (Typed /\ Limited)'
    BY TypedStep, LimitedStep DEF Typed, TypeOK
<1>3. Limited => WindowLimit BY DEF Limited, Counted, WindowLimit
<1>. QED BY <1>1, <1>2, <1>3, PTL DEF Spec

-----------------------------------------------------------------------------
(* The due time of a refused item is in a later second than its last window. *)

DueLater(i) == due[i] > asked[i]

NextWindow ==
    /\ RetriesMeetNewWindow
    /\ \A i \in Items : asked[i] <= sec
    /\ \A i \in Items : place[i] = "none" => asked[i] = -1
    /\ \A i \in Items : place[i] = "retry" => DueLater(i)
    /\ \A w \in Workers : pc[w] = "schedule" => DueLater(item[w])

LEMMA NextWindowInit == Init => NextWindow
BY DEF Init, NextWindow, RetriesMeetNewWindow, DueLater

LEMMA NextWindowStep == Typed /\ NextWindow /\ [Next]_vars => NextWindow'
<1>. SUFFICES ASSUME Typed, NextWindow, [Next]_vars PROVE NextWindow' OBVIOUS
<1>. USE DEF NextWindow, RetriesMeetNewWindow, DueLater, clockVars, keyVars, itemVars,
             workerVars, history
<1>0. /\ sec \in Nat
      /\ asked \in [Items -> Int]
      /\ place \in [Items -> {"none", "queue", "worker", "retry"}]
      /\ due \in [Items -> Nat]
      /\ pc \in [Workers -> {"idle", "incr", "expire", "verdict", "schedule"}]
      /\ item \in [Workers -> Items \cup {None}]
      /\ None \notin Items
    BY ThrottlingAssumption DEF Typed, TypeOK, Types, Windows, Time
<1>b. Owners BY DEF Typed
<1>1. CASE Tick
    <2>1. sec <= sec' /\ sec' \in Nat BY <1>0, <1>1 DEF Tick
    <2>2. UNCHANGED <<place, due, asked, pc, item>> BY <1>0, <1>1 DEF Tick
    <2>. QED BY <1>0, <2>1, <2>2
<1>2. ASSUME NEW i \in Items, Enqueue(i) PROVE NextWindow' BY <1>0, <1>2 DEF Enqueue
<1>3. ASSUME NEW w \in Workers, NEW i \in Items, Take(w, i) PROVE NextWindow'
    BY <1>0, <1>b, <1>3 DEF Owners, Take, Goto
<1>4. ASSUME NEW w \in Workers, Incr(w) PROVE NextWindow' BY <1>0, <1>4 DEF Incr, Goto
<1>5. ASSUME NEW w \in Workers, Expire(w) PROVE NextWindow' BY <1>0, <1>5 DEF Expire, Goto
<1>6. ASSUME NEW w \in Workers, Decide(w) PROVE NextWindow'
    <2>. DEFINE i == item[w]
    <2>1. i \in Items /\ place[i] = "worker" /\ \A v \in Workers : item[v] = i => v = w
        BY <1>0, <1>b, <1>6 DEF Owners, Decide
    <2>2. CASE Admits(got[w])
        <3>1. /\ place'[i] = "none" /\ asked'[i] = -1 /\ UNCHANGED <<sec, due>>
              /\ \A j \in Items : j # i => place'[j] = place[j] /\ asked'[j] = asked[j]
            BY <1>0, <1>6, <2>1, <2>2 DEF Decide
        <3>2. \A v \in Workers : pc'[v] = "schedule" =>
                  pc[v] = "schedule" /\ item'[v] = item[v] /\ item[v] # i /\ item[v] \in Items
            BY <1>0, <1>b, <1>6, <2>1, <2>2 DEF Decide, Done, Goto, Owners
        <3>. QED BY <1>0, <2>1, <3>1, <3>2
    <2>3. CASE ~Admits(got[w])
        <3>1. /\ UNCHANGED <<sec, place, asked, item>> /\ due'[i] = sec + 1
              /\ \A j \in Items : j # i => due'[j] = due[j]
            BY <1>0, <1>6, <2>1, <2>3 DEF Decide, InASecond
        <3>2. \A v \in Workers : pc'[v] = "schedule" =>
                  v = w \/ (pc[v] = "schedule" /\ item[v] # i /\ item[v] \in Items)
            BY <1>0, <1>b, <1>6, <2>1, <2>3 DEF Decide, Goto, Owners
        <3>. QED BY <1>0, <2>1, <3>1, <3>2
    <2>. QED BY <2>2, <2>3
<1>7. ASSUME NEW w \in Workers, Schedule(w) PROVE NextWindow'
    BY <1>0, <1>b, <1>7 DEF Owners, Schedule, Goto, Done
<1>8. ASSUME NEW w \in Workers, Die(w) PROVE NextWindow'
    <2>1. /\ item[w] \in Items /\ place[item[w]] = "worker" /\ place'[item[w]] = "none"
          /\ asked'[item[w]] = -1 /\ sec' = sec
          /\ \A v \in Workers \ {w} : item[v] # item[w] /\ item'[v] = item[v] /\ pc'[v] = pc[v]
          /\ pc'[w] = "idle"
        BY <1>0, <1>b, <1>8 DEF Owners, Die, Goto, Done
    <2>2. \A i \in Items \ {item[w]} :
              place'[i] = place[i] /\ asked'[i] = asked[i] /\ due'[i] = due[i]
        BY <1>0, <1>8 DEF Die
    <2>3. \A i \in Items : asked'[i] <= sec' BY <1>0, <2>1, <2>2
    <2>4. \A i \in Items : place'[i] # "none" => i # item[w] BY <2>1
    <2>5. \A v \in Workers : pc'[v] = "schedule" => v # w /\ item[v] \in Items
        BY <1>0, <1>b, <2>1 DEF Owners
    <2>. QED BY <2>1, <2>2, <2>3, <2>4, <2>5
<1>9. ASSUME NEW i \in Items, Promote(i) PROVE NextWindow'
    BY <1>0, <1>b, <1>9 DEF Owners, Promote, DuePassed
<1>10. CASE UNCHANGED vars BY <1>0, <1>10 DEF vars
<1>. QED BY <1>1, <1>2, <1>3, <1>4, <1>5, <1>6, <1>7, <1>8, <1>9, <1>10 DEF Next, Step

\* An item that a window refused is promoted in a later second, although due
\* times are cut to whole seconds, so it asks another window.
THEOREM RetriesMeetNewWindowCorrect == Spec => []RetriesMeetNewWindow
<1>1. Init => Typed /\ NextWindow BY TypedInit, NextWindowInit
<1>2. Typed /\ NextWindow /\ [Next]_vars => (Typed /\ NextWindow)'
    BY TypedStep, NextWindowStep
<1>3. NextWindow => RetriesMeetNewWindow BY DEF NextWindow
<1>. QED BY <1>1, <1>2, <1>3, PTL DEF Spec

-----------------------------------------------------------------------------
LEMMA CountersInit == Init => CountersExpire
BY DEF Init, CountersExpire

LEMMA CountersStep == Types /\ CountersExpire /\ [Next]_vars => CountersExpire'
<1>. SUFFICES ASSUME Types, CountersExpire, [Next]_vars PROVE CountersExpire' OBVIOUS
<1>0. /\ faults \in Nat
      /\ count \in [Windows -> Nat]
      /\ expires \in [Windows -> Time \cup {None}]
      /\ window \in [Workers -> Windows]
      /\ pc \in [Workers -> {"idle", "incr", "expire", "verdict", "schedule"}]
      /\ KeyExpiry # None
    BY ThrottlingAssumption, Times DEF Types
<1>. USE DEF CountersExpire, clockVars, keyVars, itemVars, workerVars, history
<1>1. CASE Tick BY <1>0, <1>1 DEF Tick
<1>2. ASSUME NEW i \in Items, Enqueue(i) PROVE CountersExpire' BY <1>2 DEF Enqueue
<1>3. ASSUME NEW w \in Workers, NEW i \in Items, Take(w, i) PROVE CountersExpire'
    BY <1>0, <1>3 DEF Take, Goto
<1>4. ASSUME NEW w \in Workers, Incr(w) PROVE CountersExpire'
    <2>. SUFFICES ASSUME faults = 0, NEW s \in Windows,
                         count'[s] > 0, expires'[s] = None
                  PROVE  \E v \in Workers : pc'[v] = "expire" /\ window'[v] = s
        BY <1>4 DEF Incr
    <2>1. CASE s = window[w] /\ count[s] = 0
        BY <1>0, <1>4, <2>1 DEF Incr, First, Goto
    <2>2. CASE count[s] > 0
        <3>1. PICK v \in Workers : pc[v] = "expire" /\ window[v] = s
            BY <1>4, <2>2 DEF Incr
        <3>. QED BY <1>0, <1>4, <3>1 DEF Incr, Goto
    <2>. QED BY <1>0, <1>4, <2>1, <2>2 DEF Incr
<1>5. ASSUME NEW w \in Workers, Expire(w) PROVE CountersExpire'
    BY <1>0, <1>5 DEF Expire, Goto, Fault
<1>6. ASSUME NEW w \in Workers, Decide(w) PROVE CountersExpire'
    BY <1>0, <1>6 DEF Decide, Goto, Done
<1>7. ASSUME NEW w \in Workers, Schedule(w) PROVE CountersExpire'
    BY <1>0, <1>7 DEF Schedule, Goto, Done
<1>8. ASSUME NEW w \in Workers, Die(w) PROVE CountersExpire' BY <1>0, <1>8 DEF Die, Fault
<1>9. ASSUME NEW i \in Items, Promote(i) PROVE CountersExpire' BY <1>9 DEF Promote
<1>10. CASE UNCHANGED vars BY <1>10 DEF vars
<1>. QED BY <1>1, <1>2, <1>3, <1>4, <1>5, <1>6, <1>7, <1>8, <1>9, <1>10 DEF Next, Step

\* As long as no call fails, every counter gets its expiry: Redis does not keep
\* the windows of the past.
THEOREM CountersExpireCorrect == Spec => []CountersExpire
<1>1. Init => Typed /\ CountersExpire BY TypedInit, CountersInit
<1>2. Typed /\ CountersExpire /\ [Next]_vars => (Typed /\ CountersExpire)'
    BY TypedStep, CountersStep DEF Typed, TypeOK
<1>. QED BY <1>1, <1>2, PTL DEF Spec

-----------------------------------------------------------------------------
(* What is let through in a second                                           *)

\* The key of the window it was let through by has not expired.
Fresh(a) == sec < a.window + 2

Burst ==
    /\ \A a \in recent : /\ a.no \in 1..PerSec
                         /\ a.window <= a.at.s
                         /\ a.at.s \in {sec - 1, sec}
                         /\ Fresh(a) => a.no <= count[a.window]
    /\ \A a, b \in recent :
           /\ Fresh(a) /\ a.window = b.window /\ a.no = b.no => a = b
           /\ a.by = b.by => (a = b \/ a.window >= b.at.s \/ b.window >= a.at.s)
    /\ \A a \in recent : pc[a.by] = "incr" => window[a.by] >= a.at.s

LEMMA BurstInit == Init => Burst
BY DEF Init, Burst

\* No admission is taken for an earlier one: the history counts them all.
LEMMA AdmissionIsNew ==
    ASSUME Types, Limited, Burst, NEW w \in Workers, pc[w] = "incr"
    PROVE  Admission(w, window[w], count[window[w]] + 1) \notin recent
<1>. DEFINE new == Admission(w, window[w], count[window[w]] + 1)
<1>1. /\ new.window = window[w] /\ new.no = count[window[w]] + 1
      /\ new.by = w /\ new.at.s = sec
    BY DEF Admission
<1>2. sec \in Int /\ window[w] \in Int /\ window[w] <= sec /\ count[window[w]] \in Int
    BY DEF Types, Windows, Limited, NamedInPast
<1>. HIDE DEF new
<1>3. SUFFICES ASSUME new \in recent PROVE FALSE BY DEF new
<1>4. window[w] >= sec BY <1>1, <1>3 DEF Burst
<1>5. Fresh(new) BY <1>1, <1>2, <1>4 DEF Fresh
<1>6. new.no <= count[new.window] BY <1>3, <1>5 DEF Burst
<1>. QED BY <1>1, <1>2, <1>6

LEMMA BurstStep == Types /\ Limited /\ Burst /\ [Next]_vars => Burst'
<1>. SUFFICES ASSUME Types, Limited, Burst, [Next]_vars PROVE Burst' OBVIOUS
<1>0. /\ PerSec \in Nat /\ LastSecond \in Nat /\ Fractions \in Nat \ {0}
      /\ sec \in Nat /\ frac \in Nat
      /\ count \in [Windows -> Nat]
      /\ expires \in [Windows -> Time \cup {None}]
      /\ window \in [Workers -> Windows]
      /\ pc \in [Workers -> {"idle", "incr", "expire", "verdict", "schedule"}]
      /\ \A s \in Windows : s \in Nat
    BY ThrottlingAssumption DEF Types, Windows
<1>a. \A a \in recent : /\ a.window \in Windows /\ a.window \in Nat /\ a.no \in Nat
                        /\ a.by \in Workers /\ a.at.s \in Nat
    BY <1>0 DEF Types, Time
<1>b. ASSUME UNCHANGED <<sec, recent, count>>,
             \A v \in Workers : pc'[v] = "incr" =>
                 \/ (pc[v] = "incr" /\ window'[v] = window[v])
                 \/ window'[v] = sec
      PROVE  Burst'
    BY <1>0, <1>a, <1>b DEF Burst, Fresh
<1>. USE DEF clockVars, keyVars, itemVars, workerVars, history
<1>1. CASE Tick
    <2>. DEFINE now == [s |-> sec', f |-> frac']
    <2>1. sec <= sec' /\ sec' \in Nat BY <1>0, <1>1 DEF Tick
    <2>2. now = IF frac + 1 < Fractions THEN [s |-> sec, f |-> frac + 1]
                                        ELSE [s |-> sec + 1, f |-> 0]
        BY <1>0, <1>1 DEF Tick
    <2>3. \A a \in recent' : a \in recent /\ a.at.s \in {sec' - 1, sec'}
        <3>1. \A a \in recent' : a \in recent /\ JustBefore(a.at, now)
            BY <1>1, <2>2 DEF Tick
        <3>. QED BY <1>a, <2>1, <3>1 DEF JustBefore
    <2>4. ASSUME NEW a \in recent', Fresh(a)' PROVE Fresh(a) /\ count'[a.window] = count[a.window]
        <3>1. a.window \in Windows /\ a.window \in Nat /\ sec' < a.window + 2
            BY <1>a, <2>3, <2>4 DEF Fresh
        <3>2. ~Expired(a.window, now)
            BY <1>0, <2>1, <3>1, ThrottlingAssumption DEF Expired, Time, Limited, Counted
        <3>3. count'[a.window] = count[a.window]
            BY <1>0, <1>1, <2>2, <3>1, <3>2 DEF Tick
        <3>. QED BY <1>0, <2>1, <3>1, <3>3 DEF Fresh
    <2>5. UNCHANGED <<pc, window>> BY <1>1 DEF Tick
    <2>. QED BY <2>3, <2>4, <2>5 DEF Burst
<1>2. ASSUME NEW i \in Items, Enqueue(i) PROVE Burst' BY <1>b, <1>2 DEF Enqueue
<1>3. ASSUME NEW w \in Workers, NEW i \in Items, Take(w, i) PROVE Burst'
    BY <1>0, <1>b, <1>3 DEF Take, Goto
<1>4. ASSUME NEW w \in Workers, Incr(w) PROVE Burst'
    <2>. DEFINE s == window[w]
                n == count[s] + 1
                new == Admission(w, s, n)
    <2>1. /\ new.window = s /\ new.no = n /\ new.by = w /\ new.at.s = sec
        BY DEF Admission
    <2>2. /\ s \in Windows /\ s \in Nat /\ s <= sec /\ n \in Nat /\ n >= 1
          /\ pc[w] = "incr" /\ sec' = sec /\ window' = window
        BY <1>0, <1>4 DEF Incr, Limited, NamedInPast
    <2>3. /\ count'[s] = n /\ \A t \in Windows \ {s} : count'[t] = count[t]
          /\ pc'[w] # "incr" /\ \A v \in Workers \ {w} : pc'[v] = pc[v]
          /\ \A a \in recent' : a \in recent \/ (a = new /\ n <= PerSec)
        BY <1>0, <1>4, <2>2 DEF Incr, Goto, Admits
    <2>. HIDE DEF new
    <2>4. \A a \in recent' : /\ a.no \in 1..PerSec
                             /\ a.window <= a.at.s
                             /\ a.at.s \in {sec - 1, sec}
                             /\ Fresh(a) => a.no <= count'[a.window]
        <3>1. \A a \in recent : count[a.window] <= count'[a.window]
            BY <1>0, <1>a, <2>2, <2>3
        <3>2. \A a \in recent : count[a.window] \in Nat /\ count'[a.window] \in Nat
            BY <1>0, <1>a, <2>2, <2>3
        <3>3. \A a \in recent : Fresh(a) => a.no <= count'[a.window]
            BY <1>a, <3>1, <3>2 DEF Burst
        <3>. QED BY <1>0, <2>1, <2>2, <2>3, <3>3 DEF Burst
    <2>5. \A a \in recent : Fresh(a) /\ a.window = s => a.no < n
        BY <1>0, <1>a, <2>2 DEF Burst
    <2>6. \A a \in recent : a.by = w => s >= a.at.s
        BY <2>2 DEF Burst
    <2>7. ASSUME NEW a \in recent', NEW b \in recent'
          PROVE  /\ Fresh(a) /\ a.window = b.window /\ a.no = b.no => a = b
                 /\ a.by = b.by => (a = b \/ a.window >= b.at.s \/ b.window >= a.at.s)
        <3>1. CASE a \in recent /\ b \in recent BY <3>1 DEF Burst
        <3>2. CASE a \in recent /\ b = new
            BY <1>a, <2>1, <2>2, <2>5, <2>6, <3>2
        <3>3. CASE a = new /\ b \in recent
            BY <1>a, <2>1, <2>2, <2>5, <2>6, <3>3 DEF Fresh
        <3>. QED BY <2>3, <3>1, <3>2, <3>3
    <2>8. \A a \in recent' : pc'[a.by] = "incr" => window[a.by] >= a.at.s
        BY <1>a, <2>1, <2>3 DEF Burst
    <2>. QED BY <2>2, <2>4, <2>7, <2>8 DEF Burst, Fresh
<1>5. ASSUME NEW w \in Workers, Expire(w) PROVE Burst' BY <1>0, <1>b, <1>5 DEF Expire, Goto
<1>6. ASSUME NEW w \in Workers, Decide(w) PROVE Burst' BY <1>0, <1>b, <1>6 DEF Decide, Goto, Done
<1>7. ASSUME NEW w \in Workers, Schedule(w) PROVE Burst' BY <1>0, <1>b, <1>7 DEF Schedule, Goto, Done
<1>8. ASSUME NEW w \in Workers, Die(w) PROVE Burst' BY <1>0, <1>b, <1>8 DEF Die, Goto, Done
<1>9. ASSUME NEW i \in Items, Promote(i) PROVE Burst' BY <1>b, <1>9 DEF Promote
<1>10. CASE UNCHANGED vars BY <1>b, <1>10 DEF vars
<1>. QED BY <1>1, <1>2, <1>3, <1>4, <1>5, <1>6, <1>7, <1>8, <1>9, <1>10 DEF Next, Step

\* Two windows with PerSec counts each, and a late worker only once.
LEMMA BurstImplies == Types /\ Burst => BurstBounded
<1>. SUFFICES ASSUME Types, Burst PROVE BurstBounded OBVIOUS
<1>. DEFINE F == {a \in recent : Fresh(a)}
            Counts == ((sec - 1)..sec) \X (1..PerSec)
            G == recent \ F
<1>0. /\ sec \in Nat /\ PerSec \in Nat /\ IsFiniteSet(Workers)
      /\ \A a \in recent : /\ a.window \in Nat /\ a.by \in Workers /\ a.at.s \in Nat
                           /\ a.no \in 1..PerSec /\ a.window <= a.at.s
                           /\ a.at.s \in {sec - 1, sec}
    <2>1. sec \in Nat /\ PerSec \in Nat /\ IsFiniteSet(Workers)
        BY ThrottlingAssumption DEF Types, Windows
    <2>2. ASSUME NEW a \in recent
          PROVE  a.window \in Nat /\ a.by \in Workers /\ a.at.s \in Nat
        <3>. HIDE DEF F, Counts, G
        <3>1. a \in [window : Windows, no : Nat, by : Workers, at : Time] BY DEF Types
        <3>2. a.window \in Windows /\ a.by \in Workers /\ a.at \in Time BY <3>1
        <3>3. a.at.s \in Nat BY <3>2 DEF Time
        <3>4. a.window \in Nat BY <3>2, ThrottlingAssumption DEF Windows
        <3>. QED BY <3>2, <3>3, <3>4
    <2>3. \A a \in recent : /\ a.no \in 1..PerSec /\ a.window <= a.at.s
                            /\ a.at.s \in {sec - 1, sec}
        BY DEF Burst
    <2>. QED BY <2>1, <2>2, <2>3
<1>1. IsFiniteSet(F) /\ Cardinality(F) <= 2 * PerSec
    <2>. DEFINE f == [a \in F |-> <<a.window, a.no>>]
    <2>1. IsFiniteSet((sec - 1)..sec) /\ Cardinality((sec - 1)..sec) = 2
        <3>0. sec \in Nat /\ sec \in Int /\ sec - 1 \in Int BY <1>0
        <3>1. /\ IsFiniteSet((sec - 1)..sec)
              /\ Cardinality((sec - 1)..sec) = IF sec - 1 > sec THEN 0 ELSE sec - (sec - 1) + 1
            <4>. HIDE DEF F, Counts, G
            <4>. QED BY <3>0, FS_Interval
        <3>. QED BY <3>0, <3>1
    <2>2. IsFiniteSet(1..PerSec) /\ Cardinality(1..PerSec) = PerSec
        <3>1. /\ IsFiniteSet(1..PerSec)
              /\ Cardinality(1..PerSec) = IF 1 > PerSec THEN 0 ELSE PerSec - 1 + 1
            BY <1>0, FS_Interval
        <3>. QED BY <1>0, <3>1
    <2>3. IsFiniteSet(Counts) /\ Cardinality(Counts) = 2 * PerSec
        <3>. DEFINE S == (sec - 1)..sec
                    T == 1..PerSec
        <3>. HIDE DEF S, T
        <3>1. /\ IsFiniteSet(S \X T)
              /\ Cardinality(S \X T) = Cardinality(S) * Cardinality(T)
            BY <2>1, <2>2, FS_Product DEF S, T
        <3>2. IsFiniteSet(S \X T) /\ Cardinality(S \X T) = 2 * PerSec
            BY <2>1, <2>2, <3>1 DEF S, T
        <3>. QED BY <3>2 DEF S, T
    <2>4. \A a \in F : a.window \in (sec - 1)..sec /\ a.no \in 1..PerSec
        BY <1>0 DEF Fresh
    <2>5. f \in [F -> Counts] BY <2>4
    <2>6. \A a, b \in F : f[a] = f[b] => a = b
        <3>. SUFFICES ASSUME NEW a \in F, NEW b \in F, <<a.window, a.no>> = <<b.window, b.no>>
                      PROVE  a = b
            OBVIOUS
        <3>. QED BY DEF Burst
    <2>7. f \in Injection(F, Counts) BY <2>5, <2>6, Fun_IsInj
    <2>. HIDE DEF f, F, Counts
    <2>. QED BY <2>3, <2>7, FS_Injection
<1>2. IsFiniteSet(G) /\ Cardinality(G) <= Cardinality(Workers)
    <2>. DEFINE g == [a \in G |-> a.by]
    <2>1. g \in [G -> Workers] BY <1>0
    <2>2. \A a, b \in G : g[a] = g[b] => a = b
        <3>. SUFFICES ASSUME NEW a \in G, NEW b \in G, a.by = b.by PROVE a = b
            OBVIOUS
        <3>1. a.window < sec - 1 /\ b.window < sec - 1 BY <1>0 DEF Fresh
        <3>2. a.at.s >= sec - 1 /\ b.at.s >= sec - 1 BY <1>0
        <3>3. ~(a.window >= b.at.s) /\ ~(b.window >= a.at.s) BY <1>0, <3>1, <3>2
        <3>. QED BY <3>3 DEF Burst
    <2>3. g \in Injection(G, Workers) BY <2>1, <2>2, Fun_IsInj
    <2>. HIDE DEF g, G
    <2>. QED BY <1>0, <2>3, FS_Injection
<1>3. recent = F \cup G /\ F \cap G = {} OBVIOUS
<1>. HIDE DEF F, G
<1>4. Cardinality(recent) = Cardinality(F) + Cardinality(G) - Cardinality({})
    BY <1>1, <1>2, <1>3, FS_Union
<1>5. /\ Cardinality({}) = 0 /\ Cardinality(F) \in Nat /\ Cardinality(G) \in Nat
      /\ Cardinality(Workers) \in Nat
    BY <1>0, <1>1, <1>2, FS_EmptySet, FS_CardinalityType
<1>. QED BY <1>0, <1>1, <1>2, <1>4, <1>5 DEF BurstBounded

\* However the second lies across two windows and however late workers come
\* with the window they named, a second lets no more through than twice the
\* limit and one more for each worker.
THEOREM BurstBoundedCorrect == Spec => []BurstBounded
<1>1. Init => Typed /\ Limited /\ Burst BY TypedInit, LimitedInit, BurstInit
<1>2. Typed /\ Limited /\ Burst /\ [Next]_vars => (Typed /\ Limited /\ Burst)'
    BY TypedStep, LimitedStep, BurstStep DEF Typed, TypeOK
<1>3. Typed /\ Burst => BurstBounded BY BurstImplies DEF Typed, TypeOK
<1>. QED BY <1>1, <1>2, <1>3, PTL DEF Spec
=============================================================================

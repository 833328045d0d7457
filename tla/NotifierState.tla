--------------------------- MODULE NotifierState ---------------------------
(***************************************************************************)
(* The shared state of the notifier: the rows the API, the workers and the *)
(* schedulers keep in Postgres, the lists, sorted sets and keys they keep  *)
(* in Redis, and the local variables of every process between two remote   *)
(* calls.  The handlers are in CreateNotification, CancelNotification,     *)
(* ProcessNotification and Promoter; Notifier puts them together.          *)
(*                                                                         *)
(* One step is one remote call (a Redis command, a SQL statement, a POST   *)
(* to the provider): that is the grain at which the processes interleave.  *)
(***************************************************************************)
EXTENDS Integers, FiniteSets

CONSTANTS
    Notif,        \* create requests; each is named by the id it generates
    Keys,         \* idempotency keys
    KeyOf,        \* [Notif -> Keys \cup {None}]: the key a request carries
    PriorityOf,   \* [Notif -> Priorities]
    FutureDated,  \* requests whose ScheduledAt is after now
    Workers,      \* worker goroutines, of all worker processes
    Promoters,    \* scheduler.Run loops, of the worker and scheduler processes
    Source,       \* [Promoters -> Stores]: the sorted set a promoter drains
    Cancellers,   \* concurrent DELETE requests
    None,         \* no key, no answer, no item
    MaxAttempts,  \* MAX_RETRY_ATTEMPTS
    MaxFaults     \* bound: calls that fail and processes that die, in all

Stores == {"sched", "retry"}

Rank == [high |-> 1, normal |-> 2, low |-> 3]

Statuses ==
    {"pending", "queued", "sending", "delivered", "failed", "cancelled"}

ASSUME ConstantsAssumption ==
    /\ None \notin Notif /\ None \notin Keys
    /\ KeyOf \in [Notif -> Keys \cup {None}]
    /\ PriorityOf \in [Notif -> DOMAIN Rank]
    /\ FutureDated \subseteq Notif
    /\ Source \in [Promoters -> Stores]

\* The places a work item can be are told apart by their names.
ASSUME PlacesAssumption ==
    /\ Workers \cap Promoters = {}
    /\ (Stores \cup {"create", "queue"}) \cap (Workers \cup Promoters) = {}

ASSUME BoundsAssumption ==
    /\ MaxAttempts \in Int
    /\ MaxFaults \in Nat

VARIABLES
    \* Postgres: the notifications table and the count of delivery_attempts
    status, attempts, audit,
    \* Redis: queue:<priority>, scheduled:zset and retry:zset, dlq:list, idem:*
    queue, zset, dlq, idem,
    \* a create request: its next call, how it ended, the id it returns
    cpc, outcome, answer,
    \* a cancel request: its next call, its notification, the attempts it read
    xpc, xid, xatt,
    \* a worker: its next call, its item, the attempts it read
    wpc, wid, watt,
    \* a promoter: the rest of the snapshot it iterates, the item it removed
    ptodo, pheld,
    \* history: provider calls made, 202 seen, cancel request passed its check
    sends, confirmed, cancelReq,
    \* faults so far, at most MaxFaults
    faults

rowVars      == <<status, attempts, audit>>
redisVars    == <<queue, zset, dlq, idem>>
createVars   == <<cpc, outcome, answer>>
cancelVars   == <<xpc, xid, xatt>>
workerVars   == <<wpc, wid, watt>>
promoterVars == <<ptodo, pheld>>
historyVars  == <<sends, confirmed, cancelReq>>

vars == <<rowVars, redisVars, createVars, cancelVars, workerVars,
          promoterVars, historyVars, faults>>

-----------------------------------------------------------------------------
(* Postgres *)

Exists(n) == status[n] # "absent"

\* UPDATE ... WHERE id = n: no row, no effect.
UpdateStatus(n, s, a) ==
    /\ status'   = [status   EXCEPT ![n] = IF Exists(n) THEN s ELSE @]
    /\ attempts' = [attempts EXCEPT ![n] = IF Exists(n) THEN a ELSE @]
    /\ UNCHANGED audit

RowsWithKey(k) == {m \in Notif : k # None /\ KeyOf[m] = k /\ Exists(m)}

Cancellable(s) == s \in {"pending", "queued"}

-----------------------------------------------------------------------------
(* Redis.  A list is the multiplicity of each id in it: an id is always      *)
(* pushed with the same priority, so its priority names its list.            *)

Push(n) == queue' = [queue EXCEPT ![n] = @ + 1]

\* ZADD: one member per item, a second add only moves its due time.
Add(s, n) == zset' = [zset EXCEPT ![s][n] = "waiting"]

Remove(s, n) == zset' = [zset EXCEPT ![s][n] = "absent"]

Due(s) == {n \in Notif : zset[s][n] = "due"}

\* The clock reaches the due time of a member.
Elapse(s, n) ==
    /\ zset[s][n] = "waiting"
    /\ zset' = [zset EXCEPT ![s][n] = "due"]
    /\ UNCHANGED <<rowVars, queue, dlq, idem, createVars, cancelVars,
                   workerVars, promoterVars, historyVars, faults>>

-----------------------------------------------------------------------------
(* Faults: a call that returns an error, or a process that dies.             *)

Fault == faults < MaxFaults /\ faults' = faults + 1

\* A call whose error the handler ignores takes effect, or fails.
Ignored(call, skipped) == \/ call /\ UNCHANGED faults
                          \/ Fault /\ UNCHANGED skipped

-----------------------------------------------------------------------------
Init ==
    /\ status    = [n \in Notif |-> "absent"]
    /\ attempts  = [n \in Notif |-> 0]
    /\ audit     = [n \in Notif |-> 0]
    /\ queue     = [n \in Notif |-> 0]
    /\ zset      = [s \in Stores |-> [n \in Notif |-> "absent"]]
    /\ dlq       = [n \in Notif |-> 0]
    /\ idem      = [k \in Keys |-> None]
    /\ cpc       = [n \in Notif |-> IF KeyOf[n] = None THEN "build" ELSE "lookup"]
    /\ outcome   = [n \in Notif |-> "none"]
    /\ answer    = [n \in Notif |-> None]
    /\ xpc       = [x \in Cancellers |-> "idle"]
    /\ xid       = [x \in Cancellers |-> None]
    /\ xatt      = [x \in Cancellers |-> 0]
    /\ wpc       = [w \in Workers |-> "idle"]
    /\ wid       = [w \in Workers |-> None]
    /\ watt      = [w \in Workers |-> 0]
    /\ ptodo     = [p \in Promoters |-> {}]
    /\ pheld     = [p \in Promoters |-> None]
    /\ sends     = [n \in Notif |-> 0]
    /\ confirmed = [n \in Notif |-> FALSE]
    /\ cancelReq = [n \in Notif |-> FALSE]
    /\ faults    = 0

-----------------------------------------------------------------------------
(* Where the work item of a notification is: still to be placed by the       *)
(* request that creates it, in a list or a sorted set, or with a process.    *)

Place == Stores \cup {"create", "queue"} \cup Promoters \cup Workers

Holds(x, n) ==
    \/ x = "create" /\ cpc[n] \notin {"confirm", "done"}
    \/ x = "queue" /\ queue[n] > 0
    \/ x \in Stores /\ zset[x][n] # "absent"
    \/ x \in Promoters /\ pheld[x] = n
    \/ x \in Workers /\ wpc[x] # "idle" /\ wid[x] = n

Live(n) == \E x \in Place : Holds(x, n)
=============================================================================

------------------------------ MODULE Listing ------------------------------
(***************************************************************************)
(* GET /notifications: a client pages through the notifications that match *)
(* a filter while requests are stored and workers change statuses.  A page *)
(* is two statements, a count and a SELECT ... ORDER BY created_at DESC    *)
(* LIMIT .. OFFSET .., with no snapshot between them nor between pages.    *)
(***************************************************************************)
EXTENDS Integers, FiniteSets, SequencesExt

CONSTANTS
    Rows,          \* notifications, stored in the course of the behaviour
    ChannelOf,     \* [Rows -> channels]
    Statuses,      \* statuses, "pending" among them
    Filters,       \* the filters a client may use
    NotGiven,      \* a criterion that is not given
    Limits,        \* the limits a client may ask for, Unparsed among them
    Offsets,       \* the offsets it may start from
    Unparsed,      \* a query string parseFilter cannot parse
    DefaultLimit,  \* defaultListLimit, 50
    MaxLimit,      \* 200
    MaxTime,       \* bound: the clock
    MaxChanges     \* bound: status changes

ASSUME LimitsAssumption ==
    /\ IsFiniteSet(Rows) /\ "pending" \in Statuses
    /\ DefaultLimit \in 1..MaxLimit
    /\ MaxLimit \in Nat /\ MaxTime \in Nat \ {0} /\ MaxChanges \in Nat
    /\ Limits \subseteq Int \cup {Unparsed} /\ Offsets \subseteq Int

VARIABLES
    now,      \* the clock the API processes read
    at,       \* created_at, read before the INSERT; 0 before that
    stored,   \* the rows of the table
    status,
    changes,  \* status changes so far
    \* the client: its query, its next step, the answer it holds
    filter, limit, offset, pc, total, page,
    \* history: rows received; rows that have matched from the first request on;
    \* how many times a row ceased to match since then, and since the last count
    \* until the SELECT that follows it
    seen, steady, left, between

tableVars  == <<now, at, stored, status, changes>>
queryVars  == <<filter, limit>>
clientVars == <<queryVars, offset, pc, total, page, seen>>
vars       == <<tableVars, clientVars, steady, left, between>>

-----------------------------------------------------------------------------
(* NotificationRepo.List *)

\* The WHERE clause, for a row with this status.
Satisfies(r, s) ==
    /\ filter.status  \in {NotGiven, s}
    /\ filter.channel \in {NotGiven, ChannelOf[r]}
    /\ filter.from = NotGiven \/ at[r] >= filter.from
    /\ filter.to   = NotGiven \/ at[r] <= filter.to

Matching == {r \in stored : Satisfies(r, status[r])}

\* Mutant: the rows are ordered by status first.
SortedByStatus ==
    {s \in SetToSeqs(Matching) :
         \A i, j \in DOMAIN s : i < j /\ status[s[j]] = "pending" => status[s[i]] = "pending"}

\* ORDER BY created_at DESC; rows with one time stamp come in any order.
Sorted == {s \in SetToSeqs(Matching) :
               \A i, j \in DOMAIN s : i < j => at[s[i]] >= at[s[j]]}

\* ListNotifications.Execute
Applied(n) == IF n <= 0 \/ n > MaxLimit THEN DefaultLimit ELSE n

FirstRow == 0 \* mutant: the offset is not passed on

\* The rows skipped before the page.
Skip == IF offset < 0 THEN 0 ELSE offset

Init ==
    /\ now = 1
    /\ at      = [r \in Rows |-> 0]
    /\ stored  = {}
    /\ status  = [r \in Rows |-> "pending"]
    /\ changes = 0
    /\ filter \in Filters /\ limit \in Limits /\ offset \in Offsets
    /\ pc = "start" /\ total = 0 /\ page = <<>>
    /\ seen = {} /\ steady = {} /\ left = 0 /\ between = 0

-----------------------------------------------------------------------------
(* The table *)

\* CreateNotification reads the clock, which may have moved on since the last
\* request did ...
Stamp(r) == /\ at[r] = 0
            /\ now' \in now..MaxTime /\ now' <= now + 1
            /\ at' = [at EXCEPT ![r] = now']
            /\ UNCHANGED <<stored, status, changes, clientVars, steady, left, between>>

\* Mutant: a row is inserted without a creation time.
InsertUnstamped(r) ==
    /\ r \notin stored
    /\ stored' = stored \cup {r}
    /\ UNCHANGED <<now, at, status, changes, clientVars, steady, left, between>>

\* ... and inserts the row some calls later.
Insert(r) == /\ at[r] > 0
             /\ r \notin stored
             /\ stored' = stored \cup {r}
             /\ UNCHANGED <<now, at, status, changes, clientVars, steady, left, between>>

\* Repo.UpdateStatus by any handler.
Change(r, s) ==
    /\ r \in stored /\ status[r] # s
    /\ changes < MaxChanges
    /\ changes' = changes + 1
    /\ status' = [status EXCEPT ![r] = s]
    /\ IF pc # "start" /\ Satisfies(r, status[r]) /\ ~Satisfies(r, s)
       THEN /\ steady' = steady \ {r}
            /\ left' = left + 1
            /\ between' = IF pc = "select" THEN between + 1 ELSE between
       ELSE UNCHANGED <<steady, left, between>>
    /\ UNCHANGED <<now, at, stored, clientVars>>

-----------------------------------------------------------------------------
(* The client *)

\* parseFilter: 400, or on to the repository.
Ask ==
    /\ pc = "start"
    /\ pc' = IF limit = Unparsed THEN "refused" ELSE "count"
    /\ steady' = Matching
    /\ UNCHANGED <<tableVars, queryVars, offset, total, page, seen, left, between>>

CountAll == Cardinality(stored) \* mutant: the count ignores the filter

Total == Cardinality(Matching)

\* SELECT count(*)
Count ==
    /\ pc = "count"
    /\ total' = Total
    /\ pc' = "select"
    /\ between' = 0
    /\ UNCHANGED <<tableVars, queryVars, offset, page, seen, steady, left>>

\* SELECT of the page
Select ==
    /\ pc = "select"
    /\ \E s \in Sorted :
           LET last == Skip + Applied(limit) IN
           page' = SubSeq(s, Skip + 1, IF last < Len(s) THEN last ELSE Len(s))
    /\ seen' = seen \cup {page'[i] : i \in DOMAIN page'}
    /\ pc' = "answered"
    /\ UNCHANGED <<tableVars, queryVars, offset, total, steady, left, between>>

\* The client goes on behind the rows it got, until there are none.
Continue ==
    /\ pc = "answered"
    /\ IF page = <<>>
       THEN pc' = "end" /\ UNCHANGED offset
       ELSE pc' = "count" /\ offset' = Skip + Len(page)
    /\ UNCHANGED <<tableVars, queryVars, total, page, seen, steady, left, between>>

\* One of the two statements fails: 500.
Fail ==
    /\ pc \in {"count", "select"}
    /\ pc' = "failed"
    /\ UNCHANGED <<tableVars, queryVars, offset, total, page, seen, steady, left, between>>

Paging == Ask \/ Count \/ Select \/ Continue

Ended == pc \in {"end", "refused", "failed"}

\* The table is followed until the client is done with it.
Next ==
    \/ /\ ~Ended
       /\ \E r \in Rows : Stamp(r) \/ Insert(r) \/ \E s \in Statuses : Change(r, s)
    \/ Paging \/ Fail
    \/ Ended /\ UNCHANGED vars

\* The client goes on paging, and each of its requests is answered.
Spec == Init /\ [][Next]_vars /\ WF_vars(Paging)

-----------------------------------------------------------------------------
TypeOK ==
    /\ now \in 1..MaxTime
    /\ at \in [Rows -> 0..MaxTime]
    /\ stored \subseteq {r \in Rows : at[r] > 0}
    /\ status \in [Rows -> Statuses]
    /\ changes \in 0..MaxChanges /\ left \in 0..changes
    /\ between \in 0..left
    /\ filter \in Filters /\ limit \in Limits /\ offset \in Int
    /\ pc \in {"start", "count", "select", "answered", "end", "refused", "failed"}
    /\ total \in 0..Cardinality(Rows)
    /\ \A i \in DOMAIN page : page[i] \in seen
    /\ seen \subseteq stored /\ steady \subseteq stored

DistinctTimes == \A r, q \in stored : at[r] = at[q] => r = q

\* A client that pages to the end, whatever limit it asked for, misses at most
\* one row for each row that ceased to match meanwhile, of those that matched
\* all along; so it misses none when it filters by channel or date only.  New
\* rows, in whatever order they become visible, never hide one.
SkipsOnlyForLeavers ==
    pc = "end" /\ DistinctTimes => Cardinality(steady \ seen) <= left

\* The total of an answer can be relied on for its own page, the first or a later
\* one: a page that is not full reaches the total, short of it by no more rows than
\* ceased to match between the two statements.
TotalIsReachable ==
    pc = "answered" =>
        Len(page) >= Applied(limit) \/ Skip + Len(page) >= total - between

\* Whatever offset and limit a client starts with, and whatever changes while it
\* pages, the next page is further down than the last one and starts within the
\* rows there are: so it asks no more often than there are rows.
PagingAdvances ==
    [][pc = "answered" /\ pc' = "count" => Skip < Skip' /\ Skip' <= Cardinality(stored)]_vars

\* Paging comes to an end, although rows are added behind the client's back; there
\* are finitely many Rows, and of a table that grows without end this says nothing.
PagingEnds == <>Ended
=============================================================================

------------------------------- MODULE Batch -------------------------------
(***************************************************************************)
(* The write side of the REST API over the notifier: single creates,       *)
(* batches and templates.  CreateBatch stores the batch row, then runs     *)
(* CreateNotification for one item after the other and stops at the first  *)
(* error; the handlers turn how it ended into an HTTP status.  The items   *)
(* and the single requests are the create requests of Notifier, which goes *)
(* on underneath: its other processes are the disjunct Backend.            *)
(***************************************************************************)
EXTENDS Notifier, Requests, Sequences

CONSTANTS
    Batches,       \* POST /notifications/batch requests, named by their batch id
    ItemsOf,       \* [Batches -> Seq(Notif)]
    MaxBatchSize,
    Wishes         \* [Notif -> sets of requests]: what a create may ask for

Items(b) == {ItemsOf[b][i] : i \in DOMAIN ItemsOf[b]}

Singles == Notif \ UNION {Items(b) : b \in Batches}

ASSUME BatchAssumption ==
    /\ ItemsOf \in [Batches -> Seq(Notif)]
    /\ Batches \cap Notif = {}
    \* every create request belongs to one batch, at one position
    /\ \A b, c \in Batches : b # c => Items(b) \cap Items(c) = {}
    /\ \A b \in Batches : \A i, j \in DOMAIN ItemsOf[b] :
           ItemsOf[b][i] = ItemsOf[b][j] => i = j
    \* PriorityOf is the priority of the requests that can be stored
    /\ \A n \in Notif : \A r \in Wishes[n] :
           Defaulted(r.priority) \in {PriorityOf[n]} \cup (STRING \ DOMAIN Rank)

VARIABLES
    request,     \* [Notif -> request]: what each create asks for
    bpc,         \* a batch request: its next step
    batches,     \* Postgres: the batches table
    templates,   \* Postgres: the templates table
    reply        \* the HTTP status a call was answered with, 0 before

apiVars == <<request, bpc, batches, templates, reply>>

batchVars == <<vars, apiVars>>

Answer(call, code) == reply' = [reply EXCEPT ![call] = code]

\* writeError, and 201 Created
Code(how) ==
    CASE how = "ok"                         -> 201
      [] how = "invalid"                    -> 400
      [] how \in {"notfound", "notemplate"} -> 404
      [] how = "duplicate"                  -> 409
      [] how = "error"                      -> 500

BatchInit ==
    /\ Init
    /\ request \in {f \in [Notif -> UNION {Wishes[n] : n \in Notif}] :
                       \A n \in Notif : f[n] \in Wishes[n]}
    /\ bpc       = [b \in Batches |-> "start"]
    /\ batches   = {}
    /\ templates = {}
    /\ reply     = [c \in Batches \cup Notif |-> 0]

-----------------------------------------------------------------------------
(* POST /notifications *)

\* A step of CreateNotification.Execute; what it makes of the content is not
\* a choice here.
CreateCalls(n) ==
    \/ CreateCall(n)
    \/ Build(n, Verdict(request[n], templates))
    \/ CreateAbort(n)

SingleStep(n) ==
    /\ n \in Singles
    /\ Bound(request[n])
    /\ CreateCalls(n)
    /\ UNCHANGED apiVars

\* ShouldBindJSON fails before Execute is called, or Execute has returned.
SingleReply(n) ==
    /\ n \in Singles
    /\ reply[n] = 0
    /\ \/ ~Bound(request[n]) /\ Answer(n, 400)
       \/ cpc[n] = "done" /\ Answer(n, Code(outcome[n]))
    /\ UNCHANGED <<vars, request, bpc, batches, templates>>

-----------------------------------------------------------------------------
(* POST /notifications/batch *)

\* An empty or too large batch is refused before anything is stored.
BatchStart(b) ==
    /\ bpc[b] = "start"
    /\ IF Len(ItemsOf[b]) \in 1..MaxBatchSize
       THEN bpc' = [bpc EXCEPT ![b] = "row"] /\ UNCHANGED reply
       ELSE bpc' = [bpc EXCEPT ![b] = "done"] /\ Answer(b, 400)
    /\ UNCHANGED <<vars, request, batches, templates>>

\* Batches.Create
BatchRow(b) ==
    /\ bpc[b] = "row"
    /\ \/ /\ batches' = batches \cup {b}
          /\ bpc' = [bpc EXCEPT ![b] = "items"]
          /\ UNCHANGED reply
       \/ /\ bpc' = [bpc EXCEPT ![b] = "done"]
          /\ Answer(b, 500)
          /\ UNCHANGED batches
    /\ UNCHANGED <<vars, request, templates>>

\* Mutant: an item that failed does not stop the loop.
TurnAfterAny(b, i) ==
    \A j \in DOMAIN ItemsOf[b] : j < i => cpc[ItemsOf[b][j]] = "done"

\* The items before i were created.
Turn(b, i) == \A j \in DOMAIN ItemsOf[b] : j < i => outcome[ItemsOf[b][j]] = "ok"

\* Create.Execute of the item whose turn it is.
BatchItem(b) ==
    /\ bpc[b] = "items"
    /\ \E i \in DOMAIN ItemsOf[b] : Turn(b, i) /\ CreateCalls(ItemsOf[b][i])
    /\ UNCHANGED apiVars

\* Mutant: the loop returns after its first item.
EndedByFirst(b) == outcome[ItemsOf[b][1]]

\* The error that ended the loop, "ok" at its end, "none" before that.
Ended(b) ==
    IF \E n \in Items(b) : outcome[n] \notin {"none", "ok"}
    THEN outcome[CHOOSE n \in Items(b) : outcome[n] \notin {"none", "ok"}]
    ELSE IF \A n \in Items(b) : outcome[n] = "ok" THEN "ok" ELSE "none"

\* CreateBatch.Execute returns and its handler answers.
BatchReply(b) ==
    /\ bpc[b] = "items"
    /\ Ended(b) # "none"
    /\ bpc' = [bpc EXCEPT ![b] = "done"]
    /\ Answer(b, Code(Ended(b)))
    /\ UNCHANGED <<vars, request, batches, templates>>

\* GET /batches/{id}: the notifications of the batch, by status.
StatusCounts(b) ==
    [s \in Statuses |-> Cardinality({n \in Items(b) : status[n] = s})]

-----------------------------------------------------------------------------
\* POST /templates of a template that is valid.
CreateTemplate(t) ==
    /\ t \notin templates
    /\ templates' = templates \cup {t}
    /\ UNCHANGED <<vars, request, bpc, batches, reply>>

\* Every call is answered.
Rest == \A c \in Batches \cup Singles : reply[c] # 0

BatchNext ==
    \/ \E n \in Notif : SingleStep(n) \/ SingleReply(n)
    \/ \E b \in Batches : BatchStart(b) \/ BatchRow(b) \/ BatchItem(b) \/ BatchReply(b)
    \/ \E t \in Templates : CreateTemplate(t)
    \/ Backend /\ UNCHANGED apiVars
    \/ Rest /\ UNCHANGED batchVars

BatchSpec == BatchInit /\ [][BatchNext]_batchVars

-----------------------------------------------------------------------------
BatchTypeOK ==
    /\ TypeOK
    /\ \A n \in Notif : request[n] \in Wishes[n]
    /\ bpc \in [Batches -> {"start", "row", "items", "done"}]
    /\ batches \subseteq Batches /\ templates \subseteq Templates
    /\ reply \in [Batches \cup Notif -> {0, 201, 400, 404, 409, 500}]

\* A 201 is never about a notification that is not stored: whoever claimed the
\* key, and whenever it expired, the id in the answer can be fetched.  A batch
\* that is created has a stored notification for each of its items.
SuccessIsStored ==
    /\ \A n \in Singles : reply[n] = 201 => answer[n] # None /\ Exists(answer[n])
    /\ \A b \in Batches : reply[b] = 201 =>
           \A n \in Items(b) : answer[n] # None /\ Exists(answer[n])

\* A request that is refused for what it asks leaves nothing behind: no row, no
\* work item and above all no claim on its key, or the corrected request would
\* be taken for a duplicate for 24 hours.
RefusedLeavesNothing ==
    \A n \in Notif :
        outcome[n] \in {"invalid", "notemplate"} =>
            /\ ~Exists(n) /\ ~Live(n)
            /\ \A k \in Keys : idem[k] # n

\* However its items end, a batch leaves a prefix of them: an item is not even
\* started before the batch row is stored and every item before it is created.
BatchIsPrefix ==
    \A b \in Batches : \A i, j \in DOMAIN ItemsOf[b] :
        Exists(ItemsOf[b][j]) \/ outcome[ItemsOf[b][j]] # "none" =>
            /\ b \in batches
            /\ i < j => outcome[ItemsOf[b][i]] = "ok"

\* GET /batches/{id} of a created batch: the counts fall short of the total by
\* the items that repeated a key and were answered with an older notification.
BatchAccounted ==
    \A b \in Batches : reply[b] = 201 =>
        LET counts == StatusCounts(b)
        IN  Len(ItemsOf[b]) =
                counts["pending"] + counts["queued"] + counts["sending"]
                    + counts["delivered"] + counts["failed"] + counts["cancelled"]
                    + Cardinality({n \in Items(b) : answer[n] \in Notif \ {n}})

\* What is stored for delivery fits its channel after rendering, is not empty
\* unless a template made it so, and has a recipient.
StoredFits ==
    \A n \in Notif : Exists(n) =>
        /\ request[n].channel \in Channels /\ request[n].recipient
        /\ ContentLength(request[n]) <= MaxLength[request[n].channel]
        /\ ContentLength(request[n]) > 0 \/ request[n].template \in templates
=============================================================================

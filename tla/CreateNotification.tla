------------------------ MODULE CreateNotification ------------------------
(***************************************************************************)
(* POST /notifications: CreateNotification.Execute, one action per call it *)
(* makes to Postgres and Redis.  cpc[n] names the next call of request n.  *)
(***************************************************************************)
EXTENDS NotifierState

Goto(n, call) == /\ cpc' = [cpc EXCEPT ![n] = call]
                 /\ UNCHANGED <<outcome, answer>>

Return(n, how, id) == /\ cpc'     = [cpc     EXCEPT ![n] = "done"]
                      /\ outcome' = [outcome EXCEPT ![n] = how]
                      /\ answer'  = [answer  EXCEPT ![n] = id]

\* The last call of a request took effect; its answer may still be an error.
Finish(n) == \/ Return(n, "ok", n) /\ UNCHANGED faults
             \/ Return(n, "error", None) /\ Fault

CreateFrame == UNCHANGED <<cancelVars, workerVars, promoterVars, historyVars>>

\* Mutant: the key is claimed before the request is validated.
LookupAndClaim(n) ==
    /\ cpc[n] = "lookup"
    /\ \/ \E m \in RowsWithKey(KeyOf[n]) : Return(n, "ok", m) /\ UNCHANGED idem
       \/ /\ RowsWithKey(KeyOf[n]) = {} /\ Goto(n, "build")
          /\ idem' = [idem EXCEPT ![KeyOf[n]] = n]
    /\ CreateFrame
    /\ UNCHANGED <<rowVars, queue, zset, dlq, faults>>

\* Repo.GetByIdempotencyKey: a request that repeats a stored key ends here.
Lookup(n) ==
    /\ cpc[n] = "lookup"
    /\ \/ \E m \in RowsWithKey(KeyOf[n]) : Return(n, "ok", m)
       \/ RowsWithKey(KeyOf[n]) = {} /\ Goto(n, "build")
    /\ CreateFrame
    /\ UNCHANGED <<rowVars, redisVars, faults>>

\* Templates.Get, Render and ValidateNotification accept the request, refuse it
\* or miss its template.
Verdicts == {"valid", "invalid", "notemplate"}

Build(n, verdict) ==
    /\ cpc[n] = "build"
    /\ IF verdict = "valid"
       THEN Goto(n, IF KeyOf[n] = None THEN "insert" ELSE "claim")
       ELSE Return(n, verdict, None)
    /\ CreateFrame
    /\ UNCHANGED <<rowVars, redisVars, faults>>

\* Idem.Remember, SET NX: the first request to arrive takes the key.
Claim(n) ==
    /\ cpc[n] = "claim"
    /\ IF idem[KeyOf[n]] = None
       THEN idem' = [idem EXCEPT ![KeyOf[n]] = n] /\ Goto(n, "insert")
       ELSE UNCHANGED idem /\ Goto(n, "recall")
    /\ CreateFrame
    /\ UNCHANGED <<rowVars, queue, zset, dlq, faults>>

\* Mutant: the error of the GET is not looked at.
RecallRegardless(n) ==
    /\ cpc[n] = "recall"
    /\ cpc'    = [cpc    EXCEPT ![n] = "fetch"]
    /\ answer' = [answer EXCEPT ![n] = idem[KeyOf[n]]]
    /\ CreateFrame
    /\ UNCHANGED <<outcome, rowVars, redisVars, faults>>

\* Idem.Remember, GET: an error if the key expired since the SET NX.
Recall(n) ==
    /\ cpc[n] = "recall"
    /\ IF idem[KeyOf[n]] = None
       THEN Return(n, "error", None)
       ELSE /\ cpc'    = [cpc    EXCEPT ![n] = "fetch"]
            /\ answer' = [answer EXCEPT ![n] = idem[KeyOf[n]]]
            /\ UNCHANGED outcome
    /\ CreateFrame
    /\ UNCHANGED <<rowVars, redisVars, faults>>

\* Mutant: the remembered id is returned without fetching its row.
FetchNothing(n) ==
    /\ cpc[n] = "fetch"
    /\ Return(n, "ok", answer[n])
    /\ CreateFrame
    /\ UNCHANGED <<rowVars, redisVars, faults>>

\* Repo.Get(existing): the owner of the key may not have stored its row yet.
Fetch(n) ==
    /\ cpc[n] = "fetch"
    /\ IF Exists(answer[n]) THEN Return(n, "ok", answer[n])
                            ELSE Return(n, "notfound", None)
    /\ CreateFrame
    /\ UNCHANGED <<rowVars, redisVars, faults>>

NoUniqueConstraint(n) == FALSE \* mutant

\* UNIQUE (idempotency_key), where NULLs never conflict.
KeyTaken(n) == RowsWithKey(KeyOf[n]) # {}

\* Repo.Create
Insert(n) ==
    /\ cpc[n] = "insert"
    /\ IF KeyTaken(n)
       THEN Return(n, "duplicate", None) /\ UNCHANGED rowVars
       ELSE /\ status'   = [status   EXCEPT ![n] = "pending"]
            /\ attempts' = [attempts EXCEPT ![n] = 0]
            /\ UNCHANGED audit
            /\ Goto(n, "place")
    /\ CreateFrame
    /\ UNCHANGED <<redisVars, faults>>

\* Mutant: a scheduled item that is pushed to its list as well.
PlaceTwice(n) ==
    /\ cpc[n] = "place"
    /\ Push(n)
    /\ IF n \in FutureDated THEN Add("sched", n) /\ Finish(n)
                            ELSE UNCHANGED <<zset, faults>> /\ Goto(n, "confirm")
    /\ CreateFrame
    /\ UNCHANGED <<rowVars, dlq, idem>>

\* Sched.Add and return, or Queue.Enqueue: from here a worker may run.
PlaceItem(n) ==
    /\ cpc[n] = "place"
    /\ IF n \in FutureDated
       THEN Add("sched", n) /\ UNCHANGED queue /\ Finish(n)
       ELSE Push(n) /\ UNCHANGED <<zset, faults>> /\ Goto(n, "confirm")
    /\ CreateFrame
    /\ UNCHANGED <<rowVars, dlq, idem>>

\* Repo.UpdateStatus(queued, attempts 0), whatever the row holds by now.
Confirm(n) ==
    /\ cpc[n] = "confirm"
    /\ UpdateStatus(n, "queued", 0)
    /\ Finish(n)
    /\ CreateFrame
    /\ UNCHANGED redisVars

\* A call fails, or the API dies: the request ends where it is.  A call before the
\* last one that took effect and is answered with an error is the call and this.
CreateAbort(n) ==
    /\ cpc[n] # "done"
    /\ Fault
    /\ Return(n, "error", None)
    /\ CreateFrame
    /\ UNCHANGED <<rowVars, redisVars>>

\* The 24 hours of an idempotency key run out.
ExpireKey(k) ==
    /\ idem[k] # None
    /\ idem' = [idem EXCEPT ![k] = None]
    /\ CreateFrame
    /\ UNCHANGED <<rowVars, queue, zset, dlq, createVars, faults>>

\* The calls whose answers depend on the stores alone.
CreateCall(n) == \/ Lookup(n) \/ Claim(n) \/ Recall(n) \/ Fetch(n)
                 \/ Insert(n) \/ PlaceItem(n) \/ Confirm(n)

CreateStep(n) == CreateCall(n) \/ \E verdict \in Verdicts : Build(n, verdict)
=============================================================================

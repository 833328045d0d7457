------------------------ MODULE CancelNotification ------------------------
(***************************************************************************)
(* DELETE /notifications/{id}: CancelNotification.Execute.  The status is  *)
(* read by the first call and overwritten by the last; Redis errors in     *)
(* between are ignored.                                                    *)
(***************************************************************************)
EXTENDS NotifierState

CancelFrame ==
    UNCHANGED <<createVars, workerVars, promoterVars, sends, confirmed>>

CancelGoto(x, call) == /\ xpc' = [xpc EXCEPT ![x] = call]
                       /\ UNCHANGED <<xid, xatt>>

CancelDone(x) == /\ xpc'  = [xpc  EXCEPT ![x] = "idle"]
                 /\ xid'  = [xid  EXCEPT ![x] = None]
                 /\ xatt' = [xatt EXCEPT ![x] = 0]

\* Repo.Get and Status.Cancellable; ErrNotFound and ErrNotCancellable end a
\* request that changed nothing.
CancelCheck(x, n) ==
    /\ xpc[x] = "idle"
    /\ Cancellable(status[n])
    /\ xpc'  = [xpc  EXCEPT ![x] = "dequeue"]
    /\ xid'  = [xid  EXCEPT ![x] = n]
    /\ xatt' = [xatt EXCEPT ![x] = attempts[n]]
    /\ cancelReq' = [cancelReq EXCEPT ![n] = TRUE]
    /\ CancelFrame
    /\ UNCHANGED <<rowVars, redisVars, faults>>

\* Queue.Remove, LREM of every occurrence.
CancelDequeue(x) ==
    /\ xpc[x] = "dequeue"
    /\ Ignored(queue' = [queue EXCEPT ![xid[x]] = 0], queue)
    /\ CancelGoto(x, "unschedule")
    /\ CancelFrame
    /\ UNCHANGED <<rowVars, zset, dlq, idem, cancelReq>>

\* Sched.Remove: the scheduled set only, never the retry set.
CancelUnschedule(x) ==
    /\ xpc[x] = "unschedule"
    /\ Ignored(Remove("sched", xid[x]), zset)
    /\ CancelGoto(x, "commit")
    /\ CancelFrame
    /\ UNCHANGED <<rowVars, queue, dlq, idem, cancelReq>>

\* Repo.UpdateStatus(cancelled) with the attempts of the first read.
CancelCommit(x) ==
    /\ xpc[x] = "commit"
    /\ UpdateStatus(xid[x], "cancelled", xatt[x])
    /\ CancelDone(x)
    /\ CancelFrame
    /\ UNCHANGED <<redisVars, cancelReq, faults>>

\* The update fails, or the API dies.
CancelAbort(x) ==
    /\ xpc[x] # "idle"
    /\ Fault
    /\ CancelDone(x)
    /\ CancelFrame
    /\ UNCHANGED <<rowVars, redisVars, cancelReq>>

CancelStep(x) == CancelDequeue(x) \/ CancelUnschedule(x) \/ CancelCommit(x)
=============================================================================

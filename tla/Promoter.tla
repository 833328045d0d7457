------------------------------ MODULE Promoter ------------------------------
(***************************************************************************)
(* scheduler.Run with a QueuePromoter: every tick moves the due members of *)
(* a sorted set to the work queue (zsetStore.duePromote).  The scheduler   *)
(* process runs one over the scheduled set; every worker process runs one  *)
(* over the retry set.                                                     *)
(***************************************************************************)
EXTENDS NotifierState

PromoterFrame == UNCHANGED <<createVars, cancelVars, workerVars, historyVars>>

SnapshotAll(p) == {n \in Notif : zset[Source[p]][n] # "absent"} \* mutant

\* ZRANGE -inf..now
Snapshot(p) == Due(Source[p])

\* A tick starts: the due members are read once.
Scan(p) ==
    /\ ptodo[p] = {} /\ pheld[p] = None
    /\ Snapshot(p) # {}
    /\ ptodo' = [ptodo EXCEPT ![p] = Snapshot(p)]
    /\ UNCHANGED pheld
    /\ PromoterFrame
    /\ UNCHANGED <<rowVars, redisVars, faults>>

ClaimedRegardless(p, n) == TRUE \* mutant: removed == 0 is not looked at

\* ZREM removed the member: this promoter owns the item.
Claimed(p, n) == zset[Source[p]][n] # "absent"

\* ZREM of a member of the snapshot, or continue if another one took it.
ClaimDue(p, n) ==
    /\ pheld[p] = None
    /\ n \in ptodo[p]
    /\ ptodo' = [ptodo EXCEPT ![p] = @ \ {n}]
    /\ pheld' = [pheld EXCEPT ![p] = IF Claimed(p, n) THEN n ELSE None]
    /\ Remove(Source[p], n)
    /\ PromoterFrame
    /\ UNCHANGED <<rowVars, queue, dlq, idem, faults>>

\* Mutant: the removed item is not enqueued.
PromoteNothing(p) ==
    /\ pheld[p] # None
    /\ pheld' = [pheld EXCEPT ![p] = None]
    /\ PromoterFrame
    /\ UNCHANGED <<rowVars, redisVars, ptodo, faults>>

\* dst.Enqueue
Promote(p) ==
    /\ pheld[p] # None
    /\ Push(pheld[p])
    /\ pheld' = [pheld EXCEPT ![p] = None]
    /\ PromoterFrame
    /\ UNCHANGED <<rowVars, zset, dlq, idem, ptodo, faults>>

\* ZREM or Enqueue fails and ends the tick, or the process dies.
PromoterAbort(p) ==
    /\ ptodo[p] # {} \/ pheld[p] # None
    /\ Fault
    /\ ptodo' = [ptodo EXCEPT ![p] = {}]
    /\ pheld' = [pheld EXCEPT ![p] = None]
    /\ PromoterFrame
    /\ UNCHANGED <<rowVars, redisVars>>

PromoteStep(p) == \/ Scan(p) \/ Promote(p)
                  \/ \E n \in Notif : ClaimDue(p, n)
=============================================================================

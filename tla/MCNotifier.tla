----------------------------- MODULE MCNotifier -----------------------------
(* Small instances of Notifier for TLC. *)
EXTENDS Notifier, TLC

CONSTANT RetryPromoters \* the promoters of the worker processes

NoKeys   == [n \in Notif |-> None]
OneKey   == [n \in Notif |-> CHOOSE k \in Keys : TRUE]

\* Scheduled requests outrank immediate ones.
TwoPriorities == [n \in Notif |-> IF n \in FutureDated THEN "high" ELSE "low"]

Sources == [p \in Promoters |-> IF p \in RetryPromoters THEN "retry" ELSE "sched"]

Symmetric == Permutations(Workers) \cup Permutations(RetryPromoters)
                 \cup Permutations(Cancellers)

\* Requests of one kind are alike as well.
SymmetricRequests == Symmetric \cup Permutations(Notif)
=============================================================================

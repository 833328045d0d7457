--------------------------- MODULE MCEventStream ---------------------------
(* Small instances of EventStream for TLC. *)
EXTENDS EventStream

CONSTANTS n1, n2, b1, byId, byBatch

OneBatch == [n \in Notif |-> IF n = n1 THEN b1 ELSE NoBatch]

Watched == [c \in Clients |-> IF c = byId THEN n1 ELSE b1]
=============================================================================

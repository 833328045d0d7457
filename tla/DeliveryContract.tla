-------------------------- MODULE DeliveryContract --------------------------
(***************************************************************************)
(* What the notifier promises for each notification it stores, without     *)
(* rows, lists or processes: it is tried some number of times, and ends    *)
(* delivered once, or dead after enough tries, or dropped - but dropped    *)
(* only with an excuse, a cancel request it accepted or a failure.         *)
(***************************************************************************)
EXTENDS Naturals

CONSTANTS Notif, MaxAttempts

VARIABLES phase, tries, excused

contractVars == <<phase, tries, excused>>

ContractInit ==
    /\ phase   = [n \in Notif |-> "none"]
    /\ tries   = [n \in Notif |-> 0]
    /\ excused = [n \in Notif |-> FALSE]

Become(n, from, to) == phase[n] = from /\ phase' = [phase EXCEPT ![n] = to]

\* Excuses appear at any time and stay.
ExcusesGrow == /\ excused' \in [Notif -> BOOLEAN]
               /\ \A n \in Notif : excused[n] => excused'[n]

Accept(n) == Become(n, "none", "live") /\ UNCHANGED <<tries, excused>>

Try(n) == /\ phase[n] = "live"
          /\ tries' = [tries EXCEPT ![n] = @ + 1]
          /\ UNCHANGED <<phase, excused>>

Succeed(n) == /\ Become(n, "live", "delivered")
              /\ tries' = [tries EXCEPT ![n] = @ + 1]
              /\ UNCHANGED excused

Bury(n) == /\ tries[n] >= MaxAttempts
           /\ Become(n, "live", "dead")
           /\ UNCHANGED <<tries, excused>>

Drop(n) == /\ Become(n, "live", "dropped")
           /\ ExcusesGrow /\ excused'[n]
           /\ UNCHANGED tries

Excuse == ExcusesGrow /\ UNCHANGED <<phase, tries>>

ContractNext ==
    \/ Excuse
    \/ \E n \in Notif : Accept(n) \/ Try(n) \/ Succeed(n) \/ Bury(n) \/ Drop(n)

Contract == ContractInit /\ [][ContractNext]_contractVars
=============================================================================

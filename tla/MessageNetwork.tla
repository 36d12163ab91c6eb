--------------------------- MODULE MessageNetwork ---------------------------
(***************************************************************************)
(* What src/src/net/Transport.h promises to its users, without threads,     *)
(* queues or time: a message that send() accepted reaches its destination   *)
(* at most once, in any order, and waitForPendingDeliveries() returns only  *)
(* when every accepted message has been handed over.                        *)
(***************************************************************************)
EXTENDS Naturals

CONSTANT Messages      \* the payloads that are ever sent

VARIABLES accepted,    \* the messages send() answered Ok for
          deliveries,  \* how many times each message was handed over
          drained      \* whether waitForPendingDeliveries() has returned

vars == <<accepted, deliveries, drained>>

Init ==
  /\ accepted = {}
  /\ deliveries = [m \in Messages |-> 0]
  /\ drained = FALSE

Accept(m) ==
  /\ ~drained
  /\ m \notin accepted
  /\ accepted' = accepted \union {m}
  /\ UNCHANGED <<deliveries, drained>>

Deliver(m) ==
  /\ m \in accepted
  /\ deliveries[m] = 0
  /\ deliveries' = [deliveries EXCEPT ![m] = 1]
  /\ UNCHANGED <<accepted, drained>>

Drain ==
  /\ \A m \in accepted : deliveries[m] = 1
  /\ drained' = TRUE
  /\ UNCHANGED <<accepted, deliveries>>

Next == Drain \/ \E m \in Messages : Accept(m) \/ Deliver(m)

Spec == Init /\ [][Next]_vars

FairSpec == Spec /\ \A m \in Messages : WF_vars(Deliver(m))

=============================================================================

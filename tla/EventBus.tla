------------------------------ MODULE EventBus ------------------------------
(***************************************************************************)
(* src/src/core/EventBus.cpp.  Each operation holds the bus's mutex, from    *)
(* its first line to its last: publish() calls the handlers with it held.    *)
(* Here an operation is a function of the bus, as the channel's are in       *)
(* IBCChannel, and the mutex is the caller's: EventLog.busMutex.             *)
(*                                                                          *)
(* The vector of each kind only grows at its end, by ever larger tokens: a   *)
(* set of subscriptions with their tokens is the same, and publish() calls   *)
(* the handlers by ascending token.                                         *)
(***************************************************************************)
EXTENDS Integers

\* The kinds of EventKind that anything publishes
EventKinds == {"BlockFinalized", "IBCPacketSend", "IBCPacketRecv", "IBCAckSend", "IBCAckRecv"}

Subscriptions(handlers) == [token : Nat \ {0}, kind : EventKinds, handler : handlers]

NewBus == [nextToken |-> 1, subs |-> {}]

\* subscribe() returns the token with which to unsubscribe.
Subscribe(b, kind, handler) ==
  [token |-> b.nextToken,
   bus |-> [nextToken |-> b.nextToken + 1,
            subs |-> b.subs \union {[token |-> b.nextToken, kind |-> kind, handler |-> handler]}]]

\* A token is in use once, so unsubscribe() may leave after the first kind it finds it in.
Unsubscribe(b, token) == [b EXCEPT !.subs = {s \in @ : s.token # token}]

\* The copy publish() makes of a kind's handlers and calls, with the mutex still held,
\* and which of them it calls first
Handlers(b, kind) == {s \in b.subs : s.kind = kind}

IsFirst(s, todo) == s \in todo /\ \A q \in todo : s.token <= q.token
=============================================================================

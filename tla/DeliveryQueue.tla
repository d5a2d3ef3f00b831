----------------------------- MODULE DeliveryQueue -----------------------------
(***************************************************************************)
(* What a gateway that requires acks promises its client: every event is   *)
(* handed over at least once, in the order of the event ids, and is        *)
(* forgotten only after it was.  GatewayQueue implements it.               *)
(***************************************************************************)
EXTENDS Naturals

VARIABLES
    sent,   \* the number of events queued so far; their ids are 1..sent
    got,    \* the events handed over
    gone    \* the events the queue has forgotten

Init == sent = 0 /\ got = {} /\ gone = {}

Send ==
    /\ sent' = sent + 1
    /\ UNCHANGED <<got, gone>>

\* Some events are handed over, perhaps again: none before those it follows.
Deliver(events) ==
    /\ \A e \in events : 1..e \subseteq got \cup events
    /\ got' = got \cup events
    /\ UNCHANGED <<sent, gone>>

Forget(e) ==
    /\ gone' = gone \cup {e}
    /\ UNCHANGED <<sent, got>>

Next ==
    \/ Send
    \/ \E events \in SUBSET (1..sent) : Deliver(events)
    \/ \E e \in got : Forget(e)

Spec == Init /\ [][Next]_<<sent, got, gone>>

================================================================================

------------------------------ MODULE Mailbox ------------------------------
(***************************************************************************)
(* What the secure channel promises its users, without frames, sequence    *)
(* numbers or awaits: a message the sender was told is sent may be shown   *)
(* to the peer, once, and nothing else ever is.                            *)
(***************************************************************************)
EXTENDS Naturals

CONSTANT Msg

VARIABLES sent,       \* the messages reported as sent
          delivered   \* how often each was shown to the peer

Init == sent = {} /\ delivered = [m \in Msg |-> 0]

Post(m) ==
    /\ m \notin sent
    /\ sent' = sent \cup {m}
    /\ UNCHANGED delivered

Deliver(m) ==
    /\ m \in sent
    /\ delivered[m] = 0
    /\ delivered' = [delivered EXCEPT ![m] = 1]
    /\ UNCHANGED sent

Next == \E m \in Msg : Post(m) \/ Deliver(m)

Spec == Init /\ [][Next]_<<sent, delivered>>
=============================================================================

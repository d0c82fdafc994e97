----------------------------- MODULE Rendezvous -----------------------------
(***************************************************************************)
(* What a rendezvous code promises: somebody waits under it, at most one   *)
(* other comes, the meeting ends, and the code is spent for good.          *)
(***************************************************************************)
CONSTANTS Code, Socket, Nobody

VARIABLES phase,   \* [Code -> {"unused", "waiting", "paired", "spent"}]
          host,    \* who waits under each code
          guest    \* who came

vars == <<phase, host, guest>>

Init ==
    /\ phase = [c \in Code |-> "unused"]
    /\ host = [c \in Code |-> Nobody]
    /\ guest = [c \in Code |-> Nobody]

(* Any number of meetings may end as another begins or gets its guest.      *)
Ended(C) == [c \in Code |-> IF c \in C THEN "spent" ELSE phase[c]]
Emptied(f, C) == [c \in Code |-> IF c \in C THEN Nobody ELSE f[c]]

Live == {c \in Code : phase[c] \in {"waiting", "paired"}}

End(C) ==
    /\ phase' = Ended(C)
    /\ host' = Emptied(host, C)
    /\ guest' = Emptied(guest, C)

Wait(s, c, C) ==
    /\ phase[c] = "unused"
    /\ phase' = [Ended(C) EXCEPT ![c] = "waiting"]
    /\ host' = [Emptied(host, C) EXCEPT ![c] = s]
    /\ guest' = Emptied(guest, C)

Meet(s, c, C) ==
    /\ phase[c] = "waiting" /\ c \notin C /\ s # host[c]
    /\ phase' = [Ended(C) EXCEPT ![c] = "paired"]
    /\ host' = Emptied(host, C)
    /\ guest' = [Emptied(guest, C) EXCEPT ![c] = s]

Next ==
    \E C \in SUBSET Live :
        \/ End(C)
        \/ \E s \in Socket, c \in Code : Wait(s, c, C) \/ Meet(s, c, C)

Spec == Init /\ [][Next]_vars
=============================================================================

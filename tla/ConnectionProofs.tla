-------------------------- MODULE ConnectionProofs --------------------------
(***************************************************************************)
(* The two sides of a connection: the peers (PeerSession), and the service they*)
(* meet at (SignalingRelay).                                               *)
(*                                                                         *)
(* SecureIsEarned and NoCandidateLost of PeerSession, proved for any       *)
(* number of candidates.                                                   *)
(*                                                                         *)
(* That a session needs both hellos is not inductive by itself.  A hello   *)
(* is made once per channel, and the channel opens once: that a session    *)
(* torn down meanwhile - whose continuations go on - never gets a remote   *)
(* description again, and that "peer-joined" finds the host untouched, is  *)
(* what LifeInv adds.  The candidates add up only while both peers are in  *)
(* the channel, from the join on, which finds both untouched.              *)
(***************************************************************************)
EXTENDS PeerSession, SignalingRelay, FiniteSetTheorems, TLAPS

(* Only the two roles exist, and each is the other's other.                 *)
LEMMA Others ==
    ASSUME NEW r \in Role
    PROVE  Other(r) \in Role /\ Other(r) # r /\ \A q \in Role : q = r \/ q = Other(r)
BY DEF Role, Other

(* A session record field by field: a record with the fields of Fresh, each *)
(* of its type, is a session, however it was put together.                  *)
Fields == DOMAIN Fresh

(* Every field is of its type.                                              *)
Typed(t) ==
    /\ t.call \in {"idle", "connecting", "asking", "ready", "failed"}
    /\ t.sock \in {"none", "up", "lost", "destroyed"}
    /\ t.closed \in BOOLEAN
    /\ t.neg \in {"idle", "describing", "applying", "answering", "signaling", "refused",
                  "done"}
    /\ t.answering \in BOOLEAN
    /\ t.pc \in {"none", "new", "remote"}
    /\ t.local \in BOOLEAN
    /\ t.iceLeft \in Nat /\ t.pendingIce \in Nat /\ t.iceAdded \in Nat
    /\ t.dc \in {"none", "connecting", "open", "closed"}
    /\ t.hello \in {"no", "making", "made"}
    /\ t.ephemeral \in BOOLEAN /\ t.peerHello \in BOOLEAN /\ t.completing \in BOOLEAN
    /\ t.session \in BOOLEAN /\ t.connectTimer \in BOOLEAN /\ t.handshakeTimer \in BOOLEAN
    /\ t.reason \in Reason

(* What a session record is made of.                                        *)
LEMMA SessionFields ==
    ASSUME NEW s \in Session
    PROVE  Typed(s) /\ DOMAIN s = Fields
BY DEF Session, Typed, Fields, Fresh

(* An updated session record is one if the fields are still of their types. *)
LEMMA SessionUpdated ==
    ASSUME NEW s \in Session, NEW t, t = [y \in DOMAIN s |-> t[y]], Typed(t)
    PROVE  t \in Session
<1>1. t = [y \in Fields |-> t[y]]
    BY SessionFields
<1>2. t = [call |-> t.call, sock |-> t.sock, closed |-> t.closed, neg |-> t.neg,
           answering |-> t.answering, pc |-> t.pc, local |-> t.local, iceLeft |-> t.iceLeft,
           pendingIce |-> t.pendingIce, iceAdded |-> t.iceAdded, dc |-> t.dc,
           hello |-> t.hello, ephemeral |-> t.ephemeral, peerHello |-> t.peerHello,
           completing |-> t.completing, session |-> t.session,
           connectTimer |-> t.connectTimer, handshakeTimer |-> t.handshakeTimer,
           reason |-> t.reason]
    BY <1>1 DEF Fields, Fresh
<1>3. QED
    BY <1>2 DEF Session, Typed

(* The record a teardown leaves of a session record s.                      *)
TornDown(s, why) ==
    [s EXCEPT !.closed = TRUE, !.reason = why, !.sock = destroy(@),
              !.pc = "none", !.dc = "none",
              !.neg = IF @ \in {"describing", "applying", "answering"} THEN "idle" ELSE @,
              !.answering = FALSE, !.session = FALSE, !.ephemeral = FALSE,
              !.connectTimer = FALSE, !.handshakeTimer = FALSE]

(* A teardown touches the connection, the session and the timers only.      *)
LEMMA TornDownIs ==
    ASSUME NEW s \in Session, NEW why \in Reason, NEW t, t = TornDown(s, why)
    PROVE  /\ t \in Session
           /\ t.closed /\ t.pc = "none" /\ t.dc = "none" /\ ~t.answering
           /\ t.neg = IF s.neg \in {"describing", "applying", "answering"} THEN "idle" ELSE s.neg
           /\ ~t.session /\ ~t.ephemeral /\ t.sock = destroy(s.sock)
           /\ t.hello = s.hello /\ t.peerHello = s.peerHello /\ t.completing = s.completing
           /\ t.iceLeft = s.iceLeft /\ t.pendingIce = s.pendingIce /\ t.iceAdded = s.iceAdded
<1>1. Typed(s) /\ DOMAIN s = Fields /\ t = [y \in DOMAIN s |-> t[y]]
    BY SessionFields DEF TornDown
<1>2. Typed(t)
    BY <1>1 DEF Typed, TornDown, destroy, Fields, Fresh
<1>3. t \in Session
    BY <1>1, <1>2, SessionUpdated
<1>4. QED
    BY <1>1, <1>3 DEF TornDown, Fields, Fresh

(* The types, operation by operation.                                       *)
LEMMA LeaveRelayTypes ==
    ASSUME TypeOK, NEW r \in Role, LeaveRelay(r)
    PROVE  sig' \in [Role -> Seq(Event)] /\ relay' \in {"none", "waiting", "paired", "gone"}
<1>1. "channel-closed" \in Event /\ << >> \in Seq(Event)
    BY DEF Event
<1>2. \A q \in Role : sig[q] \in Seq(Event) /\ Append(sig[q], "channel-closed") \in Seq(Event)
    BY <1>1 DEF TypeOK
<1>3. CASE relay = "paired" \/ (relay = "waiting" /\ r = "initiator")
    <2>1. /\ relay' = "gone"
          /\ sig' = [q \in Role |->
                        IF q # r /\ relay = "paired" /\ ps[q].sock = "up"
                          THEN Append(sig[q], "channel-closed")
                          ELSE IF q = r THEN << >> ELSE sig[q]]
        BY <1>3 DEF LeaveRelay
    <2>2. QED
        BY <1>1, <1>2, <2>1
<1>4. CASE ~(relay = "paired" \/ (relay = "waiting" /\ r = "initiator"))
    BY <1>1, <1>4 DEF LeaveRelay, TypeOK
<1>5. QED
    BY <1>3, <1>4

(* Teardown keeps the types.                                                *)
LEMMA TeardownTypes ==
    ASSUME TypeOK, NEW r \in Role, NEW s \in Session, NEW why \in Reason, Teardown(r, s, why)
    PROVE  /\ \E t \in Session : ps' = [ps EXCEPT ![r] = t]
           /\ helloIn' \in [Role -> BOOLEAN] /\ sig' \in [Role -> Seq(Event)]
           /\ relay' \in {"none", "waiting", "paired", "gone"}
<1>1. CASE s.closed
    BY <1>1 DEF Teardown, Put, TypeOK
<1>2. CASE ~s.closed
    <2>1. ps' = [ps EXCEPT ![r] = TornDown(s, why)]
        BY <1>2 DEF Teardown, Put, TornDown
    <2>2. TornDown(s, why) \in Session
        BY TornDownIs
    <2>3. sig' \in [Role -> Seq(Event)] /\ relay' \in {"none", "waiting", "paired", "gone"}
        BY <1>2, LeaveRelayTypes DEF Teardown, TypeOK
    <2>4. helloIn' \in [Role -> BOOLEAN]
        BY <1>2 DEF Teardown, TypeOK
    <2>5. QED
        BY <2>1, <2>2, <2>3, <2>4
<1>3. QED
    BY <1>1, <1>2

(* So does writing a session back.                                          *)
LEMMA PutTypes ==
    ASSUME TypeOK, NEW r \in Role, NEW s \in Session, Put(r, s)
    PROVE  ps' \in [Role -> Session]
BY DEF TypeOK, Put

(* So does showing a state.                                                 *)
LEMMA ShowTypes ==
    ASSUME TypeOK, NEW r \in Role, NEW u \in UiState, Show(r, u)
    PROVE  ui' \in [Role -> UiState]
BY DEF TypeOK, Show

(* So does showing a loss.                                                  *)
LEMMA ClosedNoticeTypes ==
    ASSUME TypeOK, NEW r \in Role, ClosedNotice(r)
    PROVE  ui' \in [Role -> UiState]
BY ShowTypes DEF ClosedNotice, UiState, TypeOK

(* So does hearing an event.                                                *)
LEMMA PopTypes ==
    ASSUME TypeOK, NEW r \in Role, NEW e, Hears(r, e), Pop(r)
    PROVE  sig' \in [Role -> Seq(Event)]
<1>1. sig[r] \in Seq(Event) /\ sig[r] # << >>
    BY DEF TypeOK, Hears
<1>2. Tail(sig[r]) \in Seq(Event)
    BY <1>1
<1>3. QED
    BY <1>2 DEF TypeOK, Pop

(* So does forwarding one.                                                  *)
LEMMA ForwardTypes ==
    ASSUME TypeOK, NEW r \in Role, NEW e \in Event, Forward(r, e)
    PROVE  sig' \in [Role -> Seq(Event)]
BY DEF TypeOK, Forward

(* So does failing.                                                         *)
LEMMA FailTypes ==
    ASSUME TypeOK, NEW r \in Role, NEW s \in Session, NEW why \in Reason, Fail(r, s, why)
    PROVE  /\ ps' \in [Role -> Session] /\ ui' \in [Role -> UiState]
           /\ helloIn' \in [Role -> BOOLEAN] /\ sig' \in [Role -> Seq(Event)]
           /\ relay' \in {"none", "waiting", "paired", "gone"}
BY TeardownTypes, ShowTypes DEF Fail, UiState, TypeOK

(* Every step keeps the types.                                              *)
LEMMA TypesKept == TypeOK /\ [Next]_vars => TypeOK'
<1> SUFFICES ASSUME TypeOK, [Next]_vars PROVE TypeOK'
    OBVIOUS
<1>0. /\ \A r \in Role : ps[r] \in Session /\ sig[r] \in Seq(Event) /\ Other(r) \in Role
      /\ "initiator" \in Role /\ "responder" \in Role
    BY DEF TypeOK, Role, Other
<1>F. \A r \in Role : Typed(ps[r]) /\ DOMAIN ps[r] = Fields
    BY <1>0, SessionFields
<1>1. CASE hostSession
    <2>1. Typed([ps["initiator"] EXCEPT !.call = "connecting"])
        BY <1>0, <1>F DEF Typed, Fields, Fresh
    <2>2. [ps["initiator"] EXCEPT !.call = "connecting"]
             \in Session
        BY <1>0, <2>1, SessionUpdated
    <2>3. QED
        BY <1>0, <2>2, <1>1, PutTypes, ShowTypes DEF hostSession, TypeOK, UiState
<1>2. CASE joinSession
    <2>1. Typed([ps["responder"] EXCEPT !.call = "connecting"])
        BY <1>0, <1>F DEF Typed, Fields, Fresh
    <2>2. [ps["responder"] EXCEPT !.call = "connecting"]
             \in Session
        BY <1>0, <2>1, SessionUpdated
    <2>3. QED
        BY <1>0, <2>2, <1>2, PutTypes, ShowTypes DEF joinSession, TypeOK, UiState
<1>3. CASE Created
    <2>1. Typed([ps["initiator"] EXCEPT !.call = "ready"])
        BY <1>0, <1>F DEF Typed, Fields, Fresh
    <2>2. [ps["initiator"] EXCEPT !.call = "ready"]
             \in Session
        BY <1>0, <2>1, SessionUpdated
    <2>3. QED
        BY <1>0, <2>2, <1>3, PutTypes, ShowTypes DEF Created, TypeOK, UiState
<1>4. CASE Joined
    <2>1. Typed(ArmTimeouts([ps["responder"] EXCEPT !.call = "ready"]))
        BY <1>0, <1>F DEF ArmTimeouts, Typed, Fields, Fresh
    <2>2. ArmTimeouts([ps["responder"] EXCEPT !.call = "ready"])
             \in Session
        BY <1>0, <2>1, SessionUpdated DEF ArmTimeouts
    <2>3. QED
        BY <1>0, <2>2, <1>4, PutTypes, ShowTypes, ForwardTypes DEF Joined, TypeOK, UiState, Event
<1>5. ASSUME NEW r \in Role, NEW e \in Event, NEW from, Describe(r, from, e) PROVE TypeOK'
    <2> DEFINE taken == ps[r].sock = "up" /\ relay = "paired"
    <2> DEFINE s == [ps[r] EXCEPT !.local = TRUE,
                                  !.neg = IF taken THEN "signaling" ELSE "refused"]
    <2>1. s \in Session
        <3>1. Typed(s)
            BY <1>F DEF Typed, Fields, Fresh
        <3>2. QED
            BY <1>0, <3>1, SessionUpdated
    <2>2. ps' \in [Role -> Session]
        <3>1. Put(r, s)
            BY <1>5 DEF Describe
        <3> HIDE DEF s
        <3>2. QED
            BY <2>1, <3>1, PutTypes
    <2>3. sig' \in [Role -> Seq(Event)]
        <3>1. CASE taken
            <4>1. "ack" \in Event /\ Other(r) # r
                BY Others DEF Event
            <4>2. sig' = [sig EXCEPT ![r] = Append(sig[r], "ack"),
                                     ![Other(r)] = IF ps[Other(r)].sock = "up"
                                                     THEN Append(sig[Other(r)], e)
                                                     ELSE sig[Other(r)]]
                BY <1>5, <3>1, <4>1 DEF Describe
            <4>3. Append(sig[r], "ack") \in Seq(Event) /\ Append(sig[Other(r)], e) \in Seq(Event)
                BY <1>0, <4>1
            <4>4. QED
                BY <1>0, <4>2, <4>3 DEF TypeOK
        <3>2. CASE ~taken
            BY <1>5, <3>2 DEF Describe, TypeOK
        <3>3. QED
            BY <3>1, <3>2
    <2>4. QED
        BY <1>5, <2>2, <2>3 DEF Describe, TypeOK
<1>6. CASE SendOffer \/ SendAnswer
    BY <1>0, <1>5, <1>6 DEF SendOffer, SendAnswer, Event
<1>7. CASE RelayExpires
    <2>1. \A r \in Role : Append(sig[r], "channel-closed") \in Seq(Event)
        BY <1>0 DEF Event
    <2>2. sig' = [r \in Role |->
                    IF ps[r].sock = "up" /\ (relay = "paired" \/ r = "initiator")
                      THEN Append(sig[r], "channel-closed") ELSE sig[r]]
        BY <1>7 DEF RelayExpires
    <2>3. sig' \in [Role -> Seq(Event)]
        BY <1>0, <2>1, <2>2
    <2>4. relay' = "gone" /\ UNCHANGED <<ps, ui, held, helloIn, invite>>
        BY <1>7 DEF RelayExpires
    <2>5. QED
        BY <2>3, <2>4 DEF TypeOK
<1>8. ASSUME NEW r \in Role, SocketConnected(r) PROVE TypeOK'
    <2>1. Typed([ps[r] EXCEPT !.call = "asking", !.sock = "up"])
        BY <1>0, <1>F DEF Typed, Fields, Fresh
    <2>2. [ps[r] EXCEPT !.call = "asking", !.sock = "up"]
             \in Session
        BY <1>0, <2>1, SessionUpdated
    <2>3. QED
        BY <1>0, <2>2, <1>8, PutTypes DEF SocketConnected, TypeOK
<1>9. ASSUME NEW r \in Role, CallFailed(r) PROVE TypeOK'
    <2>1. Typed([ps[r] EXCEPT !.call = "failed"])
        BY <1>0, <1>F DEF Typed, Fields, Fresh
    <2>2. [ps[r] EXCEPT !.call = "failed"]
             \in Session
        BY <1>0, <2>1, SessionUpdated
    <2>3. QED
        BY <1>0, <2>2, <1>9, PutTypes, ShowTypes DEF CallFailed, TypeOK, UiState
<1>10. ASSUME NEW r \in Role, Cancel(r) PROVE TypeOK'
    <2>1. "user-closed" \in Reason /\ "offline" \in UiState
        BY DEF Reason, UiState
    <2>2. /\ \E t \in Session : ps' = [ps EXCEPT ![r] = t]
          /\ helloIn' \in [Role -> BOOLEAN] /\ sig' \in [Role -> Seq(Event)]
          /\ relay' \in {"none", "waiting", "paired", "gone"}
        BY <1>0, <1>10, <2>1, TeardownTypes DEF Cancel
    <2>3. ui' \in [Role -> UiState]
        BY <1>10, <2>1, ShowTypes DEF Cancel
    <2>4. QED
        BY <1>10, <2>2, <2>3 DEF Cancel, TypeOK
<1>11. ASSUME NEW r \in Role, SocketLost(r) PROVE TypeOK'
    <2>1. Typed([ps[r] EXCEPT !.sock = "lost"])
        BY <1>0, <1>F DEF Typed, Fields, Fresh
    <2>2. [ps[r] EXCEPT !.sock = "lost"]
             \in Session
        BY <1>0, <2>1, SessionUpdated
    <2>3. QED
        BY <1>0, <2>2, <1>11, PutTypes, LeaveRelayTypes, ClosedNoticeTypes DEF SocketLost, TypeOK
<1>12. ASSUME NEW r \in Role, PeerJoined(r) PROVE TypeOK'
    <2>1. Typed([ps[r] EXCEPT !.connectTimer = TRUE, !.pc = "new", !.dc = "connecting",
                            !.neg = "describing"])
        BY <1>0, <1>F DEF Typed, Fields, Fresh
    <2>2. [ps[r] EXCEPT !.connectTimer = TRUE, !.pc = "new", !.dc = "connecting",
                            !.neg = "describing"]
             \in Session
        BY <1>0, <2>1, SessionUpdated
    <2>3. QED
        BY <1>0, <2>2, <1>12, PopTypes, PutTypes, ShowTypes DEF PeerJoined, TypeOK, UiState
<1>13. ASSUME NEW r \in Role, OfferArrives(r) PROVE TypeOK'
    <2>1. Typed([ps[r] EXCEPT !.pc = "new", !.neg = "applying"])
        BY <1>0, <1>F DEF Typed, Fields, Fresh
    <2>2. [ps[r] EXCEPT !.pc = "new", !.neg = "applying"]
             \in Session
        BY <1>0, <2>1, SessionUpdated
    <2>3. QED
        BY <1>0, <2>2, <1>13, PopTypes, PutTypes, ShowTypes DEF OfferArrives, TypeOK, UiState
<1>14. ASSUME NEW r \in Role, AnswerArrives(r) PROVE TypeOK'
    <2>1. Typed([ps[r] EXCEPT !.answering = TRUE])
        BY <1>0, <1>F DEF Typed, Fields, Fresh
    <2>2. [ps[r] EXCEPT !.answering = TRUE]
             \in Session
        BY <1>0, <2>1, SessionUpdated
    <2>3. QED
        BY <1>0, <2>2, <1>14, PopTypes, PutTypes DEF AnswerArrives, TypeOK
<1>15. ASSUME NEW r \in Role, IceArrives(r) PROVE TypeOK'
    <2>1. Typed(TakeCandidate(ps[r]))
        BY <1>0, <1>F DEF TakeCandidate, Typed, Fields, Fresh
    <2>2. TakeCandidate(ps[r])
             \in Session
        BY <1>0, <2>1, SessionUpdated DEF TakeCandidate
    <2>3. QED
        BY <1>0, <2>2, <1>15, PopTypes, PutTypes DEF IceArrives, TypeOK
<1>16. ASSUME NEW r \in Role, ChannelClosed(r) PROVE TypeOK'
    BY <1>0, <1>16, PopTypes, ClosedNoticeTypes DEF ChannelClosed, TypeOK
<1>17. ASSUME NEW r \in Role, OfferApplied(r) PROVE TypeOK'
    <2>1. Typed([Described(ps[r]) EXCEPT !.neg = "answering"])
        BY <1>0, <1>F DEF Described, Typed, Fields, Fresh
    <2>2. [Described(ps[r]) EXCEPT !.neg = "answering"]
             \in Session
        BY <1>0, <2>1, SessionUpdated DEF Described
    <2>3. QED
        BY <1>0, <2>2, <1>17, PutTypes DEF OfferApplied, TypeOK
<1>18. ASSUME NEW r \in Role, AnswerApplied(r) PROVE TypeOK'
    <2>1. Typed([Described(ps[r]) EXCEPT !.answering = FALSE])
        BY <1>0, <1>F DEF Described, Typed, Fields, Fresh
    <2>2. [Described(ps[r]) EXCEPT !.answering = FALSE]
             \in Session
        BY <1>0, <2>1, SessionUpdated DEF Described
    <2>3. QED
        BY <1>0, <2>2, <1>18, PutTypes DEF AnswerApplied, TypeOK
<1>19. ASSUME NEW r \in Role, SendIce(r) PROVE TypeOK'
    <2>1. [ps[r] EXCEPT !.iceLeft = @ - 1] \in Session
        <3>1. Typed([ps[r] EXCEPT !.iceLeft = @ - 1])
            BY <1>F, <1>19 DEF SendIce, Typed, Fields, Fresh
        <3>2. QED
            BY <1>0, <3>1, SessionUpdated
    <2>2. QED
        BY <1>0, <1>19, <2>1, PutTypes, ForwardTypes DEF SendIce, TypeOK, Event
<1>20. ASSUME NEW r \in Role, SignalAcked(r) PROVE TypeOK'
    <2>1. Typed([ps[r] EXCEPT !.neg = "done"])
        BY <1>0, <1>F DEF Typed, Fields, Fresh
    <2>2. [ps[r] EXCEPT !.neg = "done"]
             \in Session
        BY <1>0, <2>1, SessionUpdated
    <2>3. QED
        BY <1>0, <2>2, <1>20, PopTypes, PutTypes DEF SignalAcked, TypeOK
<1>21. ASSUME NEW r \in Role, SignalFailed(r) PROVE TypeOK'
    <2>1. [ps[r] EXCEPT !.neg = "done"] \in Session
        <3>1. Typed([ps[r] EXCEPT !.neg = "done"])
            BY <1>F DEF Typed, Fields, Fresh
        <3>2. QED
            BY <1>0, <3>1, SessionUpdated
    <2>2. QED
        BY <1>21, <2>1, FailTypes DEF SignalFailed, TypeOK, Reason
<1>22. ASSUME NEW r \in Role, ChannelOpens(r) PROVE TypeOK'
    <2>1. Typed([ps[r] EXCEPT !.dc = "open", !.hello = "making", !.handshakeTimer = TRUE])
        BY <1>0, <1>F DEF Typed, Fields, Fresh
    <2>2. [ps[r] EXCEPT !.dc = "open", !.hello = "making", !.handshakeTimer = TRUE]
             \in Session
        BY <1>0, <2>1, SessionUpdated
    <2>3. QED
        BY <1>0, <2>2, <1>22, PutTypes, ShowTypes DEF ChannelOpens, TypeOK, UiState
<1>23. ASSUME NEW r \in Role, HelloMade(r) PROVE TypeOK'
    <2>1. [createHello(ps[r]) EXCEPT !.completing =
              @ \/ (ps[r].dc # "closed" /\ ps[r].peerHello /\ ~ps[r].session)] \in Session
        <3>1. Typed([createHello(ps[r]) EXCEPT !.completing =
                         @ \/ (ps[r].dc # "closed" /\ ps[r].peerHello /\ ~ps[r].session)])
            BY <1>F DEF createHello, Typed, Fields, Fresh
        <3>2. QED
            BY <1>0, <3>1, SessionUpdated DEF createHello
    <2>2. ps' \in [Role -> Session] /\ helloIn' \in [Role -> BOOLEAN]
        BY <1>0, <1>23, <2>1, PutTypes DEF HelloMade, TypeOK
    <2>3. QED
        BY <1>23, <2>2, ShowTypes DEF HelloMade, TypeOK, UiState
<1>24. ASSUME NEW r \in Role, HelloArrives(r) PROVE TypeOK'
    <2> DEFINE s == [ps[r] EXCEPT !.peerHello = TRUE]
    <2>1. s \in Session
        <3>1. Typed(s)
            BY <1>F DEF Typed, Fields, Fresh
        <3>2. QED
            BY <1>0, <3>1, SessionUpdated
    <2>2. [s EXCEPT !.completing = @ \/ ~s.session] \in Session
        <3>1. Typed([s EXCEPT !.completing = @ \/ ~s.session])
            BY <2>1, SessionFields DEF Typed, Fields, Fresh
        <3>2. QED
            BY <2>1, <3>1, SessionUpdated
    <2> HIDE DEF s
    <2>3. CASE s.session \/ HasEphemeral(s)
        BY <1>24, <2>2, <2>3, PutTypes, ShowTypes DEF HelloArrives, s, TypeOK, UiState
    <2>4. CASE ~(s.session \/ HasEphemeral(s))
        BY <1>24, <2>1, <2>4, FailTypes DEF HelloArrives, s, TypeOK, Reason
    <2>5. QED
        BY <2>3, <2>4
<1>25. ASSUME NEW r \in Role, HandshakeCompleted(r) PROVE TypeOK'
    <2> DEFINE s == [ps[r] EXCEPT !.completing = FALSE]
    <2>1. s \in Session
        <3>1. Typed(s)
            BY <1>F DEF Typed, Fields, Fresh
        <3>2. QED
            BY <1>0, <3>1, SessionUpdated
    <2>2. [Established(s) EXCEPT !.connectTimer = FALSE, !.handshakeTimer = FALSE] \in Session
        <3>1. Typed([Established(s) EXCEPT !.connectTimer = FALSE, !.handshakeTimer = FALSE])
            BY <2>1, SessionFields DEF Typed, Fields, Fresh, Established
        <3>2. QED
            BY <2>1, <3>1, SessionUpdated DEF Established
    <2> HIDE DEF s
    <2>3. CASE Mismatch(r)
        BY <1>25, <2>1, <2>3, FailTypes DEF HandshakeCompleted, s, TypeOK, Reason
    <2>4. CASE ~Mismatch(r)
        BY <1>25, <2>2, <2>4, PutTypes, ShowTypes DEF HandshakeCompleted, s, TypeOK, UiState
    <2>5. QED
        BY <2>3, <2>4
<1>26. ASSUME NEW r \in Role, ChannelLost(r) PROVE TypeOK'
    <2>1. Typed([ps[r] EXCEPT !.dc = "closed"])
        BY <1>0, <1>F DEF Typed, Fields, Fresh
    <2>2. [ps[r] EXCEPT !.dc = "closed"]
             \in Session
        BY <1>0, <2>1, SessionUpdated
    <2>3. QED
        BY <1>0, <2>2, <1>26, PutTypes, ClosedNoticeTypes DEF ChannelLost, TypeOK
<1>27. ASSUME NEW r \in Role, ConnectTimeout(r) PROVE TypeOK'
    <2>1. [ps[r] EXCEPT !.connectTimer = FALSE] \in Session
        <3>1. Typed([ps[r] EXCEPT !.connectTimer = FALSE])
            BY <1>F DEF Typed, Fields, Fresh
        <3>2. QED
            BY <1>0, <3>1, SessionUpdated
    <2>2. QED
        BY <1>27, <2>1, PutTypes, FailTypes DEF ConnectTimeout, TypeOK, Reason
<1>28. ASSUME NEW r \in Role, HandshakeTimeout(r) PROVE TypeOK'
    <2>1. [ps[r] EXCEPT !.handshakeTimer = FALSE] \in Session
        <3>1. Typed([ps[r] EXCEPT !.handshakeTimer = FALSE])
            BY <1>F DEF Typed, Fields, Fresh
        <3>2. QED
            BY <1>0, <3>1, SessionUpdated
    <2>2. QED
        BY <1>28, <2>1, PutTypes, FailTypes DEF HandshakeTimeout, TypeOK, Reason
<1>29. CASE UNCHANGED vars
    BY <1>29 DEF vars, TypeOK
<1>30. QED
    BY <1>1, <1>2, <1>3, <1>4, <1>6, <1>7, <1>8, <1>9, <1>10, <1>11, <1>12, <1>13, <1>14, <1>15,
       <1>16, <1>17, <1>18, <1>19, <1>20, <1>21, <1>22, <1>23, <1>24, <1>25, <1>26, <1>27,
       <1>28, <1>29 DEF Next, Signaling, WebRTC, Handshake, Timeout

(* The initial states have the types.                                       *)
LEMMA TypesInit == Init => TypeOK
BY IceCountAssumption DEF Init, TypeOK, Fresh, Session, Role, UiState, Reason

-----------------------------------------------------------------------------
(* What has happened to a session by the time it is secure.                 *)

(* A session that took no part in a negotiation.                            *)
Untouched(s) ==
    /\ s.pc = "none" /\ s.dc = "none" /\ s.neg = "idle" /\ ~s.answering /\ s.hello = "no"
    /\ s.iceLeft = IceCount /\ s.pendingIce = 0 /\ s.iceAdded = 0

(* Each session by itself: a torn-down one gets no remote description any   *)
(* more, so it opens no channel; a live one whose channel is not open has   *)
(* not begun its hello; a key, a completion and a session need the hello.   *)
SessionOK(s) ==
    /\ s.closed => s.pc # "remote" /\ ~s.answering /\ s.neg # "applying"
    /\ ~s.closed /\ s.dc \in {"none", "connecting"} => s.hello = "no"
    /\ s.ephemeral \/ s.session \/ s.completing => s.hello = "made"
    /\ s.pc = "remote" => s.pendingIce = 0

(* A hello that was delivered or used was made by the peer.                 *)
HellosOK ==
    \A r \in Role :
        ps[r].peerHello \/ helloIn[r] \/ ps[r].completing \/ ps[r].session
            => ps[Other(r)].hello = "made"

(* Only the initiator is in the channel, or nobody.                         *)
Unpaired == relay \in {"none", "waiting"}
(* Before the responder joins nothing was sent.                             *)
BeforeOK == Unpaired => \A r \in Role : sig[r] = << >> /\ Untouched(ps[r])
(* "peer-joined" is the first event, goes to the initiator, and finds it    *)
(* untouched.                                                               *)
JoinedOK ==
    \A r \in Role : \A i \in DOMAIN sig[r] :
        sig[r][i] = "peer-joined" => r = "initiator" /\ i = 1 /\ Untouched(ps[r])

(* The members of a channel have their sockets.                             *)
RelayOK ==
    /\ relay \in {"waiting", "paired"} => ps["initiator"].sock = "up"
    /\ relay = "paired" => ps["responder"].sock = "up"

(* The invariant: no step breaks it, and the theorems follow from it.       *)
LifeInv ==
    /\ TypeOK
    /\ \A r \in Role : SessionOK(ps[r])
    /\ HellosOK /\ BeforeOK /\ JoinedOK /\ RelayOK

(* A step in which session s becomes t without getting nearer to a secure   *)
(* session than it was.                                                     *)
Calm(s, t) ==
    /\ SessionOK(s) => SessionOK(t)
    /\ s.hello = "made" => t.hello = "made"
    /\ t.peerHello => s.peerHello
    /\ t.completing \/ t.session => s.completing \/ s.session
    /\ Untouched(s) => Untouched(t)

(* Signals and channel after a step: nobody is told of a newcomer, and      *)
(* nothing is sent while there is only one peer.                            *)
Quiet ==
    /\ Unpaired' => Unpaired
    /\ \A q \in Role :
          /\ Unpaired' => sig'[q] = sig[q] \/ sig'[q] = << >>
          /\ \A i \in DOMAIN sig'[q] :
                sig'[q][i] = "peer-joined" => i \in DOMAIN sig[q] /\ sig[q][i] = "peer-joined"

(* A step of r that earns what it has keeps the sessions in order.          *)
LEMMA SessionsKept ==
    ASSUME LifeInv, NEW r \in Role, NEW t, ps' = [ps EXCEPT ![r] = t], SessionOK(t),
           ps[r].hello = "made" => t.hello = "made",
           t.peerHello \/ helloIn'[r] \/ t.completing \/ t.session
               => ps[Other(r)].hello = "made",
           helloIn'[Other(r)] => helloIn[Other(r)] \/ t.hello = "made"
    PROVE  (\A q \in Role : SessionOK(ps'[q])) /\ HellosOK'
<1>1. /\ ps'[r] = t /\ ps'[Other(r)] = ps[Other(r)] /\ Other(r) \in Role
      /\ Other(Other(r)) = r /\ Other(r) # r /\ \A q \in Role : q = r \/ q = Other(r)
    BY Others DEF LifeInv, TypeOK, Other, Role
<1>2. \A q \in Role : SessionOK(ps'[q])
    BY <1>1 DEF LifeInv
<1>3. HellosOK'
    <2>1. ps[Other(r)].peerHello \/ helloIn[Other(r)] \/ ps[Other(r)].completing
            \/ ps[Other(r)].session => ps[r].hello = "made"
        BY <1>1 DEF LifeInv, HellosOK
    <2>2. ASSUME NEW q \in Role,
                 ps'[q].peerHello \/ helloIn'[q] \/ ps'[q].completing \/ ps'[q].session
          PROVE  ps'[Other(q)].hello = "made"
        <3>1. CASE q = r
            BY <1>1, <2>2, <3>1
        <3>2. CASE q = Other(r)
            BY <1>1, <2>1, <2>2, <3>2
        <3>3. QED
            BY <1>1, <3>1, <3>2
    <2>3. QED
        BY <2>2 DEF HellosOK
<1>4. QED
    BY <1>2, <1>3

(* A quiet step keeps the order of events.                                  *)
LEMMA SignalsKept ==
    ASSUME LifeInv, NEW r \in Role, NEW t, ps' = [ps EXCEPT ![r] = t],
           Untouched(ps[r]) => Untouched(t), Quiet
    PROVE  BeforeOK' /\ JoinedOK'
<1>1. \A q \in Role : ps'[q] = IF q = r THEN t ELSE ps[q]
    BY DEF LifeInv, TypeOK
<1>2. \A q \in Role : Untouched(ps[q]) => Untouched(ps'[q])
    BY <1>1
<1>3. BeforeOK'
    BY <1>2 DEF LifeInv, BeforeOK, Quiet
<1>4. JoinedOK'
    BY <1>2 DEF LifeInv, JoinedOK, Quiet
<1>5. QED
    BY <1>3, <1>4

(* A calm and quiet step keeps the invariant.                               *)
LEMMA CalmKeeps ==
    ASSUME LifeInv, NEW r \in Role, NEW t, ps' = [ps EXCEPT ![r] = t], Calm(ps[r], t),
           \A q \in Role : helloIn'[q] => helloIn[q], Quiet, RelayOK', TypeOK'
    PROVE  LifeInv'
<1>1. SessionOK(ps[r]) /\ Other(r) \in Role
    BY Others DEF LifeInv
<1>2. t.peerHello \/ helloIn'[r] \/ t.completing \/ t.session => ps[Other(r)].hello = "made"
    BY DEF LifeInv, HellosOK, Calm
<1>3. (\A q \in Role : SessionOK(ps'[q])) /\ HellosOK'
    BY <1>1, <1>2, SessionsKept DEF Calm
<1>4. BeforeOK' /\ JoinedOK'
    BY SignalsKept DEF Calm
<1>5. QED
    BY <1>3, <1>4 DEF LifeInv

(* Without signals a step is quiet.                                         *)
LEMMA UntouchedSignals ==
    ASSUME UNCHANGED <<relay, sig>>
    PROVE  Quiet
BY DEF Quiet, Unpaired

(* Hearing anything but the newcomer is quiet.                              *)
LEMMA PopQuiet ==
    ASSUME LifeInv, NEW r \in Role, NEW e, Hears(r, e), e # "peer-joined", Pop(r), relay' = relay
    PROVE  Quiet
<1>1. sig[r] \in Seq(Event) /\ sig[r] # << >> /\ sig[r][1] = e
    BY DEF LifeInv, TypeOK, Hears
<1>2. sig' = [sig EXCEPT ![r] = Tail(sig[r])]
    BY DEF Pop
<1>3. ~Unpaired
    BY <1>1 DEF LifeInv, BeforeOK
<1>4. \A i \in DOMAIN Tail(sig[r]) : i + 1 \in DOMAIN sig[r] /\ Tail(sig[r])[i] = sig[r][i + 1] /\ i \in Nat /\ i + 1 # 1
    BY <1>1
<1>5. \A i \in DOMAIN Tail(sig[r]) : Tail(sig[r])[i] # "peer-joined"
    BY <1>4 DEF LifeInv, JoinedOK
<1>6. \A q \in Role : sig'[q] = IF q = r THEN Tail(sig[r]) ELSE sig[q]
    BY <1>2 DEF LifeInv, TypeOK
<1>7. QED
    BY <1>3, <1>5, <1>6 DEF Quiet, Unpaired

(* An event that is no newcomer adds none.                                  *)
LEMMA AppendAdds ==
    ASSUME NEW q \in Seq(Event), NEW e, e # "peer-joined"
    PROVE  \A i \in DOMAIN Append(q, e) :
              Append(q, e)[i] = "peer-joined" => i \in DOMAIN q /\ q[i] = "peer-joined"
OBVIOUS

(* Sending to a peer that is there is quiet.                                *)
LEMMA AppendsQuiet ==
    ASSUME LifeInv, ~Unpaired', 
           \A q \in Role : \/ sig'[q] = sig[q] \/ sig'[q] = << >>
                           \/ \E e \in Event \ {"peer-joined"} : sig'[q] = Append(sig[q], e)
    PROVE  Quiet
<1>1. \A q \in Role : sig[q] \in Seq(Event)
    BY DEF LifeInv, TypeOK
<1>2. QED
    BY <1>1, AppendAdds DEF Quiet

(* Leaving the relay, by whoever still has a socket, is quiet.              *)
LEMMA LeaveQuiet ==
    ASSUME LifeInv, NEW r \in Role, LeaveRelay(r)
    PROVE  /\ Quiet
           /\ relay' = relay \/ relay' = "gone"
           /\ relay' = "waiting" => r # "initiator"
           /\ relay' # "paired"
<1>1. \A q \in Role : sig[q] \in Seq(Event)
    BY DEF LifeInv, TypeOK
<1>2. CASE relay = "paired" \/ (relay = "waiting" /\ r = "initiator")
    <2>1. /\ relay' = "gone"
          /\ sig' = [q \in Role |->
                        IF q # r /\ relay = "paired" /\ ps[q].sock = "up"
                          THEN Append(sig[q], "channel-closed")
                          ELSE IF q = r THEN << >> ELSE sig[q]]
        BY <1>2 DEF LeaveRelay
    <2>2. \A q \in Role : \/ sig'[q] = sig[q] \/ sig'[q] = << >>
                          \/ \E e \in Event \ {"peer-joined"} : sig'[q] = Append(sig[q], e)
        <3>1. "channel-closed" \in Event \ {"peer-joined"}
            BY DEF Event
        <3>2. QED
            BY <2>1, <3>1
    <2>3. QED
        BY <2>1, <2>2, AppendsQuiet DEF Unpaired
<1>3. CASE ~(relay = "paired" \/ (relay = "waiting" /\ r = "initiator"))
    <2>1. relay' = relay /\ sig' = [sig EXCEPT ![r] = << >>]
        BY <1>3 DEF LeaveRelay
    <2>2. \A q \in Role : sig'[q] = IF q = r THEN << >> ELSE sig[q]
        BY <2>1 DEF LifeInv, TypeOK
    <2>3. Quiet
        BY <2>1, <2>2 DEF Quiet, Unpaired
    <2>4. QED
        BY <1>3, <2>1, <2>3
<1>4. QED
    BY <1>2, <1>3

(* A channel keeps its members' sockets if only r's changes, and r had none *)
(* or left.                                                                 *)
LEMMA RelayKept ==
    ASSUME LifeInv, NEW r \in Role, NEW t, ps' = [ps EXCEPT ![r] = t],
           relay' = relay \/ relay' = "gone",
           t.sock # ps[r].sock => \/ t.sock = "up" \/ relay' \in {"none", "gone"}
                                  \/ (relay' = "waiting" /\ r # "initiator")
    PROVE  RelayOK'
<1>1. \A q \in Role : ps'[q] = IF q = r THEN t ELSE ps[q]
    BY DEF LifeInv, TypeOK
<1>2. "initiator" \in Role /\ "responder" \in Role
    BY DEF Role
<1>3. QED
    BY <1>1, <1>2 DEF LifeInv, RelayOK

(* A teardown of the session in state s.                                    *)
LEMMA TeardownIs ==
    ASSUME LifeInv, NEW r \in Role, NEW s \in Session, NEW why \in Reason,
           s.sock = ps[r].sock, SessionOK(s), Teardown(r, s, why)
    PROVE  /\ \E t \in Session :
                 /\ ps' = [ps EXCEPT ![r] = t]
                 /\ SessionOK(t) /\ t.hello = s.hello /\ t.peerHello = s.peerHello
                 /\ t.completing = s.completing /\ (t.session => s.session)
                 /\ Untouched(s) => Untouched(t)
           /\ \A q \in Role : helloIn'[q] => helloIn[q]
           /\ Quiet /\ RelayOK'
<1>1. CASE s.closed
    <2>1. ps' = [ps EXCEPT ![r] = s] /\ UNCHANGED <<relay, sig, helloIn>>
        BY <1>1 DEF Teardown, Put
    <2>2. QED
        BY <2>1, UntouchedSignals, RelayKept
<1>2. CASE ~s.closed
    <2> DEFINE t == TornDown(s, why)
    <2>1. ps' = [ps EXCEPT ![r] = t]
        BY <1>2 DEF Teardown, Put, TornDown
    <2>2. /\ t \in Session
          /\ t.closed /\ t.pc = "none" /\ t.dc = "none" /\ ~t.answering
          /\ t.neg = IF s.neg \in {"describing", "applying", "answering"} THEN "idle" ELSE s.neg
          /\ ~t.session /\ ~t.ephemeral /\ t.sock = destroy(s.sock)
          /\ t.hello = s.hello /\ t.peerHello = s.peerHello /\ t.completing = s.completing
          /\ t.iceLeft = s.iceLeft /\ t.pendingIce = s.pendingIce /\ t.iceAdded = s.iceAdded
        BY TornDownIs
    <2> HIDE DEF t
    <2>3. SessionOK(t) /\ (Untouched(s) => Untouched(t))
        BY <2>2 DEF SessionOK, Untouched
    <2>4. \A q \in Role : helloIn'[q] => helloIn[q]
        <3>1. helloIn' = [helloIn EXCEPT ![r] = FALSE]
            BY <1>2 DEF Teardown
        <3>2. QED
            BY <3>1 DEF LifeInv, TypeOK
    <2>5. CASE s.sock = "up"
        <3>1. LeaveRelay(r)
            BY <1>2, <2>5 DEF Teardown
        <3>2. relay' \in {"none", "waiting", "paired", "gone"}
            BY <3>1, LeaveRelayTypes DEF LifeInv
        <3>3. QED
            BY <2>1, <2>2, <2>3, <2>4, <3>1, <3>2, LeaveQuiet, RelayKept
    <2>6. CASE s.sock # "up"
        <3>1. UNCHANGED <<relay, sig>> /\ t.sock = ps[r].sock
            BY <1>2, <2>2, <2>6 DEF Teardown, destroy
        <3>2. QED
            BY <2>1, <2>2, <2>3, <2>4, <3>1, UntouchedSignals, RelayKept
    <2>7. QED
        BY <2>5, <2>6
<1>3. QED
    BY <1>1, <1>2

(* So a teardown in a state that is no nearer to a secure session keeps the *)
(* invariant.                                                               *)
LEMMA TeardownKeeps ==
    ASSUME LifeInv, NEW r \in Role, NEW s \in Session, NEW why \in Reason,
           s.sock = ps[r].sock, Calm(ps[r], s), Teardown(r, s, why), TypeOK'
    PROVE  LifeInv'
<1>1. SessionOK(s)
    BY DEF LifeInv, Calm
<1>2. PICK t \in Session :
         /\ ps' = [ps EXCEPT ![r] = t]
         /\ SessionOK(t) /\ t.hello = s.hello /\ t.peerHello = s.peerHello
         /\ t.completing = s.completing /\ (t.session => s.session)
         /\ Untouched(s) => Untouched(t)
    BY <1>1, TeardownIs
<1>3. /\ \A q \in Role : helloIn'[q] => helloIn[q]
      /\ Quiet /\ RelayOK'
    BY <1>1, TeardownIs
<1>4. Calm(ps[r], t)
    BY <1>2 DEF Calm
<1>5. QED
    BY <1>2, <1>3, <1>4, CalmKeeps

(* The records that failures and late answers start from.                   *)
LEMMA SetsStay ==
    ASSUME NEW s \in Session
    PROVE  /\ [s EXCEPT !.neg = "done"] \in Session
           /\ [s EXCEPT !.peerHello = TRUE] \in Session
           /\ [s EXCEPT !.completing = FALSE] \in Session
           /\ [s EXCEPT !.connectTimer = FALSE] \in Session
           /\ [s EXCEPT !.handshakeTimer = FALSE] \in Session
<1>1. Typed(s) /\ DOMAIN s = Fields
    BY SessionFields
<1>2. Typed([s EXCEPT !.neg = "done"])
    BY <1>1 DEF Typed, Fields, Fresh
<1>3. Typed([s EXCEPT !.peerHello = TRUE])
    BY <1>1 DEF Typed, Fields, Fresh
<1>4. Typed([s EXCEPT !.completing = FALSE])
    BY <1>1 DEF Typed, Fields, Fresh
<1>5. Typed([s EXCEPT !.connectTimer = FALSE])
    BY <1>1 DEF Typed, Fields, Fresh
<1>6. Typed([s EXCEPT !.handshakeTimer = FALSE])
    BY <1>1 DEF Typed, Fields, Fresh
<1>7. QED
    BY <1>2, <1>3, <1>4, <1>5, <1>6, SessionUpdated

(* Hearing anything but "peer-joined" finds the session no longer waiting   *)
(* for a peer.                                                              *)
LEMMA HeardElse ==
    ASSUME LifeInv, NEW r \in Role, NEW e, Hears(r, e), e # "peer-joined", Pop(r),
           relay' = relay, NEW t, ps' = [ps EXCEPT ![r] = t]
    PROVE  BeforeOK' /\ JoinedOK'
<1>1. sig[r] \in Seq(Event) /\ sig[r] # << >> /\ sig[r][1] = e
    BY DEF LifeInv, TypeOK, Hears
<1>2. ~Unpaired
    BY <1>1 DEF LifeInv, BeforeOK
<1>3. \A i \in DOMAIN Tail(sig[r]) :
         i \in Nat /\ i + 1 \in DOMAIN sig[r] /\ Tail(sig[r])[i] = sig[r][i + 1] /\ i + 1 # 1
    BY <1>1
<1>4. \A i \in DOMAIN Tail(sig[r]) : Tail(sig[r])[i] # "peer-joined"
    BY <1>3 DEF LifeInv, JoinedOK
<1>5. \A q \in Role : /\ sig'[q] = IF q = r THEN Tail(sig[r]) ELSE sig[q]
                      /\ q # r => ps'[q] = ps[q]
    BY DEF Pop, LifeInv, TypeOK
<1>6. QED
    BY <1>2, <1>4, <1>5 DEF LifeInv, BeforeOK, JoinedOK, Unpaired

(* Every step keeps the invariant.                                          *)
LEMMA LifeKept == LifeInv /\ [Next]_vars => LifeInv'
<1> SUFFICES ASSUME LifeInv, [Next]_vars PROVE LifeInv'
    OBVIOUS
<1>0. /\ TypeOK' /\ TypeOK
      /\ \A r \in Role : ps[r] \in Session /\ DOMAIN ps[r] = Fields /\ SessionOK(ps[r])
      /\ "initiator" \in Role /\ "responder" \in Role
    BY TypesKept, SessionFields DEF LifeInv, TypeOK, Role
<1>1. ASSUME hostSession PROVE LifeInv'
    <2> DEFINE r == "initiator"
    <2> DEFINE t == [ps[r] EXCEPT !.call = "connecting"]
    <2>1. ps' = [ps EXCEPT ![r] = t] /\ \A q \in Role : helloIn'[q] => helloIn[q]
        BY <1>0, <1>1 DEF hostSession, Put, TypeOK
    <2>2. Calm(ps[r], t) /\ t.sock = ps[r].sock
        BY <1>0, <1>1 DEF hostSession, Calm, SessionOK, Untouched, Fields, Fresh
    <2> HIDE DEF t
    <2>3. Quiet /\ RelayOK'
        BY <1>0, <1>1, <2>1, <2>2, UntouchedSignals, RelayKept DEF hostSession
    <2>4. QED
        BY <1>0, <2>1, <2>2, <2>3, CalmKeeps
<1>2. ASSUME joinSession PROVE LifeInv'
    <2> DEFINE r == "responder"
    <2> DEFINE t == [ps[r] EXCEPT !.call = "connecting"]
    <2>1. ps' = [ps EXCEPT ![r] = t] /\ \A q \in Role : helloIn'[q] => helloIn[q]
        BY <1>0, <1>2 DEF joinSession, Put, TypeOK
    <2>2. Calm(ps[r], t) /\ t.sock = ps[r].sock
        BY <1>0, <1>2 DEF joinSession, Calm, SessionOK, Untouched, Fields, Fresh
    <2> HIDE DEF t
    <2>3. Quiet /\ RelayOK'
        BY <1>0, <1>2, <2>1, <2>2, UntouchedSignals, RelayKept DEF joinSession
    <2>4. QED
        BY <1>0, <2>1, <2>2, <2>3, CalmKeeps
<1>3. ASSUME Created PROVE LifeInv'
    <2> DEFINE r == "initiator"
    <2> DEFINE t == [ps[r] EXCEPT !.call = "ready"]
    <2>1. ps' = [ps EXCEPT ![r] = t] /\ helloIn' = helloIn /\ sig' = sig
          /\ relay = "none" /\ relay' = "waiting" /\ ps[r].sock = "up"
        BY <1>3 DEF Created, Put
    <2>2. Calm(ps[r], t) /\ t.sock = ps[r].sock
        BY <1>0 DEF Calm, SessionOK, Untouched, Fields, Fresh
    <2> HIDE DEF t
    <2>3. Quiet
        BY <2>1 DEF Quiet, Unpaired
    <2>4. RelayOK'
        BY <1>0, <2>1, <2>2 DEF RelayOK, TypeOK
    <2>5. QED
        BY <1>0, <2>1, <2>2, <2>3, <2>4, CalmKeeps
<1>4. ASSUME Joined PROVE LifeInv'
    <2> DEFINE r == "responder"
    <2> DEFINE t == ArmTimeouts([ps[r] EXCEPT !.call = "ready"])
    <2>1. ps' = [ps EXCEPT ![r] = t] /\ helloIn' = helloIn /\ Forward("initiator", "peer-joined")
          /\ relay = "waiting" /\ relay' = "paired" /\ ps[r].sock = "up"
        BY <1>4 DEF Joined, Put
    <2>2. Calm(ps[r], t) /\ t.sock = ps[r].sock
        BY <1>0 DEF ArmTimeouts, Calm, SessionOK, Untouched, Fields, Fresh
    <2> HIDE DEF t
    <2>3. ps["initiator"].sock = "up" /\ \A q \in Role : sig[q] = << >> /\ Untouched(ps[q])
        BY <2>1 DEF LifeInv, RelayOK, BeforeOK, Unpaired
    <2>4. /\ sig'["initiator"] = << "peer-joined" >> /\ sig'["responder"] = << >>
          /\ ps'["initiator"] = ps["initiator"] /\ ps'["responder"] = t
        <3>1. sig' = [sig EXCEPT !["initiator"] = Append(sig["initiator"], "peer-joined")]
            BY <2>1, <2>3 DEF Forward
        <3>2. Append(<< >>, "peer-joined") = << "peer-joined" >>
            OBVIOUS
        <3>3. sig["initiator"] = << >> /\ sig["responder"] = << >>
            BY <1>0, <2>3
        <3>4. sig'["initiator"] = << "peer-joined" >> /\ sig'["responder"] = << >>
            BY <1>0, <3>1, <3>2, <3>3 DEF TypeOK
        <3>5. QED
            BY <1>0, <2>1, <3>4 DEF TypeOK
    <2>5. RelayOK' /\ BeforeOK'
        BY <2>1, <2>2, <2>3, <2>4 DEF RelayOK, BeforeOK, Unpaired
    <2>6. JoinedOK'
        BY <2>3, <2>4 DEF JoinedOK, Role
    <2>7. SessionOK(t) /\ (ps[r].hello = "made" => t.hello = "made")
          /\ (t.peerHello \/ helloIn'[r] \/ t.completing \/ t.session
                => ps[Other(r)].hello = "made")
        BY <1>0, <2>1, <2>2 DEF Calm, LifeInv, HellosOK
    <2>8. (\A q \in Role : SessionOK(ps'[q])) /\ HellosOK'
        BY <1>0, <2>1, <2>7, SessionsKept
    <2>9. QED
        BY <1>0, <2>5, <2>6, <2>8 DEF LifeInv
<1>5. ASSUME NEW r \in Role, NEW e \in Event \ {"peer-joined"},
              NEW from \in {"describing", "answering"}, Describe(r, from, e)
       PROVE  LifeInv'
    <2> DEFINE taken == ps[r].sock = "up" /\ relay = "paired"
    <2> DEFINE t == [ps[r] EXCEPT !.local = TRUE,
                                  !.neg = IF taken THEN "signaling" ELSE "refused"]
    <2>1. ps' = [ps EXCEPT ![r] = t] /\ UNCHANGED <<relay, helloIn>> /\ ps[r].neg = from
        BY <1>5 DEF Describe, Put
    <2>2. Calm(ps[r], t) /\ t.sock = ps[r].sock
        BY <1>0, <2>1 DEF Calm, SessionOK, Untouched, Fields, Fresh
    <2> HIDE DEF t
    <2>3. CASE taken
        <3>1. Other(r) \in Role /\ Other(r) # r /\ "ack" \in Event \ {"peer-joined"}
            BY Others DEF Event
        <3>2. sig' = [sig EXCEPT ![r] = Append(sig[r], "ack"),
                                 ![Other(r)] = IF ps[Other(r)].sock = "up"
                                                 THEN Append(sig[Other(r)], e)
                                                 ELSE sig[Other(r)]]
            BY <1>5, <2>3, <3>1 DEF Describe
        <3>3. \A q \in Role : \/ sig'[q] = sig[q] \/ sig'[q] = << >>
                              \/ \E f \in Event \ {"peer-joined"} : sig'[q] = Append(sig[q], f)
            <4>1. /\ sig'[r] = Append(sig[r], "ack")
                  /\ sig'[Other(r)] = IF ps[Other(r)].sock = "up" THEN Append(sig[Other(r)], e)
                                                                 ELSE sig[Other(r)]
                BY <1>0, <3>1, <3>2 DEF TypeOK
            <4>2. CASE ps[Other(r)].sock = "up"
                BY <3>1, <4>1, <4>2, Others
            <4>3. CASE ps[Other(r)].sock # "up"
                BY <3>1, <4>1, <4>3, Others
            <4>4. QED
                BY <4>2, <4>3
        <3>4. Quiet
            BY <2>1, <2>3, <3>3, AppendsQuiet DEF Unpaired
        <3>5. QED
            BY <1>0, <2>1, <2>2, <3>4, RelayKept, CalmKeeps
    <2>4. CASE ~taken
        <3>1. sig' = sig
            BY <1>5, <2>4 DEF Describe
        <3>2. QED
            BY <1>0, <2>1, <2>2, <3>1, UntouchedSignals, RelayKept, CalmKeeps
    <2>5. QED
        BY <2>3, <2>4
<1>6. ASSUME SendOffer \/ SendAnswer PROVE LifeInv'
    BY <1>0, <1>5, <1>6 DEF SendOffer, SendAnswer, Event
<1>7. ASSUME RelayExpires PROVE LifeInv'
    <2>1. relay' = "gone" /\ UNCHANGED <<ps, helloIn>>
        BY <1>7 DEF RelayExpires
    <2>2. \A q \in Role : \/ sig'[q] = sig[q]
                          \/ \E e \in Event \ {"peer-joined"} : sig'[q] = Append(sig[q], e)
        BY <1>7 DEF RelayExpires, Event
    <2>3. Quiet
        BY <2>1, <2>2, AppendsQuiet DEF Unpaired
    <2>4. ps' = [ps EXCEPT !["initiator"] = ps["initiator"]]
        BY <1>0, <2>1 DEF TypeOK
    <2>5. Calm(ps["initiator"], ps["initiator"])
        BY DEF Calm
    <2>6. QED
        BY <1>0, <2>1, <2>3, <2>4, <2>5, RelayKept, CalmKeeps
<1>8. ASSUME NEW r \in Role, SocketConnected(r) PROVE LifeInv'
    <2> DEFINE t == [ps[r] EXCEPT !.call = "asking", !.sock = "up"]
    <2>1. ps' = [ps EXCEPT ![r] = t] /\ \A q \in Role : helloIn'[q] => helloIn[q]
        BY <1>0, <1>8 DEF SocketConnected, Put, TypeOK
    <2>2. Calm(ps[r], t) /\ t.sock = "up"
        BY <1>0, <1>8 DEF SocketConnected, Calm, SessionOK, Untouched, Fields, Fresh
    <2> HIDE DEF t
    <2>3. Quiet /\ RelayOK'
        BY <1>0, <1>8, <2>1, <2>2, UntouchedSignals, RelayKept DEF SocketConnected
    <2>4. QED
        BY <1>0, <2>1, <2>2, <2>3, CalmKeeps
<1>9. ASSUME NEW r \in Role, CallFailed(r) PROVE LifeInv'
    <2> DEFINE t == [ps[r] EXCEPT !.call = "failed"]
    <2>1. ps' = [ps EXCEPT ![r] = t] /\ \A q \in Role : helloIn'[q] => helloIn[q]
        BY <1>0, <1>9 DEF CallFailed, Put, TypeOK
    <2>2. Calm(ps[r], t) /\ t.sock = ps[r].sock
        BY <1>0, <1>9 DEF CallFailed, Calm, SessionOK, Untouched, Fields, Fresh
    <2> HIDE DEF t
    <2>3. Quiet /\ RelayOK'
        BY <1>0, <1>9, <2>1, <2>2, UntouchedSignals, RelayKept DEF CallFailed
    <2>4. QED
        BY <1>0, <2>1, <2>2, <2>3, CalmKeeps
<1>10. ASSUME NEW r \in Role, Cancel(r) PROVE LifeInv'
    <2>1. Teardown(r, ps[r], "user-closed") /\ Calm(ps[r], ps[r]) /\ "user-closed" \in Reason
        BY <1>10 DEF Cancel, Calm, Reason
    <2>2. QED
        BY <1>0, <2>1, TeardownKeeps
<1>11. ASSUME NEW r \in Role, SocketLost(r) PROVE LifeInv'
    <2> DEFINE t == [ps[r] EXCEPT !.sock = "lost"]
    <2>1. ps' = [ps EXCEPT ![r] = t] /\ \A q \in Role : helloIn'[q] => helloIn[q]
        BY <1>0, <1>11 DEF SocketLost, Put, TypeOK
    <2>2. Calm(ps[r], t) /\ t.sock = "lost"
        BY <1>0, <1>11 DEF SocketLost, Calm, SessionOK, Untouched, Fields, Fresh
    <2> HIDE DEF t
    <2>3. Quiet /\ RelayOK'
        <3>1. LeaveRelay(r) /\ relay' \in {"none", "waiting", "paired", "gone"}
            BY <1>0, <1>11 DEF SocketLost, TypeOK
        <3>2. QED
            BY <1>0, <2>1, <2>2, <3>1, LeaveQuiet, RelayKept
    <2>4. QED
        BY <1>0, <2>1, <2>2, <2>3, CalmKeeps
<1>12. ASSUME NEW r \in Role, PeerJoined(r) PROVE LifeInv'
    <2> DEFINE t == [ps[r] EXCEPT !.connectTimer = TRUE, !.pc = "new", !.dc = "connecting",
                                  !.neg = "describing"]
    <2>1. ps' = [ps EXCEPT ![r] = t] /\ UNCHANGED <<relay, helloIn>> /\ Pop(r)
          /\ Hears(r, "peer-joined")
        BY <1>12 DEF PeerJoined, Put
    <2>2. sig[r] \in Seq(Event) /\ sig[r] # << >> /\ sig[r][1] = "peer-joined"
        BY <1>0, <2>1 DEF Hears, TypeOK
    <2>3. ~Unpaired /\ r = "initiator" /\ Untouched(ps[r])
        BY <2>2 DEF LifeInv, BeforeOK, JoinedOK
    <2>4. /\ SessionOK(t) /\ t.sock = ps[r].sock /\ t.hello = ps[r].hello
          /\ t.peerHello = ps[r].peerHello /\ t.completing = ps[r].completing
          /\ t.session = ps[r].session
        BY <1>0, <2>3 DEF SessionOK, Untouched, Fields, Fresh
    <2> HIDE DEF t
    <2>5. (\A q \in Role : SessionOK(ps'[q])) /\ HellosOK'
        BY <2>1, <2>4, SessionsKept DEF LifeInv, HellosOK
    <2>6. RelayOK'
        BY <2>1, <2>4, RelayKept
    <2>7. BeforeOK'
        BY <2>1, <2>3 DEF BeforeOK, Unpaired
    <2>8. JoinedOK'
        <3>1. \A i \in DOMAIN Tail(sig[r]) :
                 i \in Nat /\ i + 1 \in DOMAIN sig[r] /\ Tail(sig[r])[i] = sig[r][i + 1] /\ i + 1 # 1
            BY <2>2
        <3>2. \A i \in DOMAIN Tail(sig[r]) : Tail(sig[r])[i] # "peer-joined"
            BY <3>1 DEF LifeInv, JoinedOK
        <3>3. \A q \in Role : /\ sig'[q] = IF q = r THEN Tail(sig[r]) ELSE sig[q]
                              /\ q # r => ps'[q] = ps[q]
            BY <1>0, <2>1 DEF Pop, TypeOK
        <3>4. QED
            BY <3>2, <3>3 DEF LifeInv, JoinedOK
    <2>9. QED
        BY <1>0, <2>5, <2>6, <2>7, <2>8 DEF LifeInv
<1>13. ASSUME NEW r \in Role, OfferArrives(r) PROVE LifeInv'
    <2> DEFINE t == IF ps[r].closed THEN ps[r] ELSE [ps[r] EXCEPT !.pc = "new", !.neg = "applying"]
    <2>1. /\ ps' = [ps EXCEPT ![r] = t] /\ UNCHANGED <<relay, helloIn>> /\ Pop(r)
          /\ Hears(r, "offer")
        BY <1>0, <1>13 DEF OfferArrives, Put, TypeOK
    <2>2. SessionOK(t) /\ t.sock = ps[r].sock /\ t.hello = ps[r].hello
          /\ t.peerHello = ps[r].peerHello /\ t.completing = ps[r].completing
          /\ t.session = ps[r].session
        BY <1>0 DEF SessionOK, Fields, Fresh
    <2> HIDE DEF t
    <2>3. Quiet
        BY <2>1, PopQuiet
    <2>4. (\A q \in Role : SessionOK(ps'[q])) /\ HellosOK'
        BY <2>1, <2>2, SessionsKept DEF LifeInv, HellosOK
    <2>5. BeforeOK' /\ JoinedOK'
        BY <2>1, HeardElse DEF Unpaired
    <2>6. QED
        BY <1>0, <2>1, <2>2, <2>4, <2>5, RelayKept DEF LifeInv
<1>14. ASSUME NEW r \in Role, AnswerArrives(r) PROVE LifeInv'
    <2> DEFINE t == IF ps[r].closed \/ ps[r].pc = "none" THEN ps[r] ELSE [ps[r] EXCEPT !.answering = TRUE]
    <2>1. /\ ps' = [ps EXCEPT ![r] = t] /\ UNCHANGED <<relay, helloIn>> /\ Pop(r)
          /\ Hears(r, "answer")
        BY <1>0, <1>14 DEF AnswerArrives, Put, TypeOK
    <2>2. SessionOK(t) /\ t.sock = ps[r].sock /\ t.hello = ps[r].hello
          /\ t.peerHello = ps[r].peerHello /\ t.completing = ps[r].completing
          /\ t.session = ps[r].session
        BY <1>0 DEF SessionOK, Fields, Fresh
    <2> HIDE DEF t
    <2>3. Quiet
        BY <2>1, PopQuiet
    <2>4. (\A q \in Role : SessionOK(ps'[q])) /\ HellosOK'
        BY <2>1, <2>2, SessionsKept DEF LifeInv, HellosOK
    <2>5. BeforeOK' /\ JoinedOK'
        BY <2>1, HeardElse DEF Unpaired
    <2>6. QED
        BY <1>0, <2>1, <2>2, <2>4, <2>5, RelayKept DEF LifeInv
<1>15. ASSUME NEW r \in Role, IceArrives(r) PROVE LifeInv'
    <2> DEFINE t == IF ps[r].closed THEN ps[r] ELSE TakeCandidate(ps[r])
    <2>1. /\ ps' = [ps EXCEPT ![r] = t] /\ UNCHANGED <<relay, helloIn>> /\ Pop(r)
          /\ Hears(r, "ice")
        BY <1>0, <1>15 DEF IceArrives, Put, TypeOK
    <2>2. SessionOK(t) /\ t.sock = ps[r].sock /\ t.hello = ps[r].hello
          /\ t.peerHello = ps[r].peerHello /\ t.completing = ps[r].completing
          /\ t.session = ps[r].session
        BY <1>0 DEF SessionOK, Fields, Fresh, TakeCandidate
    <2> HIDE DEF t
    <2>3. Quiet
        BY <2>1, PopQuiet
    <2>4. (\A q \in Role : SessionOK(ps'[q])) /\ HellosOK'
        BY <2>1, <2>2, SessionsKept DEF LifeInv, HellosOK
    <2>5. BeforeOK' /\ JoinedOK'
        BY <2>1, HeardElse DEF Unpaired
    <2>6. QED
        BY <1>0, <2>1, <2>2, <2>4, <2>5, RelayKept DEF LifeInv
<1>16. ASSUME NEW r \in Role, ChannelClosed(r) PROVE LifeInv'
    <2>1. /\ UNCHANGED <<ps, relay, helloIn>> /\ Pop(r) /\ Hears(r, "channel-closed")
          /\ ps' = [ps EXCEPT ![r] = ps[r]] /\ Calm(ps[r], ps[r])
        BY <1>0, <1>16 DEF ChannelClosed, TypeOK, Calm
    <2>2. Quiet
        BY <2>1, PopQuiet
    <2>3. QED
        BY <1>0, <2>1, <2>2, RelayKept, CalmKeeps
<1>17. ASSUME NEW r \in Role, OfferApplied(r) PROVE LifeInv'
    <2> DEFINE t == [Described(ps[r]) EXCEPT !.neg = "answering"]
    <2>1. ps' = [ps EXCEPT ![r] = t] /\ \A q \in Role : helloIn'[q] => helloIn[q]
        BY <1>0, <1>17 DEF OfferApplied, Put, TypeOK, Described
    <2>2. Calm(ps[r], t) /\ t.sock = ps[r].sock
        BY <1>0, <1>17 DEF OfferApplied, Calm, SessionOK, Untouched, Fields, Fresh, Described
    <2> HIDE DEF t
    <2>3. Quiet /\ RelayOK'
        BY <1>0, <1>17, <2>1, <2>2, UntouchedSignals, RelayKept DEF OfferApplied
    <2>4. QED
        BY <1>0, <2>1, <2>2, <2>3, CalmKeeps
<1>18. ASSUME NEW r \in Role, AnswerApplied(r) PROVE LifeInv'
    <2> DEFINE t == [Described(ps[r]) EXCEPT !.answering = FALSE]
    <2>1. ps' = [ps EXCEPT ![r] = t] /\ \A q \in Role : helloIn'[q] => helloIn[q]
        BY <1>0, <1>18 DEF AnswerApplied, Put, TypeOK, Described
    <2>2. Calm(ps[r], t) /\ t.sock = ps[r].sock
        BY <1>0, <1>18 DEF AnswerApplied, Calm, SessionOK, Untouched, Fields, Fresh, Described
    <2> HIDE DEF t
    <2>3. Quiet /\ RelayOK'
        BY <1>0, <1>18, <2>1, <2>2, UntouchedSignals, RelayKept DEF AnswerApplied
    <2>4. QED
        BY <1>0, <2>1, <2>2, <2>3, CalmKeeps
<1>19. ASSUME NEW r \in Role, SendIce(r) PROVE LifeInv'
    <2> DEFINE t == [ps[r] EXCEPT !.iceLeft = @ - 1]
    <2>1. ps' = [ps EXCEPT ![r] = t] /\ UNCHANGED <<relay, helloIn>> /\ ps[r].pc # "none"
        BY <1>19 DEF SendIce, Put
    <2>2. Calm(ps[r], t) /\ t.sock = ps[r].sock
        BY <1>0, <2>1 DEF Calm, SessionOK, Untouched, Fields, Fresh
    <2> HIDE DEF t
    <2>3. Quiet
        <3>1. CASE ps[r].sock = "up" /\ relay = "paired"
            <4>1. Forward(Other(r), "ice")
                BY <1>19, <3>1 DEF SendIce
            <4>2. \A q \in Role : \/ sig'[q] = sig[q]
                                  \/ \E e \in Event \ {"peer-joined"} : sig'[q] = Append(sig[q], e)
                <5>1. Other(r) \in Role /\ sig \in [Role -> Seq(Event)]
                    BY <1>0, Others DEF TypeOK
                <5>2. "ice" \in Event \ {"peer-joined"}
                    BY DEF Event
                <5>3. QED
                    BY <4>1, <5>1, <5>2 DEF Forward
            <4>3. QED
                BY <2>1, <3>1, <4>2, AppendsQuiet DEF Unpaired
        <3>2. CASE ~(ps[r].sock = "up" /\ relay = "paired")
            BY <1>19, <2>1, <3>2, UntouchedSignals DEF SendIce
        <3>3. QED
            BY <3>1, <3>2
    <2>4. QED
        BY <1>0, <2>1, <2>2, <2>3, RelayKept, CalmKeeps
<1>20. ASSUME NEW r \in Role, SignalAcked(r) PROVE LifeInv'
    <2> DEFINE t == [ps[r] EXCEPT !.neg = "done"]
    <2>1. /\ ps' = [ps EXCEPT ![r] = t] /\ UNCHANGED <<relay, helloIn>> /\ Pop(r)
          /\ Hears(r, "ack")
        BY <1>0, <1>20 DEF SignalAcked, Put, TypeOK
    <2>2. SessionOK(t) /\ t.sock = ps[r].sock /\ t.hello = ps[r].hello
          /\ t.peerHello = ps[r].peerHello /\ t.completing = ps[r].completing
          /\ t.session = ps[r].session
        BY <1>0 DEF SessionOK, Fields, Fresh
    <2> HIDE DEF t
    <2>3. Quiet
        BY <2>1, PopQuiet
    <2>4. (\A q \in Role : SessionOK(ps'[q])) /\ HellosOK'
        BY <2>1, <2>2, SessionsKept DEF LifeInv, HellosOK
    <2>5. BeforeOK' /\ JoinedOK'
        BY <2>1, HeardElse DEF Unpaired
    <2>6. QED
        BY <1>0, <2>1, <2>2, <2>4, <2>5, RelayKept DEF LifeInv
<1>21. ASSUME NEW r \in Role, SignalFailed(r) PROVE LifeInv'
    <2> DEFINE s == [ps[r] EXCEPT !.neg = "done"]
    <2>1. Teardown(r, s, "negotiation-failed") /\ "negotiation-failed" \in Reason
        BY <1>21 DEF SignalFailed, Fail, Reason
    <2>2. Calm(ps[r], s) /\ s.sock = ps[r].sock
        BY <1>0, <1>21 DEF SignalFailed, Calm, SessionOK, Untouched, Fields, Fresh
    <2>3. s \in Session
        BY <1>0, SetsStay
    <2> HIDE DEF s
    <2>4. QED
        BY <1>0, <2>1, <2>2, <2>3, TeardownKeeps
<1>22. ASSUME NEW r \in Role, ChannelOpens(r) PROVE LifeInv'
    <2> DEFINE t == [ps[r] EXCEPT !.dc = "open", !.hello = "making", !.handshakeTimer = TRUE]
    <2>1. ps' = [ps EXCEPT ![r] = t] /\ UNCHANGED <<relay, sig, helloIn>>
          /\ ps[r].pc = "remote" /\ ps[r].dc \in {"none", "connecting"}
        BY <1>22 DEF ChannelOpens, Put
    <2>2. ps[r].hello = "no"
        BY <1>0, <2>1 DEF SessionOK
    <2>3. Calm(ps[r], t) /\ t.sock = ps[r].sock
        BY <1>0, <2>1, <2>2 DEF Calm, SessionOK, Untouched, Fields, Fresh
    <2> HIDE DEF t
    <2>4. QED
        BY <1>0, <2>1, <2>3, UntouchedSignals, RelayKept, CalmKeeps
<1>23. ASSUME NEW r \in Role, HelloMade(r) PROVE LifeInv'
    <2> DEFINE t == [createHello(ps[r]) EXCEPT !.completing =
                       @ \/ (ps[r].dc # "closed" /\ ps[r].peerHello /\ ~ps[r].session)]
    <2>1. ps' = [ps EXCEPT ![r] = t] /\ UNCHANGED <<relay, sig>> /\ ps[r].hello = "making"
        BY <1>23 DEF HelloMade, Put
    <2>2. \A q \in Role : helloIn'[q] => helloIn[q] \/ q = Other(r)
        BY <1>0, <1>23 DEF HelloMade, TypeOK
    <2>3. /\ SessionOK(t) /\ t.sock = ps[r].sock /\ t.hello = "made"
          /\ t.peerHello = ps[r].peerHello /\ (t.completing => ps[r].completing \/ ps[r].peerHello)
          /\ t.session = ps[r].session /\ ~Untouched(ps[r])
        BY <1>0, <2>1 DEF createHello, SessionOK, Untouched, Fields, Fresh
    <2> HIDE DEF t
    <2>4. t.peerHello \/ helloIn'[r] \/ t.completing \/ t.session => ps[Other(r)].hello = "made"
        BY <2>2, <2>3, Others DEF LifeInv, HellosOK
    <2>5. (\A q \in Role : SessionOK(ps'[q])) /\ HellosOK'
        BY <2>1, <2>3, <2>4, SessionsKept
    <2>6. BeforeOK' /\ JoinedOK'
        BY <2>1, <2>3, UntouchedSignals, SignalsKept
    <2>7. QED
        BY <1>0, <2>1, <2>3, <2>5, <2>6, RelayKept DEF LifeInv
<1>24. ASSUME NEW r \in Role, HelloArrives(r) PROVE LifeInv'
    <2> DEFINE s == [ps[r] EXCEPT !.peerHello = TRUE]
    <2>1. ps[Other(r)].hello = "made" /\ ps[r].dc = "open" /\ Other(r) \in Role
        BY <1>24, Others DEF HelloArrives, LifeInv, HellosOK
    <2>2. /\ SessionOK(s) /\ s.sock = ps[r].sock /\ s.hello = ps[r].hello
          /\ s.session = ps[r].session /\ s.ephemeral = ps[r].ephemeral
          /\ DOMAIN s = Fields /\ ~Untouched(ps[r])
        BY <1>0, <2>1 DEF SessionOK, Untouched, Fields, Fresh
    <2>3. s \in Session
        BY <1>0, SetsStay
    <2>4. CASE s.session \/ HasEphemeral(s)
        <3> DEFINE t == [s EXCEPT !.completing = @ \/ ~s.session]
        <3>1. ps' = [ps EXCEPT ![r] = t] /\ UNCHANGED <<relay, sig>>
              /\ helloIn' = [helloIn EXCEPT ![r] = FALSE]
            BY <1>24, <2>4 DEF HelloArrives, Put
        <3> HIDE DEF s
        <3>2. SessionOK(t) /\ t.sock = s.sock /\ t.hello = s.hello
            BY <2>2, <2>4 DEF HasEphemeral, SessionOK, Fields, Fresh
        <3> HIDE DEF t
        <3>3. helloIn'[Other(r)] => helloIn[Other(r)]
            BY <1>0, <3>1, Others DEF TypeOK
        <3>4. (\A q \in Role : SessionOK(ps'[q])) /\ HellosOK'
            BY <2>1, <2>2, <3>1, <3>2, <3>3, SessionsKept
        <3>5. BeforeOK' /\ JoinedOK'
            BY <2>2, <3>1, UntouchedSignals, SignalsKept
        <3>6. QED
            BY <1>0, <2>2, <3>1, <3>2, <3>4, <3>5, RelayKept DEF LifeInv
    <2>5. CASE ~(s.session \/ HasEphemeral(s))
        <3>1. Teardown(r, s, "handshake-exception") /\ "handshake-exception" \in Reason
            BY <1>24, <2>5 DEF HelloArrives, Fail, Reason
        <3> HIDE DEF s
        <3>2. PICK t \in Session :
                 /\ ps' = [ps EXCEPT ![r] = t]
                 /\ SessionOK(t) /\ t.hello = s.hello /\ t.peerHello = s.peerHello
                 /\ t.completing = s.completing /\ (t.session => s.session)
                 /\ Untouched(s) => Untouched(t)
            BY <2>2, <2>3, <3>1, TeardownIs
        <3>3. (\A q \in Role : helloIn'[q] => helloIn[q]) /\ Quiet /\ RelayOK'
            BY <2>2, <2>3, <3>1, TeardownIs
        <3>4. (\A q \in Role : SessionOK(ps'[q])) /\ HellosOK'
            BY <2>1, <2>2, <3>2, <3>3, SessionsKept
        <3>5. BeforeOK' /\ JoinedOK'
            BY <2>2, <3>2, <3>3, SignalsKept
        <3>6. QED
            BY <1>0, <3>3, <3>4, <3>5 DEF LifeInv
    <2>6. QED
        BY <2>4, <2>5
<1>25. ASSUME NEW r \in Role, HandshakeCompleted(r) PROVE LifeInv'
    <2> DEFINE s == [ps[r] EXCEPT !.completing = FALSE]
    <2>1. /\ Calm(ps[r], s) /\ s.sock = ps[r].sock /\ DOMAIN s = Fields /\ s.hello = ps[r].hello
          /\ ps[r].completing /\ ps[r].hello = "made" /\ s.peerHello = ps[r].peerHello
          /\ SessionOK(s) /\ (Untouched(ps[r]) <=> Untouched(s))
        BY <1>0, <1>25 DEF HandshakeCompleted, Calm, SessionOK, Untouched, Fields, Fresh
    <2>2. s \in Session
        BY <1>0, SetsStay
    <2>3. CASE Mismatch(r)
        <3>1. Teardown(r, s, "handshake-failed") /\ "handshake-failed" \in Reason
            BY <1>25, <2>3 DEF HandshakeCompleted, Fail, Reason
        <3> HIDE DEF s
        <3>2. QED
            BY <1>0, <2>1, <2>2, <3>1, TeardownKeeps
    <2>4. CASE ~Mismatch(r)
        <3> DEFINE t == [Established(s) EXCEPT !.connectTimer = FALSE, !.handshakeTimer = FALSE]
        <3>1. ps' = [ps EXCEPT ![r] = t] /\ UNCHANGED <<relay, sig, helloIn>>
            BY <1>25, <2>4 DEF HandshakeCompleted, Put
        <3> HIDE DEF s
        <3>2. /\ SessionOK(t) /\ t.sock = s.sock /\ t.hello = s.hello
              /\ t.peerHello = s.peerHello /\ (Untouched(s) => Untouched(t))
            BY <2>1 DEF Established, SessionOK, Untouched, Fields, Fresh
        <3> HIDE DEF t
        <3>3. Calm(ps[r], t) /\ t.sock = ps[r].sock
            BY <2>1, <3>2 DEF Calm
        <3>4. QED
            BY <1>0, <3>1, <3>3, UntouchedSignals, RelayKept, CalmKeeps
    <2>5. QED
        BY <2>3, <2>4
<1>26. ASSUME NEW r \in Role, ChannelLost(r) PROVE LifeInv'
    <2> DEFINE t == [ps[r] EXCEPT !.dc = "closed"]
    <2>1. ps' = [ps EXCEPT ![r] = t] /\ \A q \in Role : helloIn'[q] => helloIn[q]
        BY <1>0, <1>26 DEF ChannelLost, Put, TypeOK
    <2>2. Calm(ps[r], t) /\ t.sock = ps[r].sock
        BY <1>0, <1>26 DEF ChannelLost, Calm, SessionOK, Untouched, Fields, Fresh
    <2> HIDE DEF t
    <2>3. Quiet /\ RelayOK'
        BY <1>0, <1>26, <2>1, <2>2, UntouchedSignals, RelayKept DEF ChannelLost
    <2>4. QED
        BY <1>0, <2>1, <2>2, <2>3, CalmKeeps
<1>27. ASSUME NEW r \in Role, ConnectTimeout(r) PROVE LifeInv'
    <2> DEFINE s == [ps[r] EXCEPT !.connectTimer = FALSE]
    <2>1. Calm(ps[r], s) /\ s.sock = ps[r].sock
        BY <1>0 DEF Calm, SessionOK, Untouched, Fields, Fresh
    <2>2. s \in Session
        BY <1>0, SetsStay
    <2>3. CASE s.session \/ s.closed
        <3>1. ps' = [ps EXCEPT ![r] = s] /\ UNCHANGED <<relay, sig, helloIn>>
            BY <1>27, <2>3 DEF ConnectTimeout, Put
        <3> HIDE DEF s
        <3>2. QED
            BY <1>0, <2>1, <3>1, UntouchedSignals, RelayKept, CalmKeeps
    <2>4. CASE ~(s.session \/ s.closed)
        <3>1. Teardown(r, s, "timeout") /\ "timeout" \in Reason
            BY <1>27, <2>4 DEF ConnectTimeout, Fail, Reason
        <3> HIDE DEF s
        <3>2. QED
            BY <1>0, <2>1, <2>2, <3>1, TeardownKeeps
    <2>5. QED
        BY <2>3, <2>4
<1>28. ASSUME NEW r \in Role, HandshakeTimeout(r) PROVE LifeInv'
    <2> DEFINE s == [ps[r] EXCEPT !.handshakeTimer = FALSE]
    <2>1. Calm(ps[r], s) /\ s.sock = ps[r].sock
        BY <1>0 DEF Calm, SessionOK, Untouched, Fields, Fresh
    <2>2. s \in Session
        BY <1>0, SetsStay
    <2>3. CASE s.session \/ s.closed
        <3>1. ps' = [ps EXCEPT ![r] = s] /\ UNCHANGED <<relay, sig, helloIn>>
            BY <1>28, <2>3 DEF HandshakeTimeout, Put
        <3> HIDE DEF s
        <3>2. QED
            BY <1>0, <2>1, <3>1, UntouchedSignals, RelayKept, CalmKeeps
    <2>4. CASE ~(s.session \/ s.closed)
        <3>1. Teardown(r, s, "handshake-timeout") /\ "handshake-timeout" \in Reason
            BY <1>28, <2>4 DEF HandshakeTimeout, Fail, Reason
        <3> HIDE DEF s
        <3>2. QED
            BY <1>0, <2>1, <2>2, <3>1, TeardownKeeps
    <2>5. QED
        BY <2>3, <2>4
<1>29. ASSUME UNCHANGED vars PROVE LifeInv'
    BY <1>29 DEF vars, LifeInv, TypeOK, SessionOK, HellosOK, BeforeOK, JoinedOK, RelayOK, Unpaired, Untouched
<1>30. QED
    BY <1>1, <1>2, <1>3, <1>4, <1>6, <1>7, <1>8, <1>9, <1>10, <1>11, <1>12, <1>13, <1>14,
       <1>15, <1>16, <1>17, <1>18, <1>19, <1>20, <1>21, <1>22, <1>23, <1>24, <1>25, <1>26,
       <1>27, <1>28, <1>29 DEF Next, Signaling, WebRTC, Handshake, Timeout

-----------------------------------------------------------------------------
(* Counting the candidates on their way.                                    *)

(* Where in a queue the candidates are, and how many.                       *)
IceIn(q) == {i \in DOMAIN q : q[i] = "ice"}
Ice(q) == Cardinality(IceIn(q))

(* The count is a number.                                                   *)
LEMMA IceType ==
    ASSUME NEW q \in Seq(Event)
    PROVE  IsFiniteSet(IceIn(q)) /\ Ice(q) \in Nat /\ Ice(<< >>) = 0
<1>1. IsFiniteSet(1 .. Len(q)) /\ IceIn(q) \subseteq 1 .. Len(q)
    BY FS_Interval DEF IceIn
<1>2. IsFiniteSet(IceIn(q))
    BY <1>1, FS_Subset
<1>3. IceIn(<< >>) = {}
    BY DEF IceIn
<1>4. QED
    BY <1>2, <1>3, FS_CardinalityType, FS_EmptySet DEF Ice

(* A candidate sent counts.                                                 *)
LEMMA IceAppend ==
    ASSUME NEW q \in Seq(Event), NEW e \in Event
    PROVE  Ice(Append(q, e)) = IF e = "ice" THEN Ice(q) + 1 ELSE Ice(q)
<1>1. IsFiniteSet(IceIn(q)) /\ Len(q) + 1 \notin IceIn(q)
    <2>1. Len(q) \in Nat /\ DOMAIN q = 1 .. Len(q)
        OBVIOUS
    <2>2. IsFiniteSet(IceIn(q))
        BY IceType
    <2>3. QED
        BY <2>1, <2>2 DEF IceIn
<1>2. CASE e = "ice"
    <2>1. IceIn(Append(q, e)) = IceIn(q) \cup {Len(q) + 1}
        BY <1>2 DEF IceIn
    <2>2. QED
        BY <1>1, <1>2, <2>1, FS_AddElement DEF Ice
<1>3. CASE e # "ice"
    <2>1. IceIn(Append(q, e)) = IceIn(q)
        BY <1>3 DEF IceIn
    <2>2. QED
        BY <1>3, <2>1 DEF Ice
<1>4. QED
    BY <1>2, <1>3

(* A candidate heard counts no more.                                        *)
LEMMA IceTail ==
    ASSUME NEW q \in Seq(Event), q # << >>
    PROVE  Ice(q) = IF Head(q) = "ice" THEN Ice(Tail(q)) + 1 ELSE Ice(Tail(q))
<1> DEFINE t == Tail(q)
<1> DEFINE S == IceIn(t)
<1> DEFINE T == IceIn(q) \ {1}
<1>1. /\ t \in Seq(Event) /\ Len(t) = Len(q) - 1 /\ Len(q) \in Nat \ {0} /\ Head(q) = q[1]
      /\ DOMAIN q = 1 .. Len(q) /\ DOMAIN t = 1 .. Len(t)
      /\ \A i \in DOMAIN t : t[i] = q[i + 1]
    OBVIOUS
<1> HIDE DEF t
<1>2. \A i \in S : i \in Nat /\ i + 1 \in T
    BY <1>1 DEF IceIn
<1>3. \A j \in T : j \in Nat /\ j - 1 \in S /\ (j - 1) + 1 = j
    BY <1>1 DEF IceIn
<1>4. ExistsBijection(S, T)
    <2> DEFINE f == [i \in S |-> i + 1]
    <2>1. f \in [S -> T]
        BY <1>2
    <2>2. \A i, j \in S : f[i] = f[j] => i = j
        BY <1>2
    <2>3. \A j \in T : j - 1 \in S /\ f[j - 1] = j
        BY <1>3
    <2>4. f \in Bijection(S, T)
        BY <2>1, <2>2, <2>3 DEF Bijection, Injection, Surjection, IsInjective
    <2>5. QED
        BY <2>4 DEF ExistsBijection
<1>5. IsFiniteSet(S) /\ IsFiniteSet(IceIn(q))
    BY <1>1, IceType
<1>6. Cardinality(T) = Ice(t)
    BY <1>4, <1>5, FS_Bijection DEF Ice
<1>7. Cardinality(T) = IF 1 \in IceIn(q) THEN Ice(q) - 1 ELSE Ice(q)
    BY <1>5, FS_RemoveElement DEF Ice
<1>8. 1 \in IceIn(q) <=> Head(q) = "ice"
    BY <1>1 DEF IceIn
<1>9. Ice(q) \in Nat /\ Ice(t) \in Nat
    BY <1>1, IceType
<1>10. QED
    BY <1>6, <1>7, <1>8, <1>9 DEF t

-----------------------------------------------------------------------------
(* What a step does to the counts and to the shown state.                   *)

(* Nobody is shown as secure by the step who was not before, and the one    *)
(* session that changes does not become secure.                             *)
NotYetSecure ==
    /\ \A q \in Role : ui'[q] = "secure" => ui[q] = "secure"
    /\ \A q \in Role : ps'[q].session => ps[q].session

(* As far as candidates go, session t is where session s was.               *)
SameCount(s, t) ==
    /\ t.iceLeft = s.iceLeft /\ t.pendingIce + t.iceAdded = s.pendingIce + s.iceAdded
    /\ s.closed => t.closed

(* While both peers are in the channel the step moves no candidate.         *)
NoCandidateMoves ==
    relay' = "paired" =>
        /\ relay = "paired" /\ \A q \in Role : Ice(sig'[q]) = Ice(sig[q])
        /\ \A q \in Role : SameCount(ps[q], ps'[q])

(* A session that only moves on in a way that keeps both.                   *)
LEMMA PlainStep ==
    ASSUME LifeInv, NEW r \in Role, NEW t, ps' = [ps EXCEPT ![r] = t],
           t.session => ps[r].session, SameCount(ps[r], t),
           relay' = "paired" => relay = "paired" /\ \A q \in Role : Ice(sig'[q]) = Ice(sig[q]),
           \A q \in Role : ui'[q] = "secure" => ui[q] = "secure"
    PROVE  NotYetSecure /\ NoCandidateMoves
<1>1. \A q \in Role : ps'[q] = IF q = r THEN t ELSE ps[q]
    BY DEF LifeInv, TypeOK
<1>2. \A q \in Role : SameCount(ps[q], ps[q])
    BY DEF SameCount
<1>3. QED
    BY <1>1, <1>2 DEF NotYetSecure, NoCandidateMoves

(* Showing any other state, or a loss.                                      *)
LEMMA ShowsNone ==
    ASSUME LifeInv, NEW r \in Role,
           ui' = ui \/ ClosedNotice(r) \/ \E u \in UiState \ {"secure"} : Show(r, u)
    PROVE  \A q \in Role : ui'[q] = "secure" => ui[q] = "secure"
BY DEF LifeInv, TypeOK, ClosedNotice, Show

(* Hearing anything but a candidate leaves the count.                       *)
LEMMA PopsOther ==
    ASSUME LifeInv, NEW r \in Role, NEW e, Hears(r, e), e # "ice", Pop(r)
    PROVE  \A q \in Role : Ice(sig'[q]) = Ice(sig[q])
<1>1. sig[r] \in Seq(Event) /\ sig[r] # << >> /\ Head(sig[r]) = e
    BY DEF LifeInv, TypeOK, Hears
<1>2. Ice(Tail(sig[r])) = Ice(sig[r])
    BY <1>1, IceTail
<1>3. \A q \in Role : sig'[q] = IF q = r THEN Tail(sig[r]) ELSE sig[q]
    BY DEF Pop, LifeInv, TypeOK
<1>4. QED
    BY <1>2, <1>3

(* A teardown while both are in the channel is of a session closed before.  *)
LEMMA TeardownPlain ==
    ASSUME LifeInv, NEW r \in Role, NEW s \in Session, NEW why \in Reason,
           s.sock = ps[r].sock, s.session => ps[r].session, SameCount(ps[r], s),
           Teardown(r, s, why), \A q \in Role : ui'[q] = "secure" => ui[q] = "secure"
    PROVE  NotYetSecure /\ NoCandidateMoves
<1>1. CASE s.closed
    <2>1. ps' = [ps EXCEPT ![r] = s] /\ UNCHANGED <<relay, sig, helloIn>>
        BY <1>1 DEF Teardown, Put
    <2>2. QED
        BY <2>1, PlainStep
<1>2. CASE ~s.closed
    <2> DEFINE t == TornDown(s, why)
    <2>1. ps' = [ps EXCEPT ![r] = t]
        BY <1>2 DEF Teardown, Put, TornDown
    <2>2. /\ t.closed /\ ~t.session /\ t.iceLeft = s.iceLeft
          /\ t.pendingIce = s.pendingIce /\ t.iceAdded = s.iceAdded
        BY TornDownIs
    <2> HIDE DEF t
    <2>3. relay' # "paired"
        <3>1. CASE s.sock = "up"
            <4>1. LeaveRelay(r)
                BY <1>2, <3>1 DEF Teardown
            <4>2. QED
                BY <4>1, LeaveQuiet
        <3>2. CASE s.sock # "up"
            BY <1>2, <3>2 DEF Teardown, LifeInv, RelayOK, Role
        <3>3. QED
            BY <3>1, <3>2
    <2>4. SameCount(ps[r], t)
        BY <2>2 DEF SameCount
    <2>5. QED
        BY <2>1, <2>2, <2>3, <2>4, PlainStep
<1>3. QED
    BY <1>1, <1>2

(* A failure shows an error or a loss.                                      *)
LEMMA FailPlain ==
    ASSUME LifeInv, NEW r \in Role, NEW s \in Session, NEW why \in Reason,
           s.sock = ps[r].sock, s.session => ps[r].session, SameCount(ps[r], s),
           Fail(r, s, why)
    PROVE  NotYetSecure /\ NoCandidateMoves
<1>1. \A q \in Role : ui'[q] = "secure" => ui[q] = "secure"
    BY ShowsNone DEF Fail, UiState
<1>2. QED
    BY <1>1, TeardownPlain DEF Fail

(* Every step but a successful handshake leaves everybody as far from a     *)
(* secure session; every step but the join, a candidate sent and one heard  *)
(* leaves the candidates where they are.                                    *)
LEMMA Effects ==
    ASSUME LifeInv, [Next]_vars
    PROVE  /\ NotYetSecure \/ \E r \in Role : HandshakeCompleted(r) /\ ~Mismatch(r)
           /\ NoCandidateMoves \/ Joined \/ \E r \in Role : SendIce(r) \/ IceArrives(r)
<1> DEFINE Done == /\ NotYetSecure \/ \E r \in Role : HandshakeCompleted(r) /\ ~Mismatch(r)
                   /\ NoCandidateMoves \/ Joined \/ \E r \in Role : SendIce(r) \/ IceArrives(r)
<1>0. /\ TypeOK
      /\ \A r \in Role : ps[r] \in Session /\ DOMAIN ps[r] = Fields
                         /\ ps[r].pendingIce \in Nat /\ ps[r].iceAdded \in Nat
      /\ "initiator" \in Role /\ "responder" \in Role
    BY SessionFields DEF LifeInv, TypeOK, Role, Typed
<1>1. ASSUME hostSession PROVE Done
    <2> DEFINE r == "initiator"
    <2> DEFINE t == [ps[r] EXCEPT !.call = "connecting"]
    <2>1. ps' = [ps EXCEPT ![r] = t] /\ (relay' = "paired" => relay = "paired")
        BY <1>0, <1>1 DEF hostSession, Put, TypeOK
    <2>2. (t.session => ps[r].session) /\ SameCount(ps[r], t)
        BY <1>0 DEF SameCount, Fields, Fresh
    <2> HIDE DEF t
    <2>3. \A q \in Role : ui'[q] = "secure" => ui[q] = "secure"
        BY <1>0, <1>1, ShowsNone DEF hostSession, UiState
    <2>4. sig' = sig
        BY <1>1 DEF hostSession
    <2>5. QED
        BY <1>0, <2>1, <2>2, <2>3, <2>4, PlainStep
<1>2. ASSUME joinSession PROVE Done
    <2> DEFINE r == "responder"
    <2> DEFINE t == [ps[r] EXCEPT !.call = "connecting"]
    <2>1. ps' = [ps EXCEPT ![r] = t] /\ (relay' = "paired" => relay = "paired")
        BY <1>0, <1>2 DEF joinSession, Put, TypeOK
    <2>2. (t.session => ps[r].session) /\ SameCount(ps[r], t)
        BY <1>0 DEF SameCount, Fields, Fresh
    <2> HIDE DEF t
    <2>3. \A q \in Role : ui'[q] = "secure" => ui[q] = "secure"
        BY <1>0, <1>2, ShowsNone DEF joinSession, UiState
    <2>4. sig' = sig
        BY <1>2 DEF joinSession
    <2>5. QED
        BY <1>0, <2>1, <2>2, <2>3, <2>4, PlainStep
<1>3. ASSUME Created PROVE Done
    <2> DEFINE r == "initiator"
    <2> DEFINE t == [ps[r] EXCEPT !.call = "ready"]
    <2>1. ps' = [ps EXCEPT ![r] = t] /\ (relay' = "paired" => relay = "paired")
        BY <1>0, <1>3 DEF Created, Put, TypeOK
    <2>2. (t.session => ps[r].session) /\ SameCount(ps[r], t)
        BY <1>0 DEF SameCount, Fields, Fresh
    <2> HIDE DEF t
    <2>3. \A q \in Role : ui'[q] = "secure" => ui[q] = "secure"
        BY <1>0, <1>3, ShowsNone DEF Created, UiState
    <2>4. sig' = sig
        BY <1>3 DEF Created
    <2>5. QED
        BY <1>0, <2>1, <2>2, <2>3, <2>4, PlainStep
<1>4. ASSUME Joined PROVE Done
    <2> DEFINE r == "responder"
    <2> DEFINE t == ArmTimeouts([ps[r] EXCEPT !.call = "ready"])
    <2>1. ps' = [ps EXCEPT ![r] = t] /\ Show(r, "discovering-peer")
        BY <1>4 DEF Joined, Put
    <2>2. t.session = ps[r].session
        BY <1>0 DEF ArmTimeouts, Fields, Fresh
    <2> HIDE DEF t
    <2>3. \A q \in Role : ui'[q] = "secure" => ui[q] = "secure"
        BY <1>0, <2>1, ShowsNone DEF UiState
    <2>4. NotYetSecure
        BY <1>0, <2>1, <2>2, <2>3 DEF NotYetSecure, TypeOK
    <2>5. QED
        BY <1>4, <2>4
<1>5. ASSUME NEW r \in Role, NEW e \in Event \ {"ice"}, NEW from, Describe(r, from, e)
      PROVE  Done
    <2> DEFINE taken == ps[r].sock = "up" /\ relay = "paired"
    <2> DEFINE t == [ps[r] EXCEPT !.local = TRUE,
                                  !.neg = IF taken THEN "signaling" ELSE "refused"]
    <2>1. ps' = [ps EXCEPT ![r] = t] /\ UNCHANGED <<relay, ui>>
        BY <1>5 DEF Describe, Put
    <2>2. (t.session => ps[r].session) /\ SameCount(ps[r], t)
        BY <1>0 DEF SameCount, Fields, Fresh
    <2> HIDE DEF t
    <2>3. \A q \in Role : Ice(sig'[q]) = Ice(sig[q])
        <3>1. CASE taken
            <4>1. /\ Other(r) \in Role /\ Other(r) # r /\ \A q \in Role : q = r \/ q = Other(r)
                  /\ "ack" \in Event \ {"ice"} /\ \A q \in Role : sig[q] \in Seq(Event)
                BY <1>0, Others DEF Event, TypeOK
            <4>2. sig' = [sig EXCEPT ![r] = Append(sig[r], "ack"),
                                     ![Other(r)] = IF ps[Other(r)].sock = "up"
                                                     THEN Append(sig[Other(r)], e)
                                                     ELSE sig[Other(r)]]
                BY <1>5, <3>1, <4>1 DEF Describe
            <4>3. /\ sig'[r] = Append(sig[r], "ack")
                  /\ sig'[Other(r)] \in {Append(sig[Other(r)], e), sig[Other(r)]}
                BY <1>0, <4>1, <4>2 DEF TypeOK
            <4>4. Ice(sig'[r]) = Ice(sig[r]) /\ Ice(sig'[Other(r)]) = Ice(sig[Other(r)])
                BY <4>1, <4>3, IceAppend
            <4>5. QED
                BY <4>1, <4>4
        <3>2. CASE ~taken
            BY <1>5, <3>2 DEF Describe
        <3>3. QED
            BY <3>1, <3>2
    <2>4. QED
        BY <1>0, <2>1, <2>2, <2>3, PlainStep
<1>6. ASSUME SendOffer \/ SendAnswer PROVE Done
    BY <1>0, <1>5, <1>6 DEF SendOffer, SendAnswer, Event
<1>7. ASSUME RelayExpires PROVE Done
    BY <1>7 DEF RelayExpires, NotYetSecure, NoCandidateMoves
<1>8. ASSUME NEW r \in Role, SocketConnected(r) PROVE Done
    <2> DEFINE t == [ps[r] EXCEPT !.call = "asking", !.sock = "up"]
    <2>1. ps' = [ps EXCEPT ![r] = t] /\ (relay' = "paired" => relay = "paired")
        BY <1>0, <1>8 DEF SocketConnected, Put, TypeOK
    <2>2. (t.session => ps[r].session) /\ SameCount(ps[r], t)
        BY <1>0 DEF SameCount, Fields, Fresh
    <2> HIDE DEF t
    <2>3. \A q \in Role : ui'[q] = "secure" => ui[q] = "secure"
        BY <1>0, <1>8, ShowsNone DEF SocketConnected, UiState
    <2>4. sig' = sig
        BY <1>8 DEF SocketConnected
    <2>5. QED
        BY <1>0, <2>1, <2>2, <2>3, <2>4, PlainStep
<1>9. ASSUME NEW r \in Role, CallFailed(r) PROVE Done
    <2> DEFINE t == [ps[r] EXCEPT !.call = "failed"]
    <2>1. ps' = [ps EXCEPT ![r] = t] /\ (relay' = "paired" => relay = "paired")
        BY <1>0, <1>9 DEF CallFailed, Put, TypeOK
    <2>2. (t.session => ps[r].session) /\ SameCount(ps[r], t)
        BY <1>0 DEF SameCount, Fields, Fresh
    <2> HIDE DEF t
    <2>3. \A q \in Role : ui'[q] = "secure" => ui[q] = "secure"
        BY <1>0, <1>9, ShowsNone DEF CallFailed, UiState
    <2>4. sig' = sig
        BY <1>9 DEF CallFailed
    <2>5. QED
        BY <1>0, <2>1, <2>2, <2>3, <2>4, PlainStep
<1>10. ASSUME NEW r \in Role, Cancel(r) PROVE Done
    <2>1. Teardown(r, ps[r], "user-closed") /\ Show(r, "offline") /\ "user-closed" \in Reason
        BY <1>10 DEF Cancel, Reason
    <2>2. \A q \in Role : ui'[q] = "secure" => ui[q] = "secure"
        BY <2>1, ShowsNone DEF UiState
    <2>3. SameCount(ps[r], ps[r])
        BY DEF SameCount
    <2>4. QED
        BY <1>0, <2>1, <2>2, <2>3, TeardownPlain
<1>11. ASSUME NEW r \in Role, SocketLost(r) PROVE Done
    <2> DEFINE t == [ps[r] EXCEPT !.sock = "lost"]
    <2>1. ps' = [ps EXCEPT ![r] = t] /\ LeaveRelay(r) /\ (ui' = ui \/ ClosedNotice(r))
        BY <1>11 DEF SocketLost, Put
    <2>2. (t.session => ps[r].session) /\ SameCount(ps[r], t)
        BY <1>0 DEF SameCount, Fields, Fresh
    <2> HIDE DEF t
    <2>3. \A q \in Role : ui'[q] = "secure" => ui[q] = "secure"
        BY <2>1, ShowsNone
    <2>4. relay' # "paired"
        BY <2>1, LeaveQuiet
    <2>5. QED
        BY <2>1, <2>2, <2>3, <2>4, PlainStep
<1>12. ASSUME NEW r \in Role, PeerJoined(r) PROVE Done
    <2> DEFINE t == [ps[r] EXCEPT !.connectTimer = TRUE, !.pc = "new", !.dc = "connecting",
                                  !.neg = "describing"]
    <2>1. ps' = [ps EXCEPT ![r] = t] /\ (relay' = "paired" => relay = "paired")
        BY <1>0, <1>12 DEF PeerJoined, Put, TypeOK
    <2>2. (t.session => ps[r].session) /\ SameCount(ps[r], t)
        BY <1>0 DEF SameCount, Fields, Fresh
    <2> HIDE DEF t
    <2>3. \A q \in Role : ui'[q] = "secure" => ui[q] = "secure"
        BY <1>0, <1>12, ShowsNone DEF PeerJoined, UiState
    <2>4. \A q \in Role : Ice(sig'[q]) = Ice(sig[q])
        BY <1>12, PopsOther DEF PeerJoined
    <2>5. QED
        BY <1>0, <2>1, <2>2, <2>3, <2>4, PlainStep
<1>13. ASSUME NEW r \in Role, OfferArrives(r) PROVE Done
    <2> DEFINE t == IF ps[r].closed THEN ps[r] ELSE [ps[r] EXCEPT !.pc = "new", !.neg = "applying"]
    <2>1. ps' = [ps EXCEPT ![r] = t] /\ (relay' = "paired" => relay = "paired")
        BY <1>0, <1>13 DEF OfferArrives, Put, TypeOK
    <2>2. (t.session => ps[r].session) /\ SameCount(ps[r], t)
        BY <1>0 DEF SameCount, Fields, Fresh
    <2> HIDE DEF t
    <2>3. \A q \in Role : ui'[q] = "secure" => ui[q] = "secure"
        BY <1>0, <1>13, ShowsNone DEF OfferArrives, UiState
    <2>4. \A q \in Role : Ice(sig'[q]) = Ice(sig[q])
        BY <1>13, PopsOther DEF OfferArrives
    <2>5. QED
        BY <1>0, <2>1, <2>2, <2>3, <2>4, PlainStep
<1>14. ASSUME NEW r \in Role, AnswerArrives(r) PROVE Done
    <2> DEFINE t == IF ps[r].closed \/ ps[r].pc = "none" THEN ps[r]
                  ELSE [ps[r] EXCEPT !.answering = TRUE]
    <2>1. ps' = [ps EXCEPT ![r] = t] /\ (relay' = "paired" => relay = "paired")
        BY <1>0, <1>14 DEF AnswerArrives, Put, TypeOK
    <2>2. (t.session => ps[r].session) /\ SameCount(ps[r], t)
        BY <1>0 DEF SameCount, Fields, Fresh
    <2> HIDE DEF t
    <2>3. \A q \in Role : ui'[q] = "secure" => ui[q] = "secure"
        BY <1>0, <1>14, ShowsNone DEF AnswerArrives, UiState
    <2>4. \A q \in Role : Ice(sig'[q]) = Ice(sig[q])
        BY <1>14, PopsOther DEF AnswerArrives
    <2>5. QED
        BY <1>0, <2>1, <2>2, <2>3, <2>4, PlainStep
<1>15. ASSUME NEW r \in Role, IceArrives(r) PROVE Done
    <2> DEFINE t == IF ps[r].closed THEN ps[r] ELSE TakeCandidate(ps[r])
    <2>1. ps' = [ps EXCEPT ![r] = t] /\ ui' = ui
        BY <1>0, <1>15 DEF IceArrives, Put, TypeOK
    <2>2. t.session = ps[r].session
        BY <1>0 DEF TakeCandidate, Fields, Fresh
    <2> HIDE DEF t
    <2>3. NotYetSecure
        BY <1>0, <2>1, <2>2 DEF NotYetSecure, TypeOK
    <2>4. QED
        BY <1>15, <2>3
<1>16. ASSUME NEW r \in Role, ChannelClosed(r) PROVE Done
    <2> DEFINE t == ps[r]
    <2>1. ps' = [ps EXCEPT ![r] = t] /\ (relay' = "paired" => relay = "paired")
        BY <1>0, <1>16 DEF ChannelClosed, Put, TypeOK
    <2>2. (t.session => ps[r].session) /\ SameCount(ps[r], t)
        BY <1>0 DEF SameCount, Fields, Fresh
    <2> HIDE DEF t
    <2>3. \A q \in Role : ui'[q] = "secure" => ui[q] = "secure"
        BY <1>0, <1>16, ShowsNone DEF ChannelClosed, UiState
    <2>4. \A q \in Role : Ice(sig'[q]) = Ice(sig[q])
        BY <1>16, PopsOther DEF ChannelClosed
    <2>5. QED
        BY <1>0, <2>1, <2>2, <2>3, <2>4, PlainStep
<1>17. ASSUME NEW r \in Role, OfferApplied(r) PROVE Done
    <2> DEFINE t == [Described(ps[r]) EXCEPT !.neg = "answering"]
    <2>1. ps' = [ps EXCEPT ![r] = t] /\ (relay' = "paired" => relay = "paired")
        BY <1>0, <1>17 DEF OfferApplied, Put, TypeOK
    <2>2. (t.session => ps[r].session) /\ SameCount(ps[r], t)
        BY <1>0 DEF SameCount, Fields, Fresh, Described
    <2> HIDE DEF t
    <2>3. \A q \in Role : ui'[q] = "secure" => ui[q] = "secure"
        BY <1>0, <1>17, ShowsNone DEF OfferApplied, UiState
    <2>4. sig' = sig
        BY <1>17 DEF OfferApplied
    <2>5. QED
        BY <1>0, <2>1, <2>2, <2>3, <2>4, PlainStep
<1>18. ASSUME NEW r \in Role, AnswerApplied(r) PROVE Done
    <2> DEFINE t == [Described(ps[r]) EXCEPT !.answering = FALSE]
    <2>1. ps' = [ps EXCEPT ![r] = t] /\ (relay' = "paired" => relay = "paired")
        BY <1>0, <1>18 DEF AnswerApplied, Put, TypeOK
    <2>2. (t.session => ps[r].session) /\ SameCount(ps[r], t)
        BY <1>0 DEF SameCount, Fields, Fresh, Described
    <2> HIDE DEF t
    <2>3. \A q \in Role : ui'[q] = "secure" => ui[q] = "secure"
        BY <1>0, <1>18, ShowsNone DEF AnswerApplied, UiState
    <2>4. sig' = sig
        BY <1>18 DEF AnswerApplied
    <2>5. QED
        BY <1>0, <2>1, <2>2, <2>3, <2>4, PlainStep
<1>19. ASSUME NEW r \in Role, SendIce(r) PROVE Done
    <2> DEFINE t == [ps[r] EXCEPT !.iceLeft = @ - 1]
    <2>1. ps' = [ps EXCEPT ![r] = t] /\ ui' = ui
        BY <1>19 DEF SendIce, Put
    <2>2. t.session = ps[r].session
        BY <1>0 DEF Fields, Fresh
    <2> HIDE DEF t
    <2>3. NotYetSecure
        BY <1>0, <2>1, <2>2 DEF NotYetSecure, TypeOK
    <2>4. QED
        BY <1>19, <2>3
<1>20. ASSUME NEW r \in Role, SignalAcked(r) PROVE Done
    <2> DEFINE t == [ps[r] EXCEPT !.neg = "done"]
    <2>1. ps' = [ps EXCEPT ![r] = t] /\ (relay' = "paired" => relay = "paired")
        BY <1>0, <1>20 DEF SignalAcked, Put, TypeOK
    <2>2. (t.session => ps[r].session) /\ SameCount(ps[r], t)
        BY <1>0 DEF SameCount, Fields, Fresh
    <2> HIDE DEF t
    <2>3. \A q \in Role : ui'[q] = "secure" => ui[q] = "secure"
        BY <1>0, <1>20, ShowsNone DEF SignalAcked, UiState
    <2>4. \A q \in Role : Ice(sig'[q]) = Ice(sig[q])
        BY <1>20, PopsOther DEF SignalAcked
    <2>5. QED
        BY <1>0, <2>1, <2>2, <2>3, <2>4, PlainStep
<1>21. ASSUME NEW r \in Role, SignalFailed(r) PROVE Done
    <2> DEFINE s == [ps[r] EXCEPT !.neg = "done"]
    <2>1. Fail(r, s, "negotiation-failed") /\ "negotiation-failed" \in Reason
        BY <1>21 DEF SignalFailed, Reason
    <2>2. s.sock = ps[r].sock /\ (s.session => ps[r].session) /\ SameCount(ps[r], s)
        BY <1>0 DEF SameCount, Fields, Fresh
    <2>3. s \in Session
        BY <1>0, SetsStay
    <2> HIDE DEF s
    <2>4. QED
        BY <2>1, <2>2, <2>3, FailPlain
<1>22. ASSUME NEW r \in Role, ChannelOpens(r) PROVE Done
    <2> DEFINE t == [ps[r] EXCEPT !.dc = "open", !.hello = "making", !.handshakeTimer = TRUE]
    <2>1. ps' = [ps EXCEPT ![r] = t] /\ (relay' = "paired" => relay = "paired")
        BY <1>0, <1>22 DEF ChannelOpens, Put, TypeOK
    <2>2. (t.session => ps[r].session) /\ SameCount(ps[r], t)
        BY <1>0 DEF SameCount, Fields, Fresh
    <2> HIDE DEF t
    <2>3. \A q \in Role : ui'[q] = "secure" => ui[q] = "secure"
        BY <1>0, <1>22, ShowsNone DEF ChannelOpens, UiState
    <2>4. sig' = sig
        BY <1>22 DEF ChannelOpens
    <2>5. QED
        BY <1>0, <2>1, <2>2, <2>3, <2>4, PlainStep
<1>23. ASSUME NEW r \in Role, HelloMade(r) PROVE Done
    <2> DEFINE t == [createHello(ps[r]) EXCEPT !.completing =
                       @ \/ (ps[r].dc # "closed" /\ ps[r].peerHello /\ ~ps[r].session)]
    <2>1. ps' = [ps EXCEPT ![r] = t] /\ (relay' = "paired" => relay = "paired")
        BY <1>0, <1>23 DEF HelloMade, Put, TypeOK
    <2>2. (t.session => ps[r].session) /\ SameCount(ps[r], t)
        BY <1>0 DEF SameCount, Fields, Fresh, createHello
    <2> HIDE DEF t
    <2>3. \A q \in Role : ui'[q] = "secure" => ui[q] = "secure"
        BY <1>0, <1>23, ShowsNone DEF HelloMade, UiState
    <2>4. sig' = sig
        BY <1>23 DEF HelloMade
    <2>5. QED
        BY <1>0, <2>1, <2>2, <2>3, <2>4, PlainStep
<1>24. ASSUME NEW r \in Role, HelloArrives(r) PROVE Done
    <2> DEFINE s == [ps[r] EXCEPT !.peerHello = TRUE]
    <2>1. /\ s.sock = ps[r].sock /\ (s.session => ps[r].session) /\ SameCount(ps[r], s)
          /\ DOMAIN s = Fields /\ s.pendingIce \in Nat /\ s.iceAdded \in Nat
        BY <1>0 DEF SameCount, Fields, Fresh
    <2>2. s \in Session
        BY <1>0, SetsStay
    <2>3. CASE s.session \/ HasEphemeral(s)
        <3> DEFINE t == [s EXCEPT !.completing = @ \/ ~s.session]
        <3>1. ps' = [ps EXCEPT ![r] = t] /\ UNCHANGED <<relay, sig>> /\ Show(r, "connected")
            BY <1>24, <2>3 DEF HelloArrives, Put
        <3> HIDE DEF s
        <3>2. (t.session => ps[r].session) /\ SameCount(ps[r], t)
            BY <2>1 DEF SameCount, Fields, Fresh
        <3> HIDE DEF t
        <3>3. \A q \in Role : ui'[q] = "secure" => ui[q] = "secure"
            BY <3>1, ShowsNone DEF UiState
        <3>4. QED
            BY <3>1, <3>2, <3>3, PlainStep
    <2>4. CASE ~(s.session \/ HasEphemeral(s))
        <3>1. Fail(r, s, "handshake-exception") /\ "handshake-exception" \in Reason
            BY <1>24, <2>4 DEF HelloArrives, Reason
        <3> HIDE DEF s
        <3>2. QED
            BY <2>1, <2>2, <3>1, FailPlain
    <2>5. QED
        BY <2>3, <2>4
<1>25. ASSUME NEW r \in Role, HandshakeCompleted(r) PROVE Done
    <2> DEFINE s == [ps[r] EXCEPT !.completing = FALSE]
    <2>1. /\ s.sock = ps[r].sock /\ (s.session => ps[r].session) /\ SameCount(ps[r], s)
          /\ DOMAIN s = Fields /\ s.pendingIce \in Nat /\ s.iceAdded \in Nat
        BY <1>0 DEF SameCount, Fields, Fresh
    <2>2. s \in Session
        BY <1>0, SetsStay
    <2>3. CASE Mismatch(r)
        <3>1. Fail(r, s, "handshake-failed") /\ "handshake-failed" \in Reason
            BY <1>25, <2>3 DEF HandshakeCompleted, Reason
        <3> HIDE DEF s
        <3>2. QED
            BY <2>1, <2>2, <3>1, FailPlain
    <2>4. CASE ~Mismatch(r)
        <3> DEFINE t == [Established(s) EXCEPT !.connectTimer = FALSE, !.handshakeTimer = FALSE]
        <3>1. ps' = [ps EXCEPT ![r] = t] /\ UNCHANGED <<relay, sig>>
            BY <1>25, <2>4 DEF HandshakeCompleted, Put
        <3> HIDE DEF s
        <3>2. SameCount(ps[r], t)
            BY <2>1 DEF SameCount, Established, Fields, Fresh
        <3> HIDE DEF t
        <3>3. NoCandidateMoves
            <4>1. \A q \in Role : SameCount(ps[q], ps'[q])
                BY <1>0, <3>1, <3>2 DEF TypeOK, SameCount
            <4>2. QED
                BY <3>1, <4>1 DEF NoCandidateMoves
        <3>4. QED
            BY <1>25, <2>4, <3>3
    <2>5. QED
        BY <2>3, <2>4
<1>26. ASSUME NEW r \in Role, ChannelLost(r) PROVE Done
    <2> DEFINE t == [ps[r] EXCEPT !.dc = "closed"]
    <2>1. ps' = [ps EXCEPT ![r] = t] /\ (relay' = "paired" => relay = "paired")
        BY <1>0, <1>26 DEF ChannelLost, Put, TypeOK
    <2>2. (t.session => ps[r].session) /\ SameCount(ps[r], t)
        BY <1>0 DEF SameCount, Fields, Fresh
    <2> HIDE DEF t
    <2>3. \A q \in Role : ui'[q] = "secure" => ui[q] = "secure"
        BY <1>0, <1>26, ShowsNone DEF ChannelLost, UiState
    <2>4. sig' = sig
        BY <1>26 DEF ChannelLost
    <2>5. QED
        BY <1>0, <2>1, <2>2, <2>3, <2>4, PlainStep
<1>27. ASSUME NEW r \in Role, ConnectTimeout(r) PROVE Done
    <2> DEFINE s == [ps[r] EXCEPT !.connectTimer = FALSE]
    <2>1. s.sock = ps[r].sock /\ (s.session => ps[r].session) /\ SameCount(ps[r], s)
        BY <1>0 DEF SameCount, Fields, Fresh
    <2>2. s \in Session
        BY <1>0, SetsStay
    <2>3. CASE s.session \/ s.closed
        <3>1. ps' = [ps EXCEPT ![r] = s] /\ UNCHANGED <<ui, relay, sig>>
            BY <1>27, <2>3 DEF ConnectTimeout, Put
        <3> HIDE DEF s
        <3>2. QED
            BY <2>1, <3>1, PlainStep
    <2>4. CASE ~(s.session \/ s.closed)
        <3>1. Fail(r, s, "timeout") /\ "timeout" \in Reason
            BY <1>27, <2>4 DEF ConnectTimeout, Reason
        <3> HIDE DEF s
        <3>2. QED
            BY <2>1, <2>2, <3>1, FailPlain
    <2>5. QED
        BY <2>3, <2>4
<1>28. ASSUME NEW r \in Role, HandshakeTimeout(r) PROVE Done
    <2> DEFINE s == [ps[r] EXCEPT !.handshakeTimer = FALSE]
    <2>1. s.sock = ps[r].sock /\ (s.session => ps[r].session) /\ SameCount(ps[r], s)
        BY <1>0 DEF SameCount, Fields, Fresh
    <2>2. s \in Session
        BY <1>0, SetsStay
    <2>3. CASE s.session \/ s.closed
        <3>1. ps' = [ps EXCEPT ![r] = s] /\ UNCHANGED <<ui, relay, sig>>
            BY <1>28, <2>3 DEF HandshakeTimeout, Put
        <3> HIDE DEF s
        <3>2. QED
            BY <2>1, <3>1, PlainStep
    <2>4. CASE ~(s.session \/ s.closed)
        <3>1. Fail(r, s, "handshake-timeout") /\ "handshake-timeout" \in Reason
            BY <1>28, <2>4 DEF HandshakeTimeout, Reason
        <3> HIDE DEF s
        <3>2. QED
            BY <2>1, <2>2, <3>1, FailPlain
    <2>5. QED
        BY <2>3, <2>4
<1>29. ASSUME UNCHANGED vars PROVE Done
    BY <1>0, <1>29 DEF vars, NotYetSecure, NoCandidateMoves, SameCount
<1>30. QED
    BY <1>1, <1>2, <1>3, <1>4, <1>6, <1>7, <1>8, <1>9, <1>10, <1>11, <1>12, <1>13, <1>14,
       <1>15, <1>16, <1>17, <1>18, <1>19, <1>20, <1>21, <1>22, <1>23, <1>24, <1>25, <1>26,
       <1>27, <1>28, <1>29 DEF Next, Signaling, WebRTC, Handshake, Timeout

-----------------------------------------------------------------------------
(* The theorems.                                                            *)

(* Initially the sessions are fresh and the relay has no channel.           *)
LEMMA LifeInit == Init => LifeInv
<1> SUFFICES ASSUME Init PROVE LifeInv
    OBVIOUS
<1>1. TypeOK
    BY TypesInit
<1>2. \A r \in Role : SessionOK(ps[r]) /\ Untouched(ps[r]) /\ sig[r] = << >>
    BY DEF Init, Fresh, SessionOK, Untouched
<1>3. HellosOK
    BY DEF Init, Fresh, HellosOK
<1>4. BeforeOK /\ JoinedOK
    BY <1>2 DEF BeforeOK, JoinedOK
<1>5. RelayOK
    BY DEF Init, RelayOK
<1>6. QED
    BY <1>1, <1>2, <1>3, <1>4, <1>5 DEF LifeInv

(* The invariant of the lifecycle.                                          *)
LEMMA LifeHolds == Spec => []LifeInv
<1>1. Init => LifeInv
    BY LifeInit
<1>2. LifeInv /\ [Next]_vars => LifeInv'
    BY LifeKept
<1>3. QED
    BY <1>1, <1>2, PTL DEF Spec

(* A responder whose invite promises another identity does not get there.   *)
LEMMA MismatchKept ==
    ASSUME LifeInv, MismatchNeverSecure, [Next]_vars
    PROVE  MismatchNeverSecure'
<1>1. invite' = invite
    BY DEF Next, hostSession, joinSession, Created, Joined, SendOffer, SendAnswer, Describe, RelayExpires,
           SocketConnected, CallFailed, Cancel, SocketLost, Signaling, PeerJoined,
           OfferArrives, AnswerArrives, IceArrives, ChannelClosed, WebRTC, OfferApplied,
           AnswerApplied, SendIce, SignalAcked, SignalFailed, ChannelOpens, Handshake,
           HelloMade, HelloArrives, HandshakeCompleted, ChannelLost, Timeout,
           ConnectTimeout, HandshakeTimeout, vars
<1>2. "responder" \in Role /\ \A r \in Role : r = "initiator" \/ r = "responder"
    BY DEF Role
<1>3. CASE NotYetSecure
    BY <1>1, <1>2, <1>3 DEF MismatchNeverSecure, NotYetSecure
<1>4. ASSUME NEW r \in Role, HandshakeCompleted(r), ~Mismatch(r)
      PROVE  MismatchNeverSecure'
    <2>1. CASE r = "responder"
        BY <1>1, <1>4, <2>1 DEF MismatchNeverSecure, Mismatch
    <2>2. CASE r = "initiator"
        <3>1. ps'["responder"] = ps["responder"] /\ ui'["responder"] = ui["responder"]
            BY <1>2, <1>4, <2>2 DEF HandshakeCompleted, Put, Show, LifeInv, TypeOK
        <3>2. QED
            BY <1>1, <3>1 DEF MismatchNeverSecure
    <2>3. QED
        BY <1>2, <2>1, <2>2
<1>5. QED
    BY <1>3, <1>4, Effects

(* Whatever the order of hellos, timers, failures and teardowns, a peer is  *)
(* secure only if both made their hellos, and a responder never if its      *)
(* invite names another identity (peer-session.ts:16).                      *)
THEOREM SecureMustBeEarned == Spec => []SecureIsEarned
<1>1. Init => MismatchNeverSecure
    BY DEF Init, Fresh, MismatchNeverSecure, Role
<1>2. LifeInv /\ MismatchNeverSecure /\ [Next]_vars => MismatchNeverSecure'
    BY MismatchKept
<1>3. LifeInv => TypeOK /\ SecureNeedsBothHellos
    BY Others DEF LifeInv, SessionOK, HellosOK, SecureNeedsBothHellos
<1>4. QED
    BY <1>1, <1>2, <1>3, LifeHolds, PTL DEF Spec, SecureIsEarned

-----------------------------------------------------------------------------
(* Candidates.                                                              *)

(* While both are in the channel, a live session's candidates add up.       *)
Counted(r) ==
    relay = "paired" /\ ~ps[r].closed =>
        IceCount - ps[Other(r)].iceLeft = Ice(sig[r]) + ps[r].pendingIce + ps[r].iceAdded
(* For both.                                                                *)
AllCounted == \A r \in Role : Counted(r)

(* A step that moves no candidate keeps the sum.                            *)
LEMMA CountKept ==
    ASSUME LifeInv, AllCounted, NoCandidateMoves, TypeOK'
    PROVE  AllCounted'
<1> SUFFICES ASSUME NEW r \in Role, relay' = "paired", ~ps'[r].closed
             PROVE  IceCount - ps'[Other(r)].iceLeft
                        = Ice(sig'[r]) + ps'[r].pendingIce + ps'[r].iceAdded
    BY DEF AllCounted, Counted
<1>1. /\ relay = "paired" /\ Ice(sig'[r]) = Ice(sig[r]) /\ Other(r) \in Role
      /\ SameCount(ps[r], ps'[r]) /\ SameCount(ps[Other(r)], ps'[Other(r)])
    BY Others DEF NoCandidateMoves
<1>2. IceCount - ps[Other(r)].iceLeft = Ice(sig[r]) + ps[r].pendingIce + ps[r].iceAdded
    BY <1>1 DEF AllCounted, Counted, SameCount
<1>3. /\ ps[r].pendingIce \in Nat /\ ps[r].iceAdded \in Nat /\ Ice(sig[r]) \in Nat
      /\ ps'[r].pendingIce \in Nat /\ ps'[r].iceAdded \in Nat
    <2>1. ps[r] \in Session /\ ps'[r] \in Session /\ sig[r] \in Seq(Event)
        BY DEF LifeInv, TypeOK
    <2>2. QED
        BY <2>1, SessionFields, IceType DEF Typed
<1>4. QED
    BY <1>1, <1>2, <1>3 DEF SameCount

(* The sum starts at nothing, when the responder joins.                     *)
LEMMA CountJoined ==
    ASSUME LifeInv, Joined, LifeInv'
    PROVE  AllCounted'
<1>1. relay = "waiting" /\ \A q \in Role : sig[q] = << >> /\ Untouched(ps[q])
    BY DEF Joined, LifeInv, BeforeOK, Unpaired
<1>2. \A q \in Role : ps[q] \in Session /\ DOMAIN ps[q] = Fields
    BY SessionFields DEF LifeInv, TypeOK
<1>3. \A q \in Role : ps'[q].iceLeft = IceCount /\ ps'[q].pendingIce = 0 /\ ps'[q].iceAdded = 0
    <2> DEFINE t == ArmTimeouts([ps["responder"] EXCEPT !.call = "ready"])
    <2>1. ps' = [ps EXCEPT !["responder"] = t] /\ "responder" \in Role
        BY DEF Joined, Put, Role
    <2>2. t.iceLeft = IceCount /\ t.pendingIce = 0 /\ t.iceAdded = 0
        BY <1>1, <1>2, <2>1 DEF ArmTimeouts, Untouched, Fields, Fresh
    <2> HIDE DEF t
    <2>3. \A q \in Role : ps'[q] = IF q = "responder" THEN t ELSE ps[q]
        BY <2>1 DEF LifeInv, TypeOK
    <2>4. QED
        BY <1>1, <2>2, <2>3 DEF Untouched
<1>4. \A q \in Role : Ice(sig'[q]) = 0
    <2>1. "peer-joined" \in Event /\ << >> \in Seq(Event) /\ "initiator" \in Role
        BY DEF Event, Role
    <2>2. Ice(<< >>) = 0 /\ Ice(Append(<< >>, "peer-joined")) = 0
        BY <2>1, IceType, IceAppend
    <2>3. \A q \in Role : sig'[q] \in {<< >>, Append(<< >>, "peer-joined")}
        BY <1>1, <2>1 DEF Joined, Forward, LifeInv, TypeOK
    <2>4. QED
        BY <2>2, <2>3
<1>5. \A q \in Role : Other(q) \in Role
    BY Others
<1>6. QED
    BY <1>3, <1>4, <1>5, IceCountAssumption DEF AllCounted, Counted

(* A candidate sent while both are there is on its way.                     *)
LEMMA CountSent ==
    ASSUME LifeInv, AllCounted, NEW r \in Role, SendIce(r)
    PROVE  AllCounted'
<1> DEFINE t == [ps[r] EXCEPT !.iceLeft = @ - 1]
<1>1. ps' = [ps EXCEPT ![r] = t] /\ relay' = relay /\ ps[r].iceLeft > 0
    BY DEF SendIce, Put
<1>2. /\ ps[r] \in Session /\ DOMAIN ps[r] = Fields /\ \A q \in Role : sig[q] \in Seq(Event)
      /\ \A q \in Role : Other(q) \in Role /\ (q = r \/ q = Other(r)) /\ Other(Other(q)) = q
      /\ Other(r) # r
      /\ \A q \in Role : ps[q].iceLeft \in Nat /\ ps[q].pendingIce \in Nat /\ ps[q].iceAdded \in Nat
    BY SessionFields, Others DEF LifeInv, TypeOK, Other, Role, Typed
<1>3. /\ t.iceLeft = ps[r].iceLeft - 1 /\ t.closed = ps[r].closed
      /\ t.pendingIce = ps[r].pendingIce /\ t.iceAdded = ps[r].iceAdded
    BY <1>2 DEF Fields, Fresh
<1> HIDE DEF t
<1>4. ps'[r] = t /\ ps'[Other(r)] = ps[Other(r)]
    BY <1>1, <1>2 DEF LifeInv, TypeOK
<1>5. CASE relay = "paired"
    <2>1. ps["initiator"].sock = "up" /\ ps["responder"].sock = "up"
        BY <1>5 DEF LifeInv, RelayOK
    <2>2. ps[r].sock = "up" /\ ps[Other(r)].sock = "up"
        BY <2>1 DEF Role, Other
    <2>3. sig' = [sig EXCEPT ![Other(r)] = Append(sig[Other(r)], "ice")]
        BY <1>5, <2>2 DEF SendIce, Forward
    <2>4. sig'[r] = sig[r] /\ sig'[Other(r)] = Append(sig[Other(r)], "ice")
        BY <1>2, <2>3 DEF LifeInv, TypeOK
    <2>5. Ice(sig'[Other(r)]) = Ice(sig[Other(r)]) + 1 /\ Ice(sig[Other(r)]) \in Nat
        BY <1>2, <2>4, IceAppend, IceType DEF Event
    <2>6. Counted(r)'
        BY <1>1, <1>2, <1>3, <1>4, <2>4 DEF AllCounted, Counted
    <2>7. Counted(Other(r))'
        <3>1. Counted(Other(r)) /\ Other(Other(r)) = r
            BY <1>2 DEF AllCounted
        <3>2. QED
            <4>1. /\ ps[r].iceLeft \in Nat /\ ps'[r].iceLeft = ps[r].iceLeft - 1
                  /\ Ice(sig'[Other(r)]) = Ice(sig[Other(r)]) + 1
                  /\ Ice(sig[Other(r)]) \in Nat /\ IceCount \in Nat
                  /\ ps'[Other(r)] = ps[Other(r)] /\ ps[Other(r)].pendingIce \in Nat
                  /\ ps[Other(r)].iceAdded \in Nat /\ relay' = relay
                BY <1>1, <1>2, <1>3, <1>4, <2>5, IceCountAssumption
            <4>2. SUFFICES ASSUME relay' = "paired", ~ps'[Other(r)].closed
                           PROVE  IceCount - ps'[r].iceLeft
                                    = Ice(sig'[Other(r)]) + ps'[Other(r)].pendingIce
                                        + ps'[Other(r)].iceAdded
                BY <3>1 DEF Counted
            <4>3. IceCount - ps[r].iceLeft
                    = Ice(sig[Other(r)]) + ps[Other(r)].pendingIce + ps[Other(r)].iceAdded
                BY <3>1, <4>1, <4>2 DEF Counted
            <4>4. \A a, b, c, d, e \in Nat :
                     a - b = c + d + e => a - (b - 1) = (c + 1) + d + e
                OBVIOUS
            <4>5. QED
                BY <4>1, <4>3, <4>4
    <2>8. QED
        BY <1>2, <2>6, <2>7 DEF AllCounted
<1>6. CASE relay # "paired"
    BY <1>1, <1>6 DEF AllCounted, Counted
<1>7. QED
    BY <1>5, <1>6

(* A candidate heard is queued or added.                                    *)
LEMMA CountHeard ==
    ASSUME LifeInv, AllCounted, NEW r \in Role, IceArrives(r)
    PROVE  AllCounted'
<1> DEFINE t == IF ps[r].closed THEN ps[r] ELSE TakeCandidate(ps[r])
<1>1. /\ ps' = [ps EXCEPT ![r] = t] /\ relay' = relay /\ Hears(r, "ice")
      /\ sig' = [sig EXCEPT ![r] = Tail(sig[r])]
    BY DEF IceArrives, Put, Pop, LifeInv, TypeOK
<1>2. /\ ps[r] \in Session /\ DOMAIN ps[r] = Fields /\ \A q \in Role : sig[q] \in Seq(Event)
      /\ \A q \in Role : Other(q) \in Role /\ (q = r \/ q = Other(r)) /\ Other(Other(q)) = q
      /\ Other(r) # r
      /\ \A q \in Role : ps[q].iceLeft \in Nat /\ ps[q].pendingIce \in Nat /\ ps[q].iceAdded \in Nat
    BY SessionFields, Others DEF LifeInv, TypeOK, Other, Role, Typed
<1>3. /\ t.iceLeft = ps[r].iceLeft /\ t.closed = ps[r].closed
      /\ ~ps[r].closed => t.pendingIce + t.iceAdded = ps[r].pendingIce + ps[r].iceAdded + 1
      /\ t.pendingIce \in Nat /\ t.iceAdded \in Nat
    <2>1. ps[r].pendingIce \in Nat /\ ps[r].iceAdded \in Nat
        BY <1>2
    <2>2. CASE ps[r].closed
        BY <2>1, <2>2
    <2>3. CASE ~ps[r].closed /\ ps[r].pc = "remote"
        <3>1. t = [ps[r] EXCEPT !.iceAdded = ps[r].iceAdded + 1]
            BY <2>3 DEF TakeCandidate
        <3> HIDE DEF t
        <3>2. /\ t.iceLeft = ps[r].iceLeft /\ t.closed = ps[r].closed
              /\ t.pendingIce = ps[r].pendingIce /\ t.iceAdded = ps[r].iceAdded + 1
            BY <1>2, <3>1 DEF Fields, Fresh
        <3>3. QED
            BY <2>1, <3>2
    <2>4. CASE ~ps[r].closed /\ ps[r].pc # "remote"
        <3>1. t = [ps[r] EXCEPT !.pendingIce = ps[r].pendingIce + 1]
            BY <2>4 DEF TakeCandidate
        <3> HIDE DEF t
        <3>2. /\ t.iceLeft = ps[r].iceLeft /\ t.closed = ps[r].closed
              /\ t.iceAdded = ps[r].iceAdded /\ t.pendingIce = ps[r].pendingIce + 1
            BY <1>2, <3>1 DEF Fields, Fresh
        <3>3. QED
            BY <2>1, <3>2
    <2> HIDE DEF t
    <2>5. QED
        BY <2>2, <2>3, <2>4
<1> HIDE DEF t
<1>4. /\ ps'[r] = t /\ ps'[Other(r)] = ps[Other(r)]
      /\ sig'[r] = Tail(sig[r]) /\ sig'[Other(r)] = sig[Other(r)]
    BY <1>1, <1>2 DEF LifeInv, TypeOK
<1>5. Ice(sig[r]) = Ice(sig'[r]) + 1 /\ Ice(sig'[r]) \in Nat
    <2>1. sig[r] \in Seq(Event) /\ sig[r] # << >> /\ Head(sig[r]) = "ice"
        BY <1>1, <1>2 DEF Hears
    <2>2. Tail(sig[r]) \in Seq(Event)
        BY <2>1
    <2>3. QED
        BY <1>4, <2>1, <2>2, IceTail, IceType
<1>6. Counted(r)'
    <2>1. Counted(r)
        BY DEF AllCounted
    <2>2. QED
        <3>1. /\ ps[r].pendingIce \in Nat /\ ps[r].iceAdded \in Nat
              /\ ps'[r] = t /\ ps'[Other(r)] = ps[Other(r)] /\ relay' = relay
            BY <1>1, <1>2, <1>4
        <3>2. QED
            BY <1>3, <1>5, <2>1, <3>1 DEF Counted
<1>7. Counted(Other(r))'
    <2>1. Counted(Other(r)) /\ Other(Other(r)) = r
        BY <1>2 DEF AllCounted
    <2>2. QED
        BY <1>1, <1>2, <1>3, <1>4, <2>1 DEF Counted
<1>8. QED
    BY <1>2, <1>6, <1>7 DEF AllCounted

(* No candidate the relay accepted is lost, whether it overtakes the        *)
(* description it belongs to or arrives while that is being applied.        *)
THEOREM CandidatesAreKept == Spec => []NoCandidateLost
<1>1. Init => AllCounted
    BY DEF Init, AllCounted, Counted
<1>2. LifeInv /\ LifeInv' /\ AllCounted /\ [Next]_vars => AllCounted'
    <2> SUFFICES ASSUME LifeInv, LifeInv', AllCounted, [Next]_vars PROVE AllCounted'
        OBVIOUS
    <2>1. TypeOK'
        BY DEF LifeInv
    <2>2. QED
        BY <2>1, Effects, CountKept, CountJoined, CountSent, CountHeard
<1>3. LifeInv /\ AllCounted => NoCandidateLost
    BY DEF LifeInv, SessionOK, AllCounted, Counted, NoCandidateLost, InFlightIce, Ice, IceIn
<1>4. QED
    BY <1>1, <1>2, <1>3, LifeHolds, PTL DEF Spec

-----------------------------------------------------------------------------
(* The relay's types, the agreement of its maps and what it announces,      *)
(* proved for any sets of sockets and codes, whether or not codes repeat;   *)
(* and, while they do not (FreshCodes), that signals and ends stay within   *)
(* a channel and that the relay implements Rendezvous.                      *)
(*                                                                          *)
(* MapsAgree alone is not inductive: "leave" goes by boundCode, not by      *)
(* socketToChannel, so that a member that leaves takes its own channel      *)
(* with it follows only from what boundCode holds for members (RelayInv).   *)
(* That a boundCode which has outlived its channel names nobody else's is   *)
(* what fresh codes give (BoundInv).                                        *)

(* Who is in channel c of the channel map ch.                               *)
MembersIn(ch, c) == {ch[c].creator, ch[c].joiner} \ {NoSocket}

(* Map m names exactly the members of ch's channels, and so does the bound  *)
(* code of each member (of others it may name a channel long gone).         *)
Agree(ch, m, bound) ==
    \A s \in Socket, c \in Code :
        /\ m[s] = c <=> s \in MembersIn(ch, c)
        /\ s \in MembersIn(ch, c) => bound[s] = c

MembersOpen(ch, cn) ==
    \A s \in Socket, c \in Code : s \in MembersIn(ch, c) => cn[s] = "open"

RelayInv ==
    /\ RelayTypeOK
    /\ Agree(channels, socketToChannel, boundCode)
    /\ MembersOpen(channels, conn)

(* Members and what a channel map without some channels holds.              *)
LEMMA MembersAreIn ==
    \A c \in Code : Members(c) = MembersIn(channels, c)
BY DEF Members, MembersIn

(* destroyChannel leaves maps of the right types.                           *)
LEMMA DestroyTypes ==
    ASSUME RelayTypeOK, NEW C \in SUBSET Code
    PROVE  /\ ChannelsWithout(C) \in [Code -> Channel \cup {NoChannel}]
           /\ Unmapped(C) \in [Socket -> Code \cup {NoCode}]
BY DEF RelayTypeOK, ChannelsWithout, Unmapped

(* destroyChannel, for any set of channels, keeps the maps in agreement: a  *)
(* socket is a member of one channel only, so unmapping the members of the  *)
(* destroyed ones touches no other channel.                                 *)
LEMMA DestroyKeepsAgreement ==
    ASSUME RelayInv, NEW C \in SUBSET Code
    PROVE  /\ Agree(ChannelsWithout(C), Unmapped(C), boundCode)
           /\ MembersOpen(ChannelsWithout(C), conn)
           /\ \A s \in Socket, c \in Code :
                s \in MembersIn(ChannelsWithout(C), c)
                    => c \notin C /\ s \in MembersIn(channels, c)
<1> USE RelayAssumption
<1>1. \A c \in C : MembersIn(ChannelsWithout(C), c) = {}
    BY DEF MembersIn, ChannelsWithout, NoChannel
<1>2. \A c \in Code \ C :
        MembersIn(ChannelsWithout(C), c) = MembersIn(channels, c)
    BY DEF MembersIn, ChannelsWithout
<1>3. \A s \in Socket, c \in Code \ C :
        s \in MembersIn(channels, c) => s \notin MembersOf(C)
    BY MembersAreIn DEF RelayInv, Agree, MembersOf
<1>4. \A s \in Socket :
        Unmapped(C)[s] = IF s \in MembersOf(C) THEN NoCode ELSE socketToChannel[s]
    BY DEF Unmapped
<1>5. \A s \in Socket, c \in C :
        s \in MembersIn(channels, c) => s \in MembersOf(C)
    BY MembersAreIn DEF MembersOf
<1>6. \A s \in Socket, c \in Code :
        Unmapped(C)[s] = c <=> s \in MembersIn(ChannelsWithout(C), c)
    BY <1>1, <1>2, <1>3, <1>4, <1>5 DEF RelayInv, Agree
<1>7. QED
    BY <1>1, <1>2, <1>6 DEF RelayInv, Agree, MembersOpen

-----------------------------------------------------------------------------
(* No step depends on more of a handler than these effects on the maps.     *)

(* A set of channels is destroyed and sockets that are in none of the       *)
(* remaining ones may close or forget their code.                           *)
LEMMA DestroyStep ==
    ASSUME RelayInv, RelayTypeOK', NEW C \in SUBSET Code,
           channels' = ChannelsWithout(C),
           \A s \in Socket, c \in Code : s \in MembersIn(ChannelsWithout(C), c) =>
               /\ conn'[s] = conn[s]
               /\ boundCode'[s] = boundCode[s],
           \A s \in Socket : \/ socketToChannel'[s] = Unmapped(C)[s]
                             \/ /\ socketToChannel'[s] = NoCode
                                /\ \A c \in Code : s \notin MembersIn(ChannelsWithout(C), c)
    PROVE  RelayInv'
<1> USE RelayAssumption
<1>1. /\ Agree(ChannelsWithout(C), Unmapped(C), boundCode)
      /\ MembersOpen(ChannelsWithout(C), conn)
    BY DestroyKeepsAgreement
<1>2. Agree(ChannelsWithout(C), socketToChannel', boundCode')
    BY <1>1 DEF Agree
<1>3. MembersOpen(ChannelsWithout(C), conn')
    BY <1>1 DEF MembersOpen
<1>4. QED
    BY <1>2, <1>3 DEF RelayInv

(* A socket that was in no channel becomes a member of channel c.           *)
LEMMA EnterStep ==
    ASSUME RelayInv, RelayTypeOK', NEW C \in SUBSET Code,
           NEW s \in Socket, NEW c \in Code, conn[s] = "new",
           NEW ch \in Channel,
           channels' = [ChannelsWithout(C) EXCEPT ![c] = ch],
           {ch.creator, ch.joiner} \ {NoSocket}
               = MembersIn(ChannelsWithout(C), c) \cup {s},
           socketToChannel' = [Unmapped(C) EXCEPT ![s] = c],
           boundCode' = [boundCode EXCEPT ![s] = c],
           conn' = [conn EXCEPT ![s] = "open"]
    PROVE  RelayInv'
<1> USE RelayAssumption
<1>1. /\ Agree(ChannelsWithout(C), Unmapped(C), boundCode)
      /\ MembersOpen(ChannelsWithout(C), conn)
    BY DestroyKeepsAgreement
<1>2. /\ ChannelsWithout(C) \in [Code -> Channel \cup {NoChannel}]
      /\ Unmapped(C) \in [Socket -> Code \cup {NoCode}]
      /\ boundCode \in [Socket -> Code \cup {NoCode}]
      /\ conn \in [Socket -> {"new", "open", "left", "closed"}]
    BY DestroyTypes DEF RelayInv, RelayTypeOK
<1>3. \A d \in Code : s \notin MembersIn(ChannelsWithout(C), d)
    BY <1>1 DEF MembersOpen
<1>4. MembersIn(channels', c) = MembersIn(ChannelsWithout(C), c) \cup {s}
    BY <1>2 DEF MembersIn
<1>5. \A d \in Code \ {c} : MembersIn(channels', d) = MembersIn(ChannelsWithout(C), d)
    BY <1>2 DEF MembersIn
<1>6. Agree(channels', socketToChannel', boundCode')
    <2> SUFFICES ASSUME NEW t \in Socket, NEW d \in Code
                 PROVE  /\ socketToChannel'[t] = d <=> t \in MembersIn(channels', d)
                        /\ t \in MembersIn(channels', d) => boundCode'[t] = d
        BY DEF Agree
    <2>1. CASE t = s
        BY <2>1, <1>2, <1>3, <1>4, <1>5
    <2>2. CASE t # s
        <3>1. /\ socketToChannel'[t] = Unmapped(C)[t]
              /\ boundCode'[t] = boundCode[t]
            BY <2>2, <1>2
        <3>2. t \in MembersIn(channels', d) <=> t \in MembersIn(ChannelsWithout(C), d)
            BY <2>2, <1>4, <1>5
        <3>3. QED
            BY <3>1, <3>2, <1>1 DEF Agree
    <2>3. QED
        BY <2>1, <2>2
<1>7. MembersOpen(channels', conn')
    BY <1>1, <1>2, <1>4, <1>5 DEF MembersOpen
<1>8. QED
    BY <1>6, <1>7 DEF RelayInv

-----------------------------------------------------------------------------
(* Types are kept by every handler.                                         *)
LEMMA RefuseTypes ==
    ASSUME RelayTypeOK, Refuse
    PROVE  /\ channels' \in [Code -> Channel \cup {NoChannel}]
           /\ socketToChannel' \in [Socket -> Code \cup {NoCode}]
           /\ boundCode' \in [Socket -> Code \cup {NoCode}]
           /\ woken' \subseteq Socket /\ used' \subseteq Code
<1>1. Expired \in SUBSET Code
    BY DEF Expired
<1>2. QED
    BY <1>1, DestroyTypes DEF Refuse, RelayTypeOK

(* Telling the members of some channels keeps told a set of sockets.        *)
LEMMA NotifyTypes ==
    ASSUME RelayTypeOK, NEW C \in SUBSET Code, Notify(C)
    PROVE  told' \subseteq Socket
BY DEF Notify, RelayTypeOK, MembersOf, Members, Channel, NoChannel

(* The types after channel:create.                                          *)
LEMMA CreateTypes ==
    ASSUME RelayTypeOK, NEW s \in Socket, NEW c \in Code, Create(s, c)
    PROVE  RelayTypeOK'
<1>1. Expired \in SUBSET Code
    BY DEF Expired
<1>2. /\ conn' \in [Socket -> {"new", "open", "left", "closed"}]
      /\ relayed' \in [from : Socket \cup {NoSocket}, to : Socket \cup {NoSocket}]
      /\ told' \subseteq Socket
    BY <1>1, NotifyTypes DEF Create, Asks, Silent, NoSignal, RelayTypeOK
<1>3. CASE Exists(c) /\ c \notin Expired
    BY <1>2, <1>3, RefuseTypes DEF Create, RelayTypeOK
<1>4. CASE ~(Exists(c) /\ c \notin Expired)
    <2>1. [creator |-> s, joiner |-> NoSocket, old |-> FALSE] \in Channel
        BY DEF Channel
    <2>2. /\ channels' = [ChannelsWithout(Expired) EXCEPT
                              ![c] = [creator |-> s, joiner |-> NoSocket, old |-> FALSE]]
          /\ socketToChannel' = [Unmapped(Expired) EXCEPT ![s] = c]
          /\ boundCode' = [boundCode EXCEPT ![s] = c]
          /\ used' = used \cup {c}
          /\ UNCHANGED woken
        BY <1>4 DEF Create
    <2>3. /\ ChannelsWithout(Expired) \in [Code -> Channel \cup {NoChannel}]
          /\ Unmapped(Expired) \in [Socket -> Code \cup {NoCode}]
        BY <1>1, DestroyTypes
    <2>4. /\ channels' \in [Code -> Channel \cup {NoChannel}]
          /\ socketToChannel' \in [Socket -> Code \cup {NoCode}]
        BY <2>1, <2>2, <2>3
    <2>5. boundCode' \in [Socket -> Code \cup {NoCode}]
        BY <2>2 DEF RelayTypeOK
    <2>6. woken' \subseteq Socket /\ used' \subseteq Code
        BY <2>2 DEF RelayTypeOK
    <2>7. QED
        BY <1>2, <2>4, <2>5, <2>6 DEF RelayTypeOK
<1>5. QED
    BY <1>3, <1>4

(* The types after channel:join.                                            *)
LEMMA JoinTypes ==
    ASSUME RelayTypeOK, NEW s \in Socket, NEW c \in Code, Join(s, c)
    PROVE  RelayTypeOK'
<1>1. Expired \in SUBSET Code
    BY DEF Expired
<1>2. /\ conn' \in [Socket -> {"new", "open", "left", "closed"}]
      /\ relayed' \in [from : Socket \cup {NoSocket}, to : Socket \cup {NoSocket}]
      /\ told' \subseteq Socket
    BY <1>1, NotifyTypes DEF Join, Asks, Silent, NoSignal, RelayTypeOK
<1>3. CASE JoinRefused(s, c)
    BY <1>2, <1>3, RefuseTypes DEF Join, RelayTypeOK
<1>4. CASE ~JoinRefused(s, c)
    <2>1. channels[c] \in Channel /\ c \notin Expired
        BY <1>4 DEF JoinRefused, Exists, RelayTypeOK
    <2>2. ChannelsWithout(Expired)[c] = channels[c]
        BY <2>1 DEF ChannelsWithout
    <2>3. channels' \in [Code -> Channel \cup {NoChannel}]
        <3>1. [channels[c] EXCEPT !.joiner = s] \in Channel
            BY <2>1 DEF Channel
        <3>2. channels' = [ChannelsWithout(Expired) EXCEPT ![c] =
                              [channels[c] EXCEPT !.joiner = s]]
            BY <1>1, <1>4, <2>2, DestroyTypes DEF Join
        <3>3. QED
            BY <1>1, <3>1, <3>2, DestroyTypes
    <2>4. channels[c].creator \in Socket
        BY <2>1 DEF Channel
    <2>5. socketToChannel' \in [Socket -> Code \cup {NoCode}]
        BY <1>1, <1>4, DestroyTypes DEF Join
    <2>6. boundCode' \in [Socket -> Code \cup {NoCode}]
        BY <1>4 DEF Join, RelayTypeOK
    <2>7. woken' \subseteq Socket /\ used' \subseteq Code
        BY <1>4, <2>4 DEF Join, RelayTypeOK
    <2>8. QED
        BY <1>2, <2>3, <2>5, <2>6, <2>7 DEF RelayTypeOK
<1>5. QED
    BY <1>3, <1>4

(* The types after any step.                                                *)
LEMMA RelayTypesKept ==
    ASSUME RelayTypeOK, [RelayNext]_relayVars
    PROVE  RelayTypeOK'
<1>1. CASE Sweep
    <2>1. Expired \in SUBSET Code
        BY DEF Expired
    <2>2. QED
        BY <1>1, <2>1, DestroyTypes, NotifyTypes DEF Sweep, Silent, NoSignal, RelayTypeOK
<1>2. ASSUME NEW c \in Code, Grow(c) PROVE RelayTypeOK'
    <2>1. channels[c] \in Channel
        BY <1>2 DEF Grow, Exists, RelayTypeOK
    <2>2. [channels[c] EXCEPT !.old = TRUE] \in Channel
        BY <2>1 DEF Channel
    <2>3. channels' = [channels EXCEPT ![c] = [channels[c] EXCEPT !.old = TRUE]]
        BY <1>2 DEF Grow, RelayTypeOK
    <2>4. QED
        BY <1>2, <2>2, <2>3 DEF Grow, Silent, NoSignal, RelayTypeOK
<1>3. ASSUME NEW s \in Socket, NEW c \in Code, Create(s, c) PROVE RelayTypeOK'
    BY <1>3, CreateTypes
<1>4. ASSUME NEW s \in Socket, NEW c \in Code, Join(s, c) PROVE RelayTypeOK'
    BY <1>4, JoinTypes
<1>5. ASSUME NEW s \in Socket, NEW c \in Code, Signal(s, c) PROVE RelayTypeOK'
    <2>1. channels[c] \in Channel
        BY <1>5 DEF Signal, Exists, RelayTypeOK
    <2>2. Target(s, channels[c]) \in Socket
        BY <1>5, <2>1 DEF Signal, Target, Channel
    <2>3. QED
        BY <1>5, <2>2 DEF Signal, RelayTypeOK
<1>6. ASSUME NEW s \in Socket, Leave(s) PROVE RelayTypeOK'
    <2>1. {c \in Code : c = boundCode[s] /\ Exists(c)} \in SUBSET Code
        OBVIOUS
    <2>2. QED
        BY <1>6, <2>1, DestroyTypes, NotifyTypes DEF Leave, Silent, NoSignal, RelayTypeOK
<1>7. ASSUME NEW s \in Socket, Disconnect(s) PROVE RelayTypeOK'
    <2> DEFINE code == IF socketToChannel[s] # NoCode THEN socketToChannel[s]
                                                     ELSE boundCode[s]
               gone == {c \in Code : c = code /\ Exists(c)}
    <2>1. gone \in SUBSET Code
        OBVIOUS
    <2>2. told' \subseteq Socket
        BY <1>7 DEF Disconnect, RelayTypeOK, MembersOf, Members, Channel, NoChannel
    <2>3. QED
        BY <1>7, <2>1, <2>2, DestroyTypes DEF Disconnect, Silent, NoSignal, RelayTypeOK
<1>8. CASE UNCHANGED relayVars
    BY <1>8 DEF relayVars, RelayTypeOK
<1>9. QED
    BY <1>1, <1>2, <1>3, <1>4, <1>5, <1>6, <1>7, <1>8 DEF RelayNext

-----------------------------------------------------------------------------
(* Agreement and openness are kept: each handler is a destroyed set of      *)
(* channels, with or without a socket that enters one.                      *)

(* A refused request only sweeps.                                           *)
LEMMA RefuseKeeps ==
    ASSUME RelayInv, RelayTypeOK', NEW s \in Socket, Asks(s), Refuse
    PROVE  RelayInv'
<1> USE RelayAssumption
<1>1. Expired \in SUBSET Code
    BY DEF Expired
<1>2. \A t \in Socket, c \in Code : t \in MembersIn(ChannelsWithout(Expired), c) =>
          conn'[t] = conn[t] /\ boundCode'[t] = boundCode[t]
    BY <1>1, DestroyKeepsAgreement DEF RelayInv, RelayTypeOK, MembersOpen, Asks, Refuse
<1>3. /\ channels' = ChannelsWithout(Expired)
      /\ socketToChannel' = Unmapped(Expired)
    BY DEF Refuse
<1>4. QED
    BY <1>1, <1>2, <1>3, DestroyStep

(* channel:create: the code is free once the old channels have gone.        *)
LEMMA CreateKeeps ==
    ASSUME RelayInv, RelayTypeOK', NEW s \in Socket, NEW c \in Code, Create(s, c)
    PROVE  RelayInv'
<1> USE RelayAssumption
<1>1. CASE Exists(c) /\ c \notin Expired
    BY <1>1, RefuseKeeps DEF Create
<1>2. CASE ~(Exists(c) /\ c \notin Expired)
    <2> DEFINE ch == [creator |-> s, joiner |-> NoSocket, old |-> FALSE]
    <2>1. Expired \in SUBSET Code /\ ch \in Channel
        BY DEF Expired, Channel
    <2>2. MembersIn(ChannelsWithout(Expired), c) = {}
        BY <1>2 DEF MembersIn, ChannelsWithout, Exists, NoChannel
    <2>3. {ch.creator, ch.joiner} \ {NoSocket} = {s}
        OBVIOUS
    <2>4. /\ conn[s] = "new" /\ conn' = [conn EXCEPT ![s] = "open"]
          /\ channels' = [ChannelsWithout(Expired) EXCEPT ![c] = ch]
          /\ socketToChannel' = [Unmapped(Expired) EXCEPT ![s] = c]
          /\ boundCode' = [boundCode EXCEPT ![s] = c]
        BY <1>2 DEF Create, Asks
    <2> HIDE DEF ch
    <2>5. QED
        BY <2>1, <2>2, <2>3, <2>4, EnterStep
<1>3. QED
    BY <1>1, <1>2

(* channel:join: the second place was empty, for the one socket that may    *)
(* hold it already is the one that asks, which is in no channel yet.        *)
LEMMA JoinKeeps ==
    ASSUME RelayInv, RelayTypeOK', NEW s \in Socket, NEW c \in Code, Join(s, c)
    PROVE  RelayInv'
<1> USE RelayAssumption
<1>1. CASE JoinRefused(s, c)
    BY <1>1, RefuseKeeps DEF Join
<1>2. CASE ~JoinRefused(s, c)
    <2> DEFINE ch == [channels[c] EXCEPT !.joiner = s]
    <2>1. channels[c] \in Channel /\ c \notin Expired
        BY <1>2 DEF JoinRefused, Exists, RelayInv, RelayTypeOK
    <2>2. Expired \in SUBSET Code /\ ch \in Channel
        BY <2>1 DEF Expired, Channel
    <2>3. ChannelsWithout(Expired)[c] = channels[c]
        BY <2>1 DEF ChannelsWithout
    <2>4. conn[s] = "new" /\ conn' = [conn EXCEPT ![s] = "open"]
        BY DEF Join, Asks
    <2>5. channels[c].joiner = NoSocket
        <3>1. s \notin MembersIn(channels, c)
            BY <2>4 DEF RelayInv, MembersOpen
        <3>2. QED
            BY <1>2, <3>1 DEF JoinRefused, MembersIn
    <2>6. ch.creator = channels[c].creator /\ ch.joiner = s
        BY <2>1 DEF Channel
    <2>7. {ch.creator, ch.joiner} \ {NoSocket}
              = MembersIn(ChannelsWithout(Expired), c) \cup {s}
        BY <2>3, <2>5, <2>6 DEF MembersIn
    <2>8. /\ channels' = [ChannelsWithout(Expired) EXCEPT ![c] = ch]
          /\ socketToChannel' = [Unmapped(Expired) EXCEPT ![s] = c]
          /\ boundCode' = [boundCode EXCEPT ![s] = c]
        <3>1. channels' = [ChannelsWithout(Expired) EXCEPT ![c].joiner = s]
            BY <1>2 DEF Join
        <3>2. channels' = [ChannelsWithout(Expired) EXCEPT ![c] = ch]
            BY <2>3, <3>1
        <3>3. QED
            BY <1>2, <3>2 DEF Join
    <2> HIDE DEF ch
    <2>9. QED
        BY <2>2, <2>4, <2>7, <2>8, EnterStep
<1>3. QED
    BY <1>1, <1>2

(* channel:leave: a member's bound code is its channel, which goes with it. *)
LEMMA LeaveKeeps ==
    ASSUME RelayInv, RelayTypeOK', NEW s \in Socket, Leave(s)
    PROVE  RelayInv'
<1> DEFINE gone == {c \in Code : c = boundCode[s] /\ Exists(c)}
<1>1. /\ channels' = ChannelsWithout(gone)
      /\ socketToChannel' = Unmapped(gone)
      /\ conn' = [conn EXCEPT ![s] = "left"]
      /\ boundCode' = [boundCode EXCEPT ![s] = NoCode]
    BY DEF Leave
<1>2. gone \in SUBSET Code
    OBVIOUS
<1>3. \A c \in Code : s \in MembersIn(channels, c) => c \in gone
    BY RelayAssumption DEF RelayInv, Agree, MembersIn, Exists, NoChannel
<1> HIDE DEF gone
<1>4. \A c \in Code : s \notin MembersIn(ChannelsWithout(gone), c)
    BY <1>2, <1>3, DestroyKeepsAgreement
<1>5. \A t \in Socket, c \in Code : t \in MembersIn(ChannelsWithout(gone), c) =>
          conn'[t] = conn[t] /\ boundCode'[t] = boundCode[t]
    BY <1>1, <1>4 DEF RelayInv, RelayTypeOK
<1>6. QED
    BY <1>1, <1>2, <1>5, DestroyStep

(* disconnect: socketToChannel finds a member's channel.                    *)
LEMMA DisconnectKeeps ==
    ASSUME RelayInv, RelayTypeOK', NEW s \in Socket, Disconnect(s)
    PROVE  RelayInv'
<1> DEFINE code == IF socketToChannel[s] # NoCode THEN socketToChannel[s]
                                                 ELSE boundCode[s]
           gone == {c \in Code : c = code /\ Exists(c)}
<1>1. /\ channels' = ChannelsWithout(gone)
      /\ socketToChannel' = [Unmapped(gone) EXCEPT ![s] = NoCode]
      /\ conn' = [conn EXCEPT ![s] = "closed"]
      /\ boundCode' = boundCode
    BY DEF Disconnect
<1>2. gone \in SUBSET Code
    OBVIOUS
<1>3. \A c \in Code : s \in MembersIn(channels, c) => c \in gone
    BY RelayAssumption DEF RelayInv, Agree, MembersIn, Exists, NoChannel
<1> HIDE DEF code, gone
<1>4. \A c \in Code : s \notin MembersIn(ChannelsWithout(gone), c)
    BY <1>2, <1>3, DestroyKeepsAgreement
<1>5. \A t \in Socket, c \in Code : t \in MembersIn(ChannelsWithout(gone), c) =>
          conn'[t] = conn[t] /\ boundCode'[t] = boundCode[t]
    BY <1>1, <1>4 DEF RelayInv, RelayTypeOK
<1>6. \A t \in Socket :
          \/ socketToChannel'[t] = Unmapped(gone)[t]
          \/ t = s /\ socketToChannel'[t] = NoCode
    BY <1>1, <1>2, DestroyTypes DEF RelayInv
<1>7. QED
    BY <1>1, <1>2, <1>4, <1>5, <1>6, DestroyStep

(* The invariant after any step.                                            *)
LEMMA RelayInvKept ==
    ASSUME RelayInv, [RelayNext]_relayVars
    PROVE  RelayInv'
<1>1. RelayTypeOK'
    BY RelayTypesKept DEF RelayInv
<1>2. CASE Sweep
    <2>1. Expired \in SUBSET Code
        BY DEF Expired
    <2>2. QED
        BY <1>1, <1>2, <2>1, DestroyStep DEF Sweep
<1>3. ASSUME NEW c \in Code, Grow(c) PROVE RelayInv'
    <2>1. \A d \in Code : MembersIn(channels', d) = MembersIn(channels, d)
        BY <1>3 DEF Grow, MembersIn, RelayInv, RelayTypeOK, Channel, NoChannel
    <2>2. UNCHANGED <<socketToChannel, boundCode, conn>>
        BY <1>3 DEF Grow
    <2>3. QED
        BY <1>1, <2>1, <2>2 DEF RelayInv, Agree, MembersOpen
<1>4. ASSUME NEW s \in Socket, NEW c \in Code, Create(s, c) \/ Join(s, c)
      PROVE  RelayInv'
    BY <1>1, <1>4, CreateKeeps, JoinKeeps
<1>5. ASSUME NEW s \in Socket, Leave(s) \/ Disconnect(s) PROVE RelayInv'
    BY <1>1, <1>5, LeaveKeeps, DisconnectKeeps
<1>6. ASSUME UNCHANGED <<channels, socketToChannel, boundCode, conn>>
      PROVE  RelayInv'
    BY <1>1, <1>6 DEF RelayInv, Agree, MembersOpen, MembersIn
<1>7. \A s \in Socket, c \in Code : Signal(s, c) => UNCHANGED <<channels, socketToChannel, boundCode, conn>>
    BY DEF Signal
<1>8. UNCHANGED relayVars => UNCHANGED <<channels, socketToChannel, boundCode, conn>>
    BY DEF relayVars
<1>9. QED
    BY <1>2, <1>3, <1>4, <1>5, <1>6, <1>7, <1>8 DEF RelayNext

(* Before the first connection the maps are empty.                          *)
LEMMA RelayInvInit == RelayInit => RelayInv
<1> SUFFICES ASSUME RelayInit PROVE RelayInv
    OBVIOUS
<1>1. RelayTypeOK
    BY DEF RelayInit, NoSignal, RelayTypeOK
<1>2. \A c \in Code : MembersIn(channels, c) = {}
    BY DEF RelayInit, MembersIn, NoChannel
<1>3. QED
    BY <1>1, <1>2, RelayAssumption DEF RelayInv, Agree, MembersOpen, RelayInit

-----------------------------------------------------------------------------
(* The relay's state keeps its types, for any sockets and codes.            *)
THEOREM TypeCorrect == RelaySpec => []RelayTypeOK
<1>1. RelayInit => RelayTypeOK
    BY DEF RelayInit, NoSignal, RelayTypeOK
<1>2. RelayTypeOK /\ [RelayNext]_relayVars => RelayTypeOK'
    BY RelayTypesKept
<1>3. QED
    BY <1>1, <1>2, PTL DEF RelaySpec

(* socketToChannel names a socket's channel exactly while it is a member,   *)
(* and every member is connected: disconnect tears down the right channel,  *)
(* also when codes repeat and channels expire under their members.          *)
THEOREM MapsAlwaysAgree == RelaySpec => []MapsAgree
<1>1. RelayInv => MapsAgree
    BY MembersAreIn DEF RelayInv, Agree, MembersOpen, MapsAgree
<1>2. RelayInv /\ [RelayNext]_relayVars => RelayInv'
    BY RelayInvKept
<1>3. QED
    BY <1>1, <1>2, RelayInvInit, PTL DEF RelaySpec

-----------------------------------------------------------------------------
(* What boundCode still means once a channel is gone.                       *)

(* Codes in use were created, their channels join two different sockets; a  *)
(* socket that asked in vain, or left, holds none; and while codes do not   *)
(* repeat, a connected socket whose code names a channel is a member of it. *)
BoundInv ==
    \A s \in Socket, c \in Code :
        /\ Exists(c) => c \in used /\ channels[c].creator # channels[c].joiner
        /\ boundCode[s] = c => c \in used
        /\ conn[s] \in {"new", "left"} => boundCode[s] = NoCode
        /\ FreshCodes /\ conn[s] = "open" /\ boundCode[s] = c /\ Exists(c)
              => s \in Members(c)

(* A member of a channel has it for its bound code and is connected.        *)
LEMMA MemberIsBound ==
    ASSUME RelayInv, NEW s \in Socket, NEW c \in Code, s \in Members(c)
    PROVE  /\ boundCode[s] = c /\ conn[s] = "open" /\ Exists(c)
           /\ \A d \in Code : s \in Members(d) => d = c
<1>1. s \in MembersIn(channels, c)
    BY MembersAreIn
<1>2. Exists(c)
    BY RelayAssumption DEF Members, Exists, NoChannel
<1>3. /\ boundCode[s] = c /\ conn[s] = "open"
      /\ \A d \in Code : s \in MembersIn(channels, d) => boundCode[s] = d
    BY <1>1 DEF RelayInv, Agree, MembersOpen
<1>4. QED
    BY <1>2, <1>3, MembersAreIn

(* What is left of each channel when the channels of C are destroyed.       *)
LEMMA AfterDestroy ==
    ASSUME NEW C \in SUBSET Code, channels' = ChannelsWithout(C), NEW c \in Code
    PROVE  /\ c \in C => ~Exists(c)' /\ Members(c)' = {}
           /\ c \notin C => /\ channels'[c] = channels[c]
                            /\ (Exists(c)' <=> Exists(c)) /\ Members(c)' = Members(c)
BY RelayAssumption DEF ChannelsWithout, Exists, Members, NoChannel

(* What becomes of each channel when C is destroyed and c is put in place.  *)
LEMMA AfterPut ==
    ASSUME RelayTypeOK, NEW C \in SUBSET Code, NEW c \in Code, NEW ch \in Channel,
           channels' = [ChannelsWithout(C) EXCEPT ![c] = ch], NEW d \in Code
    PROVE  /\ d = c => /\ Exists(d)' /\ channels'[d] = ch
                       /\ Members(d)' = {ch.creator, ch.joiner} \ {NoSocket}
           /\ d # c /\ d \in C => ~Exists(d)' /\ Members(d)' = {}
           /\ d # c /\ d \notin C => /\ channels'[d] = channels[d]
                                     /\ (Exists(d)' <=> Exists(d)) /\ Members(d)' = Members(d)
<1>1. ch # NoChannel /\ \A e \in Code : ChannelsWithout(C)[e] = IF e \in C THEN NoChannel ELSE channels[e]
    BY RelayAssumption DEF Channel, NoChannel, ChannelsWithout
<1>2. channels'[d] = IF d = c THEN ch ELSE IF d \in C THEN NoChannel ELSE channels[d]
    BY <1>1 DEF ChannelsWithout
<1>3. QED
    BY <1>1, <1>2, RelayAssumption DEF Exists, Members, NoChannel

(* The three ways a step touches the channels: some end, and perhaps one    *)
(* begins or gets its second member.                                        *)
Ends(C) == channels' = ChannelsWithout(C) /\ UNCHANGED <<used, woken>>
Begins(s, c) ==
    /\ Asks(s) /\ (FreshCodes => c \notin used)
    /\ ~(Exists(c) /\ c \notin Expired)
    /\ channels' = [ChannelsWithout(Expired) EXCEPT
                      ![c] = [creator |-> s, joiner |-> NoSocket, old |-> FALSE]]
    /\ boundCode' = [boundCode EXCEPT ![s] = c]
    /\ used' = used \cup {c}
Pairs(s, c) ==
    /\ Asks(s) /\ Exists(c) /\ c \notin Expired
    /\ channels[c].joiner = NoSocket /\ channels[c].creator # s
    /\ channels' = [ChannelsWithout(Expired) EXCEPT ![c] = [channels[c] EXCEPT !.joiner = s]]
    /\ boundCode' = [boundCode EXCEPT ![s] = c]
    /\ UNCHANGED used

(* A create puts up a channel of its own, or only clears the old ones away. *)
LEMMA CreateCases ==
    ASSUME RelayInv, NEW s \in Socket, NEW c \in Code, Create(s, c)
    PROVE  /\ Begins(s, c) \/ (Ends(Expired) /\ Asks(s) /\ UNCHANGED boundCode)
           /\ Notify(Expired)
BY DEF Create, Refuse, Begins, Ends

(* A join takes a free second place, or only clears the old ones away: a    *)
(* socket that has not asked yet is no member, so no second place is its.   *)
LEMMA JoinCases ==
    ASSUME RelayInv, NEW s \in Socket, NEW c \in Code, Join(s, c)
    PROVE  /\ Pairs(s, c) \/ (Ends(Expired) /\ Asks(s) /\ UNCHANGED boundCode)
           /\ Notify(Expired)
<1>1. CASE JoinRefused(s, c)
    BY <1>1 DEF Join, Refuse, Ends
<1>2. CASE ~JoinRefused(s, c)
    <2>1. /\ Exists(c) /\ c \notin Expired /\ channels[c].creator # s
          /\ channels[c].joiner \in {NoSocket, s}
        BY <1>2 DEF JoinRefused
    <2>2. channels[c].joiner # s
        <3>1. conn[s] = "new"
            BY DEF Join, Asks
        <3>2. s \notin Members(c)
            BY <3>1, MemberIsBound
        <3>3. QED
            BY <3>2, RelayAssumption DEF Members
    <2>3. ChannelsWithout(Expired)[c] = channels[c]
        BY <2>1 DEF ChannelsWithout
    <2>4. channels' = [ChannelsWithout(Expired) EXCEPT ![c] = [channels[c] EXCEPT !.joiner = s]]
        <3>1. channels' = [ChannelsWithout(Expired) EXCEPT ![c].joiner = s]
            BY <1>2 DEF Join
        <3>2. QED
            BY <2>3, <3>1
    <2>5. QED
        BY <1>2, <2>1, <2>2, <2>4 DEF Join, Pairs
<1>3. QED
    BY <1>1, <1>2

(* Leaving and disconnecting end the one channel the code names, and while  *)
(* codes do not repeat that is the leaver's own.                            *)
Named(s, c) == c = boundCode[s] \/ c = socketToChannel[s]

(* So the channel that a leaving or closing socket ends is its own.         *)
LEMMA GoneIsOwn ==
    ASSUME RelayInv, BoundInv, FreshCodes, NEW s \in Socket, Live(s),
           NEW c \in Code, Named(s, c), Exists(c)
    PROVE  s \in Members(c)
<1>1. c = socketToChannel[s] => s \in Members(c)
    BY MembersAreIn DEF RelayInv, Agree
<1>2. c = boundCode[s] => conn[s] = "open"
    BY RelayAssumption DEF BoundInv, Live
<1>3. QED
    BY <1>1, <1>2 DEF BoundInv, Named

(* What leave and disconnect do, for the channels of one set.               *)
LEMMA LeaveCases ==
    ASSUME RelayInv, NEW s \in Socket, Leave(s) \/ Disconnect(s)
    PROVE  \E C \in SUBSET Code :
              /\ Ends(C)
              /\ \A c \in C : Named(s, c) /\ Exists(c)
              /\ \A t \in Socket : Live(t) /\ t # s /\ t \in MembersOf(C) => t \in told'
              /\ told \subseteq told'
              /\ Live(s) /\ conn'[s] \in {"left", "closed"}
              /\ \A t \in Socket : t # s => conn'[t] = conn[t] /\ boundCode'[t] = boundCode[t]
              /\ boundCode'[s] \in {boundCode[s], NoCode}
              /\ conn'[s] = "left" => boundCode'[s] = NoCode
<1>1. ASSUME Leave(s)
      PROVE  \E C \in SUBSET Code :
              /\ Ends(C)
              /\ \A c \in C : Named(s, c) /\ Exists(c)
              /\ \A t \in Socket : Live(t) /\ t # s /\ t \in MembersOf(C) => t \in told'
              /\ told \subseteq told'
              /\ Live(s) /\ conn'[s] \in {"left", "closed"}
              /\ \A t \in Socket : t # s => conn'[t] = conn[t] /\ boundCode'[t] = boundCode[t]
              /\ boundCode'[s] \in {boundCode[s], NoCode}
              /\ conn'[s] = "left" => boundCode'[s] = NoCode
    <2> DEFINE gone == {c \in Code : c = boundCode[s] /\ Exists(c)}
    <2>1. /\ channels' = ChannelsWithout(gone) /\ Notify(gone)
          /\ UNCHANGED <<woken, used>> /\ conn[s] = "open"
          /\ conn' = [conn EXCEPT ![s] = "left"]
          /\ boundCode' = [boundCode EXCEPT ![s] = NoCode]
        BY <1>1 DEF Leave
    <2>2. (\A c \in gone : Named(s, c) /\ Exists(c)) /\ gone \in SUBSET Code
        BY DEF Named
    <2> HIDE DEF gone
    <2>3. QED
        BY <2>1, <2>2 DEF Ends, Notify, Live, RelayInv, RelayTypeOK
<1>2. ASSUME Disconnect(s)
      PROVE  \E C \in SUBSET Code :
              /\ Ends(C)
              /\ \A c \in C : Named(s, c) /\ Exists(c)
              /\ \A t \in Socket : Live(t) /\ t # s /\ t \in MembersOf(C) => t \in told'
              /\ told \subseteq told'
              /\ Live(s) /\ conn'[s] \in {"left", "closed"}
              /\ \A t \in Socket : t # s => conn'[t] = conn[t] /\ boundCode'[t] = boundCode[t]
              /\ boundCode'[s] \in {boundCode[s], NoCode}
              /\ conn'[s] = "left" => boundCode'[s] = NoCode
    <2> DEFINE code == IF socketToChannel[s] # NoCode THEN socketToChannel[s]
                                                     ELSE boundCode[s]
               gone == {c \in Code : c = code /\ Exists(c)}
    <2>1. /\ channels' = ChannelsWithout(gone)
          /\ told' = told \cup {t \in MembersOf(gone) \ {s} : Live(t)}
          /\ UNCHANGED <<boundCode, woken, used>> /\ Live(s)
          /\ conn' = [conn EXCEPT ![s] = "closed"]
        BY <1>2 DEF Disconnect
    <2>2. (\A c \in gone : Named(s, c) /\ Exists(c)) /\ gone \in SUBSET Code
        BY DEF Named
    <2> HIDE DEF code, gone
    <2>3. QED
        BY <2>1, <2>2 DEF Ends, RelayInv, RelayTypeOK
<1>3. QED
    BY <1>1, <1>2

(* Ending channels keeps what is said of codes.                             *)
LEMMA EndsKeepsBound ==
    ASSUME RelayInv, BoundInv, NEW C \in SUBSET Code, Ends(C),
           \A s \in Socket :
              /\ boundCode'[s] \in {boundCode[s], NoCode}
              /\ conn'[s] \in {"new", "left"} => conn'[s] = conn[s] \/ boundCode'[s] = NoCode
              /\ conn'[s] = "open" => conn[s] = "open" \/ boundCode'[s] = NoCode
    PROVE  BoundInv'
<1> SUFFICES ASSUME NEW s \in Socket, NEW c \in Code
             PROVE  /\ Exists(c)' => c \in used' /\ channels'[c].creator # channels'[c].joiner
                    /\ boundCode'[s] = c => c \in used'
                    /\ conn'[s] \in {"new", "left"} => boundCode'[s] = NoCode
                    /\ FreshCodes /\ conn'[s] = "open" /\ boundCode'[s] = c /\ Exists(c)'
                          => s \in Members(c)'
    BY DEF BoundInv
<1>1. used' = used /\ (Exists(c)' => Exists(c) /\ Members(c)' = Members(c)
                                      /\ channels'[c] = channels[c])
    BY AfterDestroy DEF Ends
<1>2. NoCode # c
    BY RelayAssumption
<1>3. /\ Exists(c) => c \in used /\ channels[c].creator # channels[c].joiner
      /\ boundCode[s] = c => c \in used
      /\ conn[s] \in {"new", "left"} => boundCode[s] = NoCode
      /\ FreshCodes /\ conn[s] = "open" /\ boundCode[s] = c /\ Exists(c) => s \in Members(c)
    BY DEF BoundInv
<1>4. QED
    BY <1>1, <1>2, <1>3

(* So does a new channel, whose code nobody holds yet, and a second member. *)
LEMMA EntryKeepsBound ==
    ASSUME RelayInv, BoundInv, NEW s \in Socket, NEW c \in Code, Begins(s, c) \/ Pairs(s, c)
    PROVE  BoundInv'
<1> DEFINE ch == IF Begins(s, c) THEN [creator |-> s, joiner |-> NoSocket, old |-> FALSE]
                                 ELSE [channels[c] EXCEPT !.joiner = s]
<1>1. /\ channels \in [Code -> Channel \cup {NoChannel}]
      /\ conn \in [Socket -> {"new", "open", "left", "closed"}]
      /\ boundCode \in [Socket -> Code \cup {NoCode}] /\ Expired \in SUBSET Code
    BY DEF RelayInv, RelayTypeOK, Expired
<1>2. /\ conn' = [conn EXCEPT ![s] = "open"] /\ boundCode' = [boundCode EXCEPT ![s] = c]
      /\ used' = used \cup {c}
    <2>1. Pairs(s, c) => used \cup {c} = used
        BY DEF Pairs, BoundInv
    <2>2. QED
        BY <2>1 DEF Begins, Pairs, Asks
<1>3. ch \in Channel
    <2>1. Exists(c) => channels[c] \in Channel
        BY <1>1 DEF Exists
    <2>2. QED
        BY <2>1 DEF Channel, Pairs
<1>4. channels' = [ChannelsWithout(Expired) EXCEPT ![c] = ch]
    BY DEF Begins, Pairs
<1>5. /\ s \in {ch.creator, ch.joiner} \ {NoSocket} /\ ch.creator # ch.joiner
      /\ ~Begins(s, c) => Members(c) \subseteq {ch.creator, ch.joiner} \ {NoSocket}
    <2>1. CASE Begins(s, c)
        BY <2>1, RelayAssumption
    <2>2. CASE ~Begins(s, c)
        <3>1. /\ channels[c] \in Channel /\ channels[c].joiner = NoSocket
              /\ channels[c].creator # s
            BY <1>1, <2>2 DEF Pairs, Exists
        <3>2. ch.creator = channels[c].creator /\ ch.joiner = s
            BY <2>2, <3>1 DEF Channel
        <3>3. QED
            BY <2>2, <3>1, <3>2, RelayAssumption DEF Members
    <2>3. QED
        BY <2>1, <2>2
<1>6. SUFFICES ASSUME NEW t \in Socket, NEW d \in Code
             PROVE  /\ Exists(d)' => d \in used' /\ channels'[d].creator # channels'[d].joiner
                    /\ boundCode'[t] = d => d \in used'
                    /\ conn'[t] \in {"new", "left"} => boundCode'[t] = NoCode
                    /\ FreshCodes /\ conn'[t] = "open" /\ boundCode'[t] = d /\ Exists(d)'
                          => t \in Members(d)'
    BY DEF BoundInv
<1>7. /\ Exists(d) => d \in used /\ channels[d].creator # channels[d].joiner
      /\ boundCode[t] = d => d \in used
      /\ conn[t] \in {"new", "left"} => boundCode[t] = NoCode
      /\ FreshCodes /\ conn[t] = "open" /\ boundCode[t] = d /\ Exists(d) => t \in Members(d)
    BY DEF BoundInv
<1> HIDE DEF ch
<1>8. /\ d = c => channels'[d] = ch /\ Members(d)' = {ch.creator, ch.joiner} \ {NoSocket}
      /\ d # c /\ Exists(d)' => /\ Exists(d) /\ Members(d)' = Members(d)
                                /\ channels'[d] = channels[d]
    <2>1. RelayTypeOK
        BY DEF RelayInv
    <2>2. /\ d = c => /\ Exists(d)' /\ channels'[d] = ch
                      /\ Members(d)' = {ch.creator, ch.joiner} \ {NoSocket}
          /\ d # c /\ d \in Expired => ~Exists(d)' /\ Members(d)' = {}
          /\ d # c /\ d \notin Expired => /\ channels'[d] = channels[d]
                                          /\ (Exists(d)' <=> Exists(d)) /\ Members(d)' = Members(d)
        BY <1>1, <1>3, <1>4, <2>1, AfterPut
    <2>3. QED
        BY <2>2
<1>9. CASE t = s
    BY <1>1, <1>2, <1>5, <1>7, <1>8, <1>9
<1>10. CASE t # s /\ d # c
    BY <1>1, <1>2, <1>7, <1>8, <1>10
<1>11. CASE t # s /\ d = c
    <2>1. boundCode'[t] = boundCode[t] /\ conn'[t] = conn[t] /\ d \in used'
        BY <1>1, <1>2, <1>11
    <2>2. CASE Begins(s, c)
        BY <1>5, <1>7, <1>8, <1>11, <2>1, <2>2 DEF Begins
    <2>3. CASE ~Begins(s, c)
        BY <1>5, <1>7, <1>8, <1>11, <2>1, <2>3 DEF Pairs
    <2>4. QED
        BY <2>2, <2>3
<1>12. QED
    BY <1>9, <1>10, <1>11

(* The meaning of boundCode is kept by every handler.                       *)
LEMMA BoundInvKept ==
    ASSUME RelayInv, BoundInv, [RelayNext]_relayVars
    PROVE  BoundInv'
<1>1. Expired \in SUBSET Code /\ RelayInv'
    BY RelayInvKept DEF Expired
<1>2. CASE Sweep
    BY <1>1, <1>2, EndsKeepsBound DEF Sweep, Ends
<1>3. ASSUME NEW c \in Code, Grow(c) PROVE BoundInv'
    <2>1. \A d \in Code : /\ Members(d)' = Members(d) /\ Exists(d)' = Exists(d)
                           /\ channels'[d].creator = channels[d].creator
                           /\ channels'[d].joiner = channels[d].joiner
        BY <1>3, RelayAssumption DEF Grow, Members, Exists, RelayInv, RelayTypeOK, Channel, NoChannel
    <2>2. UNCHANGED <<boundCode, conn, used>>
        BY <1>3 DEF Grow
    <2>3. QED
        BY <2>1, <2>2 DEF BoundInv
<1>4. ASSUME NEW s \in Socket, NEW c \in Code, Create(s, c) \/ Join(s, c) PROVE BoundInv'
    <2>1. CASE Begins(s, c) \/ Pairs(s, c)
        BY <2>1, EntryKeepsBound
    <2>2. CASE Ends(Expired) /\ Asks(s) /\ UNCHANGED boundCode
        <3>1. \A t \in Socket : conn'[t] = "open" => conn[t] = "open" \/ boundCode[t] = NoCode
            <4>1. boundCode[s] = NoCode
                BY <2>2, RelayAssumption DEF BoundInv, Asks, RelayInv, RelayTypeOK
            <4>2. QED
                BY <2>2, <4>1 DEF Asks, RelayInv, RelayTypeOK
        <3>2. QED
            BY <1>1, <2>2, <3>1, EndsKeepsBound DEF Asks, RelayInv, RelayTypeOK
    <2>3. QED
        BY <1>4, <2>1, <2>2, CreateCases, JoinCases
<1>5. ASSUME NEW s \in Socket, Leave(s) \/ Disconnect(s) PROVE BoundInv'
    <2>1. PICK C \in SUBSET Code :
              /\ Ends(C) /\ conn'[s] \in {"left", "closed"}
              /\ \A t \in Socket : t # s => conn'[t] = conn[t] /\ boundCode'[t] = boundCode[t]
              /\ boundCode'[s] \in {boundCode[s], NoCode}
              /\ conn'[s] = "left" => boundCode'[s] = NoCode
        BY <1>5, LeaveCases
    <2>2. QED
        BY <2>1, EndsKeepsBound
<1>6. ASSUME UNCHANGED <<channels, boundCode, conn, used>> PROVE BoundInv'
    BY <1>6 DEF BoundInv, Exists, Members
<1>7. \A s \in Socket, c \in Code : Signal(s, c) => UNCHANGED <<channels, boundCode, conn, used>>
    BY DEF Signal
<1>8. QED
    BY <1>2, <1>3, <1>4, <1>5, <1>6, <1>7 DEF RelayNext, relayVars

(* Nothing is in use at first.                                              *)
LEMMA BoundInvInit == RelayInit => BoundInv
BY RelayAssumption DEF RelayInit, BoundInv, Exists

(* The relay's whole invariant.                                             *)
LEMMA InvariantHolds == RelaySpec => [](RelayInv /\ BoundInv)
<1>1. RelayInv /\ BoundInv /\ [RelayNext]_relayVars => RelayInv' /\ BoundInv'
    BY RelayInvKept, BoundInvKept
<1>2. QED
    BY <1>1, RelayInvInit, BoundInvInit, PTL DEF RelaySpec

(* Whoever has a second member was told so.                                 *)
Woken == \A c \in Code : channels[c].joiner # NoSocket => channels[c].creator \in woken

LEMMA WokenKept ==
    ASSUME RelayTypeOK, Woken, [RelayNext]_relayVars
    PROVE  Woken'
<1>1. /\ channels \in [Code -> Channel \cup {NoChannel}]
      /\ \A C \in SUBSET Code : \A d \in Code :
            ChannelsWithout(C)[d] \in {channels[d], NoChannel}
    BY DEF RelayTypeOK, ChannelsWithout
<1>2. ASSUME NEW C \in SUBSET Code, channels' = ChannelsWithout(C), UNCHANGED woken
      PROVE  Woken'
    BY <1>1, <1>2 DEF Woken, NoChannel
<1>3. Expired \in SUBSET Code
    BY DEF Expired
<1>4. ASSUME NEW c \in Code, Grow(c) PROVE Woken'
    <2>1. \A d \in Code : /\ channels'[d].joiner = channels[d].joiner
                           /\ channels'[d].creator = channels[d].creator
        BY <1>1, <1>4 DEF Grow, Exists, Channel, NoChannel
    <2>2. QED
        BY <1>4, <2>1 DEF Grow, Woken
<1>5. ASSUME NEW s \in Socket, NEW c \in Code, Create(s, c) PROVE Woken'
    <2>1. CASE Exists(c) /\ c \notin Expired
        BY <1>2, <1>3, <1>5, <2>1 DEF Create, Refuse
    <2>2. CASE ~(Exists(c) /\ c \notin Expired)
        <3>1. channels' = [ChannelsWithout(Expired) EXCEPT
                              ![c] = [creator |-> s, joiner |-> NoSocket, old |-> FALSE]]
              /\ UNCHANGED woken
            BY <1>5, <2>2 DEF Create
        <3>2. \A d \in Code : channels'[d].joiner # NoSocket =>
                                channels'[d] = channels[d]
            BY <1>1, <1>3, <3>1 DEF ChannelsWithout, NoChannel
        <3>3. QED
            BY <3>1, <3>2 DEF Woken
    <2>3. QED
        BY <2>1, <2>2
<1>6. ASSUME NEW s \in Socket, NEW c \in Code, Join(s, c) PROVE Woken'
    <2>1. CASE JoinRefused(s, c)
        BY <1>2, <1>3, <1>6, <2>1 DEF Join, Refuse
    <2>2. CASE ~JoinRefused(s, c)
        <3>1. /\ channels' = [ChannelsWithout(Expired) EXCEPT ![c].joiner = s]
              /\ woken' = woken \cup {channels[c].creator}
              /\ Exists(c) /\ c \notin Expired
            BY <1>6, <2>2 DEF Join, JoinRefused
        <3>2. ChannelsWithout(Expired)[c] = channels[c] /\ channels[c] \in Channel
            BY <1>1, <3>1 DEF ChannelsWithout, Exists
        <3>3. channels'[c].creator = channels[c].creator
            BY <3>1, <3>2 DEF Channel, ChannelsWithout
        <3>4. \A d \in Code : d # c => channels'[d] \in {channels[d], NoChannel}
            BY <1>1, <1>3, <3>1 DEF ChannelsWithout
        <3>5. QED
            BY <3>1, <3>3, <3>4 DEF Woken, NoChannel
    <2>3. QED
        BY <2>1, <2>2
<1>7. ASSUME NEW s \in Socket, Leave(s) PROVE Woken'
    <2>1. {c \in Code : c = boundCode[s] /\ Exists(c)} \in SUBSET Code
        OBVIOUS
    <2>2. QED
        BY <1>2, <1>7, <2>1 DEF Leave
<1>8. ASSUME NEW s \in Socket, Disconnect(s) PROVE Woken'
    <2> DEFINE code == IF socketToChannel[s] # NoCode THEN socketToChannel[s]
                                                     ELSE boundCode[s]
    <2>1. {c \in Code : c = code /\ Exists(c)} \in SUBSET Code
        OBVIOUS
    <2>2. channels' = ChannelsWithout({c \in Code : c = code /\ Exists(c)}) /\ UNCHANGED woken
        BY <1>8 DEF Disconnect
    <2>3. QED
        BY <1>2, <2>1, <2>2
<1>9. CASE Sweep
    BY <1>2, <1>3, <1>9 DEF Sweep
<1>10. ASSUME UNCHANGED <<channels, woken>> PROVE Woken'
    BY <1>10 DEF Woken
<1>11. (\E s \in Socket, c \in Code : Signal(s, c)) \/ UNCHANGED relayVars
          => UNCHANGED <<channels, woken>>
    BY DEF Signal, relayVars
<1>12. QED
    BY <1>4, <1>5, <1>6, <1>7, <1>8, <1>9, <1>10, <1>11 DEF RelayNext

(* A signal reaches only open members of a live channel; a joiner hears     *)
(* nobody but the creator that was woken for it, no creator hears itself -  *)
(* for any sockets, for codes that repeat as well, and whoever signals.     *)
THEOREM SignalsNeverLeak == RelaySpec => SignalsStayInChannel
<1> DEFINE Right == LET s == relayed'.from
                        t == relayed'.to
                    IN  relayed' # NoSignal =>
                          /\ conn[t] = "open"
                          /\ \E c \in Code :
                               \/ t = channels[c].joiner /\ s = channels[c].creator /\ s \in woken
                               \/ t = channels[c].creator /\ s # t
<1>1. RelayInv /\ Woken /\ [RelayNext]_relayVars => [Right]_relayVars
    <2> SUFFICES ASSUME RelayInv, Woken, RelayNext, relayed' # NoSignal PROVE Right
        OBVIOUS
    <2>1. PICK s \in Socket, c \in Code : Signal(s, c)
        <3>1. \A x \in Socket, d \in Code : Create(x, d) \/ Join(x, d) => relayed' = NoSignal
            BY DEF Create, Join, Silent
        <3>2. QED
            BY <3>1 DEF RelayNext, Sweep, Grow, Leave, Disconnect, Silent
    <2> DEFINE ch == channels[c]
               t == Target(s, ch)
    <2>2. relayed' = [from |-> s, to |-> t] /\ t # NoSocket
        BY <2>1 DEF Signal
    <2>3. ch \in Channel
        BY <2>1 DEF Signal, Exists, RelayInv, RelayTypeOK
    <2>4. t \in Socket /\ t \in Members(c)
        BY <2>2, <2>3 DEF Target, Members, Channel
    <2>5. conn[t] = "open"
        BY <2>4, MembersAreIn DEF RelayInv, MembersOpen
    <2>6. CASE ch.creator = s
        BY <2>2, <2>5, <2>6 DEF Target, Woken
    <2>7. CASE ch.creator # s
        BY <2>2, <2>5, <2>7 DEF Target
    <2>8. QED
        BY <2>6, <2>7
<1>2. RelayInit => Woken
    BY DEF RelayInit, Woken, NoChannel
<1>3. RelayInv /\ Woken /\ [RelayNext]_relayVars => Woken'
    BY WokenKept DEF RelayInv
<1>4. QED
    BY <1>1, <1>2, <1>3, RelayInvInit, RelayInvKept, PTL DEF RelaySpec, SignalsStayInChannel

(* A channel ends because it is too old or because one of its own members   *)
(* left or disconnected, as long as codes do not repeat.                    *)
THEOREM OnlyMembersEnd == ASSUME FreshCodes PROVE RelaySpec => OnlyMembersEndChannel
<1>1. /\ RelayInv /\ BoundInv /\ [RelayNext]_relayVars
      => [\A c \in Code : Exists(c) /\ ~Exists(c)' =>
             channels[c].old \/ \E s \in Members(c) : conn'[s] # conn[s]]_relayVars
    <2> SUFFICES ASSUME RelayInv, BoundInv, RelayNext, NEW c \in Code, Exists(c), ~Exists(c)'
                 PROVE  channels[c].old \/ \E s \in Members(c) : conn'[s] # conn[s]
        OBVIOUS
    <2>1. Expired \in SUBSET Code /\ (c \in Expired => channels[c].old)
        BY DEF Expired
    <2>2. CASE Ends(Expired)
        BY <2>1, <2>2, AfterDestroy DEF Ends
    <2>3. ASSUME NEW s \in Socket, NEW d \in Code, Begins(s, d) \/ Pairs(s, d)
          PROVE  channels[c].old
        <3> DEFINE ch == IF Begins(s, d) THEN [creator |-> s, joiner |-> NoSocket, old |-> FALSE]
                                         ELSE [channels[d] EXCEPT !.joiner = s]
        <3>1. ch \in Channel
            <4>1. Exists(d) => channels[d] \in Channel
                BY DEF Exists, RelayInv, RelayTypeOK
            <4>2. QED
                BY <2>3, <4>1 DEF Channel, Pairs
        <3>2. channels' = [ChannelsWithout(Expired) EXCEPT ![d] = ch]
            BY <2>3 DEF Begins, Pairs
        <3> HIDE DEF ch
        <3>3. c \in Expired
            BY <2>1, <3>1, <3>2, AfterPut DEF RelayInv
        <3>4. QED
            BY <2>1, <3>3
    <2>4. ASSUME NEW s \in Socket, Leave(s) \/ Disconnect(s)
          PROVE  s \in Members(c) /\ conn'[s] # conn[s]
        <3>1. PICK C \in SUBSET Code :
                  /\ Ends(C) /\ \A d \in C : Named(s, d) /\ Exists(d)
                  /\ Live(s) /\ conn'[s] \in {"left", "closed"}
            BY <2>4, LeaveCases
        <3>2. c \in C
            BY <3>1, AfterDestroy DEF Ends
        <3>3. s \in Members(c)
            BY <3>1, <3>2, GoneIsOwn
        <3>4. conn[s] = "open"
            BY <3>3, MemberIsBound
        <3>5. QED
            BY <3>1, <3>3, <3>4
    <2>5. ASSUME NEW d \in Code, Grow(d) PROVE FALSE
        BY <2>5, RelayAssumption DEF Grow, Exists, RelayInv, RelayTypeOK, Channel, NoChannel
    <2>6. ASSUME NEW s \in Socket, NEW e \in Code, Signal(s, e) PROVE FALSE
        BY <2>6 DEF Signal, Exists
    <2>7. Sweep => Ends(Expired)
        BY DEF Sweep, Ends
    <2>8. QED
        BY <2>2, <2>3, <2>4, <2>5, <2>6, <2>7, CreateCases, JoinCases DEF RelayNext
<1>2. QED
    BY <1>1, InvariantHolds, PTL DEF RelaySpec, OnlyMembersEndChannel

-----------------------------------------------------------------------------
(* Nobody keeps waiting under a dead code unawares.                         *)

(* Socket s need not be told anything: it is in its channel, or not bound.  *)
Informed(s) ==
    conn[s] = "open" /\ boundCode[s] # NoCode /\ s \notin Members(boundCode[s]) => s \in told

(* The inductive form of EndIsAnnounced.                                   *)
AllInformed == \A s \in Socket : Informed(s)

(* A step after which a bound socket that was a member still is one, or was *)
(* told, leaves it informed.                                                *)
LEMMA InformedKept ==
    ASSUME RelayInv, NEW s \in Socket, Informed(s), told \subseteq told',
           boundCode'[s] = boundCode[s],
           conn'[s] = "open" => conn[s] = "open" \/ boundCode[s] = NoCode,
           boundCode[s] \in Code /\ s \in Members(boundCode[s]) =>
              \/ s \in Members(boundCode[s])' \/ s \in told' \/ conn'[s] # "open"
    PROVE  Informed(s)'
<1>1. boundCode[s] \in Code \cup {NoCode}
    BY DEF RelayInv, RelayTypeOK
<1>2. CASE boundCode[s] = NoCode
    BY <1>2 DEF Informed
<1>3. CASE boundCode[s] \in Code
    BY <1>3 DEF Informed, Members
<1>4. QED
    BY <1>1, <1>2, <1>3

(* The members of an ended channel that are still connected were told.      *)
LEMMA EndsInforms ==
    ASSUME RelayInv, NEW s \in Socket, NEW C \in SUBSET Code, channels' = ChannelsWithout(C),
           NEW c \in Code, s \in Members(c), s \in MembersOf(C) => s \in told'
    PROVE  s \in Members(c)' \/ s \in told'
BY AfterDestroy DEF MembersOf

(* A client that was let into a channel is told when it ends, unless it     *)
(* left itself - whether the channel expired under it, its peer left, or a  *)
(* new channel took over the code.                                          *)
THEOREM EndAlwaysAnnounced == RelaySpec => []EndIsAnnounced
<1>1. AllInformed => EndIsAnnounced
    BY DEF EndIsAnnounced, AllInformed, Informed
<1>2. RelayInit => AllInformed
    BY DEF RelayInit, AllInformed, Informed
<1>3. RelayInv /\ BoundInv /\ AllInformed /\ [RelayNext]_relayVars => AllInformed'
    <2> SUFFICES ASSUME RelayInv, BoundInv, \A s \in Socket : Informed(s), [RelayNext]_relayVars,
                        NEW s \in Socket
                 PROVE  Informed(s)'
        BY DEF AllInformed
    <2>1. /\ Expired \in SUBSET Code /\ RelayTypeOK /\ told \subseteq Socket
          /\ conn \in [Socket -> {"new", "open", "left", "closed"}]
          /\ boundCode \in [Socket -> Code \cup {NoCode}]
        BY DEF Expired, RelayInv, RelayTypeOK
    <2>2. \A C \in SUBSET Code, c \in Code :
             Notify(C) /\ s \in Members(c) /\ s \in MembersOf(C) => s \in told'
        BY MemberIsBound DEF Notify, Live
    <2>3. CASE Sweep
        <3>1. channels' = ChannelsWithout(Expired) /\ Notify(Expired)
              /\ UNCHANGED <<boundCode, conn>>
            BY <2>3 DEF Sweep
        <3>2. told \subseteq told'
            BY <3>1 DEF Notify
        <3>3. \A c \in Code : s \in Members(c) => s \in Members(c)' \/ s \in told'
            BY <2>1, <2>2, <3>1, EndsInforms
        <3>4. QED
            BY <3>1, <3>2, <3>3, InformedKept DEF Members
    <2>4. ASSUME NEW x \in Socket, NEW d \in Code, Create(x, d) \/ Join(x, d)
          PROVE  Informed(s)'
        <3>1. /\ \/ Begins(x, d) \/ Pairs(x, d)
                 \/ Ends(Expired) /\ Asks(x) /\ UNCHANGED boundCode
              /\ Notify(Expired)
            BY <2>4, CreateCases, JoinCases
        <3>2. told \subseteq told' /\ conn[x] = "new" /\ conn' = [conn EXCEPT ![x] = "open"]
              /\ boundCode[x] = NoCode
            BY <3>1 DEF Notify, Begins, Pairs, Asks, BoundInv
        <3>3. CASE Ends(Expired) /\ UNCHANGED boundCode
            <4>1. \A c \in Code : s \in Members(c) => s \in Members(c)' \/ s \in told'
                BY <2>1, <2>2, <3>1, <3>3, EndsInforms DEF Ends
            <4>2. QED
                BY <2>1, <3>2, <3>3, <4>1, InformedKept DEF Members
        <3>4. CASE Begins(x, d) \/ Pairs(x, d)
            <4> DEFINE ch == IF Begins(x, d)
                               THEN [creator |-> x, joiner |-> NoSocket, old |-> FALSE]
                               ELSE [channels[d] EXCEPT !.joiner = x]
            <4>1. ch \in Channel /\ x \in {ch.creator, ch.joiner} \ {NoSocket}
                  /\ (~Begins(x, d) => Members(d) \subseteq {ch.creator, ch.joiner} \ {NoSocket})
                <5>1. CASE Begins(x, d)
                    BY <5>1, RelayAssumption DEF Channel
                <5>2. CASE ~Begins(x, d)
                    <6>1. channels[d] \in Channel /\ channels[d].joiner = NoSocket
                        BY <2>1, <3>4, <5>2 DEF Pairs, Exists, RelayTypeOK
                    <6>2. QED
                        BY <5>2, <6>1, RelayAssumption DEF Channel, Members
                <5>3. QED
                    BY <5>1, <5>2
            <4>2. /\ channels' = [ChannelsWithout(Expired) EXCEPT ![d] = ch]
                  /\ boundCode' = [boundCode EXCEPT ![x] = d]
                BY <3>4 DEF Begins, Pairs
            <4>3. Begins(x, d) => ~(Exists(d) /\ d \notin Expired)
                BY DEF Begins
            <4> HIDE DEF ch
            <4>4. \A c \in Code :
                     /\ c = d => Members(c)' = {ch.creator, ch.joiner} \ {NoSocket}
                     /\ c # d /\ c \notin Expired => Members(c)' = Members(c)
                <5> SUFFICES ASSUME NEW c \in Code
                             PROVE  /\ c = d => Members(c)' = {ch.creator, ch.joiner} \ {NoSocket}
                                    /\ c # d /\ c \notin Expired => Members(c)' = Members(c)
                    OBVIOUS
                <5>1. /\ c = d => /\ Exists(c)' /\ channels'[c] = ch
                                  /\ Members(c)' = {ch.creator, ch.joiner} \ {NoSocket}
                      /\ c # d /\ c \in Expired => ~Exists(c)' /\ Members(c)' = {}
                      /\ c # d /\ c \notin Expired =>
                            /\ channels'[c] = channels[c]
                            /\ (Exists(c)' <=> Exists(c)) /\ Members(c)' = Members(c)
                    <6>1. RelayTypeOK
                        BY <2>1
                    <6>2. Expired \in SUBSET Code
                        BY <2>1
                    <6>3. ch \in Channel
                        BY <4>1
                    <6>4. channels' = [ChannelsWithout(Expired) EXCEPT ![d] = ch]
                        BY <4>2
                    <6>5. QED
                        BY <6>1, <6>2, <6>3, <6>4, AfterPut
                <5>2. QED
                    BY <5>1
            <4>5. CASE s = x
                BY <2>1, <4>1, <4>2, <4>4, <4>5 DEF Informed, Members
            <4>6. CASE s # x
                <5>1. \A c \in Code : s \in Members(c) => s \in Members(c)' \/ s \in told'
                    <6>1. ASSUME NEW c \in Code, s \in Members(c), c \in Expired
                          PROVE  s \in told'
                        BY <2>1, <2>2, <3>1, <6>1 DEF MembersOf
                    <6>2. ASSUME NEW c \in Code, s \in Members(c), c \notin Expired
                          PROVE  s \in Members(c)'
                        <7>1. Exists(c)
                            BY <6>2, MemberIsBound
                        <7>2. QED
                            BY <4>1, <4>3, <4>4, <6>2, <7>1
                    <6>3. QED
                        BY <6>1, <6>2
                <5>2. boundCode'[s] = boundCode[s] /\ conn'[s] = conn[s]
                    BY <2>1, <3>2, <4>2, <4>6
                <5>3. QED
                    BY <3>2, <5>1, <5>2, InformedKept DEF Members
            <4>7. QED
                BY <4>5, <4>6
        <3>5. QED
            BY <3>1, <3>3, <3>4
    <2>5. ASSUME NEW x \in Socket, Leave(x) \/ Disconnect(x)
          PROVE  Informed(s)'
        <3>1. PICK C \in SUBSET Code :
              /\ Ends(C)
              /\ \A t \in Socket : Live(t) /\ t # x /\ t \in MembersOf(C) => t \in told'
              /\ told \subseteq told' /\ conn'[x] \in {"left", "closed"}
              /\ \A t \in Socket : t # x => conn'[t] = conn[t] /\ boundCode'[t] = boundCode[t]
            BY <2>5, LeaveCases
        <3>2. CASE s = x
            BY <3>1, <3>2 DEF Informed
        <3>3. CASE s # x
            <4>1. \A c \in Code : s \in Members(c) => s \in Members(c)' \/ s \in told'
                <5>1. \A c \in Code : s \in Members(c) => Live(s)
                    BY MemberIsBound DEF Live
                <5>2. QED
                    BY <3>1, <3>3, <5>1, EndsInforms DEF Ends
            <4>2. QED
                BY <3>1, <3>3, <4>1, InformedKept DEF Members
        <3>4. QED
            BY <3>2, <3>3
    <2>6. ASSUME \A c \in Code : Members(c)' = Members(c), UNCHANGED <<boundCode, conn, told>>
          PROVE  Informed(s)'
        BY <2>6, InformedKept DEF Members
    <2>7. ASSUME NEW d \in Code, Grow(d) PROVE Informed(s)'
        <3>1. UNCHANGED <<boundCode, conn, told>> /\ \A c \in Code : Members(c)' = Members(c)
            BY <2>7 DEF Grow, Members, RelayInv, RelayTypeOK, Channel, NoChannel
        <3>2. QED
            BY <2>6, <3>1
    <2>8. CASE UNCHANGED relayVars \/ \E x \in Socket, d \in Code : Signal(x, d)
        <3>1. UNCHANGED <<channels, boundCode, conn, told>>
            BY <2>8 DEF relayVars, Signal
        <3>2. QED
            BY <2>6, <3>1 DEF Members
    <2>9. QED
        BY <2>3, <2>4, <2>5, <2>7, <2>8 DEF RelayNext
<1>4. QED
    BY <1>1, <1>2, <1>3, InvariantHolds, PTL DEF RelaySpec

-----------------------------------------------------------------------------
(* Each code is good for one meeting of two.                                *)

(* What Rendezvous sees of a code: its phase.                               *)
PhaseOf(c) ==
    IF ~Exists(c) THEN IF c \in used THEN "spent" ELSE "unused"
    ELSE IF channels[c].joiner = NoSocket THEN "waiting" ELSE "paired"

(* At first nobody waits under any code.                                    *)
LEMMA MeetingStarts == RelayInit => Meeting!Init
BY DEF RelayInit, Meeting!Init, Exists, NoChannel

(* The meetings that can end are those of the existing channels.            *)
LEMMA LiveChannels == Meeting!Live = {c \in Code : Exists(c)}
BY DEF Meeting!Live

(* A step of the relay is one of Rendezvous when each code goes on as there. *)
LEMMA MeetingEnds ==
    ASSUME NEW C \in SUBSET Code,
           \A c \in Code :
              /\ PhaseOf(c)' = IF c \in C THEN "spent" ELSE PhaseOf(c)
              /\ channels'[c].creator = IF c \in C THEN NoSocket ELSE channels[c].creator
              /\ channels'[c].joiner = IF c \in C THEN NoSocket ELSE channels[c].joiner
    PROVE  Meeting!End(C)
BY DEF Meeting!End, Meeting!Ended, Meeting!Emptied, PhaseOf

(* Waiting under d while the channels of C end.                             *)
LEMMA MeetingWaits ==
    ASSUME NEW C \in SUBSET Code, NEW s \in Socket, NEW d \in Code, PhaseOf(d) = "unused",
           \A c \in Code :
              /\ PhaseOf(c)' = IF c = d THEN "waiting" ELSE IF c \in C THEN "spent" ELSE PhaseOf(c)
              /\ channels'[c].creator =
                    IF c = d THEN s ELSE IF c \in C THEN NoSocket ELSE channels[c].creator
              /\ channels'[c].joiner = IF c \in C THEN NoSocket ELSE channels[c].joiner
    PROVE  Meeting!Wait(s, d, C)
BY DEF Meeting!Wait, Meeting!Ended, Meeting!Emptied, PhaseOf

(* Meeting under d while the channels of C end.                             *)
LEMMA MeetingMeets ==
    ASSUME NEW C \in SUBSET Code, NEW s \in Socket, NEW d \in Code, PhaseOf(d) = "waiting",
           d \notin C, s # channels[d].creator,
           \A c \in Code :
              /\ PhaseOf(c)' = IF c = d THEN "paired" ELSE IF c \in C THEN "spent" ELSE PhaseOf(c)
              /\ channels'[c].creator = IF c \in C THEN NoSocket ELSE channels[c].creator
              /\ channels'[c].joiner =
                    IF c = d THEN s ELSE IF c \in C THEN NoSocket ELSE channels[c].joiner
    PROVE  Meeting!Meet(s, d, C)
BY DEF Meeting!Meet, Meeting!Ended, Meeting!Emptied, PhaseOf

(* Destroying channels ends their meetings and spends their codes.          *)
LEMMA EndsIsEnd ==
    ASSUME BoundInv, Socket # {}, NEW C \in SUBSET Code, Ends(C), \A c \in C : Exists(c)
    PROVE  Meeting!Next
<1>1. \A c \in Code : channels'[c] = IF c \in C THEN NoChannel ELSE channels[c]
    BY DEF Ends, ChannelsWithout
<1>2. used' = used /\ \A c \in C : c \in used
    BY DEF Ends, BoundInv
<1>3. \A c \in Code :
         /\ PhaseOf(c)' = IF c \in C THEN "spent" ELSE PhaseOf(c)
         /\ channels'[c].creator = IF c \in C THEN NoSocket ELSE channels[c].creator
         /\ channels'[c].joiner = IF c \in C THEN NoSocket ELSE channels[c].joiner
    <2> SUFFICES ASSUME NEW c \in Code
                 PROVE  /\ PhaseOf(c)' = IF c \in C THEN "spent" ELSE PhaseOf(c)
                        /\ channels'[c].creator = IF c \in C THEN NoSocket ELSE channels[c].creator
                        /\ channels'[c].joiner = IF c \in C THEN NoSocket ELSE channels[c].joiner
        OBVIOUS
    <2>1. CASE c \in C
        <3>1. channels'[c] = NoChannel /\ c \in used'
            BY <1>1, <1>2, <2>1
        <3>2. PhaseOf(c)' = "spent"
            BY <3>1 DEF PhaseOf, Exists
        <3>3. QED
            BY <2>1, <3>1, <3>2 DEF NoChannel
    <2>2. CASE c \notin C
        <3>1. channels'[c] = channels[c] /\ used' = used
            BY <1>1, <1>2, <2>2
        <3>2. PhaseOf(c)' = PhaseOf(c)
            BY <3>1 DEF PhaseOf, Exists
        <3>3. QED
            BY <2>2, <3>1, <3>2
    <2>3. QED
        BY <2>1, <2>2
<1>4. Meeting!End(C)
    BY <1>3, MeetingEnds
<1>5. C \in SUBSET Meeting!Live
    BY LiveChannels
<1>6. QED
    BY <1>4, <1>5 DEF Meeting!Next

(* Putting a channel of its own under a fresh code is waiting there.        *)
LEMMA BeginsIsWait ==
    ASSUME BoundInv, RelayTypeOK, FreshCodes, NEW s \in Socket, NEW d \in Code, Begins(s, d)
    PROVE  \E C \in SUBSET Meeting!Live : Meeting!Wait(s, d, C)
<1>1. d \notin used /\ ~Exists(d) /\ \A c \in Expired : Exists(c) /\ c \in used
    BY DEF Begins, BoundInv, Expired, Exists, NoChannel
<1>2. \A c \in Code :
         channels'[c] = IF c = d THEN [creator |-> s, joiner |-> NoSocket, old |-> FALSE]
                        ELSE IF c \in Expired THEN NoChannel ELSE channels[c]
    BY DEF Begins, ChannelsWithout
<1>3. used' = used \cup {d}
    BY DEF Begins
<1>4. channels[d] = NoChannel /\ d \notin Expired
    BY <1>1 DEF Exists
<1>5. \A c \in Code :
         /\ PhaseOf(c)' = IF c = d THEN "waiting" ELSE IF c \in Expired THEN "spent" ELSE PhaseOf(c)
         /\ channels'[c].creator =
               IF c = d THEN s ELSE IF c \in Expired THEN NoSocket ELSE channels[c].creator
         /\ channels'[c].joiner = IF c \in Expired THEN NoSocket ELSE channels[c].joiner
    <2> SUFFICES ASSUME NEW c \in Code
                 PROVE  /\ PhaseOf(c)' = IF c = d THEN "waiting"
                                         ELSE IF c \in Expired THEN "spent" ELSE PhaseOf(c)
                        /\ channels'[c].creator = IF c = d THEN s ELSE IF c \in Expired THEN NoSocket ELSE channels[c].creator
                        /\ channels'[c].joiner = IF c \in Expired THEN NoSocket ELSE channels[c].joiner
        OBVIOUS
    <2>1. CASE c = d
        <3>1. channels'[c] = [creator |-> s, joiner |-> NoSocket, old |-> FALSE]
            BY <1>2, <2>1
        <3>2. channels'[c].creator = s /\ channels'[c].joiner = NoSocket
            BY <3>1
        <3>3. channels'[c] # NoChannel
            BY <3>2, RelayAssumption DEF NoChannel
        <3>4. PhaseOf(c)' = "waiting"
            BY <3>2, <3>3 DEF PhaseOf, Exists
        <3>5. channels[c].joiner = NoSocket
            BY <1>4, <2>1 DEF NoChannel
        <3>6. QED
            BY <1>4, <2>1, <3>2, <3>4, <3>5
    <2>2. CASE c # d /\ c \in Expired
        <3>1. channels'[c] = NoChannel /\ c \in used'
            BY <1>1, <1>2, <1>3, <2>2
        <3>2. PhaseOf(c)' = "spent"
            BY <3>1 DEF PhaseOf, Exists
        <3>3. QED
            BY <2>2, <3>1, <3>2 DEF NoChannel
    <2>3. CASE c # d /\ c \notin Expired
        <3>1. channels'[c] = channels[c] /\ (c \in used' <=> c \in used)
            BY <1>2, <1>3, <2>3
        <3>2. PhaseOf(c)' = PhaseOf(c)
            BY <3>1 DEF PhaseOf, Exists
        <3>3. QED
            BY <2>3, <3>1, <3>2
    <2>4. QED
        BY <2>1, <2>2, <2>3
<1>6. PICK C \in SUBSET Code : C = Expired
    BY DEF Expired
<1>7. Meeting!Wait(s, d, C)
    <2>1. PhaseOf(d) = "unused"
        BY <1>1 DEF PhaseOf
    <2>2. QED
        BY <1>1, <1>5, <1>6, <2>1, MeetingWaits
<1>8. C \in SUBSET Meeting!Live
    BY <1>1, <1>6, LiveChannels
<1>9. QED
    BY <1>7, <1>8

(* Taking the second place of a channel is meeting its creator.             *)
LEMMA PairsIsMeet ==
    ASSUME BoundInv, RelayTypeOK, NEW s \in Socket, NEW d \in Code, Pairs(s, d)
    PROVE  \E C \in SUBSET Meeting!Live : Meeting!Meet(s, d, C)
<1>1. /\ Exists(d) /\ d \notin Expired /\ \A c \in Expired : Exists(c) /\ c \in used
      /\ channels[d].joiner = NoSocket /\ s # channels[d].creator
      /\ channels[d] \in Channel
    BY DEF Pairs, BoundInv, RelayTypeOK, Expired, Exists, NoChannel
<1>2. \A c \in Code :
         channels'[c] = IF c = d THEN [channels[d] EXCEPT !.joiner = s]
                        ELSE IF c \in Expired THEN NoChannel ELSE channels[c]
    BY DEF Pairs, ChannelsWithout
<1>3. used' = used
    BY DEF Pairs
<1>4. /\ [channels[d] EXCEPT !.joiner = s].creator = channels[d].creator
      /\ [channels[d] EXCEPT !.joiner = s].joiner = s
      /\ [channels[d] EXCEPT !.joiner = s] # NoChannel
    BY <1>1, RelayAssumption DEF Channel, NoChannel
<1>5. \A c \in Code :
         /\ PhaseOf(c)' = IF c = d THEN "paired" ELSE IF c \in Expired THEN "spent" ELSE PhaseOf(c)
         /\ channels'[c].creator = IF c \in Expired THEN NoSocket ELSE channels[c].creator
         /\ channels'[c].joiner =
               IF c = d THEN s ELSE IF c \in Expired THEN NoSocket ELSE channels[c].joiner
    <2> SUFFICES ASSUME NEW c \in Code
                 PROVE  /\ PhaseOf(c)' = IF c = d THEN "paired"
                                         ELSE IF c \in Expired THEN "spent" ELSE PhaseOf(c)
                        /\ channels'[c].creator = IF c \in Expired THEN NoSocket ELSE channels[c].creator
                        /\ channels'[c].joiner = IF c = d THEN s ELSE IF c \in Expired THEN NoSocket ELSE channels[c].joiner
        OBVIOUS
    <2>1. CASE c = d
        <3>1. channels'[c].creator = channels[c].creator /\ channels'[c].joiner = s
              /\ channels'[c] # NoChannel
            BY <1>2, <1>4, <2>1
        <3>2. PhaseOf(c)' = "paired"
            BY <3>1, RelayAssumption DEF PhaseOf, Exists
        <3>3. QED
            BY <1>1, <2>1, <3>1, <3>2
    <2>2. CASE c # d /\ c \in Expired
        <3>1. channels'[c] = NoChannel /\ c \in used'
            BY <1>1, <1>2, <1>3, <2>2
        <3>2. PhaseOf(c)' = "spent"
            BY <3>1 DEF PhaseOf, Exists
        <3>3. QED
            BY <2>2, <3>1, <3>2 DEF NoChannel
    <2>3. CASE c # d /\ c \notin Expired
        <3>1. channels'[c] = channels[c] /\ (c \in used' <=> c \in used)
            BY <1>2, <1>3, <2>3
        <3>2. PhaseOf(c)' = PhaseOf(c)
            BY <3>1 DEF PhaseOf, Exists
        <3>3. QED
            BY <2>3, <3>1, <3>2
    <2>4. QED
        BY <2>1, <2>2, <2>3
<1>6. PICK C \in SUBSET Code : C = Expired
    BY DEF Expired
<1>7. Meeting!Meet(s, d, C)
    <2>1. PhaseOf(d) = "waiting"
        BY <1>1 DEF PhaseOf
    <2>2. QED
        BY <1>1, <1>5, <1>6, <2>1, MeetingMeets
<1>8. C \in SUBSET Meeting!Live
    BY <1>1, <1>6, LiveChannels
<1>9. QED
    BY <1>7, <1>8

(* A step that keeps creators, joiners and the codes in use is no step of   *)
(* Rendezvous.                                                              *)
LEMMA MeetingRests ==
    ASSUME \A c \in Code : /\ channels'[c].creator = channels[c].creator
                           /\ channels'[c].joiner = channels[c].joiner
                           /\ Exists(c)' <=> Exists(c),
           used' = used
    PROVE  UNCHANGED Meeting!vars
BY DEF Meeting!vars, Exists

(* While generateChannelCode repeats no code, each one is good for a single *)
(* meeting of two: somebody waits under it, at most one other comes, and    *)
(* once the channel has ended nobody meets there again.                     *)
THEOREM RelayIsRendezvous == ASSUME FreshCodes PROVE RelaySpec => RendezvousSpec
<1>1. RelayInit => Meeting!Init
    BY MeetingStarts
<1>2. RelayInv /\ BoundInv /\ [RelayNext]_relayVars => [Meeting!Next]_(Meeting!vars)
    <2> SUFFICES ASSUME RelayInv, BoundInv, [RelayNext]_relayVars
                 PROVE  Meeting!Next \/ UNCHANGED Meeting!vars
        OBVIOUS
    <2>1. RelayTypeOK /\ Expired \in SUBSET Code /\ \A c \in Expired : Exists(c)
        BY DEF RelayInv, Expired, Exists, NoChannel
    <2>2. ASSUME NEW s \in Socket, Ends(Expired) PROVE Meeting!Next
        <3>1. PICK C \in SUBSET Code : C = Expired
            BY <2>1
        <3>2. Ends(C) /\ \A c \in C : Exists(c)
            BY <2>1, <2>2, <3>1
        <3>3. QED
            BY <3>2, EndsIsEnd
    <2>3. ASSUME NEW s \in Socket, NEW c \in Code, Begins(s, c) PROVE Meeting!Next
        BY <2>1, <2>3, BeginsIsWait DEF Meeting!Next
    <2>4. ASSUME NEW s \in Socket, NEW c \in Code, Pairs(s, c) PROVE Meeting!Next
        BY <2>1, <2>4, PairsIsMeet DEF Meeting!Next
    <2>5. ASSUME NEW s \in Socket, Leave(s) \/ Disconnect(s) PROVE Meeting!Next
        <3>1. PICK C \in SUBSET Code : Ends(C) /\ \A c \in C : Exists(c)
            BY <2>5, LeaveCases
        <3>2. QED
            BY <3>1, EndsIsEnd
    <2>6. ASSUME Sweep PROVE Meeting!Next
        <3>1. Ends(Expired)
            BY <2>6 DEF Sweep, Ends
        <3>2. PICK c \in Expired : channels[c] \in Channel
            BY <2>1, <2>6 DEF Sweep, RelayTypeOK, Exists
        <3>3. \E s \in Socket : TRUE
            BY <3>2 DEF Channel
        <3>4. QED
            BY <2>2, <3>1, <3>3
    <2>7. ASSUME NEW d \in Code, Grow(d) PROVE UNCHANGED Meeting!vars
        <3>1. \A c \in Code : /\ channels'[c].creator = channels[c].creator
                              /\ channels'[c].joiner = channels[c].joiner
                              /\ Exists(c)' <=> Exists(c)
            BY <2>1, <2>7, RelayAssumption DEF Grow, Exists, RelayTypeOK, Channel, NoChannel
        <3>2. QED
            BY <2>7, <3>1, MeetingRests DEF Grow
    <2>8. ASSUME NEW s \in Socket, NEW d \in Code, Signal(s, d) PROVE UNCHANGED Meeting!vars
        BY <2>8, MeetingRests DEF Signal, Exists
    <2>9. CASE UNCHANGED relayVars
        BY <2>9, MeetingRests DEF relayVars, Exists
    <2>10. ASSUME NEW s \in Socket, NEW c \in Code, Create(s, c) \/ Join(s, c)
           PROVE  Meeting!Next
        <3>1. Begins(s, c) \/ Pairs(s, c) \/ Ends(Expired)
            BY <2>10, CreateCases, JoinCases
        <3>2. QED
            BY <2>2, <2>3, <2>4, <3>1
    <2>11. QED
        BY <2>5, <2>6, <2>7, <2>8, <2>9, <2>10 DEF RelayNext
<1>3. QED
    BY <1>1, <1>2, InvariantHolds, PTL DEF RelaySpec, RendezvousSpec, Meeting!Spec
=============================================================================

----------------------------- MODULE PeerSession -----------------------------
(***************************************************************************)
(* How two peers get from a rendezvous code to a secure session: the       *)
(* lifecycle half of PeerSession (src/services/peer-session.ts), the       *)
(* SignalingClient under it, the store actions that start and cancel it,   *)
(* and the connection state the store shows.                               *)
(*                                                                         *)
(* One rendezvous: the initiator hosts a channel, the responder joins it.  *)
(* Every await is a point where the other peer, the relay, a timer or the  *)
(* user may act first; a method is split into one action per stretch       *)
(* between awaits, and no stretch looks again at "closed" unless the code  *)
(* does.                                                                   *)
(*                                                                         *)
(* External: WebRTC (a closed RTCPeerConnection never settles its pending  *)
(* promises; the channel opens once both sides hold both descriptions and  *)
(* one holds a candidate) and socket.io (ordered events per socket).  The  *)
(* relay is reduced to the one channel; SignalingRelay models it whole.    *)
(***************************************************************************)
EXTENDS Naturals, Sequences, FiniteSets

CONSTANT IceCount     \* candidates each side gathers

ASSUME IceCountAssumption == IceCount \in Nat

Role == {"initiator", "responder"}
Other(r) == IF r = "initiator" THEN "responder" ELSE "initiator"

VARIABLES
    ps,         \* [Role -> record]: the fields of each PeerSession
    ui,         \* [Role -> ConnectionState]: connection.state in the store
    held,       \* [Role -> BOOLEAN]: privateRefs.session is this session
    relay,      \* the rendezvous channel at the relay
    sig,        \* [Role -> Seq]: relay events on their way to each socket
    helloIn,    \* [Role -> BOOLEAN]: the peer's hello is in the DataChannel
    invite      \* does the identity the responder expects match the host?

vars == <<ps, ui, held, relay, sig, helloIn, invite>>

UiState == {"offline", "discovering-peer", "connecting", "connected", "secure",
            "disconnected", "error"}
Reason == {"none", "user-closed", "timeout", "handshake-timeout",
           "negotiation-failed", "handshake-failed", "handshake-exception"}
Event == {"peer-joined", "offer", "answer", "ice", "ack", "channel-closed"}

Fresh ==
    [call |-> "idle",        \* progress of host() / join()
     sock |-> "none",        \* this.signaling's socket
     closed |-> FALSE,
     neg |-> "idle",         \* progress of negotiate() / onSignal(offer)
     answering |-> FALSE,    \* onSignal(answer) awaits setRemoteDescription
     pc |-> "none",          \* null, constructed, or holding a remote description
     local |-> FALSE,        \* the local description is set
     iceLeft |-> IceCount,
     pendingIce |-> 0,
     iceAdded |-> 0,
     dc |-> "none",          \* null, not yet open, open, closed by the far end
     hello |-> "no",         \* helloSent, and whether createHello has resolved
     ephemeral |-> FALSE,    \* this.ephemeralPriv is set
     peerHello |-> FALSE,    \* this.peerHelloRaw is set
     completing |-> FALSE,   \* completeHandshake awaits establishSession
     session |-> FALSE,      \* this.session is set
     connectTimer |-> FALSE,
     handshakeTimer |-> FALSE,
     reason |-> "none"]      \* what the session was torn down for

Init ==
    /\ ps = [r \in Role |-> Fresh]
    /\ ui = [r \in Role |-> "offline"]
    /\ held = [r \in Role |-> FALSE]
    /\ relay = "none"
    /\ sig = [r \in Role |-> << >>]
    /\ helloIn = [r \in Role |-> FALSE]
    /\ invite \in BOOLEAN

Put(r, s) == ps' = [ps EXCEPT ![r] = s]
Show(r, state) == ui' = [ui EXCEPT ![r] = state]

(* The relay forwards an event to r's socket, if r still has one.           *)
Forward(r, e) == sig' = IF ps[r].sock = "up"
                          THEN [sig EXCEPT ![r] = Append(@, e)] ELSE sig

-----------------------------------------------------------------------------
(* Teardown.                                                                *)

(* r's socket leaves the relay: the channel r belongs to is destroyed and   *)
(* the other member is told.                                                *)
LeaveRelay(r) ==
    IF relay = "paired" \/ (relay = "waiting" /\ r = "initiator")
      THEN /\ relay' = "gone"
           /\ sig' = [q \in Role |->
                        IF q # r /\ relay = "paired" /\ ps[q].sock = "up"
                          THEN Append(sig[q], "channel-closed")
                          ELSE IF q = r THEN << >> ELSE sig[q]]
      ELSE /\ sig' = [sig EXCEPT ![r] = << >>]
           /\ UNCHANGED relay

(* SignalingClient.destroy(): leave and close.  A socket that is still      *)
(* connecting is not SignalingClient's yet, so destroy() does not reach it. *)
destroy(sock) == IF sock = "up" THEN "destroyed" ELSE sock

(* teardown(why) in state s.                                                *)
Teardown(r, s, why) ==
    IF s.closed
      THEN /\ Put(r, s)
           /\ UNCHANGED <<relay, sig, helloIn>>
      ELSE /\ Put(r, [s EXCEPT !.closed = TRUE, !.reason = why,
                                !.sock = destroy(@),
                                !.pc = "none", !.dc = "none",
                                !.neg = IF @ \in {"describing", "applying", "answering"}
                                          THEN "idle" ELSE @,
                                !.answering = FALSE,
                                !.session = FALSE, !.ephemeral = FALSE,
                                !.connectTimer = FALSE, !.handshakeTimer = FALSE])
           /\ helloIn' = [helloIn EXCEPT ![r] = FALSE]
           /\ IF s.sock = "up" THEN LeaveRelay(r) ELSE UNCHANGED <<relay, sig>>

(* setState("error") and teardown: the store's onClosed turns the state to  *)
(* "disconnected" if it still holds a session and the teardown was live.    *)
Fail(r, s, why) ==
    /\ Teardown(r, s, why)
    /\ Show(r, IF s.closed \/ ~held[r] THEN "error" ELSE "disconnected")

-----------------------------------------------------------------------------
(* host() and join(), with hostSession / joinSession around them.           *)

hostSession ==
    LET r == "initiator" IN
    /\ ps[r].call = "idle"
    /\ Put(r, [ps[r] EXCEPT !.call = "connecting"])
    /\ held' = [held EXCEPT ![r] = TRUE]
    /\ Show(r, "discovering-peer")
    /\ UNCHANGED <<relay, sig, helloIn, invite>>

(* The responder learns the code once the host's screen shows it.           *)
joinSession ==
    LET r == "responder" IN
    /\ ps[r].call = "idle" /\ ps["initiator"].call = "ready"
    /\ Put(r, [ps[r] EXCEPT !.call = "connecting"])
    /\ held' = [held EXCEPT ![r] = TRUE]
    /\ Show(r, "discovering-peer")
    /\ UNCHANGED <<relay, sig, helloIn, invite>>

(* The socket connects - even for a session closed meanwhile - and asks.    *)
SocketConnected(r) ==
    /\ ps[r].call = "connecting"
    /\ Put(r, [ps[r] EXCEPT !.call = "asking", !.sock = "up"])
    /\ UNCHANGED <<ui, held, relay, sig, helloIn, invite>>

(* channel:create is acknowledged: handlers registered, code displayed.     *)
Created ==
    LET r == "initiator" IN
    /\ ps[r].call = "asking" /\ ps[r].sock = "up" /\ relay = "none"
    /\ relay' = "waiting"
    /\ Put(r, [ps[r] EXCEPT !.call = "ready"])
    /\ Show(r, "discovering-peer")
    /\ UNCHANGED <<held, sig, helloIn, invite>>

(* Mutant: the timer is forgotten.                                          *)
ArmNothing(s) == s
ArmTimeouts(s) == [s EXCEPT !.connectTimer = TRUE]

(* channel:join is acknowledged: handlers registered, timer armed.          *)
Joined ==
    LET r == "responder" IN
    /\ ps[r].call = "asking" /\ ps[r].sock = "up" /\ relay = "waiting"
    /\ relay' = "paired"
    /\ Forward("initiator", "peer-joined")
    /\ Put(r, ArmTimeouts([ps[r] EXCEPT !.call = "ready"]))
    /\ Show(r, "discovering-peer")
    /\ UNCHANGED <<held, helloIn, invite>>

(* connect() or the request failed or timed out: the store forgets whatever *)
(* session it holds and shows an error; the PeerSession is not torn down.   *)
CallFailed(r) ==
    /\ ps[r].call \in {"connecting", "asking"}
    /\ Put(r, [ps[r] EXCEPT !.call = "failed"])
    /\ held' = [held EXCEPT ![r] = FALSE]
    /\ Show(r, "error")
    /\ UNCHANGED <<relay, sig, helloIn, invite>>

(* cancelSession: close() whatever is held, then "offline".                 *)
Cancel(r) ==
    /\ held[r]
    /\ Teardown(r, ps[r], "user-closed")
    /\ held' = [held EXCEPT ![r] = FALSE]
    /\ Show(r, "offline")
    /\ UNCHANGED invite

-----------------------------------------------------------------------------
(* Negotiation.                                                             *)

Hears(r, e) ==
    /\ ps[r].sock = "up" /\ ps[r].call = "ready"
    /\ sig[r] # << >> /\ Head(sig[r]) = e

Pop(r) == sig' = [sig EXCEPT ![r] = Tail(@)]

(* onPeerJoined: negotiate() up to createOffer; closed is not consulted.    *)
PeerJoined(r) ==
    /\ Hears(r, "peer-joined")
    /\ Pop(r)
    /\ Put(r, [ps[r] EXCEPT !.connectTimer = TRUE, !.pc = "new", !.dc = "connecting",
                            !.neg = "describing"])
    /\ Show(r, "connecting")
    /\ UNCHANGED <<held, relay, helloIn, invite>>

(* The local description is set and sent.  The relay forwards it and then   *)
(* acknowledges, or refuses; a destroyed client refuses by itself.          *)
Describe(r, from, e) ==
    /\ ps[r].neg = from
    /\ LET taken == ps[r].sock = "up" /\ relay = "paired" IN
         /\ Put(r, [ps[r] EXCEPT !.local = TRUE,
                                 !.neg = IF taken THEN "signaling" ELSE "refused"])
         /\ IF taken
              THEN sig' = [sig EXCEPT ![r] = Append(@, "ack"),
                                      ![Other(r)] = IF ps[Other(r)].sock = "up"
                                                      THEN Append(@, e) ELSE @]
              ELSE UNCHANGED sig
    /\ UNCHANGED <<ui, held, relay, helloIn, invite>>

SendOffer == Describe("initiator", "describing", "offer")
SendAnswer == Describe("responder", "answering", "answer")

(* The acknowledgement arrives; nothing more to do.                         *)
SignalAcked(r) ==
    /\ Hears(r, "ack")
    /\ Pop(r)
    /\ Put(r, [ps[r] EXCEPT !.neg = "done"])
    /\ UNCHANGED <<ui, held, relay, helloIn, invite>>

(* The relay refused, or the socket died and the 15 s timer of call() ran   *)
(* out: the catch branch, whatever the session has become by now.           *)
SignalFailed(r) ==
    /\ ps[r].neg = "refused" \/ (ps[r].neg = "signaling" /\ ps[r].sock # "up")
    /\ Fail(r, [ps[r] EXCEPT !.neg = "done"], "negotiation-failed")
    /\ UNCHANGED <<held, invite>>

(* onSignal(offer), up to setRemoteDescription.                             *)
OfferArrives(r) ==
    /\ Hears(r, "offer")
    /\ Pop(r)
    /\ IF ps[r].closed
         THEN UNCHANGED <<ps, ui>>
         ELSE /\ Put(r, [ps[r] EXCEPT !.pc = "new", !.neg = "applying"])
              /\ Show(r, "connecting")
    /\ UNCHANGED <<held, relay, helloIn, invite>>

(* setRemoteDescription resolved: queued candidates are added.              *)
Described(s) == [s EXCEPT !.pc = "remote", !.iceAdded = @ + s.pendingIce,
                          !.pendingIce = 0]

OfferApplied(r) ==
    /\ ps[r].neg = "applying"
    /\ Put(r, [Described(ps[r]) EXCEPT !.neg = "answering"])
    /\ UNCHANGED <<ui, held, relay, sig, helloIn, invite>>

AnswerArrives(r) ==
    /\ Hears(r, "answer")
    /\ Pop(r)
    /\ IF ps[r].closed \/ ps[r].pc = "none"
         THEN UNCHANGED ps
         ELSE Put(r, [ps[r] EXCEPT !.answering = TRUE])
    /\ UNCHANGED <<ui, held, relay, helloIn, invite>>

AnswerApplied(r) ==
    /\ ps[r].answering
    /\ Put(r, [Described(ps[r]) EXCEPT !.answering = FALSE])
    /\ UNCHANGED <<ui, held, relay, sig, helloIn, invite>>

(* onicecandidate: fire and forget.                                         *)
SendIce(r) ==
    /\ ps[r].pc # "none" /\ ps[r].local /\ ps[r].iceLeft > 0
    /\ Put(r, [ps[r] EXCEPT !.iceLeft = @ - 1])
    /\ IF ps[r].sock = "up" /\ relay = "paired" THEN Forward(Other(r), "ice")
                                              ELSE UNCHANGED sig
    /\ UNCHANGED <<ui, held, relay, helloIn, invite>>

(* A candidate is added once there is a remote description, and queued      *)
(* before.  Mutant: it is added to any connection, where it throws.         *)
TakeCandidateEarly(s) ==
    IF s.pc = "remote" THEN [s EXCEPT !.iceAdded = @ + 1]
    ELSE IF s.pc = "new" THEN s ELSE [s EXCEPT !.pendingIce = @ + 1]
TakeCandidate(s) == IF s.pc = "remote" THEN [s EXCEPT !.iceAdded = @ + 1]
                                       ELSE [s EXCEPT !.pendingIce = @ + 1]

IceArrives(r) ==
    /\ Hears(r, "ice")
    /\ Pop(r)
    /\ IF ps[r].closed THEN UNCHANGED ps ELSE Put(r, TakeCandidate(ps[r]))
    /\ UNCHANGED <<ui, held, relay, helloIn, invite>>

(* Mutant of ClosedNotice: a session once secure is never shown as lost.    *)
ClosedNoticeUnlessSecure(r) ==
    IF ps[r].closed \/ ps[r].session THEN UNCHANGED ui ELSE Show(r, "disconnected")

(* handleClosed: no teardown, and no look at a session that may be secure.  *)
ClosedNotice(r) ==
    IF ps[r].closed THEN UNCHANGED ui ELSE Show(r, "disconnected")

ChannelClosed(r) ==
    /\ Hears(r, "channel-closed")
    /\ Pop(r)
    /\ ClosedNotice(r)
    /\ UNCHANGED <<ps, held, relay, helloIn, invite>>

(* The socket drops; the client does not reconnect, and the relay destroys  *)
(* the channel.  Before the handlers are registered nobody notices.         *)
SocketLost(r) ==
    /\ ps[r].sock = "up"
    /\ Put(r, [ps[r] EXCEPT !.sock = "lost"])
    /\ LeaveRelay(r)
    /\ IF ps[r].call = "ready" THEN ClosedNotice(r) ELSE UNCHANGED ui
    /\ UNCHANGED <<held, helloIn, invite>>

(* sweepExpired: ten minutes after its creation the channel is destroyed.   *)
RelayExpires ==
    /\ relay \in {"waiting", "paired"}
    /\ sig' = [r \in Role |->
                 IF ps[r].sock = "up" /\ (relay = "paired" \/ r = "initiator")
                   THEN Append(sig[r], "channel-closed") ELSE sig[r]]
    /\ relay' = "gone"
    /\ UNCHANGED <<ps, ui, held, helloIn, invite>>

-----------------------------------------------------------------------------
(* DataChannel and handshake.                                               *)

Connectable ==
    /\ \A r \in Role : ps[r].pc = "remote" /\ ps[r].local
    /\ \E r \in Role : ps[r].iceAdded > 0

(* onopen: runHandshake up to createHello.  Each side opens in its own time.*)
ChannelOpens(r) ==
    /\ ps[r].dc \in {"none", "connecting"} /\ ps[r].pc = "remote"
    /\ Connectable \/ (ps[Other(r)].dc = "open")
    /\ Put(r, [ps[r] EXCEPT !.dc = "open", !.hello = "making",
                            !.handshakeTimer = TRUE])
    /\ Show(r, "connected")
    /\ UNCHANGED <<held, relay, sig, helloIn, invite>>

(* createHello: a fresh ephemeral key and the signed hello that carries it. *)
createHello(s) == [s EXCEPT !.hello = "made", !.ephemeral = TRUE]

(* createHello resolved, torn down or not: the key is kept, the hello sent  *)
(* if there is a channel (a closed one throws and ends the method), and a   *)
(* peer hello that came first is used now.                                  *)
HelloMade(r) ==
    /\ ps[r].hello = "making"
    /\ Put(r, [createHello(ps[r]) EXCEPT !.completing =
                   @ \/ (ps[r].dc # "closed" /\ ps[r].peerHello /\ ~ps[r].session)])
    /\ helloIn' = IF ps[r].dc = "open" /\ ps[Other(r)].dc # "closed"
                       /\ ps[Other(r)].pc # "none"
                    THEN [helloIn EXCEPT ![Other(r)] = TRUE] ELSE helloIn
    /\ IF ps[r].dc = "closed" THEN UNCHANGED ui ELSE Show(r, "connected")
    /\ UNCHANGED <<held, relay, sig, invite>>

(* ephemeralPrivForHandshake throws while our own key is still being made.  *)
HasEphemeral(s) == s.ephemeral

(* The peer's hello arrives: completeHandshake up to establishSession.      *)
HelloArrives(r) ==
    /\ helloIn[r] /\ ps[r].dc = "open"
    /\ LET s == [ps[r] EXCEPT !.peerHello = TRUE]
           in == [helloIn EXCEPT ![r] = FALSE] IN
         IF s.session \/ HasEphemeral(s)
           THEN /\ Put(r, [s EXCEPT !.completing = @ \/ ~s.session])
                /\ Show(r, "connected")
                /\ helloIn' = in
                /\ UNCHANGED <<relay, sig>>
           ELSE /\ Fail(r, s, "handshake-exception")
    /\ UNCHANGED <<held, invite>>

(* Mutant of Mismatch: the fingerprint the relay claims replaces the one in *)
(* the invite, and always matches.                                          *)
MismatchWithRelayClaim(r) == FALSE

(* establishSession resolved, torn down or not.  The responder compares the *)
(* host's fingerprint with the one its invite promised.                     *)
Mismatch(r) == r = "responder" /\ ~invite

(* The key agreement over both ephemeral keys, and the session it yields.   *)
Established(s) == [s EXCEPT !.session = TRUE]

HandshakeCompleted(r) ==
    /\ ps[r].completing
    /\ LET s == [ps[r] EXCEPT !.completing = FALSE] IN
         IF Mismatch(r)
           THEN Fail(r, s, "handshake-failed")
           ELSE /\ Put(r, [Established(s) EXCEPT !.connectTimer = FALSE,
                                                 !.handshakeTimer = FALSE])
                /\ Show(r, "secure")
                /\ UNCHANGED <<relay, sig, helloIn>>
    /\ UNCHANGED <<held, invite>>

(* dc.onclose: the far end tore down, or the network failed.                *)
ChannelLost(r) ==
    /\ ps[r].dc = "open"
    /\ Put(r, [ps[r] EXCEPT !.dc = "closed"])
    /\ helloIn' = [helloIn EXCEPT ![r] = FALSE]
    /\ ClosedNotice(r)
    /\ UNCHANGED <<held, relay, sig, invite>>

ConnectTimeout(r) ==
    /\ ps[r].connectTimer
    /\ LET s == [ps[r] EXCEPT !.connectTimer = FALSE] IN
         IF s.session \/ s.closed
           THEN Put(r, s) /\ UNCHANGED <<ui, relay, sig, helloIn>>
           ELSE Fail(r, s, "timeout")
    /\ UNCHANGED <<held, invite>>

HandshakeTimeout(r) ==
    /\ ps[r].handshakeTimer
    /\ LET s == [ps[r] EXCEPT !.handshakeTimer = FALSE] IN
         IF s.session \/ s.closed
           THEN Put(r, s) /\ UNCHANGED <<ui, relay, sig, helloIn>>
           ELSE Fail(r, s, "handshake-timeout")
    /\ UNCHANGED <<held, invite>>

-----------------------------------------------------------------------------
Signaling(r) ==
    \/ PeerJoined(r) \/ OfferArrives(r) \/ AnswerArrives(r) \/ IceArrives(r)
    \/ ChannelClosed(r)

WebRTC(r) ==
    \/ OfferApplied(r) \/ AnswerApplied(r) \/ SendIce(r)
    \/ SignalAcked(r) \/ SignalFailed(r)

Handshake(r) == HelloMade(r) \/ HelloArrives(r) \/ HandshakeCompleted(r)

Timeout(r) == ConnectTimeout(r) \/ HandshakeTimeout(r)

Next ==
    \/ hostSession \/ joinSession \/ Created \/ Joined \/ SendOffer \/ SendAnswer \/ RelayExpires
    \/ \E r \in Role :
         \/ SocketConnected(r) \/ CallFailed(r) \/ Cancel(r) \/ SocketLost(r)
         \/ Signaling(r) \/ WebRTC(r) \/ ChannelOpens(r) \/ Handshake(r)
         \/ ChannelLost(r) \/ Timeout(r)

Spec == Init /\ [][Next]_vars

(* Browsers finish what they were asked, deliver queued events, notice a    *)
(* peer that is gone, and fire timers.  Connecting is not guaranteed.       *)
Fairness ==
    \A r \in Role :
        /\ WF_vars(HelloMade(r)) /\ WF_vars(HelloArrives(r))
        /\ WF_vars(HandshakeCompleted(r))
        /\ WF_vars(ps[Other(r)].dc # "open" /\ ChannelLost(r))
        /\ WF_vars(ConnectTimeout(r)) /\ WF_vars(HandshakeTimeout(r))

FairSpec == Spec /\ Fairness

-----------------------------------------------------------------------------
(* Properties.                                                              *)

Session ==
    [call : {"idle", "connecting", "asking", "ready", "failed"},
     sock : {"none", "up", "lost", "destroyed"},
     closed : BOOLEAN,
     neg : {"idle", "describing", "applying", "answering", "signaling", "refused",
            "done"},
     answering : BOOLEAN,
     pc : {"none", "new", "remote"},
     local : BOOLEAN,
     iceLeft : Nat, pendingIce : Nat, iceAdded : Nat,
     dc : {"none", "connecting", "open", "closed"},
     hello : {"no", "making", "made"},
     ephemeral : BOOLEAN, peerHello : BOOLEAN, completing : BOOLEAN,
     session : BOOLEAN, connectTimer : BOOLEAN, handshakeTimer : BOOLEAN,
     reason : Reason]

TypeOK ==
    /\ ps \in [Role -> Session]
    /\ ui \in [Role -> UiState]
    /\ held \in [Role -> BOOLEAN]
    /\ relay \in {"none", "waiting", "paired", "gone"}
    /\ sig \in [Role -> Seq(Event)]
    /\ helloIn \in [Role -> BOOLEAN]
    /\ invite \in BOOLEAN

(* No candidate the relay accepted is lost, whether it overtakes the        *)
(* description it belongs to or arrives while that is being applied: it is  *)
(* on its way, queued in pendingIce, or added - and nothing stays queued    *)
(* once the remote description is set.                                      *)
InFlightIce(r) == {i \in DOMAIN sig[r] : sig[r][i] = "ice"}
NoCandidateLost ==
    \A r \in Role :
        LET s == ps[r]
            sent == IceCount - ps[Other(r)].iceLeft IN
        relay = "paired" /\ s.sock = "up" /\ ~s.closed =>
            /\ sent = Cardinality(InFlightIce(r)) + s.pendingIce + s.iceAdded
            /\ s.pc = "remote" => s.pendingIce = 0

(* "identity-key change vs a saved contact/invite ... refuses"              *)
(* (peer-session.ts:16): whatever the order of hellos, timers and           *)
(* teardowns, a responder whose invite names another identity never becomes *)
(* secure, not even on a session closed meanwhile.                          *)
MismatchNeverSecure ==
    ~invite => ~ps["responder"].session /\ ui["responder"] # "secure"

(* A peer is secure only with a peer that made its hello: the key agreement *)
(* needs both ephemeral keys.                                               *)
SecureNeedsBothHellos ==
    \A r \in Role : ps[r].session => \A q \in Role : ps[q].hello = "made"

(* What a session must have gone through before it counts as secure, in one *)
(* formula with the types.                                                  *)
SecureIsEarned == TypeOK /\ MismatchNeverSecure /\ SecureNeedsBothHellos

(* A responder that joined does not hang: in the end it is secure or torn   *)
(* down; and a host that started to negotiate likewise.                     *)
RendezvousDecides ==
    \A r \in Role :
        ps[r].neg # "idle" \/ (r = "responder" /\ ps[r].call = "ready")
            ~> ps[r].session \/ ps[r].closed

(* One side may become secure while the other fails: a secure session whose *)
(* peer tore down is shown as lost.                                         *)
PeerTeardownNoticed ==
    \A r \in Role : ps[r].session /\ ps[r].dc = "open" /\ ps[Other(r)].closed
                        ~> ui[r] # "secure" \/ ps[r].closed

-----------------------------------------------------------------------------
(* What comments and documents claim and the code does not do: TLC finds a  *)
(* counterexample to each when it is named in a configuration.              *)

(* peer-session.ts:322: a hello that "arrived before" is used, not fatal.   *)
EarlyHelloUsed == \A r \in Role : ps[r].reason # "handshake-exception"

(* peer-session.ts:14: "secure" only after the handshake succeeded; a       *)
(* session that was torn down does not become secure.                       *)
ClosedStaysClosed == [][\A r \in Role : ps[r].closed /\ ui'[r] = "secure"
                                            => ui[r] = "secure"]_vars
=============================================================================

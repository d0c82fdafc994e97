--------------------------- MODULE SessionManager ---------------------------
(***************************************************************************)
(* The sessions of one device, one after another: hostSession, joinSession *)
(* and cancelSession (store/app-store.ts) as the connect overlay calls     *)
(* them (components/chats.tsx), with the callbacks every PeerSession keeps *)
(* to the one connection state that the screens show.                      *)
(*                                                                         *)
(* What a session does with its peer is the subject of PeerSession; here a *)
(* session is reduced to what can outlive it: the call to the relay it     *)
(* awaits, its socket, its RTCPeerConnection and its handshake.            *)
(*                                                                         *)
(* The history variable amiss records the ways in which a session acts     *)
(* that is no longer the store's:                                          *)
(*   outlived  the call to the relay settled after close()                 *)
(*   refused   the relay refused the call; the session is let go, not      *)
(*             closed                                                      *)
(*   late      a handshake was completed after close()                     *)
(*   greeted   the hello was made only after close()                       *)
(*   dropped   a frame failed to decrypt only after close()                *)
(***************************************************************************)
EXTENDS Naturals, FiniteSets

CONSTANTS MaxSessions,  \* bound on sessions ever made
          MaxLocks      \* bound on locks of the vault

ASSUME ManagerAssumption == MaxSessions \in Nat /\ MaxLocks \in Nat

VARIABLES
    sess,     \* [session -> its state]; sessions are numbered as made
    current,  \* privateRefs.session, 0 for null
    conn,     \* AppState.connection: its state and the session that set it
    screen,   \* overlay, pane of the connect overlay, has the pane started?
    locked,   \* vault locked (privateRefs.identity is null)
    made,     \* sessions and locks so far
    contacts, \* sessions that reported a contact, and did so without keys
    amiss     \* history: see above

vars == <<sess, current, conn, screen, locked, made, contacts, amiss>>

Session == 1..MaxSessions
Panes == {"invite", "code", "paste", "scan"}
Unmade == [role |-> "none", call |-> "none", socket |-> FALSE, heard |-> FALSE,
           pc |-> "none", stage |-> "idle", closed |-> FALSE]
NoScreen == [overlay |-> "none", pane |-> "invite", started |-> FALSE]

Init ==
    /\ sess = [s \in Session |-> Unmade] /\ current = 0
    /\ conn = [state |-> "offline", from |-> 0]
    /\ screen = NoScreen /\ locked = FALSE
    /\ made = [sessions |-> 0, locks |-> 0]
    /\ contacts = [all |-> {}, keyless |-> {}] /\ amiss = {}

Made(s) == sess[s].role # "none"
Shows(state, s) == conn' = [state |-> state, from |-> s]
Blame(condition, way) == amiss' = IF condition THEN amiss \cup {way} ELSE amiss

-----------------------------------------------------------------------------
(* teardown of a session: timers, channel, connection, socket, handlers.    *)
(* What is awaited goes on: a negotiation, the making of the hello, the     *)
(* handshake, and what was being decrypted.                                 *)
Outlives(stage) ==
    CASE stage \in {"offered", "linked"} -> "cut"
      [] stage \in {"greeting", "crossed", "verifying"} -> stage
      [] stage \in {"secure", "ended"} -> "ended"
      [] OTHER -> "idle"

ClosedOnScreen(x) == [x EXCEPT !.closed = TRUE]
Closed(x) ==
    IF x.closed THEN x
    ELSE [x EXCEPT !.closed = TRUE, !.socket = FALSE, !.heard = FALSE,
                   !.pc = IF @ = "up" THEN "shut" ELSE @,
                   !.stage = Outlives(@)]

WithoutCurrentKept == sess
WithoutCurrent == IF current = 0 THEN sess ELSE [sess EXCEPT ![current] = Closed(@)]

cancelSession ==
    /\ sess' = WithoutCurrent /\ current' = 0
    /\ Shows("offline", 0)

(* A new session replaces the current one, and shows itself at once.        *)
Begins(role) ==
    LET s == made.sessions + 1 IN
    /\ made.sessions < MaxSessions /\ ~locked
    /\ sess' = [WithoutCurrent EXCEPT ![s].role = role, ![s].call = "connect"]
    /\ current' = s /\ Shows("discovering-peer", s)
    /\ screen' = [screen EXCEPT !.started = TRUE]
    /\ made' = [made EXCEPT !.sessions = s]
    /\ UNCHANGED <<locked, contacts, amiss>>

In(pane) == screen.overlay = "connect" /\ screen.pane = pane

hostSession ==
    /\ In("invite") /\ (~screen.started \/ conn.state = "error")
    /\ Begins("host")

(* Each pane offers joinSession in its own way: the code pane at any time,   *)
(* the pasted payload unless a rendezvous is shown, the camera once.        *)
CodePane == In("code")
PastePane == In("paste") /\ conn.state # "discovering-peer"
ScanPane == In("scan") /\ ~screen.started

joinSession ==
    /\ CodePane \/ PastePane \/ ScanPane
    /\ Begins("join")

-----------------------------------------------------------------------------
(* The connect overlay.  Leaving it or changing the pane cancels.           *)
OpenConnect ==
    /\ ~locked /\ screen.overlay # "connect"
    /\ screen' = [overlay |-> "connect", pane |-> "invite", started |-> FALSE]
    /\ UNCHANGED <<sess, current, conn, locked, made, contacts, amiss>>

switchMode(pane) ==
    /\ screen.overlay = "connect" /\ pane # screen.pane
    /\ screen' = [screen EXCEPT !.pane = pane, !.started = FALSE]
    /\ cancelSession
    /\ UNCHANGED <<locked, made, contacts, amiss>>

leave ==
    /\ screen.overlay = "connect" /\ screen' = NoScreen
    /\ cancelSession
    /\ UNCHANGED <<locked, made, contacts, amiss>>

CloseChat ==
    /\ screen.overlay = "chat" /\ screen' = NoScreen
    /\ UNCHANGED <<sess, current, conn, locked, made, contacts, amiss>>

lockVault ==
    /\ ~locked /\ made.locks < MaxLocks
    /\ locked' = TRUE /\ screen' = NoScreen
    /\ made' = [made EXCEPT !.locks = @ + 1]
    /\ cancelSession
    /\ UNCHANGED <<contacts, amiss>>

Unlock ==
    /\ locked /\ locked' = FALSE
    /\ UNCHANGED <<sess, current, conn, screen, made, contacts, amiss>>

-----------------------------------------------------------------------------
(* The awaited call to the relay.  destroy() does not stop a socket that is *)
(* connecting: connect() adopts it and the call goes on.                    *)
SocketConnects(s) ==
    /\ sess[s].call = "connect"
    /\ sess' = [sess EXCEPT ![s].call = "request", ![s].socket = TRUE]
    /\ Blame(sess[s].closed, "outlived")
    /\ UNCHANGED <<current, conn, screen, locked, made, contacts>>

(* host() and join() register their handlers, and the store shows the       *)
(* rendezvous, whichever session is current by then.                        *)
Granted(s) ==
    /\ sess[s].call = "request" /\ sess[s].socket
    /\ sess' = [sess EXCEPT ![s].call = "done", ![s].heard = TRUE]
    /\ Shows("discovering-peer", s)
    /\ Blame(sess[s].closed, "outlived")
    /\ UNCHANGED <<current, screen, locked, made, contacts>>

(* catch: no connection, a refusal of the relay, or its answer timed out.   *)
CallFails(s) ==
    /\ sess[s].call \in {"connect", "request"}
    /\ sess' = [sess EXCEPT ![s].call = "done"]
    /\ current' = 0 /\ Shows("error", s)
    /\ amiss' = amiss \cup (IF sess[s].closed THEN {"outlived"} ELSE {})
                      \cup (IF sess[s].socket THEN {"refused"} ELSE {})
    /\ UNCHANGED <<screen, locked, made, contacts>>

-----------------------------------------------------------------------------
(* Negotiation.  negotiate() of a host does not look at closed; onSignal    *)
(* does.                                                                    *)
PeerJoined(s) ==
    /\ sess[s].role = "host" /\ sess[s].heard /\ sess[s].socket /\ sess[s].pc = "none"
    /\ sess' = [sess EXCEPT ![s].pc = "up", ![s].stage = "offered"]
    /\ Shows("connecting", s)
    /\ UNCHANGED <<current, screen, locked, made, contacts, amiss>>

OfferArrives(s) ==
    /\ sess[s].role = "join" /\ sess[s].heard /\ sess[s].socket /\ ~sess[s].closed
    /\ sess[s].pc = "none"
    /\ sess' = [sess EXCEPT ![s].pc = "up", ![s].stage = "linked"]
    /\ Shows("connecting", s)
    /\ UNCHANGED <<current, screen, locked, made, contacts, amiss>>

AnswerArrives(s) ==
    /\ sess[s].stage = "offered" /\ sess[s].socket /\ ~sess[s].closed
    /\ sess' = [sess EXCEPT ![s].stage = "linked"]
    /\ UNCHANGED <<current, conn, screen, locked, made, contacts, amiss>>

(* setState("error") and teardown: onClosed shows "disconnected" over it    *)
(* while the store has a session.                                           *)
Ends(s, state) ==
    /\ sess' = [sess EXCEPT ![s] = state]
    /\ Shows(IF current = 0 \/ sess[s].closed THEN "error" ELSE "disconnected", s)
    /\ UNCHANGED <<current, screen, made, locked, contacts>>

NegotiationFailsUntimed(s) ==
    /\ Made(s) /\ ~sess[s].closed /\ sess[s].pc # "none" /\ sess[s].stage # "secure"
    /\ Ends(s, Closed(sess[s])) /\ UNCHANGED amiss
NegotiationFails(s) ==
    /\ Made(s) /\ ~sess[s].closed
    /\ \/ sess[s].pc # "none" /\ sess[s].stage # "secure"  \* an error, or a timer
       \/ sess[s].role = "join" /\ sess[s].heard /\ sess[s].stage = "idle"
    /\ Ends(s, Closed(sess[s])) /\ UNCHANGED amiss

(* The await of a negotiation that was torn down under it throws.           *)
NegotiationBreaks(s) ==
    /\ sess[s].stage = "cut"
    /\ Ends(s, [sess[s] EXCEPT !.stage = "idle"]) /\ UNCHANGED amiss

-----------------------------------------------------------------------------
(* The handshake.  The channel opens, and createHello is awaited.           *)
ChannelOpens(s) ==
    /\ sess[s].stage = "linked" /\ sess[s].pc = "up"
    /\ sess' = [sess EXCEPT ![s].stage = "greeting"]
    /\ Shows("connected", s)
    /\ UNCHANGED <<current, screen, locked, made, contacts, amiss>>

(* The peer's hello is verified.  It fails for want of a key of one's own   *)
(* when it comes before one's own hello is made, but is remembered.         *)
HelloArrives(s) ==
    /\ sess[s].pc = "up" /\ ~sess[s].closed
    /\ \/ /\ sess[s].stage = "greeted"
          /\ sess' = [sess EXCEPT ![s].stage = "verifying"]
          /\ Shows("connected", s)
          /\ UNCHANGED <<current, screen, locked, made, contacts>>
       \/ /\ sess[s].stage = "greeting"
          /\ Ends(s, [Closed(sess[s]) EXCEPT !.stage = "crossed"])
    /\ UNCHANGED amiss

(* createHello resolved.  A session that was closed meanwhile has no        *)
(* channel to send on, and shows "connected" all the same; one whose        *)
(* channel has closed throws.  A hello that is remembered is verified now.  *)
HelloMade(s) ==
    /\ sess[s].stage \in {"greeting", "crossed"}
    /\ sess' = [sess EXCEPT ![s].stage =
                  IF @ = "crossed" THEN "verifying"
                  ELSE IF sess[s].closed THEN "idle" ELSE "greeted"]
    /\ IF sess[s].pc = "shut" /\ ~sess[s].closed THEN UNCHANGED conn
       ELSE Shows("connected", s)
    /\ Blame(sess[s].closed, "greeted")
    /\ UNCHANGED <<current, screen, locked, made, contacts>>

HandshakeFails(s) ==
    /\ sess[s].stage = "verifying"
    /\ Ends(s, [Closed(sess[s]) EXCEPT !.stage = "idle"]) /\ UNCHANGED amiss

(* The keys of the contact are asked of the store's session, not of s.      *)
HasKeys(s) == current # 0 /\ (current = s \/ sess[current].stage = "secure")

(* onSecure throws when the vault is locked; the catch ends the session,    *)
(* unless it is closed already.                                             *)
Secure(s) ==
    /\ sess[s].stage = "verifying"
    /\ IF locked THEN Ends(s, [Closed(sess[s]) EXCEPT !.stage =
                                 IF sess[s].closed THEN "secure" ELSE "idle"])
       ELSE /\ sess' = [sess EXCEPT ![s].stage = "secure"]
            /\ Shows("secure", s)
            /\ screen' = [NoScreen EXCEPT !.overlay = "chat"]
            /\ contacts' = [all |-> contacts.all \cup {s},
                            keyless |-> IF HasKeys(s) THEN contacts.keyless
                                        ELSE contacts.keyless \cup {s}]
            /\ UNCHANGED <<current, locked, made>>
    /\ Blame(sess[s].closed, "late")

(* A frame or an attachment fails to decrypt: "secure" is shown with the    *)
(* notice, whatever has become of the session.                              *)
FrameFails(s) ==
    /\ sess[s].stage \in {"secure", "ended"}
    /\ Shows("secure", s)
    /\ Blame(sess[s].closed, "dropped")
    /\ UNCHANGED <<sess, current, screen, locked, made, contacts>>

-----------------------------------------------------------------------------
(* Losses, which a closed session does not report.                          *)
Reports(s, state) == IF sess[s].closed THEN UNCHANGED conn ELSE Shows(state, s)

ChannelCloses(s) ==
    /\ sess[s].stage \in {"greeting", "greeted", "verifying", "secure"}
    /\ sess[s].pc = "up"
    /\ sess' = [sess EXCEPT ![s].pc = "shut"] /\ Reports(s, "disconnected")
    /\ UNCHANGED <<current, screen, locked, made, contacts, amiss>>

ChannelErrs(s) ==
    /\ sess[s].pc # "none" /\ Reports(s, "error")
    /\ UNCHANGED <<sess, current, screen, locked, made, contacts, amiss>>

(* handleClosed: the relay closed the channel, or was lost itself.          *)
RelayCloses(s) ==
    /\ sess[s].socket /\ sess[s].heard /\ Reports(s, "disconnected")
    /\ UNCHANGED <<sess, current, screen, locked, made, contacts, amiss>>

RelayLost(s) ==
    /\ sess[s].socket
    /\ sess' = [sess EXCEPT ![s].socket = FALSE]
    /\ IF sess[s].heard THEN Reports(s, "disconnected") ELSE UNCHANGED conn
    /\ UNCHANGED <<current, screen, locked, made, contacts, amiss>>

-----------------------------------------------------------------------------
Settles(s) == SocketConnects(s) \/ Granted(s) \/ CallFails(s)

Next ==
    \/ hostSession \/ joinSession \/ OpenConnect \/ leave \/ CloseChat
    \/ \E pane \in Panes : switchMode(pane)
    \/ lockVault \/ Unlock
    \/ \E s \in Session :
         \/ Settles(s) \/ PeerJoined(s) \/ OfferArrives(s) \/ AnswerArrives(s)
         \/ NegotiationFails(s) \/ NegotiationBreaks(s)
         \/ ChannelOpens(s) \/ HelloMade(s) \/ HelloArrives(s)
         \/ HandshakeFails(s) \/ Secure(s) \/ FrameFails(s)
         \/ ChannelCloses(s) \/ ChannelErrs(s) \/ RelayCloses(s) \/ RelayLost(s)

Spec == Init /\ [][Next]_vars

(* The relay's call settles: it has a timer (signaling-client.ts).  So does *)
(* everything a joiner waits for.                                           *)
FairSpec ==
    /\ Spec
    /\ \A s \in Session :
         WF_vars(Settles(s)) /\ WF_vars(NegotiationFails(s)) /\ WF_vars(Secure(s))

-----------------------------------------------------------------------------
Only(ways) == amiss \subseteq ways
Ways == {"outlived", "refused", "late", "greeted", "dropped"}
Stages == {"idle", "offered", "linked", "cut", "greeting", "crossed", "greeted",
           "verifying", "secure", "ended"}
States == {"offline", "discovering-peer", "connecting", "connected", "secure",
           "disconnected", "error"}

(* The values the store and its sessions can hold; the store's session is   *)
(* one of those that were made.                                             *)
TypeOK ==
    /\ sess \in [Session ->
         [role : {"none", "host", "join"}, call : {"none", "connect", "request", "done"},
          socket : BOOLEAN, heard : BOOLEAN, pc : {"none", "up", "shut"},
          stage : Stages, closed : BOOLEAN]]
    /\ current \in 0..made.sessions
    /\ conn \in [state : States, from : 0..MaxSessions]
    /\ screen \in [overlay : {"none", "connect", "chat"}, pane : Panes, started : BOOLEAN]
    /\ locked \in BOOLEAN
    /\ made \in [sessions : 0..MaxSessions, locks : 0..MaxLocks]
    /\ contacts \in [all : SUBSET Session, keyless : SUBSET Session]
    /\ amiss \subseteq Ways

(* A socket or a peer connection that is up belongs to the session the      *)
(* store would close: leaving the overlay or locking the vault ends it.     *)
AliveIsCurrent ==
    Only({"late", "greeted", "dropped"}) =>
        \A s \in Session : sess[s].socket \/ sess[s].pc = "up" => s = current

(* What the screens show as a rendezvous or a connection in progress is the *)
(* current session's: its code is the one that others can join.             *)
ShownIsCurrent ==
    Only({"refused"}) /\ conn.state # "error" => conn.from \in {0, current}

(* "Secure" is shown only while the store's session has its keys, so that   *)
(* what is sent from the chat goes to the peer it names.                    *)
SecureIsUsable ==
    Only({"refused", "greeted"}) /\ conn.state = "secure" =>
        current # 0 /\ conn.from = current /\ sess[current].stage = "secure"

(* A contact is saved with the keys its session verified.                   *)
ContactsHaveKeys == Only({"refused", "greeted", "dropped"}) => contacts.keyless = {}

(* Two peers are never secure at once on one device.                        *)
OneSecureSession ==
    Only({"refused", "greeted", "dropped"}) =>
        Cardinality({s \in Session : sess[s].stage = "secure"}) <= 1

(* The store, its session and the screens agree, in one formula.            *)
SessionsAgree ==
    TypeOK /\ AliveIsCurrent /\ ShownIsCurrent /\ SecureIsUsable /\ ContactsHaveKeys

(* What a pane waits for comes: the call to the relay settles, and a joiner *)
(* that was let into the channel is decided.                                *)
CallsSettle(s) == sess[s].call = "connect" ~> sess[s].call = "done"
JoinIsDecided(s) ==
    (sess[s].role = "join" /\ sess[s].heard /\ ~sess[s].closed)
        ~> (sess[s].closed \/ sess[s].stage = "secure")
RendezvousAnswered == \A s \in Session : CallsSettle(s) /\ JoinIsDecided(s)
=============================================================================

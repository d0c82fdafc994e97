--------------------------- MODULE SignalingRelay ---------------------------
(***************************************************************************)
(* The signaling service, mini-services/signaling/index.ts: the channels   *)
(* Map, the socketToChannel Map and each connection's boundCode.  Node     *)
(* runs one handler at a time, so each handler is one action.              *)
(*                                                                         *)
(* The clients are the SignalingClients of src/services: a socket of its   *)
(* own per session, one create or one join on it, then signals, and at the *)
(* end "leave" and a disconnect, or just a disconnect.  A signal names its *)
(* code itself: the service never looks whose channel that is.             *)
(*                                                                         *)
(* Time is abstracted to a flag: a channel becomes older than              *)
(* CHANNEL_TTL_MS at some moment, and the next sweep destroys it.          *)
(***************************************************************************)
EXTENDS Naturals, FiniteSets

CONSTANTS Socket,      \* connections, each used by one session
          Code,        \* rendezvous codes
          NoSocket,    \* null
          NoCode,      \* null / undefined
          FreshCodes   \* does generateChannelCode never repeat a code?

ASSUME RelayAssumption ==
    NoSocket \notin Socket /\ NoCode \notin Code /\ FreshCodes \in BOOLEAN

VARIABLES
    channels,         \* [Code -> channel or NoChannel]
    socketToChannel,  \* [Socket -> Code or NoCode]
    boundCode,        \* [Socket -> Code or NoCode]: closure of each connection
    conn,             \* [Socket -> "new", "open", "left" or "closed"]
    relayed,          \* the signal the last step passed on: from, to
    told,             \* sockets that were sent "channel-closed"
    woken,            \* sockets that were sent "peer-joined"
    used              \* history: codes a channel was ever created under

relayVars == <<channels, socketToChannel, boundCode, conn, relayed, told, woken, used>>

NoChannel == [creator |-> NoSocket, joiner |-> NoSocket, old |-> FALSE]
Channel == [creator : Socket, joiner : Socket \cup {NoSocket}, old : BOOLEAN]

NoSignal == [from |-> NoSocket, to |-> NoSocket]

Exists(c) == channels[c] # NoChannel
Members(c) == {channels[c].creator, channels[c].joiner} \ {NoSocket}
Live(s) == conn[s] \in {"open", "left"}
Silent == relayed' = NoSignal

RelayInit ==
    /\ channels = [c \in Code |-> NoChannel]
    /\ socketToChannel = [s \in Socket |-> NoCode]
    /\ boundCode = [s \in Socket |-> NoCode]
    /\ conn = [s \in Socket |-> "new"]
    /\ relayed = NoSignal
    /\ told = {}
    /\ woken = {}
    /\ used = {}

-----------------------------------------------------------------------------
(* destroyChannel, for every code of C: both members are unmapped and told; *)
(* their boundCode stays.                                                   *)
MembersOf(C) == UNION {Members(c) : c \in C}
ChannelsWithout(C) == [c \in Code |-> IF c \in C THEN NoChannel ELSE channels[c]]

(* Mutant of Unmapped: only the creator is unmapped.                        *)
UnmappedCreatorOnly(C) ==
    [s \in Socket |-> IF \E c \in C : channels[c].creator = s
                        THEN NoCode ELSE socketToChannel[s]]
(* Mutant of Notify: the channel ends silently.                             *)
NotifyNobody(C) == UNCHANGED told

Unmapped(C) ==
    [s \in Socket |-> IF s \in MembersOf(C) THEN NoCode ELSE socketToChannel[s]]
Notify(C) == told' = told \cup {s \in MembersOf(C) : Live(s)}

(* Mutant of Expired: the comparison is the wrong way round.                *)
ExpiredInverted == {c \in Code : Exists(c) /\ ~channels[c].old}

(* The channels sweepExpired destroys.                                      *)
Expired == {c \in Code : channels[c].old}

Sweep ==
    /\ Expired # {}
    /\ channels' = ChannelsWithout(Expired)
    /\ socketToChannel' = Unmapped(Expired)
    /\ Notify(Expired)
    /\ Silent
    /\ UNCHANGED <<boundCode, conn, woken, used>>

Grow(c) ==
    /\ Exists(c) /\ ~channels[c].old
    /\ channels' = [channels EXCEPT ![c].old = TRUE]
    /\ Silent
    /\ UNCHANGED <<socketToChannel, boundCode, conn, told, woken, used>>

(* A client connects and asks once; boundCode stays null if it is refused.  *)
Asks(s) == conn[s] = "new" /\ conn' = [conn EXCEPT ![s] = "open"]

Refuse ==
    /\ channels' = ChannelsWithout(Expired)
    /\ socketToChannel' = Unmapped(Expired)
    /\ UNCHANGED <<boundCode, woken, used>>

(* channel:create.                                                          *)
Create(s, c) ==
    /\ Asks(s)
    /\ FreshCodes => c \notin used
    /\ Notify(Expired)
    /\ IF Exists(c) /\ c \notin Expired
         THEN Refuse
         ELSE /\ channels' = [ChannelsWithout(Expired) EXCEPT
                                ![c] = [creator |-> s, joiner |-> NoSocket, old |-> FALSE]]
              /\ socketToChannel' = [Unmapped(Expired) EXCEPT ![s] = c]
              /\ boundCode' = [boundCode EXCEPT ![s] = c]
              /\ used' = used \cup {c}
              /\ UNCHANGED woken
    /\ Silent

(* channel:join is refused when there is no such channel, when another      *)
(* socket holds the second place, and to the creator itself.  Mutants: a    *)
(* full channel is not; nobody looks whether there is a channel.            *)
JoinRefusedUnlessFull(s, c) == ~Exists(c) \/ c \in Expired \/ channels[c].creator = s
JoinRefusedUnseen(s, c) ==
    channels[c].joiner \notin {NoSocket, s} \/ channels[c].creator = s
JoinRefused(s, c) ==
    \/ ~Exists(c) \/ c \in Expired
    \/ channels[c].joiner \notin {NoSocket, s}
    \/ channels[c].creator = s

Join(s, c) ==
    /\ Asks(s)
    /\ Notify(Expired)
    /\ IF JoinRefused(s, c)
         THEN Refuse
         ELSE /\ channels' = [ChannelsWithout(Expired) EXCEPT ![c].joiner = s]
              /\ socketToChannel' = [Unmapped(Expired) EXCEPT ![s] = c]
              /\ boundCode' = [boundCode EXCEPT ![s] = c]
              /\ woken' = woken \cup {channels[c].creator}
              /\ UNCHANGED used
    /\ Silent

(* signal goes from the creator to the joiner, from anybody else to the     *)
(* creator.  Mutant: the two ends are swapped.                              *)
TargetSwapped(s, ch) == IF ch.creator = s THEN ch.creator ELSE ch.joiner
Target(s, ch) == IF ch.creator = s THEN ch.joiner ELSE ch.creator

Signal(s, c) ==
    /\ Live(s) /\ Exists(c)
    /\ LET target == Target(s, channels[c]) IN
         /\ target # NoSocket /\ Live(target)
         /\ relayed' = [from |-> s, to |-> target]
    /\ UNCHANGED <<channels, socketToChannel, boundCode, conn, told, woken, used>>

(* channel:leave destroys whatever channel goes by boundCode now.           *)
Leave(s) ==
    /\ conn[s] = "open"
    /\ conn' = [conn EXCEPT ![s] = "left"]
    /\ LET gone == {c \in Code : c = boundCode[s] /\ Exists(c)} IN
         /\ channels' = ChannelsWithout(gone)
         /\ socketToChannel' = Unmapped(gone)
         /\ Notify(gone)
    /\ boundCode' = [boundCode EXCEPT ![s] = NoCode]
    /\ Silent
    /\ UNCHANGED <<woken, used>>

(* disconnect: socketToChannel.get(socket.id) ?? boundCode.                 *)
Disconnect(s) ==
    /\ Live(s)
    /\ conn' = [conn EXCEPT ![s] = "closed"]
    /\ LET code == IF socketToChannel[s] # NoCode THEN socketToChannel[s]
                                                  ELSE boundCode[s]
           gone == {c \in Code : c = code /\ Exists(c)} IN
         /\ channels' = ChannelsWithout(gone)
         /\ socketToChannel' = [Unmapped(gone) EXCEPT ![s] = NoCode]
         /\ told' = told \cup {t \in MembersOf(gone) \ {s} : Live(t)}
    /\ Silent
    /\ UNCHANGED <<boundCode, woken, used>>

RelayNext ==
    \/ Sweep
    \/ \E c \in Code : Grow(c)
    \/ \E s \in Socket, c \in Code : Create(s, c) \/ Join(s, c) \/ Signal(s, c)
    \/ \E s \in Socket : Leave(s) \/ Disconnect(s)

RelaySpec == RelayInit /\ [][RelayNext]_relayVars

(* setInterval(sweepExpired, 30_000).                                       *)
RelayFairSpec == RelaySpec /\ WF_relayVars(Sweep)

-----------------------------------------------------------------------------
(* Properties.                                                              *)

RelayTypeOK ==
    /\ channels \in [Code -> Channel \cup {NoChannel}]
    /\ socketToChannel \in [Socket -> Code \cup {NoCode}]
    /\ boundCode \in [Socket -> Code \cup {NoCode}]
    /\ conn \in [Socket -> {"new", "open", "left", "closed"}]
    /\ relayed \in [from : Socket \cup {NoSocket}, to : Socket \cup {NoSocket}]
    /\ told \subseteq Socket /\ woken \subseteq Socket /\ used \subseteq Code

(* The two maps agree: a socket is mapped to a code exactly when it is a    *)
(* member of the channel under that code, so disconnect always finds the    *)
(* channel to tear down, and no member of a live channel is gone.           *)
MapsAgree ==
    \A s \in Socket : \A c \in Code :
        /\ socketToChannel[s] = c <=> s \in Members(c)
        /\ s \in Members(c) => conn[s] = "open"

(* A signal reaches only members of a live channel, whoever sends it under  *)
(* that code: the joiner hears from nobody but a creator that was woken for *)
(* it, so its offer is the one of the channel it joined; the creator never  *)
(* hears itself; and whoever left or went hears no more.                    *)
SignalsStayInChannel ==
    [][LET s == relayed'.from
           t == relayed'.to
       IN  relayed' # NoSignal =>
              /\ conn[t] = "open"
              /\ \E c \in Code :
                    \/ t = channels[c].joiner /\ s = channels[c].creator /\ s \in woken
                    \/ t = channels[c].creator /\ s # t]_relayVars

(* A channel ends because it is too old or because one of its own members   *)
(* left or disconnected - never through somebody else's.                    *)
OnlyMembersEndChannel ==
    [][\A c \in Code : Exists(c) /\ ~Exists(c)' =>
            channels[c].old \/ \E s \in Members(c) : conn'[s] # conn[s]]_relayVars

(* A client that was let into a channel is told when it ends, unless it     *)
(* left itself: nobody keeps waiting under a dead code unawares.            *)
EndIsAnnounced ==
    \A s \in Socket :
        conn[s] = "open" /\ boundCode[s] # NoCode /\ s \notin Members(boundCode[s])
            => s \in told

(* While codes do not repeat, each code is good for one meeting of two.     *)
Meeting == INSTANCE Rendezvous WITH
    Nobody <- NoSocket,
    phase <- [c \in Code |-> IF ~Exists(c) THEN IF c \in used THEN "spent" ELSE "unused"
                             ELSE IF channels[c].joiner = NoSocket THEN "waiting"
                             ELSE "paired"],
    host <- [c \in Code |-> channels[c].creator],
    guest <- [c \in Code |-> channels[c].joiner]
RendezvousSpec == Meeting!Spec

(* "destroyed on ... timeout" (index.ts:8): an old channel does not last.   *)
OldChannelsEnd == \A c \in Code : channels[c].old ~> ~channels[c].old
=============================================================================

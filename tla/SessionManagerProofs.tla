------------------------ MODULE SessionManagerProofs ------------------------
(***************************************************************************)
(* SessionsAgree and OneSecureSession of SessionManager, proved for any    *)
(* number of sessions and of locks.                                        *)
(*                                                                         *)
(* What the screens show, what is alive and what is secure is not          *)
(* inductive by itself: it rests on what is left of the sessions that are  *)
(* no longer the store's.  A session the store let go was closed, or its   *)
(* call to the relay failed before anything had begun; a closed session    *)
(* has neither socket nor connection, unless its call outlived close();    *)
(* and while a call is awaited nothing has been negotiated.  OthersLeft,   *)
(* AllOrderly and Unused of ManagerInv say so.                             *)
(***************************************************************************)
EXTENDS SessionManager, FiniteSetTheorems, TLAPS

(* The state of one session.                                                *)
Record == [role : {"none", "host", "join"}, call : {"none", "connect", "request", "done"},
           socket : BOOLEAN, heard : BOOLEAN, pc : {"none", "up", "shut"},
           stage : Stages, closed : BOOLEAN]

(* Its fields,                                                              *)
Fields == DOMAIN Unmade

(* and a record whose fields are of their types.                            *)
Typed(t) ==
    /\ t.role \in {"none", "host", "join"}
    /\ t.call \in {"none", "connect", "request", "done"}
    /\ t.socket \in BOOLEAN /\ t.heard \in BOOLEAN
    /\ t.pc \in {"none", "up", "shut"}
    /\ t.stage \in Stages
    /\ t.closed \in BOOLEAN

(* A session's record is made of its fields, each of its type.              *)
LEMMA RecordFields ==
    ASSUME NEW x \in Record
    PROVE  Typed(x) /\ DOMAIN x = Fields
BY DEF Record, Typed, Fields, Unmade

(* A record updated in some fields is one of a session if every field is    *)
(* still of its type.                                                       *)
LEMMA RecordUpdated ==
    ASSUME NEW x \in Record, NEW t, t = [y \in DOMAIN x |-> t[y]], Typed(t)
    PROVE  t \in Record
<1>1. t = [y \in Fields |-> t[y]]
    BY RecordFields
<1>2. t = [role |-> t.role, call |-> t.call, socket |-> t.socket, heard |-> t.heard,
           pc |-> t.pc, stage |-> t.stage, closed |-> t.closed]
    BY <1>1 DEF Fields, Unmade
<1>3. QED
    BY <1>2 DEF Record, Typed

(* close() leaves neither a socket nor a handler nor a connection that is   *)
(* up; only a handshake that is awaited goes on.                            *)
LEMMA ClosedIs ==
    ASSUME NEW x \in Record, NEW t, t = Closed(x)
    PROVE  /\ t \in Record /\ t.closed /\ t.call = x.call
           /\ x.closed => t = x
           /\ ~x.closed => /\ ~t.socket /\ ~t.heard /\ t.pc = (IF x.pc = "up" THEN "shut" ELSE x.pc)
                           /\ t.stage = Outlives(x.stage)
<1>1. CASE x.closed
    BY <1>1 DEF Closed
<1>2. CASE ~x.closed
    <2>1. t = [x EXCEPT !.closed = TRUE, !.socket = FALSE, !.heard = FALSE,
                        !.pc = IF x.pc = "up" THEN "shut" ELSE x.pc,
                        !.stage = Outlives(x.stage)]
        BY <1>2 DEF Closed
    <2>2. Typed(x) /\ DOMAIN x = Fields /\ t = [y \in DOMAIN x |-> t[y]]
        BY <2>1, RecordFields
    <2>a. Outlives(x.stage) \in Stages
        BY <2>2 DEF Typed, Outlives, Stages
    <2>3. Typed(t)
        BY <2>1, <2>2, <2>a DEF Typed, Fields, Unmade
    <2>4. t \in Record
        BY <2>2, <2>3, RecordUpdated
    <2>5. QED
        BY <1>2, <2>1, <2>2, <2>4 DEF Fields, Unmade
<1>3. QED
    BY <1>1, <1>2

(* While the call to the relay is awaited nothing has been negotiated, and  *)
(* only a closed session has awaits that close() has overtaken.             *)
Orderly(x) ==
    /\ x.call \in {"connect", "request"} => x.pc = "none" /\ ~x.heard /\ x.stage = "idle"
    /\ x.stage \in {"cut", "crossed", "ended"} => x.closed

(* Nothing of a closed session is alive, and it is not secure unless its    *)
(* handshake was completed late.                                            *)
ShutOK(x, ways) ==
    x.closed => /\ ~x.socket /\ ~x.heard /\ x.pc # "up"
                /\ "late" \in ways \/ x.stage # "secure"

(* A session the store let go was closed, or its call failed at the start;  *)
(* its socket is closed unless the relay refused the call.                  *)
Left(x, ways) ==
    /\ x.closed \/ (x.call \in {"none", "done"} /\ ~x.heard /\ x.pc = "none" /\ x.stage = "idle")
    /\ "refused" \in ways \/ ~x.socket

(* Sessions not made yet are untouched.                                     *)
Unused == \A s \in Session : s > made.sessions => sess[s] = Unmade

(* Orderly, of every session.                                               *)
AllOrderly == \A s \in Session : Orderly(sess[s])

(* Unless a call outlived close(), closed sessions are shut and all but the *)
(* store's were let go.                                                     *)
OthersLeft == "outlived" \notin amiss =>
    \A s \in Session : ShutOK(sess[s], amiss) /\ (s # current => Left(sess[s], amiss))

(* The inductive invariant.                                                 *)
ManagerInv ==
    /\ TypeOK /\ Unused /\ AllOrderly /\ OthersLeft
    /\ ShownIsCurrent /\ SecureIsUsable /\ ContactsHaveKeys

(* The parts of TypeOK that the steps below use.                            *)
LEMMA TypeParts ==
    ASSUME TypeOK
    PROVE  /\ sess \in [Session -> Record] /\ made.sessions \in 0..MaxSessions
           /\ made.locks \in 0..MaxLocks /\ current \in 0..made.sessions
           /\ current \in Nat /\ current # 0 => current \in Session
           /\ conn = [state |-> conn.state, from |-> conn.from]
           /\ MaxSessions \in Nat /\ MaxLocks \in Nat
           /\ 0 \notin Session
BY ManagerAssumption DEF TypeOK, Record, Session

(* A step that changes one session keeps what ManagerInv says of all of     *)
(* them, if it keeps it of that one and the store's session stays, or was   *)
(* that one.                                                                *)
LEMMA OneChanges ==
    ASSUME TypeOK, Unused, AllOrderly, OthersLeft, NEW s \in Session, NEW t \in Record,
           sess' = [sess EXCEPT ![s] = t], sess[s] # Unmade,
           made' = made, amiss \subseteq amiss', Orderly(t),
           "outlived" \notin amiss' =>
               /\ ShutOK(t, amiss') /\ (s # current' => Left(t, amiss'))
               /\ current' = current \/ current = s
    PROVE  Unused' /\ AllOrderly' /\ OthersLeft'
<1>1. sess \in [Session -> Record]
    BY TypeParts
<1>2. Unused'
    BY <1>1 DEF Unused
<1>3. AllOrderly'
    BY <1>1 DEF AllOrderly, Orderly
<1>4. OthersLeft'
    <2> SUFFICES ASSUME "outlived" \notin amiss', NEW q \in Session
                 PROVE  ShutOK(sess'[q], amiss') /\ (q # current' => Left(sess'[q], amiss'))
        BY DEF OthersLeft
    <2>1. CASE q = s
        BY <1>1, <2>1
    <2>2. CASE q # s
        <3>1. sess'[q] = sess[q] /\ ShutOK(sess[q], amiss) /\ (q # current => Left(sess[q], amiss))
            BY <1>1, <2>2 DEF OthersLeft
        <3>2. q # current' => q # current
            BY <2>2
        <3>3. QED
            BY <3>1, <3>2 DEF ShutOK, Left
    <2>3. QED
        BY <2>1, <2>2
<1>5. QED
    BY <1>2, <1>3, <1>4

(* After close() of the store's session every session was let go.           *)
LEMMA Cancelled ==
    ASSUME TypeOK, Unused, AllOrderly, OthersLeft
    PROVE  /\ WithoutCurrent \in [Session -> Record]
           /\ \A s \in Session : s > made.sessions => WithoutCurrent[s] = Unmade
           /\ \A s \in Session : Orderly(WithoutCurrent[s])
           /\ "outlived" \notin amiss =>
                \A s \in Session : /\ ShutOK(WithoutCurrent[s], amiss)
                                     /\ Left(WithoutCurrent[s], amiss)
<1>1. sess \in [Session -> Record] /\ made.sessions \in Nat
    BY TypeParts
<1>2. CASE current = 0
    <2>1. WithoutCurrent = sess
        BY <1>2 DEF WithoutCurrent
    <2>2. \A s \in Session : s # current
        BY <1>2 DEF Session
    <2>3. QED
        BY <1>1, <2>1, <2>2 DEF Unused, AllOrderly, OthersLeft
<1>3. CASE current # 0
    <2>1. current \in Session /\ current <= made.sessions
        BY <1>3, TypeParts
    <2> DEFINE t == Closed(sess[current])
    <2>2. sess[current] \in Record
        BY <1>1, <2>1
    <2>3. /\ t \in Record /\ t.closed /\ t.call = sess[current].call
          /\ sess[current].closed => t = sess[current]
          /\ ~sess[current].closed =>
               /\ ~t.socket /\ ~t.heard
               /\ t.pc = (IF sess[current].pc = "up" THEN "shut" ELSE sess[current].pc)
               /\ t.stage = Outlives(sess[current].stage)
        BY <2>2, ClosedIs
    <2>4. WithoutCurrent = [sess EXCEPT ![current] = t]
        BY <1>1, <1>3, <2>1 DEF WithoutCurrent
    <2> HIDE DEF t
    <2>5. /\ WithoutCurrent \in [Session -> Record] /\ WithoutCurrent[current] = t
          /\ \A s \in Session : s # current => WithoutCurrent[s] = sess[s]
        BY <1>1, <2>1, <2>3, <2>4
    <2>6. Orderly(t)
        BY <2>1, <2>3 DEF AllOrderly, Orderly, Outlives
    <2>7. "outlived" \notin amiss => ShutOK(t, amiss) /\ Left(t, amiss)
        BY <2>1, <2>3 DEF OthersLeft, ShutOK, Left, Outlives
    <2>8. \A s \in Session : s > made.sessions => s # current
        BY <1>1, <2>1 DEF Session
    <2>9. QED
        BY <2>5, <2>6, <2>7, <2>8 DEF Unused, AllOrderly, OthersLeft
<1>4. QED
    BY <1>2, <1>3

(* cancelSession, with whatever screen is shown next.                       *)
LEMMA CancelKeeps ==
    ASSUME ManagerInv, cancelSession, amiss' = amiss, contacts' = contacts,
           made'.sessions = made.sessions,
           made' \in [sessions : 0..MaxSessions, locks : 0..MaxLocks],
           screen' \in [overlay : {"none", "connect", "chat"}, pane : Panes, started : BOOLEAN],
           locked' \in BOOLEAN
    PROVE  ManagerInv'
<1>1. TypeOK /\ Unused /\ AllOrderly /\ OthersLeft
    BY DEF ManagerInv
<1>2. sess' = WithoutCurrent /\ current' = 0 /\ conn' = [state |-> "offline", from |-> 0]
    BY DEF cancelSession, Shows
<1>3. TypeOK'
    <2>1. sess' \in [Session -> Record]
        BY <1>1, <1>2, Cancelled
    <2>2. conn' \in [state : States, from : 0..MaxSessions] /\ current' \in 0..made'.sessions
        BY <1>1, <1>2, TypeParts DEF States
    <2>3. contacts' \in [all : SUBSET Session, keyless : SUBSET Session] /\ amiss' \subseteq Ways
        BY <1>1 DEF TypeOK
    <2>4. QED
        BY <2>1, <2>2, <2>3 DEF TypeOK, Record
<1>4. Unused'
    BY <1>1, <1>2, Cancelled DEF Unused
<1>5. AllOrderly'
    BY <1>1, <1>2, Cancelled DEF AllOrderly
<1>6. OthersLeft'
    BY <1>1, <1>2, Cancelled DEF OthersLeft
<1>7. ShownIsCurrent' /\ SecureIsUsable' /\ ContactsHaveKeys'
    BY <1>2 DEF ManagerInv, ShownIsCurrent, SecureIsUsable, ContactsHaveKeys, Only
<1>8. QED
    BY <1>3, <1>4, <1>5, <1>6, <1>7 DEF ManagerInv

(* Steps of the screens and of the vault that leave the sessions alone.     *)
LEMMA ScreenKeeps ==
    ASSUME ManagerInv, UNCHANGED <<sess, current, conn, made, contacts, amiss>>,
           screen' \in [overlay : {"none", "connect", "chat"}, pane : Panes, started : BOOLEAN],
           locked' \in BOOLEAN
    PROVE  ManagerInv'
<1>1. TypeOK'
    BY DEF ManagerInv, TypeOK
<1>2. QED
    BY <1>1 DEF ManagerInv, Unused, AllOrderly, OthersLeft, ShownIsCurrent, SecureIsUsable,
                ContactsHaveKeys, Only

(* hostSession and joinSession.                                             *)
LEMMA BeginKeeps ==
    ASSUME ManagerInv, NEW role \in {"host", "join"}, Begins(role)
    PROVE  ManagerInv'
<1> DEFINE s == made.sessions + 1
           t == [Unmade EXCEPT !.role = role, !.call = "connect"]
<1>1. TypeOK /\ Unused /\ AllOrderly /\ OthersLeft
    BY DEF ManagerInv
<1>2. /\ s \in Session /\ s > made.sessions /\ s # current /\ s # 0 /\ s \in 0..MaxSessions
      /\ made.sessions \in Nat
    BY <1>1, TypeParts DEF Begins, Session
<1>3. /\ WithoutCurrent \in [Session -> Record] /\ WithoutCurrent[s] = Unmade
      /\ \A q \in Session : q > made.sessions => WithoutCurrent[q] = Unmade
      /\ \A q \in Session : Orderly(WithoutCurrent[q])
    BY <1>1, <1>2, Cancelled
<1>4. sess' = [WithoutCurrent EXCEPT ![s] = t]
    <2>1. sess' = [WithoutCurrent EXCEPT ![s].role = role, ![s].call = "connect"]
        BY DEF Begins
    <2>2. QED
        BY <1>2, <1>3, <2>1
<1>5. t \in Record /\ Orderly(t) /\ ~t.closed
    BY DEF Record, Unmade, Orderly, Stages
<1>6. /\ made' = [made EXCEPT !.sessions = s] /\ current' = s
      /\ conn' = [state |-> "discovering-peer", from |-> s]
      /\ UNCHANGED <<locked, contacts, amiss>> /\ screen' = [screen EXCEPT !.started = TRUE]
    BY DEF Begins, Shows
<1> HIDE DEF t
<1>7. /\ sess' \in [Session -> Record] /\ sess'[s] = t
      /\ \A q \in Session : q # s => sess'[q] = WithoutCurrent[q]
    BY <1>2, <1>3, <1>4, <1>5
<1>8. made'.sessions = s /\ made' \in [sessions : 0..MaxSessions, locks : 0..MaxLocks]
    BY <1>1, <1>2, <1>6 DEF TypeOK
<1> HIDE DEF s
<1>9. TypeOK'
    <2>1. conn' \in [state : States, from : 0..MaxSessions] /\ current' \in 0..made'.sessions
        BY <1>2, <1>6, <1>8 DEF States
    <2>2. /\ contacts' \in [all : SUBSET Session, keyless : SUBSET Session] /\ amiss' \subseteq Ways
          /\ screen' \in [overlay : {"none", "connect", "chat"}, pane : Panes, started : BOOLEAN]
          /\ locked' \in BOOLEAN
        BY <1>1, <1>6 DEF TypeOK
    <2>3. QED
        BY <1>7, <1>8, <2>1, <2>2 DEF TypeOK, Record
<1>10. Unused'
    <2> SUFFICES ASSUME NEW q \in Session, q > s PROVE sess'[q] = Unmade
        BY <1>8 DEF Unused
    <2>1. q # s /\ q > made.sessions
        BY <1>2 DEF Session
    <2>2. QED
        BY <1>3, <1>7, <2>1
<1>11. AllOrderly'
    BY <1>3, <1>5, <1>7 DEF AllOrderly
<1>12. OthersLeft'
    <2> SUFFICES ASSUME "outlived" \notin amiss, NEW q \in Session
                 PROVE  ShutOK(sess'[q], amiss) /\ (q # s => Left(sess'[q], amiss))
        BY <1>6 DEF OthersLeft
    <2>1. ShutOK(WithoutCurrent[q], amiss) /\ Left(WithoutCurrent[q], amiss)
        BY <1>1, Cancelled
    <2>2. CASE q = s
        BY <1>5, <1>7, <2>2 DEF ShutOK
    <2>3. CASE q # s
        BY <1>7, <2>1, <2>3
    <2>4. QED
        BY <2>2, <2>3
<1>13. ShownIsCurrent' /\ SecureIsUsable' /\ ContactsHaveKeys'
    BY <1>6 DEF ManagerInv, ShownIsCurrent, SecureIsUsable, ContactsHaveKeys, Only
<1>14. QED
    BY <1>9, <1>10, <1>11, <1>12, <1>13 DEF ManagerInv

(* The types after a step of one session.                                   *)
LEMMA StepTypes ==
    ASSUME TypeOK, NEW s \in Session, NEW t \in Record, sess' = [sess EXCEPT ![s] = t],
           current' \in {0, current}, NEW state \in States,
           conn' = [state |-> state, from |-> s] \/ conn' = conn,
           UNCHANGED <<locked, made>>, amiss' \subseteq Ways,
           screen' = screen \/ screen' = [NoScreen EXCEPT !.overlay = "chat"],
           contacts' \in [all : SUBSET Session, keyless : SUBSET Session]
    PROVE  TypeOK'
<1>1. sess' \in [Session -> Record] /\ current' \in 0..made'.sessions
    BY TypeParts
<1>2. conn' \in [state : States, from : 0..MaxSessions]
    <2>1. s \in 0..MaxSessions
        BY TypeParts DEF Session
    <2>2. QED
        BY <2>1 DEF TypeOK
<1>3. screen' \in [overlay : {"none", "connect", "chat"}, pane : Panes, started : BOOLEAN]
    BY DEF TypeOK, NoScreen, Panes
<1>4. QED
    BY <1>1, <1>2, <1>3 DEF TypeOK, Record

(* What a step of session s may put on the screens: nothing that goes back  *)
(* on what they say of the store's session, or a state of s that is the     *)
(* store's, unless a way is recorded.                                       *)
Told(s, t, state) ==
    \/ /\ conn' = conn /\ current' = current
       /\ sess[s].stage = "secure" => t.stage = "secure"
    \/ /\ conn' = [state |-> state, from |-> s]
       /\ amiss' \subseteq {"refused"} /\ state # "error" => s = current'
       /\ amiss' \subseteq {"refused", "greeted"} /\ state = "secure" =>
            s = current' /\ t.stage = "secure"

(* A step of one session keeps ManagerInv if it leaves that session in      *)
(* order and shows only what it may.                                        *)
LEMMA SessionStep ==
    ASSUME ManagerInv, NEW s \in Session, sess[s] # Unmade,
           NEW t \in Record, sess' = [sess EXCEPT ![s] = t], Orderly(t),
           NEW state \in States, Told(s, t, state),
           UNCHANGED <<locked, made>>, amiss \subseteq amiss', amiss' \subseteq Ways,
           screen' = screen \/ screen' = [NoScreen EXCEPT !.overlay = "chat"],
           contacts' \in [all : SUBSET Session, keyless : SUBSET Session],
           Only({"refused", "greeted", "dropped"})' /\ contacts.keyless = {} =>
               contacts'.keyless = {},
           current' \in {0, current},
           "outlived" \notin amiss' =>
               /\ ShutOK(t, amiss') /\ (s # current' => Left(t, amiss'))
               /\ current' = current \/ current = s
    PROVE  ManagerInv'
<1>1. /\ TypeOK /\ Unused /\ AllOrderly /\ OthersLeft
      /\ sess \in [Session -> Record]
    BY TypeParts DEF ManagerInv
<1>2. Unused' /\ AllOrderly' /\ OthersLeft'
    BY <1>1, OneChanges
<1>3. TypeOK'
    BY <1>1, StepTypes DEF Told
<1>4. sess'[s] = t /\ s # 0 /\ (\A q \in Session : q # s => sess'[q] = sess[q])
      /\ (current # 0 => current \in Session)
    BY <1>1, TypeParts
<1>5. ShownIsCurrent'
    <2> SUFFICES ASSUME Only({"refused"})', conn'.state # "error"
                 PROVE  conn'.from \in {0, current'}
        BY DEF ShownIsCurrent
    <2>1. ShownIsCurrent /\ Only({"refused"}) /\ amiss' \subseteq {"refused"}
        BY DEF ManagerInv, Only
    <2>2. QED
        BY <2>1 DEF Told, ShownIsCurrent
<1>6. SecureIsUsable'
    <2> SUFFICES ASSUME Only({"refused", "greeted"})', conn'.state = "secure"
                 PROVE  current' # 0 /\ conn'.from = current' /\ sess'[current'].stage = "secure"
        BY DEF SecureIsUsable
    <2>1. /\ SecureIsUsable /\ Only({"refused", "greeted"})
          /\ amiss' \subseteq {"refused", "greeted"}
        BY DEF ManagerInv, Only
    <2>2. CASE conn' = conn /\ current' = current /\ (sess[s].stage = "secure" => t.stage = "secure")
        <3>1. current # 0 /\ conn.from = current /\ sess[current].stage = "secure"
            BY <2>1, <2>2 DEF SecureIsUsable
        <3>2. sess'[current].stage = "secure"
            BY <1>4, <2>2, <3>1
        <3>3. QED
            BY <2>2, <3>1, <3>2
    <2>3. CASE conn' = [state |-> state, from |-> s]
        <3>1. state = "secure"
            BY <2>3
        <3>2. CASE conn' = conn /\ current' = current /\ (sess[s].stage = "secure" => t.stage = "secure")
            BY <2>2, <3>2
        <3>3. CASE s = current' /\ t.stage = "secure"
            BY <1>4, <2>3, <3>3
        <3>4. QED
            BY <2>1, <3>1, <3>2, <3>3 DEF Told
    <2>4. QED
        BY <2>2, <2>3 DEF Told
<1>7. ContactsHaveKeys'
    BY DEF ManagerInv, ContactsHaveKeys, Only
<1>8. QED
    BY <1>2, <1>3, <1>5, <1>6, <1>7 DEF ManagerInv

(* A session that is at work and not closed is the store's.                 *)
LEMMA AtWork ==
    ASSUME ManagerInv, NEW s \in Session
    PROVE  /\ "outlived" \notin amiss /\ ~sess[s].closed /\
                 (sess[s].pc # "none" \/ sess[s].heard \/ sess[s].stage # "idle"
                    \/ sess[s].call \in {"connect", "request"}) => s = current
           /\ sess[s] \in Record /\ Orderly(sess[s]) /\ Typed(sess[s])
           /\ DOMAIN sess[s] = Fields
           /\ "outlived" \notin amiss => ShutOK(sess[s], amiss)
           /\ "outlived" \notin amiss /\ s # current => Left(sess[s], amiss)
           /\ amiss \subseteq Ways /\ sess \in [Session -> Record]
           /\ contacts \in [all : SUBSET Session, keyless : SUBSET Session]
           /\ current \in {0, current}
<1>1. /\ TypeOK /\ AllOrderly /\ OthersLeft
      /\ sess[s] \in Record /\ sess \in [Session -> Record]
    BY TypeParts DEF ManagerInv
<1>2. Typed(sess[s]) /\ DOMAIN sess[s] = Fields
    BY <1>1, RecordFields
<1>3. QED
    BY <1>1, <1>2 DEF AllOrderly, OthersLeft, Left, TypeOK

(* connect() resolves.                                                      *)
LEMMA SocketKeeps ==
    ASSUME ManagerInv, NEW s \in Session, SocketConnects(s)
    PROVE  ManagerInv'
<1> DEFINE t == [sess[s] EXCEPT !.call = "request", !.socket = TRUE]
<1>1. /\ sess' = [sess EXCEPT ![s] = t]
      /\ sess[s].call = "connect"
      /\ amiss' = IF sess[s].closed THEN amiss \cup {"outlived"} ELSE amiss
      /\ UNCHANGED <<screen, contacts, locked, made, current, conn>>
    BY AtWork DEF SocketConnects, Blame
<1>2. /\ sess[s] \in Record /\ Orderly(sess[s]) /\ Typed(sess[s])
      /\ DOMAIN sess[s] = Fields
    BY AtWork
<1>3. Typed(t) /\ t = [y \in DOMAIN sess[s] |-> t[y]]
    BY <1>2 DEF Typed, Fields, Unmade, Stages
<1>4. /\ t.role = sess[s].role
      /\ t.call = "request"
      /\ t.socket = TRUE
      /\ t.heard = sess[s].heard
      /\ t.pc = sess[s].pc
      /\ t.stage = sess[s].stage
      /\ t.closed = sess[s].closed
    BY <1>2 DEF Fields, Unmade
<1> HIDE DEF t
<1>5. t \in Record /\ sess[s] # Unmade
    BY <1>1, <1>2, <1>3, RecordUpdated DEF Unmade
<1>6. Orderly(t)
    BY <1>1, <1>2, <1>4 DEF Orderly
<1>7. amiss \subseteq amiss' /\ amiss' \subseteq Ways
    BY <1>1, AtWork DEF Ways
<1>8. "outlived" \notin amiss' =>
        /\ ShutOK(t, amiss') /\ (s # current' => Left(t, amiss'))
        /\ current' = current \/ current = s
    BY <1>1, <1>2, <1>4, AtWork DEF ShutOK, Left, Orderly
<1>9. Told(s, t, "offline")
    BY <1>1, <1>2, <1>4, <1>8, AtWork DEF Told, Orderly, ShutOK
<1>10. "offline" \in States /\ current' \in {0, current}
    BY <1>1 DEF States
<1>11. QED
    BY <1>1, <1>5, <1>6, <1>7, <1>8, <1>9, <1>10, AtWork, SessionStep DEF Only

(* host() and join() return.                                                *)
LEMMA GrantedKeeps ==
    ASSUME ManagerInv, NEW s \in Session, Granted(s)
    PROVE  ManagerInv'
<1> DEFINE t == [sess[s] EXCEPT !.call = "done", !.heard = TRUE]
<1>1. /\ sess' = [sess EXCEPT ![s] = t]
      /\ sess[s].call = "request" /\ sess[s].socket
      /\ amiss' = IF sess[s].closed THEN amiss \cup {"outlived"} ELSE amiss
      /\ conn' = [state |-> "discovering-peer", from |-> s]
      /\ UNCHANGED <<screen, contacts, locked, made, current>>
    BY AtWork DEF Granted, Blame, Shows
<1>2. /\ sess[s] \in Record /\ Orderly(sess[s]) /\ Typed(sess[s])
      /\ DOMAIN sess[s] = Fields
    BY AtWork
<1>3. Typed(t) /\ t = [y \in DOMAIN sess[s] |-> t[y]]
    BY <1>2 DEF Typed, Fields, Unmade, Stages
<1>4. /\ t.role = sess[s].role
      /\ t.call = "done"
      /\ t.socket = sess[s].socket
      /\ t.heard = TRUE
      /\ t.pc = sess[s].pc
      /\ t.stage = sess[s].stage
      /\ t.closed = sess[s].closed
    BY <1>2 DEF Fields, Unmade
<1> HIDE DEF t
<1>5. t \in Record /\ sess[s] # Unmade
    BY <1>1, <1>2, <1>3, RecordUpdated DEF Unmade
<1>6. Orderly(t)
    BY <1>1, <1>2, <1>4 DEF Orderly
<1>7. amiss \subseteq amiss' /\ amiss' \subseteq Ways
    BY <1>1, AtWork DEF Ways
<1>8. "outlived" \notin amiss' =>
        /\ ShutOK(t, amiss') /\ (s # current' => Left(t, amiss'))
        /\ current' = current \/ current = s
    BY <1>1, <1>2, <1>4, AtWork DEF ShutOK, Left, Orderly
<1>9. Told(s, t, "discovering-peer")
    BY <1>1, <1>2, <1>4, <1>8, AtWork DEF Told, Orderly, ShutOK
<1>10. "discovering-peer" \in States /\ current' \in {0, current}
    BY <1>1 DEF States
<1>11. QED
    BY <1>1, <1>5, <1>6, <1>7, <1>8, <1>9, <1>10, AtWork, SessionStep DEF Only

(* The call to the relay fails.                                             *)
LEMMA CallFailsKeeps ==
    ASSUME ManagerInv, NEW s \in Session, CallFails(s)
    PROVE  ManagerInv'
<1> DEFINE t == [sess[s] EXCEPT !.call = "done"]
<1>1. /\ sess' = [sess EXCEPT ![s] = t]
      /\ sess[s].call \in {"connect", "request"} /\ current' = 0
      /\ amiss' = amiss \cup (IF sess[s].closed THEN {"outlived"} ELSE {})
                        \cup (IF sess[s].socket THEN {"refused"} ELSE {})
      /\ conn' = [state |-> "error", from |-> s]
      /\ UNCHANGED <<screen, contacts, locked, made>>
    BY AtWork DEF CallFails, Shows
<1>2. /\ sess[s] \in Record /\ Orderly(sess[s]) /\ Typed(sess[s])
      /\ DOMAIN sess[s] = Fields
    BY AtWork
<1>3. Typed(t) /\ t = [y \in DOMAIN sess[s] |-> t[y]]
    BY <1>2 DEF Typed, Fields, Unmade, Stages
<1>4. /\ t.role = sess[s].role
      /\ t.call = "done"
      /\ t.socket = sess[s].socket
      /\ t.heard = sess[s].heard
      /\ t.pc = sess[s].pc
      /\ t.stage = sess[s].stage
      /\ t.closed = sess[s].closed
    BY <1>2 DEF Fields, Unmade
<1> HIDE DEF t
<1>5. t \in Record /\ sess[s] # Unmade
    BY <1>1, <1>2, <1>3, RecordUpdated DEF Unmade
<1>6. Orderly(t)
    BY <1>1, <1>2, <1>4 DEF Orderly
<1>7. amiss \subseteq amiss' /\ amiss' \subseteq Ways
    BY <1>1, AtWork DEF Ways
<1>8. "outlived" \notin amiss' =>
        /\ ShutOK(t, amiss') /\ (s # current' => Left(t, amiss'))
        /\ current' = current \/ current = s
    BY <1>1, <1>2, <1>4, AtWork DEF ShutOK, Left, Orderly
<1>9. Told(s, t, "error")
    BY <1>1, <1>2, <1>4, <1>8, AtWork DEF Told, Orderly, ShutOK
<1>10. "error" \in States /\ current' \in {0, current}
    BY <1>1 DEF States
<1>11. QED
    BY <1>1, <1>5, <1>6, <1>7, <1>8, <1>9, <1>10, AtWork, SessionStep DEF Only

(* A peer joined the channel that the host opened.                          *)
LEMMA JoinedKeeps ==
    ASSUME ManagerInv, NEW s \in Session, PeerJoined(s)
    PROVE  ManagerInv'
<1> DEFINE t == [sess[s] EXCEPT !.pc = "up", !.stage = "offered"]
<1>1. /\ sess' = [sess EXCEPT ![s] = t]
      /\ sess[s].heard /\ sess[s].pc = "none"
      /\ conn' = [state |-> "connecting", from |-> s]
      /\ UNCHANGED <<screen, contacts, locked, made, current, amiss>>
    BY AtWork DEF PeerJoined, Shows
<1>2. /\ sess[s] \in Record /\ Orderly(sess[s]) /\ Typed(sess[s])
      /\ DOMAIN sess[s] = Fields
    BY AtWork
<1>3. Typed(t) /\ t = [y \in DOMAIN sess[s] |-> t[y]]
    BY <1>2 DEF Typed, Fields, Unmade, Stages
<1>4. /\ t.role = sess[s].role
      /\ t.call = sess[s].call
      /\ t.socket = sess[s].socket
      /\ t.heard = sess[s].heard
      /\ t.pc = "up"
      /\ t.stage = "offered"
      /\ t.closed = sess[s].closed
    BY <1>2 DEF Fields, Unmade
<1> HIDE DEF t
<1>5. t \in Record /\ sess[s] # Unmade
    BY <1>1, <1>2, <1>3, RecordUpdated DEF Unmade
<1>6. Orderly(t)
    BY <1>1, <1>2, <1>4 DEF Orderly
<1>7. amiss \subseteq amiss' /\ amiss' \subseteq Ways
    BY <1>1, AtWork DEF Ways
<1>8. "outlived" \notin amiss' =>
        /\ ShutOK(t, amiss') /\ (s # current' => Left(t, amiss'))
        /\ current' = current \/ current = s
    BY <1>1, <1>2, <1>4, AtWork DEF ShutOK, Left, Orderly
<1>9. Told(s, t, "connecting")
    BY <1>1, <1>2, <1>4, <1>8, AtWork DEF Told, Orderly, ShutOK
<1>10. "connecting" \in States /\ current' \in {0, current}
    BY <1>1 DEF States
<1>11. QED
    BY <1>1, <1>5, <1>6, <1>7, <1>8, <1>9, <1>10, AtWork, SessionStep DEF Only

(* The offer arrives.                                                       *)
LEMMA OfferKeeps ==
    ASSUME ManagerInv, NEW s \in Session, OfferArrives(s)
    PROVE  ManagerInv'
<1> DEFINE t == [sess[s] EXCEPT !.pc = "up", !.stage = "linked"]
<1>1. /\ sess' = [sess EXCEPT ![s] = t]
      /\ sess[s].heard /\ sess[s].pc = "none" /\ ~sess[s].closed
      /\ conn' = [state |-> "connecting", from |-> s]
      /\ UNCHANGED <<screen, contacts, locked, made, current, amiss>>
    BY AtWork DEF OfferArrives, Shows
<1>2. /\ sess[s] \in Record /\ Orderly(sess[s]) /\ Typed(sess[s])
      /\ DOMAIN sess[s] = Fields
    BY AtWork
<1>3. Typed(t) /\ t = [y \in DOMAIN sess[s] |-> t[y]]
    BY <1>2 DEF Typed, Fields, Unmade, Stages
<1>4. /\ t.role = sess[s].role
      /\ t.call = sess[s].call
      /\ t.socket = sess[s].socket
      /\ t.heard = sess[s].heard
      /\ t.pc = "up"
      /\ t.stage = "linked"
      /\ t.closed = sess[s].closed
    BY <1>2 DEF Fields, Unmade
<1> HIDE DEF t
<1>5. t \in Record /\ sess[s] # Unmade
    BY <1>1, <1>2, <1>3, RecordUpdated DEF Unmade
<1>6. Orderly(t)
    BY <1>1, <1>2, <1>4 DEF Orderly
<1>7. amiss \subseteq amiss' /\ amiss' \subseteq Ways
    BY <1>1, AtWork DEF Ways
<1>8. "outlived" \notin amiss' =>
        /\ ShutOK(t, amiss') /\ (s # current' => Left(t, amiss'))
        /\ current' = current \/ current = s
    BY <1>1, <1>2, <1>4, AtWork DEF ShutOK, Left, Orderly
<1>9. Told(s, t, "connecting")
    BY <1>1, <1>2, <1>4, <1>8, AtWork DEF Told, Orderly, ShutOK
<1>10. "connecting" \in States /\ current' \in {0, current}
    BY <1>1 DEF States
<1>11. QED
    BY <1>1, <1>5, <1>6, <1>7, <1>8, <1>9, <1>10, AtWork, SessionStep DEF Only

(* The answer arrives.                                                      *)
LEMMA AnswerKeeps ==
    ASSUME ManagerInv, NEW s \in Session, AnswerArrives(s)
    PROVE  ManagerInv'
<1> DEFINE t == [sess[s] EXCEPT !.stage = "linked"]
<1>1. /\ sess' = [sess EXCEPT ![s] = t]
      /\ sess[s].stage = "offered" /\ ~sess[s].closed
      /\ UNCHANGED <<screen, contacts, locked, made, current, amiss, conn>>
    BY AtWork DEF AnswerArrives
<1>2. /\ sess[s] \in Record /\ Orderly(sess[s]) /\ Typed(sess[s])
      /\ DOMAIN sess[s] = Fields
    BY AtWork
<1>3. Typed(t) /\ t = [y \in DOMAIN sess[s] |-> t[y]]
    BY <1>2 DEF Typed, Fields, Unmade, Stages
<1>4. /\ t.role = sess[s].role
      /\ t.call = sess[s].call
      /\ t.socket = sess[s].socket
      /\ t.heard = sess[s].heard
      /\ t.pc = sess[s].pc
      /\ t.stage = "linked"
      /\ t.closed = sess[s].closed
    BY <1>2 DEF Fields, Unmade
<1> HIDE DEF t
<1>5. t \in Record /\ sess[s] # Unmade
    BY <1>1, <1>2, <1>3, RecordUpdated DEF Unmade
<1>6. Orderly(t)
    BY <1>1, <1>2, <1>4 DEF Orderly
<1>7. amiss \subseteq amiss' /\ amiss' \subseteq Ways
    BY <1>1, AtWork DEF Ways
<1>8. "outlived" \notin amiss' =>
        /\ ShutOK(t, amiss') /\ (s # current' => Left(t, amiss'))
        /\ current' = current \/ current = s
    BY <1>1, <1>2, <1>4, AtWork DEF ShutOK, Left, Orderly
<1>9. Told(s, t, "offline")
    BY <1>1, <1>2, <1>4, <1>8, AtWork DEF Told, Orderly, ShutOK
<1>10. "offline" \in States /\ current' \in {0, current}
    BY <1>1 DEF States
<1>11. QED
    BY <1>1, <1>5, <1>6, <1>7, <1>8, <1>9, <1>10, AtWork, SessionStep DEF Only

(* The channel opens.                                                       *)
LEMMA OpensKeeps ==
    ASSUME ManagerInv, NEW s \in Session, ChannelOpens(s)
    PROVE  ManagerInv'
<1> DEFINE t == [sess[s] EXCEPT !.stage = "greeting"]
<1>1. /\ sess' = [sess EXCEPT ![s] = t]
      /\ sess[s].stage = "linked" /\ sess[s].pc = "up"
      /\ conn' = [state |-> "connected", from |-> s]
      /\ UNCHANGED <<screen, contacts, locked, made, current, amiss>>
    BY AtWork DEF ChannelOpens, Shows
<1>2. /\ sess[s] \in Record /\ Orderly(sess[s]) /\ Typed(sess[s])
      /\ DOMAIN sess[s] = Fields
    BY AtWork
<1>3. Typed(t) /\ t = [y \in DOMAIN sess[s] |-> t[y]]
    BY <1>2 DEF Typed, Fields, Unmade, Stages
<1>4. /\ t.role = sess[s].role
      /\ t.call = sess[s].call
      /\ t.socket = sess[s].socket
      /\ t.heard = sess[s].heard
      /\ t.pc = sess[s].pc
      /\ t.stage = "greeting"
      /\ t.closed = sess[s].closed
    BY <1>2 DEF Fields, Unmade
<1> HIDE DEF t
<1>5. t \in Record /\ sess[s] # Unmade
    BY <1>1, <1>2, <1>3, RecordUpdated DEF Unmade
<1>6. Orderly(t)
    BY <1>1, <1>2, <1>4 DEF Orderly
<1>7. amiss \subseteq amiss' /\ amiss' \subseteq Ways
    BY <1>1, AtWork DEF Ways
<1>8. "outlived" \notin amiss' =>
        /\ ShutOK(t, amiss') /\ (s # current' => Left(t, amiss'))
        /\ current' = current \/ current = s
    BY <1>1, <1>2, <1>4, AtWork DEF ShutOK, Left, Orderly
<1>9. Told(s, t, "connected")
    BY <1>1, <1>2, <1>4, <1>8, AtWork DEF Told, Orderly, ShutOK
<1>10. "connected" \in States /\ current' \in {0, current}
    BY <1>1 DEF States
<1>11. QED
    BY <1>1, <1>5, <1>6, <1>7, <1>8, <1>9, <1>10, AtWork, SessionStep DEF Only

(* The hello is made.                                                       *)
LEMMA MadeKeeps ==
    ASSUME ManagerInv, NEW s \in Session, HelloMade(s)
    PROVE  ManagerInv'
<1> DEFINE next == IF sess[s].stage = "crossed" THEN "verifying"
                   ELSE IF sess[s].closed THEN "idle" ELSE "greeted"
           t == [sess[s] EXCEPT !.stage = next]
<1>1. /\ sess' = [sess EXCEPT ![s] = t]
      /\ sess[s].stage \in {"greeting", "crossed"}
      /\ amiss' = IF sess[s].closed THEN amiss \cup {"greeted"} ELSE amiss
      /\ conn' = conn \/ conn' = [state |-> "connected", from |-> s]
      /\ UNCHANGED <<screen, contacts, locked, made, current>>
    BY AtWork DEF HelloMade, Blame, Shows
<1>2. /\ sess[s] \in Record /\ Orderly(sess[s]) /\ Typed(sess[s])
      /\ DOMAIN sess[s] = Fields
    BY AtWork
<1>3. Typed(t) /\ t = [y \in DOMAIN sess[s] |-> t[y]]
    BY <1>2 DEF Typed, Fields, Unmade, Stages
<1>4. /\ t.role = sess[s].role
      /\ t.call = sess[s].call
      /\ t.socket = sess[s].socket
      /\ t.heard = sess[s].heard
      /\ t.pc = sess[s].pc
      /\ t.stage = next
      /\ t.closed = sess[s].closed
    BY <1>2 DEF Fields, Unmade
<1>a. next \in Stages \ {"cut", "crossed", "ended", "secure"}
    BY DEF Stages
<1> HIDE DEF t, next
<1>5. t \in Record /\ sess[s] # Unmade
    BY <1>1, <1>2, <1>3, RecordUpdated DEF Unmade
<1>6. Orderly(t)
    BY <1>1, <1>2, <1>4, <1>a DEF Orderly
<1>7. amiss \subseteq amiss' /\ amiss' \subseteq Ways
    BY <1>1, AtWork DEF Ways
<1>8. "outlived" \notin amiss' =>
        /\ ShutOK(t, amiss') /\ (s # current' => Left(t, amiss'))
        /\ current' = current \/ current = s
    BY <1>1, <1>2, <1>4, <1>a, AtWork DEF ShutOK, Left, Orderly
<1>9. Told(s, t, "connected")
    BY <1>1, <1>2, <1>4, <1>8, AtWork DEF Told, Orderly, ShutOK
<1>10. "connected" \in States /\ current' \in {0, current}
    BY <1>1 DEF States
<1>11. QED
    BY <1>1, <1>5, <1>6, <1>7, <1>8, <1>9, <1>10, AtWork, SessionStep DEF Only

(* The channel closes.                                                      *)
LEMMA ChannelKeeps ==
    ASSUME ManagerInv, NEW s \in Session, ChannelCloses(s)
    PROVE  ManagerInv'
<1> DEFINE t == [sess[s] EXCEPT !.pc = "shut"]
<1>1. /\ sess' = [sess EXCEPT ![s] = t]
      /\ sess[s].pc = "up"
      /\ conn' = IF sess[s].closed THEN conn ELSE [state |-> "disconnected", from |-> s]
      /\ UNCHANGED <<screen, contacts, locked, made, current, amiss>>
    BY AtWork DEF ChannelCloses, Reports, Shows
<1>2. /\ sess[s] \in Record /\ Orderly(sess[s]) /\ Typed(sess[s])
      /\ DOMAIN sess[s] = Fields
    BY AtWork
<1>3. Typed(t) /\ t = [y \in DOMAIN sess[s] |-> t[y]]
    BY <1>2 DEF Typed, Fields, Unmade, Stages
<1>4. /\ t.role = sess[s].role
      /\ t.call = sess[s].call
      /\ t.socket = sess[s].socket
      /\ t.heard = sess[s].heard
      /\ t.pc = "shut"
      /\ t.stage = sess[s].stage
      /\ t.closed = sess[s].closed
    BY <1>2 DEF Fields, Unmade
<1> HIDE DEF t
<1>5. t \in Record /\ sess[s] # Unmade
    BY <1>1, <1>2, <1>3, RecordUpdated DEF Unmade
<1>6. Orderly(t)
    BY <1>1, <1>2, <1>4 DEF Orderly
<1>7. amiss \subseteq amiss' /\ amiss' \subseteq Ways
    BY <1>1, AtWork DEF Ways
<1>8. "outlived" \notin amiss' =>
        /\ ShutOK(t, amiss') /\ (s # current' => Left(t, amiss'))
        /\ current' = current \/ current = s
    BY <1>1, <1>2, <1>4, AtWork DEF ShutOK, Left, Orderly
<1>9. Told(s, t, "disconnected")
    BY <1>1, <1>2, <1>4, <1>8, AtWork DEF Told, Orderly, ShutOK
<1>10. "disconnected" \in States /\ current' \in {0, current}
    BY <1>1 DEF States
<1>11. QED
    BY <1>1, <1>5, <1>6, <1>7, <1>8, <1>9, <1>10, AtWork, SessionStep DEF Only

(* The socket is lost.                                                      *)
LEMMA RelayKeeps ==
    ASSUME ManagerInv, NEW s \in Session, RelayLost(s)
    PROVE  ManagerInv'
<1> DEFINE t == [sess[s] EXCEPT !.socket = FALSE]
<1>1. /\ sess' = [sess EXCEPT ![s] = t]
      /\ sess[s].socket
      /\ conn' = IF sess[s].heard /\ ~sess[s].closed
                   THEN [state |-> "disconnected", from |-> s] ELSE conn
      /\ UNCHANGED <<screen, contacts, locked, made, current, amiss>>
    BY AtWork DEF RelayLost, Reports, Shows
<1>2. /\ sess[s] \in Record /\ Orderly(sess[s]) /\ Typed(sess[s])
      /\ DOMAIN sess[s] = Fields
    BY AtWork
<1>3. Typed(t) /\ t = [y \in DOMAIN sess[s] |-> t[y]]
    BY <1>2 DEF Typed, Fields, Unmade, Stages
<1>4. /\ t.role = sess[s].role
      /\ t.call = sess[s].call
      /\ t.socket = FALSE
      /\ t.heard = sess[s].heard
      /\ t.pc = sess[s].pc
      /\ t.stage = sess[s].stage
      /\ t.closed = sess[s].closed
    BY <1>2 DEF Fields, Unmade
<1> HIDE DEF t
<1>5. t \in Record /\ sess[s] # Unmade
    BY <1>1, <1>2, <1>3, RecordUpdated DEF Unmade
<1>6. Orderly(t)
    BY <1>1, <1>2, <1>4 DEF Orderly
<1>7. amiss \subseteq amiss' /\ amiss' \subseteq Ways
    BY <1>1, AtWork DEF Ways
<1>8. "outlived" \notin amiss' =>
        /\ ShutOK(t, amiss') /\ (s # current' => Left(t, amiss'))
        /\ current' = current \/ current = s
    BY <1>1, <1>2, <1>4, AtWork DEF ShutOK, Left, Orderly
<1>9. Told(s, t, "disconnected")
    BY <1>1, <1>2, <1>4, <1>8, AtWork DEF Told, Orderly, ShutOK
<1>10. "disconnected" \in States /\ current' \in {0, current}
    BY <1>1 DEF States
<1>11. QED
    BY <1>1, <1>5, <1>6, <1>7, <1>8, <1>9, <1>10, AtWork, SessionStep DEF Only

(* A step that only reports.  What a session reports of a loss it is not    *)
(* closed for, and "secure" it reports while it is, or records a way.       *)
LEMMA ReportKeeps ==
    ASSUME ManagerInv, NEW s \in Session, sess[s] # Unmade,
           NEW state \in {"error", "disconnected", "secure"},
           conn' = conn \/ conn' = [state |-> state, from |-> s],
           \/ /\ amiss' = amiss /\ state # "secure"
              /\ conn' = conn \/ (~sess[s].closed /\ (sess[s].pc # "none" \/ sess[s].heard))
           \/ /\ amiss' = IF sess[s].closed THEN amiss \cup {"dropped"} ELSE amiss
              /\ sess[s].stage \in {"secure", "ended"},
           UNCHANGED <<sess, current, screen, locked, made, contacts>>
    PROVE  ManagerInv'
<1> DEFINE t == sess[s]
<1>1. /\ t \in Record /\ Orderly(t) /\ sess \in [Session -> Record]
    BY AtWork
<1>2. sess' = [sess EXCEPT ![s] = t]
    BY <1>1
<1>3. t # Unmade
    OBVIOUS
<1>5. amiss \subseteq amiss' /\ amiss' \subseteq Ways
    BY AtWork DEF Ways
<1>6. "outlived" \notin amiss' => ShutOK(t, amiss') /\ (s # current' => Left(t, amiss'))
    BY <1>1, <1>5, AtWork DEF ShutOK, Left
<1>7. Told(s, t, state)
    <2>1. CASE conn' = conn
        BY <1>1, <2>1 DEF Told
    <2>2. CASE conn' = [state |-> state, from |-> s] /\ conn' # conn
        <3>1. amiss' \subseteq {"refused", "greeted"} => ~t.closed /\ (t.pc # "none" \/ t.heard
                 \/ t.stage = "secure")
            BY <1>1, <2>2, AtWork DEF Orderly
        <3>2. amiss' \subseteq {"refused", "greeted"} => s = current'
            BY <1>1, <1>5, <3>1, AtWork
        <3>3. amiss' \subseteq {"refused", "greeted"} /\ state = "secure" => t.stage = "secure"
            BY <1>1, <3>1 DEF Orderly
        <3>4. QED
            BY <2>2, <3>2, <3>3 DEF Told
    <2>3. QED
        BY <2>1, <2>2
<1>8. state \in States /\ current' \in {0, current}
    BY <1>1 DEF States
<1> HIDE DEF t
<1>9. QED
    BY <1>1, <1>2, <1>3, <1>5, <1>6, <1>7, <1>8, AtWork, SessionStep DEF Only

(* The channel errs, the relay closes it, or a frame does not decrypt.      *)
LEMMA ReportsKeep ==
    ASSUME ManagerInv, NEW s \in Session, ChannelErrs(s) \/ RelayCloses(s) \/ FrameFails(s)
    PROVE  ManagerInv'
<1>1. sess[s] # Unmade /\ UNCHANGED <<sess, current, screen, locked, made, contacts>>
    BY DEF ChannelErrs, RelayCloses, FrameFails, Unmade
<1>2. CASE ChannelErrs(s)
    <2>1. /\ amiss' = amiss
          /\ conn' = conn \/ (~sess[s].closed /\ sess[s].pc # "none")
          /\ conn' = conn \/ conn' = [state |-> "error", from |-> s]
        BY <1>2 DEF ChannelErrs, Reports, Shows
    <2>2. QED
        BY <1>1, <2>1, ReportKeeps
<1>3. CASE RelayCloses(s)
    <2>1. /\ amiss' = amiss
          /\ conn' = conn \/ (~sess[s].closed /\ sess[s].heard)
          /\ conn' = conn \/ conn' = [state |-> "disconnected", from |-> s]
        BY <1>3 DEF RelayCloses, Reports, Shows
    <2>2. QED
        BY <1>1, <2>1, ReportKeeps
<1>4. CASE FrameFails(s)
    <2>1. /\ amiss' = IF sess[s].closed THEN amiss \cup {"dropped"} ELSE amiss
          /\ sess[s].stage \in {"secure", "ended"} /\ conn' = [state |-> "secure", from |-> s]
        BY <1>4 DEF FrameFails, Blame, Shows
    <2>2. QED
        BY <1>1, <2>1, ReportKeeps
<1>5. QED
    BY <1>2, <1>3, <1>4

(* The handshake completes while the vault is open.                         *)
LEMMA SecureKeeps ==
    ASSUME ManagerInv, NEW s \in Session, Secure(s), ~locked
    PROVE  ManagerInv'
<1> DEFINE t == [sess[s] EXCEPT !.stage = "secure"]
<1>1. /\ sess' = [sess EXCEPT ![s] = t] /\ sess[s].stage = "verifying"
      /\ amiss' = IF sess[s].closed THEN amiss \cup {"late"} ELSE amiss
      /\ conn' = [state |-> "secure", from |-> s]
      /\ screen' = [NoScreen EXCEPT !.overlay = "chat"]
      /\ contacts' = [all |-> contacts.all \cup {s},
                        keyless |-> IF HasKeys(s) THEN contacts.keyless
                                    ELSE contacts.keyless \cup {s}]
      /\ UNCHANGED <<current, locked, made>>
    BY AtWork DEF Secure, Blame, Shows
<1>2. /\ sess[s] \in Record /\ Orderly(sess[s]) /\ Typed(sess[s])
      /\ DOMAIN sess[s] = Fields
    BY AtWork
<1>3. Typed(t) /\ t = [y \in DOMAIN sess[s] |-> t[y]]
    BY <1>2 DEF Typed, Fields, Unmade, Stages
<1>4. /\ t.role = sess[s].role
      /\ t.call = sess[s].call
      /\ t.socket = sess[s].socket
      /\ t.heard = sess[s].heard
      /\ t.pc = sess[s].pc
      /\ t.stage = "secure"
      /\ t.closed = sess[s].closed
    BY <1>2 DEF Fields, Unmade
<1> HIDE DEF t
<1>5. t \in Record /\ sess[s] # Unmade
    BY <1>1, <1>2, <1>3, RecordUpdated DEF Unmade
<1>6. Orderly(t)
    BY <1>1, <1>2, <1>4 DEF Orderly
<1>7. amiss \subseteq amiss' /\ amiss' \subseteq Ways
    BY <1>1, AtWork DEF Ways
<1>8. "outlived" \notin amiss' =>
        /\ ShutOK(t, amiss') /\ (s # current' => Left(t, amiss'))
        /\ current' = current \/ current = s
    BY <1>1, <1>2, <1>4, AtWork DEF ShutOK, Left, Orderly
<1>9. Told(s, t, "secure")
    BY <1>1, <1>2, <1>4, <1>8, AtWork DEF Told, Orderly, ShutOK
<1>10. "secure" \in States /\ current' \in {0, current}
    BY <1>1 DEF States
<1>11. /\ contacts' \in [all : SUBSET Session, keyless : SUBSET Session]
       /\ Only({"refused", "greeted", "dropped"})' /\ contacts.keyless = {} =>
            contacts'.keyless = {}
    <2>1. contacts' \in [all : SUBSET Session, keyless : SUBSET Session]
        BY <1>1, AtWork
    <2>2. Only({"refused", "greeted", "dropped"})' => HasKeys(s)
        <3> SUFFICES ASSUME amiss' \subseteq {"refused", "greeted", "dropped"}
                     PROVE  HasKeys(s)
            BY DEF Only
        <3>1. ~sess[s].closed /\ "outlived" \notin amiss
            BY <1>1, <1>7
        <3>2. s = current /\ s # 0
            BY <1>1, <3>1, AtWork, TypeParts DEF ManagerInv
        <3>3. QED
            BY <3>2 DEF HasKeys
    <2>3. QED
        BY <1>1, <2>1, <2>2
<1>12. QED
    BY <1>1, <1>5, <1>6, <1>7, <1>8, <1>9, <1>10, <1>11, SessionStep

(* Anything that ends in setState(error) and a teardown, whatever is left   *)
(* of the session's awaits.                                                 *)
LEMMA EndsKeeps ==
    ASSUME ManagerInv, NEW s \in Session, NEW x \in {sess[s], Closed(sess[s])},
           x.closed \/ sess[s].stage = "cut",
           NEW stage \in Stages \ {"offered"}, Ends(s, [x EXCEPT !.stage = stage]),
           stage # "idle" => sess[s].stage # "idle",
           sess[s] # Unmade, amiss \subseteq amiss', amiss' \subseteq Ways,
           stage = "secure" => "late" \in amiss',
           sess[s].pc # "none" \/ sess[s].heard \/ sess[s].stage # "idle"
    PROVE  ManagerInv'
<1> DEFINE t == [x EXCEPT !.stage = stage]
<1>0. /\ sess[s] \in Record /\ Orderly(sess[s]) /\ sess \in [Session -> Record]
    BY AtWork
<1>1. /\ sess' = [sess EXCEPT ![s] = t]
      /\ conn' = [state |-> IF current = 0 \/ sess[s].closed THEN "error" ELSE "disconnected",
                  from |-> s]
      /\ UNCHANGED <<current, screen, made, locked, contacts>>
    BY <1>0 DEF Ends, Shows
<1>2. /\ x \in Record /\ x.closed /\ x.call = sess[s].call
      /\ sess[s].closed => x = sess[s]
      /\ ~sess[s].closed => ~x.socket /\ ~x.heard /\ x.pc # "up"
      /\ sess[s].pc = "none" => x.pc = "none"
      /\ x.heard => sess[s].heard
    <2>1. CASE x = sess[s]
        BY <1>0, <2>1 DEF Orderly
    <2>2. CASE x = Closed(sess[s])
        <3>1. x \in Record /\ x.closed /\ x.call = sess[s].call
              /\ (sess[s].closed => x = sess[s])
              /\ (~sess[s].closed =>
                   /\ ~x.socket /\ ~x.heard
                   /\ x.pc = (IF sess[s].pc = "up" THEN "shut" ELSE sess[s].pc))
            BY <1>0, <2>2, ClosedIs
        <3>2. QED
            BY <3>1
    <2>3. QED
        BY <2>1, <2>2
<1>3. Typed(x) /\ DOMAIN x = Fields
    BY <1>2, RecordFields
<1>4. Typed(t) /\ t = [y \in DOMAIN x |-> t[y]]
    BY <1>3 DEF Typed, Fields, Unmade
<1>5. /\ t.role = x.role /\ t.call = x.call /\ t.socket = x.socket /\ t.heard = x.heard
      /\ t.pc = x.pc /\ t.stage = stage /\ t.closed = x.closed
    BY <1>2, <1>3 DEF Fields, Unmade
<1> HIDE DEF t
<1>6. t \in Record
    BY <1>2, <1>4, RecordUpdated
<1>7. Orderly(t)
    BY <1>0, <1>2, <1>5 DEF Orderly
<1>8. "outlived" \notin amiss' =>
        /\ ShutOK(t, amiss') /\ (s # current' => Left(t, amiss'))
        /\ current' = current \/ current = s
    BY <1>1, <1>2, <1>5, AtWork DEF ShutOK, Left
<1>9. "outlived" \notin amiss /\ ~sess[s].closed => s = current
    BY AtWork
<1>10. PICK state \in {"error", "disconnected"} :
         /\ conn' = [state |-> state, from |-> s]
         /\ state # "error" => current # 0 /\ ~sess[s].closed
    BY <1>1
<1>11. Told(s, t, state)
    BY <1>1, <1>9, <1>10 DEF Told
<1>12. state \in States /\ current' \in {0, current}
    BY <1>1, <1>10 DEF States
<1>13. QED
    BY <1>1, <1>6, <1>7, <1>8, <1>11, <1>12, AtWork, SessionStep DEF Only

(* Every way in which a session ends with an error is one of those.         *)
LEMMA FailureKeeps ==
    ASSUME ManagerInv, NEW s \in Session,
           \/ NegotiationFails(s) \/ NegotiationBreaks(s) \/ HandshakeFails(s)
           \/ Secure(s) /\ locked
    PROVE  ManagerInv'
<1>1. /\ sess[s] \in Record /\ amiss \subseteq Ways /\ Orderly(sess[s])
      /\ DOMAIN sess[s] = Fields
    BY AtWork
<1> DEFINE x == Closed(sess[s])
<1>2. /\ x \in Record /\ x.closed /\ DOMAIN x = Fields
      /\ ~sess[s].closed => x.stage = Outlives(sess[s].stage)
    BY <1>1, ClosedIs, RecordFields
<1>3. CASE NegotiationFails(s)
    <2>1. /\ Ends(s, x) /\ amiss' = amiss /\ ~sess[s].closed
          /\ sess[s].pc # "none" \/ sess[s].heard
          /\ sess[s].stage # "secure" \/ sess[s].stage = "idle"
        BY <1>3 DEF NegotiationFails
    <2>2. x = [x EXCEPT !.stage = x.stage]
        BY <1>2 DEF Record
    <2>3. x.stage \in Stages \ {"offered", "secure"} /\ (x.stage # "idle" => sess[s].stage # "idle")
        BY <1>1, <1>2, <2>1 DEF Record, Outlives, Stages
    <2>4. sess[s] # Unmade
        BY <2>1 DEF Unmade
    <2> HIDE DEF x
    <2>5. Ends(s, [x EXCEPT !.stage = x.stage])
        BY <2>1, <2>2
    <2>6. x \in {sess[s], Closed(sess[s])}
        BY DEF x
    <2>7. QED
        BY <1>1, <1>2, <2>1, <2>3, <2>4, <2>5, <2>6, EndsKeeps
<1>4. CASE NegotiationBreaks(s)
    <2>1. Ends(s, [sess[s] EXCEPT !.stage = "idle"]) /\ amiss' = amiss /\ sess[s].stage = "cut"
        BY <1>4 DEF NegotiationBreaks
    <2>2. sess[s] # Unmade /\ "idle" \in Stages \ {"offered"}
        BY <2>1 DEF Unmade, Stages
    <2>3. QED
        BY <1>1, <2>1, <2>2, EndsKeeps
<1>5. CASE HandshakeFails(s)
    <2>1. Ends(s, [x EXCEPT !.stage = "idle"]) /\ amiss' = amiss /\ sess[s].stage = "verifying"
        BY <1>5 DEF HandshakeFails
    <2>2. sess[s] # Unmade /\ "idle" \in Stages \ {"offered"} /\ x \in {sess[s], Closed(sess[s])}
        BY <2>1 DEF Unmade, Stages
    <2> HIDE DEF x
    <2>3. QED
        BY <1>1, <1>2, <2>1, <2>2, EndsKeeps
<1>6. CASE Secure(s) /\ locked
    <2> DEFINE stage == IF sess[s].closed THEN "secure" ELSE "idle"
    <2>1. /\ Ends(s, [x EXCEPT !.stage = stage]) /\ sess[s].stage = "verifying"
          /\ amiss' = IF sess[s].closed THEN amiss \cup {"late"} ELSE amiss
        BY <1>6 DEF Secure, Blame
    <2>2. /\ sess[s] # Unmade /\ stage \in Stages \ {"offered"} /\ x \in {sess[s], Closed(sess[s])}
          /\ stage = "secure" => "late" \in amiss'
        BY <2>1 DEF Unmade, Stages
    <2>3. amiss \subseteq amiss' /\ amiss' \subseteq Ways
        BY <1>1, <2>1 DEF Ways
    <2> HIDE DEF x, stage
    <2>4. QED
        BY <1>1, <1>2, <2>1, <2>2, <2>3, EndsKeeps
<1>7. QED
    BY <1>3, <1>4, <1>5, <1>6

(* The peer's hello arrives.                                                *)
LEMMA HelloKeeps ==
    ASSUME ManagerInv, NEW s \in Session, HelloArrives(s)
    PROVE  ManagerInv'
<1>1. CASE sess[s].stage = "greeting"
    <2> DEFINE x == Closed(sess[s])
    <2>1. /\ Ends(s, [x EXCEPT !.stage = "crossed"]) /\ amiss' = amiss
        BY <1>1 DEF HelloArrives
    <2>2. x.closed
        BY AtWork, ClosedIs
    <2>3. sess[s] # Unmade /\ "crossed" \in Stages \ {"offered"} /\ amiss' \subseteq Ways
        BY <1>1, <2>1, AtWork DEF Unmade, Stages
    <2>4. x \in {sess[s], Closed(sess[s])}
        OBVIOUS
    <2> HIDE DEF x
    <2>5. QED
        BY <1>1, <2>1, <2>2, <2>3, <2>4, EndsKeeps
<1>2. CASE sess[s].stage = "greeted"
    <2> DEFINE t == [sess[s] EXCEPT !.stage = "verifying"]
    <2>1. /\ sess' = [sess EXCEPT ![s] = t]
          /\ ~sess[s].closed
          /\ conn' = [state |-> "connected", from |-> s]
          /\ UNCHANGED <<screen, contacts, locked, made, current, amiss>>
        BY <1>2, AtWork DEF HelloArrives, Shows
    <2>2. /\ sess[s] \in Record /\ Orderly(sess[s]) /\ Typed(sess[s])
          /\ DOMAIN sess[s] = Fields
        BY AtWork
    <2>3. Typed(t) /\ t = [y \in DOMAIN sess[s] |-> t[y]]
        BY <2>2 DEF Typed, Fields, Unmade, Stages
    <2>4. /\ t.role = sess[s].role
          /\ t.call = sess[s].call
          /\ t.socket = sess[s].socket
          /\ t.heard = sess[s].heard
          /\ t.pc = sess[s].pc
          /\ t.stage = "verifying"
          /\ t.closed = sess[s].closed
        BY <2>2 DEF Fields, Unmade
    <2> HIDE DEF t
    <2>5. t \in Record /\ sess[s] # Unmade
        BY <1>2, <2>1, <2>2, <2>3, RecordUpdated DEF Unmade
    <2>6. Orderly(t)
        BY <1>2, <2>1, <2>2, <2>4 DEF Orderly
    <2>7. amiss \subseteq amiss' /\ amiss' \subseteq Ways
        BY <2>1, AtWork DEF Ways
    <2>8. "outlived" \notin amiss' =>
            /\ ShutOK(t, amiss') /\ (s # current' => Left(t, amiss'))
            /\ current' = current \/ current = s
        BY <1>2, <2>1, <2>2, <2>4, AtWork DEF ShutOK, Left, Orderly
    <2>9. Told(s, t, "connected")
        BY <1>2, <2>1, <2>2, <2>4, <2>8, AtWork DEF Told, Orderly, ShutOK
    <2>10. "connected" \in States /\ current' \in {0, current}
        BY <2>1 DEF States
    <2>11. QED
        BY <2>1, <2>5, <2>6, <2>7, <2>8, <2>9, <2>10, AtWork, SessionStep DEF Only
<1>3. QED
    BY <1>1, <1>2 DEF HelloArrives

(* Every step of the store, the screens and the sessions keeps ManagerInv.  *)
LEMMA ManagerStep ==
    ASSUME ManagerInv, [Next]_vars
    PROVE  ManagerInv'
<1>1. CASE UNCHANGED vars
    <2>1. UNCHANGED <<sess, current, conn, made, contacts, amiss, screen, locked>>
        BY <1>1 DEF vars
    <2>2. QED
        BY <2>1, ScreenKeeps DEF ManagerInv, TypeOK
<1>2. CASE hostSession
    <2>1. Begins("host")
        BY <1>2 DEF hostSession
    <2>2. QED
        BY <2>1, BeginKeeps
<1>3. CASE joinSession
    <2>1. Begins("join")
        BY <1>3 DEF joinSession
    <2>2. QED
        BY <2>1, BeginKeeps
<1>4. CASE OpenConnect \/ CloseChat \/ Unlock
    <2>1. UNCHANGED <<sess, current, conn, made, contacts, amiss>>
        BY <1>4 DEF OpenConnect, CloseChat, Unlock
    <2>2. locked' \in BOOLEAN
        BY <1>4 DEF OpenConnect, CloseChat, Unlock, ManagerInv, TypeOK
    <2>3. screen' \in [overlay : {"none", "connect", "chat"}, pane : Panes, started : BOOLEAN]
        <3>1. screen \in [overlay : {"none", "connect", "chat"}, pane : Panes, started : BOOLEAN]
            BY DEF ManagerInv, TypeOK
        <3>2. CASE OpenConnect
            <4>1. screen' = [overlay |-> "connect", pane |-> "invite", started |-> FALSE]
                BY <3>2 DEF OpenConnect
            <4>2. QED
                BY <4>1 DEF Panes
        <3>3. CASE CloseChat
            <4>1. screen' = NoScreen
                BY <3>3 DEF CloseChat
            <4>2. QED
                BY <4>1 DEF NoScreen, Panes
        <3>4. QED
            BY <1>4, <3>1, <3>2, <3>3 DEF Unlock
    <2>4. QED
        BY <2>1, <2>2, <2>3, ScreenKeeps
<1>5. CASE leave \/ lockVault \/ \E pane \in Panes : switchMode(pane)
    <2>1. cancelSession /\ amiss' = amiss /\ contacts' = contacts
        BY <1>5 DEF leave, lockVault, switchMode
    <2>2. locked' \in BOOLEAN
        BY <1>5 DEF leave, lockVault, switchMode, ManagerInv, TypeOK
    <2>3. screen' \in [overlay : {"none", "connect", "chat"}, pane : Panes, started : BOOLEAN]
        <3>1. screen \in [overlay : {"none", "connect", "chat"}, pane : Panes, started : BOOLEAN]
            BY DEF ManagerInv, TypeOK
        <3>2. CASE leave \/ lockVault
            <4>1. screen' = NoScreen
                BY <3>2 DEF leave, lockVault
            <4>2. QED
                BY <4>1 DEF NoScreen, Panes
        <3>3. CASE \E pane \in Panes : switchMode(pane)
            <4>1. PICK pane \in Panes : screen' = [screen EXCEPT !.pane = pane, !.started = FALSE]
                BY <3>3 DEF switchMode
            <4>2. QED
                BY <3>1, <4>1
        <3>4. QED
            BY <1>5, <3>2, <3>3
    <2>4. /\ made'.sessions = made.sessions
          /\ made' \in [sessions : 0..MaxSessions, locks : 0..MaxLocks]
        <3>1. made \in [sessions : 0..MaxSessions, locks : 0..MaxLocks] /\ MaxLocks \in Nat
            BY ManagerAssumption DEF ManagerInv, TypeOK
        <3>2. CASE made' = made
            BY <3>1, <3>2
        <3>3. CASE lockVault
            <4>1. made' = [made EXCEPT !.locks = made.locks + 1] /\ made.locks < MaxLocks
                BY <3>3 DEF lockVault
            <4>2. made.locks + 1 \in 0..MaxLocks
                BY <3>1, <4>1
            <4>3. QED
                BY <3>1, <4>1, <4>2
        <3>4. QED
            BY <1>5, <3>2, <3>3 DEF leave, switchMode
    <2>5. QED
        BY <2>1, <2>2, <2>3, <2>4, CancelKeeps
<1>6. ASSUME NEW s \in Session,
             NegotiationFails(s) \/ NegotiationBreaks(s) \/ HandshakeFails(s) \/ (Secure(s) /\ locked)
      PROVE  ManagerInv'
    BY <1>6, FailureKeeps
<1>7. ASSUME NEW s \in Session, Secure(s), ~locked
      PROVE  ManagerInv'
    BY <1>7, SecureKeeps
<1>8. ASSUME NEW s \in Session, Settles(s)
      PROVE  ManagerInv'
    BY <1>8, SocketKeeps, GrantedKeeps, CallFailsKeeps DEF Settles
<1>9. ASSUME NEW s \in Session, PeerJoined(s) \/ OfferArrives(s) \/ AnswerArrives(s)
                                   \/ ChannelOpens(s) \/ HelloMade(s) \/ HelloArrives(s)
      PROVE  ManagerInv'
    BY <1>9, JoinedKeeps, OfferKeeps, AnswerKeeps, OpensKeeps, MadeKeeps, HelloKeeps
<1>10. ASSUME NEW s \in Session, ChannelCloses(s) \/ RelayLost(s)
       PROVE  ManagerInv'
    BY <1>10, ChannelKeeps, RelayKeeps
<1>11. ASSUME NEW s \in Session, ChannelErrs(s) \/ RelayCloses(s) \/ FrameFails(s)
       PROVE  ManagerInv'
    BY <1>11, ReportsKeep
<1>12. QED
    BY <1>1, <1>2, <1>3, <1>4, <1>5, <1>6, <1>7, <1>8, <1>9, <1>10, <1>11 DEF Next

(* So it always holds.                                                      *)
LEMMA ManagerHolds == Spec => []ManagerInv
<1>1. Init => ManagerInv
    <2> SUFFICES ASSUME Init PROVE ManagerInv
        OBVIOUS
    <2>1. TypeOK
        <3>1. sess \in [Session -> Record]
            BY DEF Init, Unmade, Record, Stages
        <3>2. /\ made \in [sessions : 0..MaxSessions, locks : 0..MaxLocks]
              /\ current \in 0..made.sessions
              /\ conn \in [state : States, from : 0..MaxSessions]
            BY ManagerAssumption DEF Init, States
        <3>3. screen \in [overlay : {"none", "connect", "chat"}, pane : Panes, started : BOOLEAN]
            BY DEF Init, NoScreen, Panes
        <3>4. /\ locked \in BOOLEAN /\ amiss \subseteq Ways
              /\ contacts \in [all : SUBSET Session, keyless : SUBSET Session]
            BY DEF Init
        <3>5. QED
            BY <3>1, <3>2, <3>3, <3>4 DEF TypeOK, Record
    <2>2. QED
        BY <2>1 DEF Init, ManagerInv, Unused, AllOrderly, Orderly, OthersLeft, ShutOK, Left, Unmade,
                    ShownIsCurrent, SecureIsUsable, ContactsHaveKeys
<1>2. QED
    BY <1>1, ManagerStep, PTL DEF Spec

(* What is alive, what the screens show and what is called secure is the    *)
(* store's session, whatever the order of cancellations, locks, late        *)
(* answers of the relay, late hellos, late handshakes and late frames,      *)
(* apart from the ways recorded in amiss.                                   *)
THEOREM SessionsAlwaysAgree == Spec => []SessionsAgree
<1>1. ManagerInv => SessionsAgree
    BY DEF ManagerInv, SessionsAgree, AliveIsCurrent, Only, OthersLeft, ShutOK, Left
<1>2. QED
    BY <1>1, ManagerHolds, PTL

(* One device never has two secure sessions at once, however many are made  *)
(* and cancelled, apart from a call that outlived close() and a handshake   *)
(* completed after it; late hellos and late frames make none secure.        *)
THEOREM NeverTwoSecure == Spec => []OneSecureSession
<1>1. ManagerInv => OneSecureSession
    <2> SUFFICES ASSUME ManagerInv, Only({"refused", "greeted", "dropped"})
                 PROVE  Cardinality({s \in Session : sess[s].stage = "secure"}) <= 1
        BY DEF OneSecureSession
    <2> DEFINE Secured == {s \in Session : sess[s].stage = "secure"}
    <2>1. Secured \subseteq {current}
        BY DEF ManagerInv, Only, OthersLeft, ShutOK, Left
    <2>2. IsFiniteSet({current}) /\ Cardinality({current}) = 1
        BY FS_Singleton
    <2>3. Cardinality(Secured) <= Cardinality({current})
        BY <2>1, <2>2, FS_Subset
    <2>4. IsFiniteSet(Secured)
        BY <2>1, <2>2, FS_Subset
    <2>5. Cardinality(Secured) \in Nat
        BY <2>4, FS_CardinalityType
    <2>6. QED
        BY <2>2, <2>3
<1>2. QED
    BY <1>1, ManagerHolds, PTL
=============================================================================

------------------------------ MODULE Composer ------------------------------
(***************************************************************************)
(* Writing, recording and sending in a chat (components/chat.tsx), and the *)
(* one toast that tells when it failed (hooks/use-toast.ts).               *)
(*                                                                         *)
(* The chat that is open and the peer of the secure channel are two        *)
(* things: what is sent goes to the channel (store/app-store.ts, sendText  *)
(* and sendAttachment), whichever chat it is sent from.  ChatView keeps    *)
(* its state while it stays mounted, also when the contact changes; a      *)
(* callback that ends later changes only the ChatView that started it.     *)
(*                                                                         *)
(* A message is made of pieces that are typed, a voice note is named by    *)
(* its recording.  The history variable amiss records:                     *)
(*   elsewhere the chat of one contact is open on the channel of another   *)
(*   kept      ChatView turned to another contact in the middle of things  *)
(*   typing    something was typed while a message was being sent          *)
(*   twice     two recordings were asked for at once                       *)
(*   left      ChatView was left in the middle of a recording              *)
(***************************************************************************)
EXTENDS Naturals, FiniteSets

CONSTANTS Contact,    \* contacts
          Piece,      \* what may be typed
          MaxNotes,   \* bound on recordings
          MaxMounts,  \* bound on ChatViews that were mounted
          MaxToasts,  \* bound on toasts
          MaxAmiss    \* bound on how many of the ways below a behaviour takes


VARIABLES
    peer,     \* whose channel is secure
    open,     \* AppState.activeContactId, the overlay being the chat
    view,     \* the mounted ChatView
    notes,    \* the recordings: where each stands, who made it, for whom
    sends,    \* calls of sendText and sendAttachment under way
    chunks,   \* chunksRef of each ChatView: recordings it holds data of
    toast,    \* the toast, and those with a timer to remove them
    meant,    \* history: in whose chat each piece was typed
    sent,     \* history: what went to whom
    amiss     \* history: see above

chatVars == <<peer, open, view, notes, chunks, sends, toast, meant, sent, amiss>>

None == "none"
Note == 1..MaxNotes

(* No contact is the absence of one, and nothing typed is a recording.      *)
ASSUME ComposerAssumption ==
    /\ {MaxNotes, MaxMounts, MaxToasts, MaxAmiss} \subseteq Nat
    /\ None \notin Contact /\ Piece \cap Note = {}

Fresh(n) ==
    [number |-> n, draft |-> {}, sending |-> FALSE, recording |-> FALSE,
     recorder |-> 0]

ChatInit ==
    /\ peer = None /\ open = None /\ view = Fresh(0)
    /\ notes = [n \in Note |-> [state |-> "new", view |-> 0, by |-> None]]
    /\ toast = [id |-> 0, open |-> FALSE, made |-> 0, seen |-> FALSE, timers |-> {}]
    /\ sends = {}
    /\ chunks = [v \in 0..MaxMounts |-> {}]
    /\ meant = [t \in Piece |-> None] /\ sent = {} /\ amiss = {}

Blame(ways) == amiss' = amiss \cup ways /\ Cardinality(amiss \cup ways) <= MaxAmiss
If(condition, way) == IF condition THEN {way} ELSE {}

-----------------------------------------------------------------------------
(* Toasts: one is shown, a closed one is removed after a while.             *)
Told ==
    /\ toast.made < MaxToasts
    /\ toast' = [toast EXCEPT !.id = toast.made + 1, !.open = TRUE, !.made = @ + 1,
                              !.seen = FALSE]

(* Any other screen has something to tell, a success among the rest: the    *)
(* limit is one toast, and the newest replaces the one that is there.       *)
ToldElsewhere == Told /\ UNCHANGED <<peer, open, view, notes, chunks, sends, meant, sent, amiss>>

Dismiss ==
    /\ toast.id # 0
    /\ toast' = [toast EXCEPT !.open = FALSE, !.timers = @ \cup {toast.id},
                              !.seen = TRUE]
    /\ UNCHANGED <<peer, open, view, notes, chunks, sends, meant, sent, amiss>>

Removed(id) == toast.id = id
RemoveToast(id) ==
    /\ id \in toast.timers
    /\ toast' = [toast EXCEPT !.timers = @ \ {id},
                              !.id = IF Removed(id) THEN 0 ELSE @,
                              !.open = @ /\ ~Removed(id)]
    /\ UNCHANGED <<peer, open, view, notes, chunks, sends, meant, sent, amiss>>

-----------------------------------------------------------------------------
(* Chats and channels.                                                      *)
Recorders == {n \in Note : notes[n].state \in {"live", "stopping"}}
Recording == Recorders \cup {n \in Note : notes[n].state = "asked"}
Microphone == Recorders \cup {n \in Note : notes[n].state = "leaked"}
Mine(n) == open # None /\ notes[n].view = view.number
Unsent == {t \in Piece : meant[t] # None /\ ~\E s \in sent : t \in s.what}
Strays(o, p) == If(o # p /\ None \notin {o, p}, "elsewhere")

(* History: pieces that went with the chat they were typed in.              *)
Forgets(pieces) == meant' = [t \in Piece |-> IF t \in pieces THEN None ELSE meant[t]]

(* ChatView is mounted: its state is new.                                   *)
Mounts(c) ==
    /\ view.number < MaxMounts
    /\ open' = c /\ view' = Fresh(view.number + 1)

OpenChat(c) ==
    /\ open = None /\ Mounts(c) /\ Blame(Strays(c, peer))
    /\ UNCHANGED <<peer, notes, chunks, sends, toast, meant, sent>>

(* It is unmounted: what was not sent is gone, a recording is not stopped.  *)
Unmounts ==
    /\ open # None /\ open' = None /\ view' = Fresh(view.number)
    /\ Forgets({t \in view.draft : \A s \in sends : t \notin s.what})
    /\ Blame(If(\E n \in Recording : Mine(n), "left"))

CloseChat == Unmounts /\ UNCHANGED <<peer, notes, chunks, sends, toast, sent>>

(* onSecure opens the chat of the peer; a ChatView that is there stays.     *)
onSecure(c) ==
    /\ peer = None /\ peer' = c
    /\ IF open = None THEN Mounts(c) /\ UNCHANGED amiss
       ELSE /\ open' = c /\ UNCHANGED view
            /\ Blame(If(open # c /\ (view.draft # {} \/ \E n \in Recording : Mine(n)), "kept"))
    /\ UNCHANGED <<notes, chunks, sends, toast, meant, sent>>

ChannelCloses ==
    /\ peer # None /\ peer' = None
    /\ UNCHANGED <<open, view, notes, chunks, sends, toast, meant, sent, amiss>>

lockVault == Unmounts /\ peer' = None /\ UNCHANGED <<notes, chunks, sends, toast, sent>>

-----------------------------------------------------------------------------
(* The text composer.  The text can be edited while it is being sent, not   *)
(* while a voice note is recorded.                                          *)
Type(t) ==
    /\ open # None /\ ~view.recording /\ meant[t] = None
    /\ view' = [view EXCEPT !.draft = @ \cup {t}]
    /\ meant' = [meant EXCEPT ![t] = open]
    /\ Blame(If(view.sending, "typing"))
    /\ UNCHANGED <<peer, open, notes, chunks, sends, toast, sent>>

Sending(kind, what, for) ==
    [kind |-> kind, what |-> what, for |-> for, to |-> peer, view |-> view.number]

(* Without a secure channel sendText throws at once.                        *)
doSendText ==
    /\ open # None /\ view.draft # {} /\ ~view.sending
    /\ IF peer = None
       THEN Told /\ UNCHANGED <<view, sends>>
       ELSE /\ view' = [view EXCEPT !.sending = TRUE]
            /\ sends' = sends \cup {Sending("text", view.draft, open)}
            /\ UNCHANGED toast
    /\ UNCHANGED <<peer, open, notes, chunks, meant, sent, amiss>>

Current(s) == open # None /\ s.view = view.number
EndsInView(s, draft) ==
    view' = IF s.kind = "text" /\ Current(s)
            THEN [view EXCEPT !.sending = FALSE, !.draft = draft] ELSE view

(* The channel was still there when the ciphertext was ready.               *)
SentToWhoever(s) ==
    /\ peer # None
    /\ sent' = sent \cup {[what |-> s.what, for |-> s.for, to |-> peer]}
    /\ EndsInView(s, {}) /\ sends' = sends \ {s}
    /\ UNCHANGED <<peer, open, notes, chunks, toast, meant, amiss>>

Sent(s) ==
    /\ peer = s.to
    /\ sent' = sent \cup {[what |-> s.what, for |-> s.for, to |-> s.to]}
    /\ EndsInView(s, {}) /\ sends' = sends \ {s}
    /\ UNCHANGED <<peer, open, notes, chunks, toast, meant, amiss>>

Fails(s, draft) ==
    /\ EndsInView(s, draft) /\ Told /\ sends' = sends \ {s}
    /\ Forgets(IF Current(s) THEN {} ELSE s.what)
    /\ UNCHANGED <<peer, open, notes, chunks, sent, amiss>>
SendFails(s) == Fails(s, view.draft)

-----------------------------------------------------------------------------
(* Voice notes.  toggleRecording asks for the microphone, and the recorder  *)
(* replaces the last one when it is given.                                  *)
Asks(n) ==
    /\ open # None /\ ~view.recording
    /\ notes[n].state = "new" /\ \A m \in 1..(n - 1) : notes[m].state # "new"
    /\ notes' = [notes EXCEPT ![n] = [state |-> "asked", view |-> view.number, by |-> open]]
    /\ Blame(If(\E m \in Recording : Mine(m), "twice"))
    /\ UNCHANGED <<peer, open, view, chunks, sends, toast, meant, sent>>

MicGiven(n) ==
    /\ notes[n].state = "asked"
    /\ notes' = [notes EXCEPT ![n].state = "live"]
    /\ view' = IF Mine(n) THEN [view EXCEPT !.recorder = n, !.recording = TRUE] ELSE view
    /\ chunks' = [chunks EXCEPT ![notes[n].view] = {}]
    /\ UNCHANGED <<peer, open, sends, toast, meant, sent, amiss>>

MicRefused(n) ==
    /\ notes[n].state = "asked"
    /\ notes' = [notes EXCEPT ![n].state = "done"] /\ Told
    /\ UNCHANGED <<peer, open, view, chunks, sends, meant, sent, amiss>>

(* The same catch takes what comes after the microphone was given, and no   *)
(* track is stopped: "Microphone unavailable" is told with it open.  Either *)
(* the recorder could not be made, or it could not be started.              *)
Leaks(n) == notes[n].state = "asked" /\ notes' = [notes EXCEPT ![n].state = "leaked"] /\ Told

NoRecorder(n) ==
    Leaks(n) /\ UNCHANGED <<peer, open, view, chunks, sends, meant, sent, amiss>>

NotStarted(n) ==
    /\ Leaks(n)
    /\ view' = IF Mine(n) THEN [view EXCEPT !.recorder = n] ELSE view
    /\ chunks' = [chunks EXCEPT ![notes[n].view] = {}]
    /\ UNCHANGED <<peer, open, sends, meant, sent, amiss>>

Stop ==
    /\ open # None /\ view.recording /\ view.recorder \in Recorders
    /\ notes' = [notes EXCEPT ![view.recorder].state = "stopping"]
    /\ UNCHANGED <<peer, open, view, chunks, sends, toast, meant, sent, amiss>>

(* recorder.onstop, also when the microphone goes: the note is what lies in *)
(* the chunks, and is sent to whoever is there.                             *)
EndsRecordingNever(n) == FALSE
EndsRecording(n) == Mine(n)
Stopped(n) ==
    /\ n \in Recorders
    /\ notes' = [notes EXCEPT ![n].state = "done"]
    /\ view' = [view EXCEPT !.recording = @ /\ ~EndsRecording(n)]
    /\ chunks' = [chunks EXCEPT ![notes[n].view] = @ \cup {n}]
    /\ IF peer = None
       THEN Told /\ UNCHANGED sends
       ELSE /\ sends' = sends \cup {Sending("voice", chunks'[notes[n].view], notes[n].by)}
            /\ UNCHANGED toast
    /\ UNCHANGED <<peer, open, meant, sent, amiss>>

-----------------------------------------------------------------------------
ChatNext ==
    \/ Dismiss \/ ToldElsewhere
    \/ \E id \in toast.timers : RemoveToast(id)
    \/ \E c \in Contact : OpenChat(c) \/ onSecure(c)
    \/ CloseChat \/ ChannelCloses \/ lockVault
    \/ \E t \in Piece : Type(t)
    \/ doSendText \/ Stop
    \/ \E s \in sends : Sent(s) \/ SendFails(s)
    \/ \E n \in Note : \/ Asks(n) \/ MicGiven(n) \/ MicRefused(n)
                      \/ NoRecorder(n) \/ NotStarted(n) \/ Stopped(n)

ChatSpec == ChatInit /\ [][ChatNext]_chatVars

-----------------------------------------------------------------------------
Ways == {"elsewhere", "kept", "typing", "twice", "left"}
Only(ways) == amiss \subseteq ways

(* The values the chat, its calls and the toast can hold.                   *)
ChatTypeOK ==
    /\ {peer, open} \subseteq Contact \cup {None}
    /\ view \in [number : 0..MaxMounts, draft : SUBSET Piece, sending : BOOLEAN,
                 recording : BOOLEAN, recorder : 0..MaxNotes]
    /\ chunks \in [0..MaxMounts -> SUBSET Note]
    /\ notes \in [Note -> [state : {"new", "asked", "live", "stopping", "leaked", "done"},
                           view : 0..MaxMounts, by : Contact \cup {None}]]
    /\ sends \subseteq [kind : {"text", "voice"}, what : (SUBSET Piece) \cup (SUBSET Note),
                        for : Contact, to : Contact, view : 0..MaxMounts]
    /\ toast \in [id : 0..MaxToasts, open : BOOLEAN, made : 0..MaxToasts,
                  seen : BOOLEAN, timers : SUBSET (1..MaxToasts)]
    /\ amiss \subseteq Ways

(* An open microphone is shown by the chat whose button closes it, unless   *)
(* it is one of those the catch of toggleRecording leaves open; a chat that *)
(* shows a recording has one.                                               *)
MicShown ==
    Only(Ways \ {"twice", "left"}) =>
        /\ \A n \in Microphone : \/ Mine(n) /\ view.recording /\ view.recorder = n
                                 \/ notes[n].state = "leaked"
        /\ view.recording => view.recorder \in Recorders

(* A voice note holds its own recording and no other's.                     *)
NotesWhole ==
    Only(Ways \ {"twice"}) => \A s \in sent : s.what \subseteq Note => Cardinality(s.what) = 1

(* What was typed is in the composer or was sent, until the chat is left: a *)
(* failed send loses nothing.                                               *)
TextKept ==
    Only(Ways \ {"typing"}) /\ open # None =>
        Unsent \subseteq view.draft \cup UNION {s.what : s \in {r \in sends : ~Current(r)}}

(* The newest toast is shown until it is dismissed: no older toast's timer  *)
(* takes it away.  A failure goes unseen only when something newer is told. *)
NewestToastShown ==
    toast.made # 0 /\ ~toast.seen => toast.open /\ toast.id = toast.made

(* The composer loses nothing and hides nothing, in one formula.            *)
ComposerAgrees == ChatTypeOK /\ MicShown /\ NotesWhole /\ TextKept /\ NewestToastShown

(* Whoever a message goes to is the contact in whose chat it was written    *)
(* or recorded, however chats and channels change while it is encrypted.    *)
Misdirected ==
    {s \in sent : \/ s.to # s.for
                  \/ \E t \in Piece : t \in s.what /\ meant[t] # s.to}
SentToItsChat == Only({"typing", "twice"}) => Misdirected = {}

(* SECURITY.md says that sending fails honestly if the peer is offline.     *)
OfflineSendingFails == \A s \in sent : s.to = s.for
=============================================================================

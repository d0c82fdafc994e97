------------------------- MODULE ConversationStore -------------------------
(***************************************************************************)
(* Contacts, conversations and messages of one device: what the store      *)
(* shows (zustand state, store/app-store.ts) and what IndexedDB holds      *)
(* (storage/vault-store.ts).                                               *)
(*                                                                         *)
(* Session callbacks change memory at once and start their writes without  *)
(* awaiting them; put() encrypts before it stores, so writes land in any   *)
(* order.  The operations on a contact take a snapshot of the store, await *)
(* their own writes and put a value computed from the snapshot back.       *)
(* Locking the vault empties the store and drops the identity, whatever is *)
(* under way; unlocking loads the store from the database again.  Which    *)
(* session a callback comes from, and whether it has been closed since, is *)
(* SessionManager's: here any peer's may come at any time.                 *)
(*                                                                         *)
(* Memory and disk do come apart.  The history variable amiss records how: *)
(*   stale        a snapshot was put back over something newer, or the     *)
(*                store was used, locked or loaded before it was settled   *)
(*   overtaken    two writes of one record were in flight at once          *)
(*   resurrected  a record was written while its conversation was deleted  *)
(*   unheard      a message came from a peer without a conversation        *)
(*   unlisted     a message was stored for a cleared conversation           *)
(*   cut          the page was reloaded with writes in flight, or a lock   *)
(*                ended a deletion halfway                                 *)
(* Each property names those it depends on.                                *)
(***************************************************************************)
EXTENDS Naturals, FiniteSets

CONSTANTS Peer,         \* fingerprints of other devices
          Message,      \* messages, system messages included
          Attachment,   \* those with an attachment
          MaxContacts,  \* bound on contact ids ever made
          MaxOps,       \* bound on operations ever started
          MaxTogether,  \* bound on operations in flight at once
          MaxPending,   \* bound on writes in flight at once
          MaxUnlocks,   \* bound on unlocks
          MaxAmiss,     \* bound on how many of the ways above are taken
          MaxListed     \* how many messages of a conversation are loaded (300)

ASSUME StoreAssumption ==
    /\ Attachment \subseteq Message /\ IsFiniteSet(Message)
    /\ {MaxContacts, MaxOps, MaxTogether, MaxPending, MaxUnlocks, MaxAmiss, MaxListed} \subseteq Nat

VARIABLES
    mem,      \* the store: contacts, conversations, messages
    disk,     \* the same records in IndexedDB, and attachment blobs
    pending,  \* writes started and not awaited
    tasks,    \* operations on contacts that are awaiting
    identity, \* is privateRefs.identity there: is the vault unlocked?
    loads,    \* loads of the store that are awaiting, as first read
    made,     \* contact ids, messages, operations, unlocks so far
    amiss     \* history: see above

vars == <<mem, disk, pending, tasks, identity, loads, made, amiss>>

Contact == [id : 1..MaxContacts, peer : Peer, renamed : BOOLEAN, verified : BOOLEAN]
Convo == {"none", "read", "unread"}

Nothing == [contacts |-> {}, convos |-> [p \in Peer |-> "none"], msgs |-> [p \in Peer |-> {}]]

Init ==
    /\ mem = Nothing
    /\ disk = [contacts |-> {}, convos |-> [p \in Peer |-> "none"],
               msgs |-> [p \in Peer |-> {}], blobs |-> [p \in Peer |-> {}]]
    /\ pending = {} /\ tasks = {} /\ identity = TRUE /\ loads = {}
    /\ made = [ids |-> 0, msgs |-> {}, ops |-> 0, unlocks |-> 0]
    /\ amiss = {}

-----------------------------------------------------------------------------
(* Records.                                                                 *)
With(contacts, c) == {d \in contacts : d.id # c.id} \cup {c}
Without(contacts, id) == {d \in contacts : d.id # id}
ContactsOf(p) == {c \in mem.contacts : c.peer = p}

PutContact(c) == [store |-> "contacts", peer |-> c.peer, value |-> c]
PutConvo(p, v) == [store |-> "conversations", peer |-> p, value |-> v]
AppendMessage(p, m) == [store |-> "messages", peer |-> p, value |-> m]
PutBlob(p, m) == [store |-> "attachments", peer |-> p, value |-> m]
Appends(p, m) ==
    {AppendMessage(p, m)} \cup (IF m \in Attachment THEN {PutBlob(p, m)} ELSE {})

SameRecord(v, w) ==
    /\ v.store = w.store /\ v.peer = w.peer
    /\ v.store \in {"contacts", "conversations"}

If(condition, way) == IF condition THEN {way} ELSE {}
Blame(ways) == amiss' = amiss \cup ways /\ Cardinality(amiss \cup ways) <= MaxAmiss

(* What starting the writes ws may do to others under way.                  *)
Deleting(p) == \E t \in tasks : t.op \in {"delete", "clear"} /\ t.contact.peer = p
Rewriting(p) == \E t \in tasks : t.contact.peer = p
Harms(ws) ==
    If(\E w \in ws, v \in pending : SameRecord(v, w), "overtaken")
    \cup If(\E w \in ws : Deleting(w.peer), "resurrected")
    \cup If(\E w \in ws : w.store = "contacts" /\ Rewriting(w.peer), "stale")

Starts(ws) ==
    /\ Cardinality(pending \cup ws) <= MaxPending
    /\ pending' = pending \cup ws
NewMessage(m) == m \notin made.msgs /\ made' = [made EXCEPT !.msgs = @ \cup {m}]

(* The vault is unlocked and the store has been loaded.                     *)
Open == identity /\ loads = {}
Vault == <<identity, loads>>

-----------------------------------------------------------------------------
(* Callbacks of the session.  onSecure finds or makes the contact and the   *)
(* conversation, and adds a system message; it throws without an identity.  *)
NewContact(p) ==
    IF made.ids = MaxContacts THEN {}
    ELSE {[id |-> made.ids + 1, peer |-> p, renamed |-> FALSE, verified |-> FALSE]}

SecureContactsUnverified(p) ==
    IF ContactsOf(p) = {} THEN NewContact(p)
    ELSE {[c EXCEPT !.verified = FALSE] : c \in ContactsOf(p)}

SecureContacts(p) == IF ContactsOf(p) = {} THEN NewContact(p) ELSE ContactsOf(p)

(* Is there, or will there be, a conversation record to load messages by?   *)
Listed(p, ws) ==
    \/ disk.convos[p] # "none"
    \/ \E w \in pending \cup ws : w.store = "conversations" /\ w.peer = p

onSecure(p, c, sys) ==
    LET convo == IF mem.convos[p] = "none" THEN "read" ELSE mem.convos[p]
        ws == {PutContact(c), AppendMessage(p, sys)}
              \cup (IF mem.convos[p] = "none" THEN {PutConvo(p, "read")} ELSE {})
    IN  /\ identity /\ sys \notin made.msgs
        /\ made' = [made EXCEPT !.msgs = @ \cup {sys}, !.ids = IF c.id > @ THEN c.id ELSE @]
        /\ mem' = [contacts |-> With(mem.contacts, c),
                   convos |-> [mem.convos EXCEPT ![p] = convo],
                   msgs |-> [mem.msgs EXCEPT ![p] = @ \cup {sys}]]
        /\ Starts(ws)
        /\ Blame(Harms(ws) \cup If(~Listed(p, ws), "unlisted") \cup If(loads # {}, "stale"))
        /\ UNCHANGED <<disk, tasks, Vault>>

(* A message is appended to disk always, and shown only if its conversation *)
(* is there (an incoming one also needs the contact).                       *)
Keep(p, m, known, convo) ==
    LET ws == Appends(p, m) \cup (IF known THEN {PutConvo(p, convo)} ELSE {})
    IN  /\ NewMessage(m) /\ Starts(ws)
        /\ mem' = IF known
                  THEN [mem EXCEPT !.convos[p] = convo, !.msgs[p] = @ \cup {m}]
                  ELSE mem
        /\ Blame(Harms(ws) \cup If(~known, "unheard"))
        /\ UNCHANGED <<disk, tasks, Vault>>

(* seen: the chat is open and the page visible.                             *)
onIncoming(p, m, seen) ==
    Keep(p, m, ContactsOf(p) # {} /\ mem.convos[p] # "none", IF seen THEN "read" ELSE "unread")

(* sendText and sendAttachment after the session has sent the message.      *)
Sent(p, m) == Keep(p, m, mem.convos[p] # "none", mem.convos[p])

openChatWithContact(c) ==
    LET ws == {PutConvo(c.peer, "read")}
    IN  /\ c \in mem.contacts /\ mem.convos[c.peer] = "unread"
        /\ mem' = [mem EXCEPT !.convos[c.peer] = "read"]
        /\ Starts(ws) /\ Blame(Harms(ws))
        /\ UNCHANGED <<disk, tasks, Vault, made>>

-----------------------------------------------------------------------------
(* Operations on a contact: a snapshot, awaited writes, a set().            *)
FirstPlace(op) == CASE op \in {"verify", "rename"} -> "write"
                    [] op = "delete" -> "contact"
                    [] op = "clear" -> "convo"

Begin(op, c) ==
    /\ c \in mem.contacts /\ made.ops < MaxOps /\ Cardinality(tasks) < MaxTogether
    /\ op = "verify" => ~c.verified
    /\ op = "rename" => ~c.renamed
    /\ op \in {"delete", "clear"} => identity
    /\ tasks' = tasks \cup {[op |-> op, contact |-> c, at |-> FirstPlace(op),
                             snap |-> mem, doomed |-> {}]}
    /\ made' = [made EXCEPT !.ops = @ + 1]
    /\ Blame(If(\E w \in pending : w.peer = c.peer /\ op \in {"delete", "clear"}, "resurrected")
             \cup If(\/ Rewriting(c.peer)
                     \/ \E w \in pending : SameRecord(w, PutContact(c)), "stale"))
    /\ UNCHANGED <<mem, disk, pending, Vault>>

Goes(t, u) == tasks' = (tasks \ {t}) \cup {u}
Awaits(t, place) == Goes(t, [t EXCEPT !.at = place])
               /\ UNCHANGED <<mem, pending, Vault, made, amiss>>

Updated(t) == [t.contact EXCEPT !.verified = @ \/ t.op = "verify",
                                !.renamed = @ \/ t.op = "rename"]

putContactUnchanged(t) ==
    /\ t.at = "write" /\ Awaits(t, "set")
    /\ disk' = [disk EXCEPT !.contacts = With(@, t.contact)]

putContact(t) ==
    /\ t.at = "write" /\ Awaits(t, "set")
    /\ disk' = [disk EXCEPT !.contacts = With(@, Updated(t))]

deleteContactRecord(t) ==
    /\ t.at = "contact" /\ Awaits(t, "identity")
    /\ disk' = [disk EXCEPT !.contacts = Without(@, t.contact.id)]

(* The conversation's id is made from the identity, which a lock has        *)
(* dropped: then deleteContact throws, with the contact gone.               *)
findConvo(t) ==
    /\ t.at = "identity"
    /\ IF identity
       THEN Awaits(t, "convo")
       ELSE /\ tasks' = tasks \ {t} /\ Blame({"cut"})
            /\ UNCHANGED <<mem, pending, Vault, made>>
    /\ UNCHANGED disk

deleteConvoRecordForgotten(t) ==
    t.at = "convo" /\ Awaits(t, "keys") /\ UNCHANGED disk

(* deleteConversation: the record, then the keys as listed.                 *)
deleteConvoRecord(t) ==
    /\ t.at = "convo" /\ Awaits(t, "keys")
    /\ disk' = [disk EXCEPT !.convos[t.contact.peer] = "none"]

listMessageKeys(t) ==
    /\ t.at = "keys"
    /\ Goes(t, [t EXCEPT !.at = "messages", !.doomed = disk.msgs[t.contact.peer]])
    /\ UNCHANGED <<mem, disk, pending, Vault, made, amiss>>

deleteMessages(t) ==
    /\ t.at = "messages" /\ Awaits(t, "set")
    /\ disk' = [disk EXCEPT !.msgs[t.contact.peer] = @ \ t.doomed]

(* The set() that ends the operation, computed from the snapshot.           *)
PutBack(t) ==
    LET p == t.contact.peer IN
    CASE t.op \in {"verify", "rename"} ->
           [mem EXCEPT !.contacts = {IF c.id = t.contact.id THEN Updated(t) ELSE c
                                       : c \in t.snap.contacts}]
      [] t.op = "delete" ->
           [contacts |-> Without(t.snap.contacts, t.contact.id),
            convos |-> [t.snap.convos EXCEPT ![p] = "none"],
            msgs |-> [t.snap.msgs EXCEPT ![p] = {}]]
      [] t.op = "clear" ->
           [mem EXCEPT !.convos = [t.snap.convos EXCEPT
                           ![p] = IF @ = "none" THEN @ ELSE "read"],
                       !.msgs = [t.snap.msgs EXCEPT ![p] = {}]]

(* Does it undo a change made since the snapshot, a lock included?          *)
Undoes(t) ==
    \/ ~Open
    \/ t.op # "clear" /\ mem.contacts # t.snap.contacts
    \/ t.op \in {"delete", "clear"} /\ <<mem.convos, mem.msgs>> # <<t.snap.convos, t.snap.msgs>>

Finish(t) ==
    /\ t.at = "set" /\ tasks' = tasks \ {t}
    /\ mem' = PutBack(t)
    /\ Blame(If(Undoes(t), "stale"))
    /\ UNCHANGED <<disk, pending, Vault, made>>

Operation ==
    \/ \E c \in mem.contacts, op \in {"verify", "rename", "delete", "clear"} : Begin(op, c)
    \/ \E t \in tasks :
         \/ putContact(t) \/ deleteContactRecord(t) \/ findConvo(t) \/ deleteConvoRecord(t)
         \/ listMessageKeys(t) \/ deleteMessages(t) \/ Finish(t)

-----------------------------------------------------------------------------
(* A write nobody awaits reaches the database.                              *)
Stored(w) ==
    CASE w.store = "contacts" -> [disk EXCEPT !.contacts = With(@, w.value)]
      [] w.store = "conversations" -> [disk EXCEPT !.convos[w.peer] = w.value]
      [] w.store = "messages" -> [disk EXCEPT !.msgs[w.peer] = @ \cup {w.value}]
      [] w.store = "attachments" -> [disk EXCEPT !.blobs[w.peer] = @ \cup {w.value}]

Lands(w) ==
    /\ disk' = Stored(w) /\ pending' = pending \ {w}
    /\ UNCHANGED <<mem, tasks, Vault, made, amiss>>

-----------------------------------------------------------------------------
(* lockVault: the store is emptied.  Nothing under way is stopped; a load   *)
(* under way fills the store of the locked vault.                           *)
lockVault ==
    /\ identity /\ identity' = FALSE
    /\ mem' = Nothing
    /\ Blame(If(loads # {}, "stale"))
    /\ UNCHANGED <<disk, pending, tasks, loads, made>>

(* unlockVault brings the identity back, and loadAllData reads the contacts *)
(* and conversations,                                                       *)
unlockVault ==
    /\ ~identity /\ identity' = TRUE
    /\ made.unlocks < MaxUnlocks /\ made' = [made EXCEPT !.unlocks = @ + 1]
    /\ loads' = loads \cup {[contacts |-> disk.contacts, convos |-> disk.convos,
                              msgs |-> disk.msgs]}
    /\ Blame(If(tasks # {} \/ pending # {}, "stale"))
    /\ UNCHANGED <<mem, disk, pending, tasks>>

(* then the newest messages of each conversation it has read, with or       *)
(* without those stored since, and shows them.                              *)
Newest(l) ==
    {msgs \in [Peer -> SUBSET Message] : \A p \in Peer :
        IF l.convos[p] = "none" THEN msgs[p] = {}
        ELSE /\ msgs[p] \subseteq l.msgs[p] \cup disk.msgs[p]
             /\ l.msgs[p] \subseteq msgs[p] \/ Cardinality(msgs[p]) = MaxListed}

loadAllData(l, msgs) ==
    /\ mem' = [contacts |-> l.contacts, convos |-> l.convos, msgs |-> msgs]
    /\ loads' = loads \ {l}
    /\ UNCHANGED <<disk, pending, tasks, identity, made, amiss>>

(* The page is reloaded: what is under way is lost.                         *)
Reload ==
    /\ mem' = Nothing /\ identity' = FALSE
    /\ tasks' = {} /\ pending' = {} /\ loads' = {}
    /\ Blame(If(tasks # {} \/ pending # {}, "cut"))
    /\ UNCHANGED <<disk, made>>

Next ==
    \/ \E p \in Peer : \E c \in SecureContacts(p), sys \in Message \ Attachment : onSecure(p, c, sys)
    \/ \E p \in Peer, m \in Message : Sent(p, m) \/ \E seen \in BOOLEAN : onIncoming(p, m, seen)
    \/ \E c \in mem.contacts : openChatWithContact(c)
    \/ Operation
    \/ \E w \in pending : Lands(w)
    \/ lockVault \/ unlockVault \/ Reload
    \/ \E l \in loads : \E msgs \in Newest(l) : loadAllData(l, msgs)

Spec == Init /\ [][Next]_vars

-----------------------------------------------------------------------------
Quiet == Open /\ tasks = {} /\ pending = {}
Only(ways) == amiss \subseteq ways

Writes ==
    {PutContact(c) : c \in Contact}
    \cup {PutConvo(p, v) : p \in Peer, v \in {"read", "unread"}}
    \cup {AppendMessage(p, m) : p \in Peer, m \in Message}
    \cup {PutBlob(p, m) : p \in Peer, m \in Attachment}

Ways == {"stale", "overtaken", "resurrected", "unheard", "unlisted", "cut"}

(* The values the store, the database and what is in flight can hold.       *)
TypeOK ==
    /\ mem.contacts \subseteq Contact
    /\ DOMAIN mem = {"contacts", "convos", "msgs"}
    /\ mem.convos \in [Peer -> Convo] /\ mem.msgs \in [Peer -> SUBSET Message]
    /\ disk.contacts \subseteq Contact
    /\ DOMAIN disk = {"contacts", "convos", "msgs", "blobs"}
    /\ disk.convos \in [Peer -> Convo] /\ disk.msgs \in [Peer -> SUBSET Message]
    /\ disk.blobs \in [Peer -> SUBSET Attachment]
    /\ pending \subseteq Writes
    /\ \A t \in tasks :
         /\ t.op \in {"verify", "rename", "delete", "clear"} /\ t.contact \in Contact
         /\ t.at \in {"write", "contact", "identity", "convo", "keys", "messages", "set"}
         /\ t.doomed \subseteq Message
    /\ identity \in BOOLEAN /\ \A l \in loads : l.contacts \subseteq Contact
    /\ made.ids \in 0..MaxContacts /\ made.msgs \subseteq Message
    /\ amiss \subseteq Ways

(* Contacts in memory are those on disk once nothing is in flight, also     *)
(* after conversation writes overtook each other, messages went unheard or  *)
(* a reload cut something short.                                            *)
ContactsAgree ==
    Quiet /\ Only({"overtaken", "unheard", "unlisted", "cut"}) => mem.contacts = disk.contacts

(* The messages shown for a conversation are those stored for it, once      *)
(* nothing is in flight, or as many of them as a load takes: none is lost   *)
(* at the next unlock, none comes back, none is held back below the limit.  *)
MessagesAgree ==
    Quiet /\ Only({"overtaken"}) =>
        \A p \in Peer : mem.convos[p] # "none" =>
            /\ mem.msgs[p] \subseteq disk.msgs[p]
            /\ mem.msgs[p] = disk.msgs[p] \/ Cardinality(mem.msgs[p]) >= MaxListed

(* So are the conversations and their unread marks; only a cleared one is   *)
(* shown without being stored.                                              *)
ConvosAgree ==
    Quiet /\ Only({}) =>
        \A p \in Peer : mem.convos[p] # disk.convos[p] =>
            mem.convos[p] = "read" /\ disk.convos[p] = "none" /\ mem.msgs[p] = {}

(* A contact's deletion leaves neither its conversation nor a message on    *)
(* disk (deleteContact with deleteConversation).                            *)
DeletedLeavesNothing ==
    Quiet /\ Only({"overtaken"}) =>
        \A p \in Peer : ContactsOf(p) = {} =>
            disk.convos[p] = "none" /\ disk.msgs[p] = {}

(* onSecure makes a contact only for a peer that has none: no two contacts  *)
(* share a fingerprint, in memory or on disk.                               *)
OneContactPerPeer ==
    Only({"overtaken", "unheard", "unlisted", "cut"}) =>
        \A contacts \in {mem.contacts, disk.contacts} :
            \A c, d \in contacts : c.peer = d.peer => c = d

(* A message that is shown is stored, about to be, or being deleted.        *)
ShownIsKept ==
    Only({"overtaken", "unheard", "unlisted", "cut"}) =>
        \A p \in Peer : \A m \in mem.msgs[p] :
            m \in disk.msgs[p] \/ AppendMessage(p, m) \in pending \/ Deleting(p)

(* Memory and disk tell the same story, in one formula.                     *)
StoreAgrees ==
    /\ TypeOK /\ ContactsAgree /\ MessagesAgree /\ ConvosAgree
    /\ OneContactPerPeer /\ ShownIsKept

(* No reconnect, rename, lock or reload takes a contact's verification      *)
(* away, in the store or on disk, and a stored message leaves the disk only *)
(* while its own conversation is being deleted, whatever else goes on.      *)
StaysVerified(before, after) ==
    \A c \in before, d \in after : c.id = d.id /\ c.verified => d.verified
VerificationKept ==
    amiss' \subseteq {"overtaken", "unheard", "unlisted", "cut"} =>
        /\ StaysVerified(mem.contacts, mem'.contacts)
        /\ StaysVerified(disk.contacts, disk'.contacts)
OnlyDeletionDeletes ==
    \A p \in Peer : ~(disk.msgs[p] \subseteq disk'.msgs[p]) => Deleting(p)
RecordsKept == [][VerificationKept /\ OnlyDeletionDeletes]_vars
=============================================================================

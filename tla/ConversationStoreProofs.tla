---------------------- MODULE ConversationStoreProofs -----------------------
(***************************************************************************)
(* StoreAgrees, DeletedLeavesNothing and RecordsKept of ConversationStore, *)
(* proved for any peers and messages, any number of operations, writes,    *)
(* locks and reloads.                                                      *)
(*                                                                         *)
(* None is inductive by itself: what memory and disk show of a record      *)
(* depends on the writes still in flight and on the operations that are    *)
(* awaiting theirs.  And a lock empties memory while both go on.  StoreInv *)
(* therefore speaks of a story h, the memory that the disk, the writes and *)
(* the operations account for: memory itself while the vault is open, and  *)
(* what it was, or what a load would find, while it is not.  Story says    *)
(* for every contact, message and conversation which write or operation    *)
(* accounts for the difference between h and the disk, VaultInv what       *)
(* memory has to do with h.  As the properties do, they name what each     *)
(* part depends on: TimelyInv holds  *)
(* until something was stale or resurrected, WholeInv until a message was  *)
(* unheard or unlisted or a reload cut something short, CalmInv until      *)
(* anything went wrong.  The core is Apart and OneTask: while nothing was  *)
(* overlapped, a peer has one operation, and no write that it could undo.  *)
(***************************************************************************)
EXTENDS ConversationStore, FiniteSetTheorems, TLAPS

(* What memory holds,                                                       *)
MemOK(x) ==
    /\ DOMAIN x = {"contacts", "convos", "msgs"} /\ x.contacts \subseteq Contact
    /\ x.convos \in [Peer -> Convo] /\ x.msgs \in [Peer -> SUBSET Message]

(* what the database holds,                                                 *)
DiskOK(x) ==
    /\ DOMAIN x = {"contacts", "convos", "msgs", "blobs"} /\ x.contacts \subseteq Contact
    /\ x.convos \in [Peer -> Convo] /\ x.msgs \in [Peer -> SUBSET Message]
    /\ x.blobs \in [Peer -> SUBSET Attachment]

(* the counters,                                                            *)
MadeOK(x) ==
    /\ DOMAIN x = {"ids", "msgs", "ops", "unlocks"}
    /\ x.ids \in 0..MaxContacts /\ x.msgs \subseteq Message

(* the writes in flight                                                     *)
WriteOK(w) ==
    /\ w = [store |-> w.store, peer |-> w.peer, value |-> w.value] /\ w.peer \in Peer
    /\ w.store \in {"contacts", "conversations", "messages", "attachments"}
    /\ w.store = "contacts" => w.value \in Contact /\ w.value.peer = w.peer
    /\ w.store = "conversations" => w.value \in {"read", "unread"}
    /\ w.store = "messages" => w.value \in Message
    /\ w.store = "attachments" => w.value \in Attachment

(* and the operations: their fields,                                        *)
TaskFields == {"op", "contact", "at", "snap", "doomed"}

(* and what they hold at each place.                                        *)
TaskOK(t) ==
    /\ DOMAIN t = TaskFields
    /\ t.op \in {"verify", "rename", "delete", "clear"} /\ t.contact \in Contact
    /\ MemOK(t.snap) /\ t.doomed \subseteq Message
    /\ t.op \in {"verify", "rename"} => t.at \in {"write", "set"}
    /\ t.op = "delete" => t.at \in {"contact", "identity", "convo", "keys", "messages", "set"}
    /\ t.op = "clear" => t.at \in {"convo", "keys", "messages", "set"}

(* The types of the story and of the variables it is about,                 *)
Shape(h) ==
    /\ MemOK(h) /\ DiskOK(disk) /\ MadeOK(made) /\ amiss \subseteq Ways
    /\ \A w \in pending : WriteOK(w)
    /\ \A t \in tasks : TaskOK(t)

(* and those of the others.                                                 *)
VaultOK == MemOK(mem) /\ identity \in BOOLEAN /\ \A l \in loads : MemOK(l)

(* No snapshot was put back over something newer, and nothing was written   *)
(* for what was being deleted.                                              *)
Timely == "stale" \notin amiss /\ "resurrected" \notin amiss

(* Nor was a message stored without its conversation, or anything cut       *)
(* short.                                                                   *)
Whole == Timely /\ "unheard" \notin amiss /\ "unlisted" \notin amiss /\ "cut" \notin amiss

(* Operations that change a contact,                                        *)
Saves(t) == t.op \in {"verify", "rename"}

(* and those that delete.                                                   *)
Deletes(t) == t.op \in {"delete", "clear"}

(* Contacts with one peer or one id are one contact.                        *)
Kin(contacts) == \A c, d \in contacts : c.peer = d.peer \/ c.id = d.id => c = d

(* Ids are counted before they are used.                                    *)
Known(contacts) == \A c \in contacts : c.id <= made.ids

(* No contact is this peer's.                                               *)
Stranger(h, p) == \A c \in h.contacts : c.peer # p

(* A contact in memory is on disk, about to be written, or being written or *)
(* deleted by an operation; one on disk is in memory, unless an operation   *)
(* has gone past it.                                                        *)
ContactsOK(h) ==
    /\ Kin(h.contacts) /\ Known(h.contacts)
    /\ \A t \in tasks : t.contact \in h.contacts
    /\ \A w \in pending : w.store = "contacts" => w.value \in h.contacts
    /\ \A c \in h.contacts :
         \/ c \in disk.contacts
         \/ \E w \in pending : w.store = "contacts" /\ w.value = c
         \/ \E t \in tasks : /\ t.contact = c
                             /\ (Saves(t) /\ t.at = "set") \/ (t.op = "delete" /\ t.at # "contact")
    /\ \A c \in disk.contacts :
         \/ /\ c \in h.contacts
            /\ \A t \in tasks : t.contact = c => t.op = "clear" \/ t.at \in {"write", "contact"}
         \/ \E t \in tasks : Saves(t) /\ t.at = "set" /\ c = Updated(t)
    /\ \A t \in tasks : Saves(t) /\ t.at = "set" => Updated(t) \in disk.contacts

(* A peer has one operation at a time,                                      *)
OneTask == \A t, u \in tasks : t.contact.peer = u.contact.peer => t = u

(* and no write under way that the operation could undo, or that could undo *)
(* it.                                                                      *)
Apart ==
    \A t \in tasks, w \in pending :
        w.peer = t.contact.peer => w.store # "contacts" /\ ~Deletes(t)

(* What is shown is stored, about to be, or being deleted.                  *)
Kept(h) ==
    \A p \in Peer : \A m \in h.msgs[p] :
        \/ m \in disk.msgs[p]
        \/ \E w \in pending : w.store = "messages" /\ w.peer = p /\ w.value = m
        \/ \E t \in tasks : Deletes(t) /\ t.contact.peer = p

(* What a deletion has removed so far.                                      *)
Erased ==
    \A t \in tasks : Deletes(t) =>
        LET p == t.contact.peer IN
        /\ t.at \in {"keys", "messages", "set"} => disk.convos[p] = "none"
        /\ t.at = "messages" => disk.msgs[p] = t.doomed
        /\ t.at = "set" => disk.msgs[p] = {}

(* All this while it is Timely.                                             *)
TimelyInv(h) == Timely => ContactsOK(h) /\ OneTask /\ Apart /\ Kept(h) /\ Erased

(* What is stored is shown, or as much of it as a load takes,               *)
Shown(h) ==
    /\ \A p \in Peer : \/ disk.msgs[p] \subseteq h.msgs[p]
                       \/ Cardinality(h.msgs[p]) >= MaxListed
    /\ \A w \in pending : w.store = "messages" => w.value \in h.msgs[w.peer]

(* messages have a conversation, or one about to be written,                *)
ListedOK ==
    /\ \A p \in Peer : disk.msgs[p] # {} =>
         \/ disk.convos[p] # "none"
         \/ \E w \in pending : w.store = "conversations" /\ w.peer = p
         \/ \E t \in tasks : Deletes(t) /\ t.contact.peer = p
    /\ \A w \in pending : w.store = "messages" =>
         \/ disk.convos[w.peer] # "none"
         \/ \E v \in pending : v.store = "conversations" /\ v.peer = w.peer

(* and a peer without contact has nothing at all.                           *)
Nobody(h) ==
    \A p \in Peer : Stranger(h, p) =>
        /\ h.convos[p] = "none" /\ disk.convos[p] = "none" /\ disk.msgs[p] = {}
        /\ \A w \in pending : w.peer # p

(* This while it is Whole.                                                  *)
WholeInv(h) == Whole => Shown(h) /\ ListedOK /\ Nobody(h)

(* A conversation differs from its record only while it is written or       *)
(* deleted, and after it has been cleared.                                  *)
ConvosOK(h) ==
    /\ \A w \in pending : w.store = "conversations" => w.value = h.convos[w.peer]
    /\ \A p \in Peer :
         \/ disk.convos[p] = h.convos[p]
         \/ \E w \in pending : w.store = "conversations" /\ w.peer = p
         \/ h.convos[p] = "read" /\ disk.convos[p] = "none" /\ h.msgs[p] = {}
         \/ \E t \in tasks : Deletes(t) /\ t.contact.peer = p

(* This as long as nothing has gone wrong.                                  *)
CalmInv(h) == amiss = {} => ConvosOK(h)

(* What the disk, the writes and the operations account for.                *)
Story(h) == Shape(h) /\ TimelyInv(h) /\ WholeInv(h) /\ CalmInv(h)

(* While the store is loaded, nothing but messages of unknown senders is on *)
(* its way, and what has been read is what the disk holds.                  *)
Loading ==
    /\ identity /\ tasks = {}
    /\ \A w \in pending : w.store \in {"messages", "attachments"}
    /\ \A l \in loads :
         /\ loads = {l} /\ l.contacts = disk.contacts /\ l.convos = disk.convos
         /\ \A p \in Peer : l.msgs[p] \subseteq disk.msgs[p]
         /\ Whole => l.msgs = disk.msgs /\ pending = {}

(* The story is memory while the vault is open.  Otherwise memory is empty. *)
VaultInv(h) ==
    /\ VaultOK
    /\ Open => h = mem
    /\ Timely /\ ~Open => mem = Nothing
    /\ Timely /\ loads # {} => Loading

(* The inductive invariant, of some story.                                  *)
StoreInv(h) == Story(h) /\ VaultInv(h)

(* Some story is told.                                                      *)
Told == \E h : StoreInv(h)

(* The fields of a contact.                                                 *)
LEMMA ContactFacts ==
    ASSUME NEW c \in Contact
    PROVE  c.id \in 1..MaxContacts /\ c.peer \in Peer
  BY DEF Contact

(* onSecure takes the contact of the peer, or makes one with the next id.   *)
LEMMA SecureContactFacts ==
    ASSUME MemOK(mem), MadeOK(made), NEW p \in Peer, NEW c \in SecureContacts(p)
    PROVE  /\ c \in Contact /\ c.peer = p
           /\ \/ c \in mem.contacts
              \/ ContactsOf(p) = {} /\ c.id = made.ids + 1
  <1>1. CASE ContactsOf(p) = {}
    <2>1. c \in NewContact(p)
      BY <1>1 DEF SecureContacts
    <2>2. /\ made.ids # MaxContacts
          /\ c = [id |-> made.ids + 1, peer |-> p, renamed |-> FALSE, verified |-> FALSE]
      BY <2>1 DEF NewContact
    <2>3. made.ids + 1 \in 1..MaxContacts
      BY <2>2, StoreAssumption DEF StoreAssumption, MadeOK
    <2> QED
      BY <1>1, <2>2, <2>3 DEF Contact
  <1>2. CASE ContactsOf(p) # {}
    BY <1>2 DEF SecureContacts, ContactsOf, MemOK
  <1> QED
    BY <1>1, <1>2

(* verify and rename keep a contact's id and peer, and its verification.    *)
LEMMA UpdatedFacts ==
    ASSUME NEW t, t.contact \in Contact
    PROVE  Updated(t) \in Contact /\ Updated(t).id = t.contact.id /\ Updated(t).peer = t.contact.peer
           /\ (t.contact.verified => Updated(t).verified)
  BY DEF Updated, Contact

(* An operation that goes on keeps all but its place.                       *)
LEMMA Moved ==
    ASSUME NEW t, TaskOK(t), NEW place
    PROVE  LET u == [t EXCEPT !.at = place] IN
           /\ DOMAIN u = TaskFields /\ u.op = t.op /\ u.contact = t.contact /\ u.at = place
           /\ u.snap = t.snap /\ u.doomed = t.doomed
  BY DEF TaskOK, TaskFields

(* What a write writes,                                                     *)
LEMMA WriteFacts ==
    /\ \A c : PutContact(c).store = "contacts" /\ PutContact(c).peer = c.peer /\ PutContact(c).value = c
    /\ \A p, v : PutConvo(p, v).store = "conversations" /\ PutConvo(p, v).peer = p /\ PutConvo(p, v).value = v
    /\ \A p, v : AppendMessage(p, v).store = "messages" /\ AppendMessage(p, v).peer = p /\ AppendMessage(p, v).value = v
    /\ \A p, v : PutBlob(p, v).store = "attachments" /\ PutBlob(p, v).peer = p /\ PutBlob(p, v).value = v
  BY DEF PutContact, PutConvo, AppendMessage, PutBlob

(* and that it is of its type.                                              *)
LEMMA WritesOK ==
    /\ \A c \in Contact : WriteOK(PutContact(c))
    /\ \A p \in Peer, v \in {"read", "unread"} : WriteOK(PutConvo(p, v))
    /\ \A p \in Peer, m \in Message : WriteOK(AppendMessage(p, m))
    /\ \A p \in Peer, m \in Attachment : WriteOK(PutBlob(p, m))
  BY ContactFacts DEF PutContact, PutConvo, AppendMessage, PutBlob, WriteOK

(* What the history says of the writes that start: if it stays clean, they  *)
(* meet no deletion, no operation on their contact, and no write of the     *)
(* same record.                                                             *)
LEMMA HarmsFacts ==
    ASSUME NEW ws, amiss \cup Harms(ws) \subseteq amiss', amiss' \subseteq Ways
    PROVE  /\ Timely' => /\ Timely
                         /\ \A w \in ws, t \in tasks : Deletes(t) => t.contact.peer # w.peer
                         /\ \A w \in ws, t \in tasks : w.store = "contacts" => t.contact.peer # w.peer
           /\ Whole' => Whole /\ Timely'
           /\ amiss' = {} => amiss = {} /\ Whole' /\ \A w \in ws, v \in pending : ~SameRecord(v, w)
  <1>1. (\E w \in ws, v \in pending : SameRecord(v, w)) => "overtaken" \in amiss'
    BY DEF Harms, If
  <1>2. (\E w \in ws : Deleting(w.peer)) => "resurrected" \in amiss'
    BY DEF Harms, If
  <1>3. (\E w \in ws : w.store = "contacts" /\ Rewriting(w.peer)) => "stale" \in amiss'
    BY DEF Harms, If
  <1> QED
    BY <1>1, <1>2, <1>3 DEF Timely, Whole, Deleting, Rewriting, Deletes

(* What of a conversation is loaded is more than the limit when it grows.   *)
LEMMA ListedGrow ==
    ASSUME NEW S, NEW T \in SUBSET Message, S \subseteq T, Cardinality(S) >= MaxListed
    PROVE  Cardinality(T) >= MaxListed
  <1>1. IsFiniteSet(T)
    BY FS_Subset, StoreAssumption DEF StoreAssumption
  <1>2. Cardinality(S) <= Cardinality(T) /\ IsFiniteSet(S)
    BY <1>1, FS_Subset
  <1>3. Cardinality(S) \in Nat /\ Cardinality(T) \in Nat /\ MaxListed \in Nat
    BY <1>1, <1>2, FS_CardinalityType, StoreAssumption DEF StoreAssumption
  <1> QED
    BY <1>2, <1>3

(* Nothing is claimed of a story once something came too late.              *)
LEMMA TooLate ==
    ASSUME NEW k, Shape(k)', ~Timely'
    PROVE  Story(k)'
  <1>1. ~Whole' /\ amiss' # {}
    BY DEF Whole, Timely
  <1> QED
    BY <1>1 DEF Story, TimelyInv, WholeInv, CalmInv

(* It starts so.                                                            *)
LEMMA InitStore == Init => Told
  <1> SUFFICES ASSUME Init, NEW h, h = mem PROVE StoreInv(h)
    BY DEF Told
  <1>0. /\ h.contacts = {} /\ disk.contacts = {} /\ \A p \in Peer : h.msgs[p] = {} /\ disk.msgs[p] = {}
        /\ \A p \in Peer : h.convos[p] = "none" /\ disk.convos[p] = "none"
    BY DEF Init, Nothing
  <1>1. Shape(h)
    BY StoreAssumption
       DEF Init, Nothing, Shape, MemOK, DiskOK, MadeOK, Convo, StoreAssumption
  <1>2. TimelyInv(h)
    BY <1>0
       DEF Init, TimelyInv, ContactsOK, Kin, Known, OneTask, Apart, Kept, Erased
  <1>3. WholeInv(h)
    BY <1>0 DEF Init, WholeInv, Shown, ListedOK, Nobody
  <1>4. CalmInv(h)
    BY <1>0 DEF Init, CalmInv, ConvosOK
  <1> QED
    <2>1. VaultInv(h)
      BY <1>1 DEF Init, VaultInv, VaultOK, Shape, Open
    <2> QED
      BY <1>1, <1>2, <1>3, <1>4, <2>1 DEF StoreInv, Story

(* A story goes on while what it is about does not change.                  *)
LEMMA SameStory ==
    ASSUME NEW h, Story(h), UNCHANGED <<disk, pending, tasks>>,
           DOMAIN made' = DOMAIN made, made'.ids = made.ids, made'.msgs = made.msgs,
           amiss \subseteq amiss', amiss' \subseteq Ways
    PROVE  Story(h)'
  <1>1. Shape(h)'
    BY DEF Story, Shape, MemOK, DiskOK, MadeOK
  <1>2. TimelyInv(h)'
    BY DEF Story, TimelyInv, Timely, ContactsOK, Kin, Known, OneTask, Apart, Kept, Erased
  <1>3. WholeInv(h)'
    BY DEF Story, WholeInv, Timely, Whole, Shown, ListedOK, Nobody
  <1>4. CalmInv(h)'
    BY DEF Story, CalmInv, ConvosOK
  <1> QED
    BY <1>1, <1>2, <1>3, <1>4 DEF Story

(* A session becomes secure: the contact is found or made.                  *)
LEMMA SecureKeeps ==
    ASSUME NEW h, NEW k, StoreInv(h), k = (IF Open THEN mem' ELSE h), NEW p \in Peer, NEW c \in SecureContacts(p),
           NEW sys \in Message, onSecure(p, c, sys)
    PROVE  Story(k)'
  <1> DEFINE new == mem.convos[p] = "none"
             convo == IF new THEN "read" ELSE mem.convos[p]
             ws == {PutContact(c), AppendMessage(p, sys)} \cup (IF new THEN {PutConvo(p, "read")} ELSE {})
  <1>1. Shape(h) /\ TimelyInv(h) /\ WholeInv(h) /\ CalmInv(h)
    BY DEF StoreInv, Story
  <1>a. /\ MemOK(mem) /\ (Open => h = mem)
        /\ (Timely /\ ~Open => mem = Nothing) /\ (Timely /\ loads # {} => Loading)
    BY DEF StoreInv, VaultInv, VaultOK
  <1>2. /\ c \in Contact /\ c.peer = p /\ c.id \in 1..MaxContacts
        /\ \/ c \in mem.contacts
           \/ ContactsOf(p) = {} /\ c.id = made.ids + 1
    BY <1>1, <1>a, SecureContactFacts, ContactFacts DEF Shape
  <1>x. /\ mem'.contacts = With(mem.contacts, c) /\ DOMAIN mem' = DOMAIN mem
        /\ mem'.convos = [mem.convos EXCEPT ![p] = convo]
        /\ mem'.msgs = [mem.msgs EXCEPT ![p] = @ \cup {sys}]
    BY <1>a DEF onSecure, MemOK
  <1>b. MemOK(mem') /\ MemOK(k)
    <2>2. MemOK(mem')
      BY <1>a, <1>x, <1>2 DEF MemOK, With, Convo
    <2> QED
      BY <1>1, <2>2 DEF Shape
  <1>4. /\ \A w \in ws : WriteOK(w) /\ w.peer = p
        /\ \A w \in ws : w.store = "contacts" => w.value = c
        /\ \A w \in ws : w.store = "messages" => w.value = sys
        /\ \A w \in ws : w.store = "conversations" => new /\ w.value = "read"
        /\ \E w \in ws : w.store = "messages" /\ w.peer = p /\ w.value = sys
        /\ \E w \in ws : w.store = "contacts" /\ w.value = c
        /\ new => \E w \in ws : w.store = "conversations" /\ w.peer = p
    <2>1. \A w \in ws :
             \/ w = AppendMessage(p, sys)
             \/ w = PutContact(c)
             \/ new /\ w = PutConvo(p, "read")
      OBVIOUS
    <2>2. /\ AppendMessage(p, sys) \in ws /\ PutContact(c) \in ws
          /\ (new => PutConvo(p, "read") \in ws)
      OBVIOUS
    <2> HIDE DEF ws, new
    <2> QED
      BY <1>2, <2>1, <2>2, WriteFacts, WritesOK
  <1>5. /\ disk' = disk /\ tasks' = tasks /\ pending' = pending \cup ws
        /\ DOMAIN made' = DOMAIN made
        /\ made'.ids = (IF c.id > made.ids THEN c.id ELSE made.ids)
        /\ made'.msgs = made.msgs \cup {sys}
        /\ amiss \cup Harms(ws) \subseteq amiss' /\ amiss' \subseteq Ways
        /\ Listed(p, ws) \/ "unlisted" \in amiss'
        /\ Open \/ "stale" \in amiss'
    BY <1>1 DEF onSecure, Starts, Shape, MadeOK, Harms, Blame, If, Ways, Open
  <1>7. /\ Timely' => Timely /\ \A t \in tasks : t.contact.peer # p
        /\ Whole' => Whole /\ Timely' /\ Listed(p, ws)
        /\ amiss' = {} => amiss = {} /\ Whole' /\ \A w \in ws, v \in pending : ~SameRecord(v, w)
  <2> HIDE DEF ws
    <2> QED
      BY <1>4, <1>5, HarmsFacts DEF Whole
  <1> HIDE DEF ws
  <1>9. made'.ids >= made.ids /\ made'.ids >= c.id /\ made'.ids \in 0..MaxContacts
    BY <1>1, <1>2, <1>5, StoreAssumption DEF Shape, MadeOK, StoreAssumption
  <1>10. Shape(k)'
    BY <1>1, <1>2, <1>4, <1>5, <1>9, <1>b DEF Shape, DiskOK, MadeOK
  <1>c. SUFFICES ASSUME Open PROVE Story(k)'
    <2>1. ASSUME ~Open PROVE ~Timely'
      BY <1>5, <2>1 DEF Timely
    <2> QED
      BY <1>10, <2>1, TooLate
  <1>d. h = mem /\ k = mem' /\ (c \in h.contacts \/ (Stranger(h, p) /\ c.id = made.ids + 1))
    BY <1>a, <1>2, <1>c DEF ContactsOf, Stranger
  <1>3. /\ k.contacts = With(h.contacts, c) /\ DOMAIN k = DOMAIN h
        /\ k.convos = [h.convos EXCEPT ![p] = convo]
        /\ k.msgs = [h.msgs EXCEPT ![p] = @ \cup {sys}]
    BY <1>x, <1>d
  <1>6. /\ new = (h.convos[p] = "none")
        /\ \A q \in Peer : h.msgs[q] \subseteq k.msgs[q]
        /\ sys \in k.msgs[p]
        /\ \A q \in Peer : \A x \in k.msgs[q] : x \in h.msgs[q] \/ (q = p /\ x = sys)
        /\ \A q \in Peer : q # p => k.convos[q] = h.convos[q] /\ k.msgs[q] = h.msgs[q]
        /\ k.convos[p] = convo
    BY <1>1, <1>2, <1>3, <1>d DEF Shape, MemOK
  <1>8. Timely /\ ContactsOK(h) => k.contacts = h.contacts \cup {c}
    BY <1>1, <1>2, <1>3, <1>d
       DEF ContactsOK, Kin, Known, With, Shape, MemOK, MadeOK, Contact
  <1>e. Kin(h.contacts) /\ Known(h.contacts) => Kin(h.contacts \cup {c})
    BY <1>1, <1>2, <1>d DEF Kin, Known, Stranger, Shape, MemOK, MadeOK, Contact
  <1>11. ASSUME Timely' PROVE ContactsOK(k)' /\ OneTask' /\ Apart' /\ Kept(k)' /\ Erased'
    <2>1. Timely /\ ContactsOK(h) /\ OneTask /\ Apart /\ Kept(h) /\ Erased
      BY <1>1, <1>11, <1>5 DEF TimelyInv, Timely
    <2>2. ContactsOK(k)'
      <3>1. Kin(k.contacts)'
        BY <1>8, <1>e, <2>1 DEF ContactsOK, Kin
      <3>2. Known(k.contacts)'
        BY <1>1, <1>8, <1>9, <2>1
           DEF ContactsOK, Known, Shape, MemOK, MadeOK, Contact
      <3>3. \A d \in k.contacts :
                 \/ d \in disk.contacts
                 \/ \E w \in pending' : w.store = "contacts" /\ w.value = d
                 \/ \E t \in tasks : /\ t.contact = d
                                     /\ (Saves(t) /\ t.at = "set") \/ (t.op = "delete" /\ t.at # "contact")
        BY <1>4, <1>5, <1>8, <2>1 DEF ContactsOK
      <3>4. \A w \in pending' : w.store = "contacts" => w.value \in k.contacts
        BY <1>4, <1>5, <1>8, <2>1 DEF ContactsOK
      <3>5. \A t \in tasks : t.contact \in k.contacts
        BY <1>8, <2>1 DEF ContactsOK
      <3>6. \A d \in disk.contacts :
                 \/ /\ d \in k.contacts
                    /\ \A t \in tasks : t.contact = d => t.op = "clear" \/ t.at \in {"write", "contact"}
                 \/ \E t \in tasks : Saves(t) /\ t.at = "set" /\ d = Updated(t)
        BY <1>8, <2>1 DEF ContactsOK
      <3>7. \A t \in tasks : Saves(t) /\ t.at = "set" => Updated(t) \in disk.contacts
        BY <2>1 DEF ContactsOK
      <3> QED
        BY <1>5, <3>7, <3>1, <3>2, <3>3, <3>4, <3>5, <3>6 DEF ContactsOK, Kin
    <2>3. OneTask'
      BY <2>1, <1>5 DEF OneTask
    <2>4. Apart'
      BY <1>11, <2>1, <1>4, <1>5, <1>7 DEF Apart, Deletes
    <2>5. Kept(k)'
      BY <2>1, <1>4, <1>5, <1>6 DEF Kept, Deletes
    <2>6. Erased'
      BY <2>1, <1>5 DEF Erased, Deletes
    <2> QED
      BY <2>2, <2>3, <2>4, <2>5, <2>6
  <1>12. ASSUME Whole' PROVE Shown(k)' /\ ListedOK' /\ Nobody(k)'
    <2>1. /\ Whole /\ Timely /\ Timely' /\ Shown(h) /\ ListedOK /\ Nobody(h) /\ ContactsOK(h)
          /\ OneTask /\ Apart /\ Kept(h) /\ Erased
      BY <1>1, <1>12, <1>5 DEF TimelyInv, WholeInv, Whole, Timely
    <2>2. Shown(k)'
      <3>1. ASSUME NEW q \in Peer, Cardinality(h.msgs[q]) >= MaxListed
            PROVE  Cardinality(k.msgs[q]) >= MaxListed
        BY <2>1, <3>1, <1>6, <1>b, ListedGrow DEF MemOK
      <3>2. \A q \in Peer : disk.msgs[q] \subseteq k.msgs[q] \/ Cardinality(k.msgs[q]) >= MaxListed
        BY <2>1, <3>1, <1>6 DEF Shown
      <3>3. \A w \in pending' : w.store = "messages" => w.value \in k.msgs[w.peer]
        BY <1>1, <2>1, <1>4, <1>5, <1>6, <1>7, <1>12 DEF Shown, Shape, WriteOK
      <3> QED
        BY <1>5, <3>2, <3>3 DEF Shown
    <2>3. ListedOK'
      BY <1>12, <2>1, <1>4, <1>5, <1>7 DEF ListedOK, Deletes, Listed
    <2>4. Nobody(k)'
      <3> SUFFICES ASSUME NEW q \in Peer, Stranger(k, q)
                   PROVE  /\ k.convos[q] = "none" /\ disk'.convos[q] = "none"
                          /\ disk'.msgs[q] = {}
                          /\ \A w \in pending' : w.peer # q
        BY DEF Nobody
      <3>1. Stranger(h, q) /\ q # p
        BY <1>2, <1>8, <2>1 DEF Stranger
      <3>2. h.convos[q] = "none" /\ disk.convos[q] = "none" /\ disk.msgs[q] = {} /\ \A w \in pending : w.peer # q
        BY <2>1, <3>1 DEF Nobody
      <3> QED
        BY <1>4, <1>5, <1>6, <3>1, <3>2
    <2> QED
      BY <2>2, <2>3, <2>4
  <1>13. ASSUME amiss' = {} PROVE ConvosOK(k)'
    <2>1. amiss = {} /\ Whole /\ Whole' /\ ConvosOK(h)
      BY <1>1, <1>13, <1>5 DEF CalmInv, Whole, Timely
    <2>2. ContactsOK(h) /\ OneTask /\ Apart /\ Kept(h) /\ Erased /\ Shown(h) /\ ListedOK /\ Nobody(h)
      BY <1>1, <2>1 DEF TimelyInv, WholeInv, Whole
    <2>3. ConvosOK(k)'
      <3>1. k.convos[p] = (IF h.convos[p] = "none" THEN "read" ELSE h.convos[p])
        BY <1>d, <1>6
      <3> HIDE DEF new, convo
      <3>2. \A w \in pending' : w.store = "conversations" => w.value = k.convos[w.peer]
        <4> SUFFICES ASSUME NEW w \in pending', w.store = "conversations"
                     PROVE  w.value = k.convos[w.peer]
          OBVIOUS
        <4>1. CASE w \in pending
          <5>1. w.value = h.convos[w.peer] /\ w.value # "none" /\ w.peer \in Peer
            BY <1>1, <2>1, <4>1 DEF ConvosOK, Shape, WriteOK
          <5> QED
            BY <1>6, <3>1, <5>1
        <4>2. CASE w \in ws
          BY <1>4, <1>6, <3>1, <4>2
        <4> QED
          BY <1>5, <4>1, <4>2
      <3>3. ASSUME NEW q \in Peer
            PROVE  \/ disk'.convos[q] = k.convos[q]
                   \/ \E w \in pending' : w.store = "conversations" /\ w.peer = q
                   \/ k.convos[q] = "read" /\ disk'.convos[q] = "none" /\ k.msgs[q] = {}
                   \/ \E t \in tasks' : Deletes(t) /\ t.contact.peer = q
        <4>1. CASE q # p
          BY <1>5, <1>6, <2>1, <4>1 DEF ConvosOK
        <4>2. CASE q = p
          BY <1>4, <1>5, <1>6, <1>7, <1>13, <2>1, <3>1, <4>2 DEF ConvosOK, Listed, Deletes
        <4> QED
          BY <4>1, <4>2
      <3> QED
        BY <3>2, <3>3 DEF ConvosOK
    <2> QED
      BY <2>3
  <1> QED
    BY <1>10, <1>11, <1>12, <1>13 DEF Story, TimelyInv, WholeInv, CalmInv

(* A message comes or goes,                                                 *)
LEMMA MessageKeeps ==
    ASSUME NEW h, NEW k, StoreInv(h), k = (IF Open THEN mem' ELSE h),
           NEW p \in Peer, NEW m \in Message, NEW known \in BOOLEAN, NEW convo,
           Keep(p, m, known, convo),
           known => mem.convos[p] # "none" /\ convo \in {"read", "unread"}
    PROVE  Story(k)'
  <1> DEFINE ws == Appends(p, m) \cup (IF known THEN {PutConvo(p, convo)} ELSE {})
  <1>1. Shape(h) /\ TimelyInv(h) /\ WholeInv(h) /\ CalmInv(h)
    BY DEF StoreInv, Story
  <1>a. /\ MemOK(mem) /\ (Open => h = mem)
        /\ (Timely /\ ~Open => mem = Nothing) /\ (Timely /\ loads # {} => Loading)
    BY DEF StoreInv, VaultInv, VaultOK
  <1>2. /\ mem'.contacts = mem.contacts /\ DOMAIN mem' = DOMAIN mem
        /\ known => mem'.convos = [mem.convos EXCEPT ![p] = convo] /\ mem'.msgs = [mem.msgs EXCEPT ![p] = @ \cup {m}]
        /\ ~known => mem' = mem
    BY <1>a DEF Keep, MemOK
  <1>b. MemOK(mem') /\ MemOK(k)
    <2>1. MemOK(mem')
      BY <1>a, <1>2 DEF MemOK, Convo
    <2> QED
      BY <1>1, <2>1 DEF Shape
  <1>3. Timely =>
        /\ k.contacts = h.contacts /\ DOMAIN k = DOMAIN h
        /\ known => k.convos = [h.convos EXCEPT ![p] = convo] /\ k.msgs = [h.msgs EXCEPT ![p] = @ \cup {m}]
        /\ known => h.convos[p] # "none"
        /\ ~known => k = h
    BY <1>a, <1>2 DEF Nothing
  <1>4. /\ \A w \in ws : WriteOK(w) /\ w.peer = p /\ w.store # "contacts"
        /\ \A w \in ws : w.store = "messages" => w.value = m
        /\ \A w \in ws : w.store = "conversations" => known /\ w.value = convo
        /\ \E w \in ws : w.store = "messages" /\ w.peer = p /\ w.value = m
        /\ known => \E w \in ws : w.store = "conversations" /\ w.peer = p
    <2>1. \A w \in ws :
             \/ w = AppendMessage(p, m)
             \/ w = PutBlob(p, m) /\ m \in Attachment
             \/ known /\ w = PutConvo(p, convo)
      BY DEF Appends
    <2>2. AppendMessage(p, m) \in ws /\ (known => PutConvo(p, convo) \in ws)
      BY DEF Appends
    <2> HIDE DEF ws
    <2> QED
      BY <2>1, <2>2, WriteFacts, WritesOK
  <1>5. /\ disk' = disk /\ tasks' = tasks /\ pending' = pending \cup ws
        /\ DOMAIN made' = DOMAIN made /\ made'.ids = made.ids /\ made'.msgs = made.msgs \cup {m}
        /\ amiss \cup Harms(ws) \subseteq amiss' /\ amiss' \subseteq Ways
        /\ ~known => "unheard" \in amiss'
    BY <1>1 DEF Keep, Starts, NewMessage, Shape, MadeOK, Harms, Blame, If, Ways
  <1>6. Timely =>
        /\ \A q \in Peer : h.msgs[q] \subseteq k.msgs[q]
        /\ known => m \in k.msgs[p]
        /\ \A q \in Peer : \A x \in k.msgs[q] : x \in h.msgs[q] \/ (q = p /\ x = m)
        /\ \A q \in Peer : q # p => k.convos[q] = h.convos[q]
    BY <1>1, <1>3 DEF Shape, MemOK
  <1>7. /\ Timely' => Timely /\ \A t \in tasks : Deletes(t) => t.contact.peer # p
        /\ Whole' => Whole /\ Timely' /\ known
        /\ amiss' = {} => amiss = {} /\ Whole' /\ \A w \in ws, v \in pending : ~SameRecord(v, w)
  <2> HIDE DEF ws
    <2> QED
      BY <1>4, <1>5, HarmsFacts DEF Whole
  <1> HIDE DEF ws
  <1>8. Shape(k)'
    BY <1>1, <1>4, <1>5, <1>b DEF Shape, DiskOK, MadeOK
  <1>9. ASSUME Timely' PROVE ContactsOK(k)' /\ OneTask' /\ Apart' /\ Kept(k)' /\ Erased'
    <2>1. Timely /\ ContactsOK(h) /\ OneTask /\ Apart /\ Kept(h) /\ Erased
      BY <1>1, <1>9, <1>5 DEF TimelyInv, Timely
    <2>2. ContactsOK(k)'
      BY <2>1, <1>3, <1>4, <1>5
         DEF ContactsOK, Kin, Known, Shape, MemOK, DiskOK, MadeOK
    <2>3. OneTask'
      BY <2>1, <1>5 DEF OneTask
    <2>4. Apart'
      BY <1>9, <2>1, <1>4, <1>5, <1>7 DEF Apart, Deletes
    <2>5. Kept(k)'
      BY <2>1, <1>4, <1>5, <1>6 DEF Kept, Deletes
    <2>6. Erased'
      BY <2>1, <1>5 DEF Erased, Deletes
    <2> QED
      BY <2>2, <2>3, <2>4, <2>5, <2>6
  <1>10. ASSUME Whole' PROVE Shown(k)' /\ ListedOK' /\ Nobody(k)'
    <2>1. /\ Whole /\ Timely /\ Timely' /\ Shown(h) /\ ListedOK /\ Nobody(h) /\ ContactsOK(h)
          /\ OneTask /\ Apart /\ Kept(h) /\ Erased
      BY <1>1, <1>10, <1>5 DEF TimelyInv, WholeInv, Whole, Timely
    <2>2. Shown(k)'
      <3>1. ASSUME NEW q \in Peer, Cardinality(h.msgs[q]) >= MaxListed
            PROVE  Cardinality(k.msgs[q]) >= MaxListed
        BY <2>1, <3>1, <1>6, <1>b, ListedGrow DEF MemOK
      <3>2. \A q \in Peer : disk.msgs[q] \subseteq k.msgs[q] \/ Cardinality(k.msgs[q]) >= MaxListed
        BY <2>1, <3>1, <1>6 DEF Shown
      <3>3. \A w \in pending' : w.store = "messages" => w.value \in k.msgs[w.peer]
        BY <1>1, <2>1, <1>4, <1>5, <1>6, <1>7, <1>10 DEF Shown, Shape, WriteOK
      <3> QED
        BY <1>5, <3>2, <3>3 DEF Shown
    <2>3. ListedOK'
      BY <1>10, <2>1, <1>4, <1>5, <1>7 DEF ListedOK, Deletes
    <2>4. Nobody(k)'
      <3> SUFFICES ASSUME NEW q \in Peer, Stranger(k, q)
                   PROVE  /\ k.convos[q] = "none" /\ disk'.convos[q] = "none"
                          /\ disk'.msgs[q] = {}
                          /\ \A w \in pending' : w.peer # q
        BY DEF Nobody
      <3>1. Stranger(h, q)
        BY <1>3, <2>1 DEF Stranger
      <3>2. h.convos[q] = "none" /\ disk.convos[q] = "none" /\ disk.msgs[q] = {} /\ \A w \in pending : w.peer # q
        BY <2>1, <3>1 DEF Nobody
      <3>3. q # p
        BY <1>3, <1>7, <1>10, <2>1, <3>2
      <3> QED
        BY <2>1, <1>4, <1>5, <1>6, <3>2, <3>3
    <2> QED
      BY <2>2, <2>3, <2>4
  <1>11. ASSUME amiss' = {} PROVE ConvosOK(k)'
    <2>1. amiss = {} /\ Whole /\ Whole' /\ ConvosOK(h)
      BY <1>1, <1>11, <1>5 DEF CalmInv, Whole, Timely
    <2>2. ContactsOK(h) /\ OneTask /\ Apart /\ Kept(h) /\ Erased /\ Shown(h) /\ ListedOK /\ Nobody(h)
      BY <1>1, <2>1 DEF TimelyInv, WholeInv, Whole
    <2>3. ConvosOK(k)'
      BY <1>1, <1>11, <2>1, <1>3, <1>4, <1>5, <1>7
         DEF ConvosOK, Deletes, SameRecord, WriteOK, Shape, MemOK
    <2> QED
      BY <2>3
  <1> QED
    BY <1>8, <1>9, <1>10, <1>11 DEF Story, TimelyInv, WholeInv, CalmInv

(* received,                                                                *)
LEMMA IncomingKeeps ==
    ASSUME NEW h, NEW k, StoreInv(h), k = (IF Open THEN mem' ELSE h),
           NEW p \in Peer, NEW m \in Message, NEW seen \in BOOLEAN, onIncoming(p, m, seen)
    PROVE  Story(k)'
  <1> DEFINE known == ContactsOf(p) # {} /\ mem.convos[p] # "none"
             convo == IF seen THEN "read" ELSE "unread"
  <1>1. Keep(p, m, known, convo)
    BY DEF onIncoming
  <1>2. /\ known \in BOOLEAN
        /\ (known => mem.convos[p] # "none" /\ convo \in {"read", "unread"})
    OBVIOUS
  <1> HIDE DEF known, convo
  <1> QED
    BY <1>1, <1>2, MessageKeeps

(* or sent.                                                                 *)
LEMMA SentKeeps ==
    ASSUME NEW h, NEW k, StoreInv(h), k = (IF Open THEN mem' ELSE h),
           NEW p \in Peer, NEW m \in Message, Sent(p, m)
    PROVE  Story(k)'
  <1> DEFINE known == mem.convos[p] # "none"
             convo == mem.convos[p]
  <1>1. Keep(p, m, known, convo)
    BY DEF Sent
  <1>2. /\ known \in BOOLEAN
        /\ (known => mem.convos[p] # "none" /\ convo \in {"read", "unread"})
    BY DEF StoreInv, VaultInv, VaultOK, MemOK, Convo
  <1> HIDE DEF known, convo
  <1> QED
    BY <1>1, <1>2, MessageKeeps

(* The chat is opened, and read.                                            *)
LEMMA OpenKeeps ==
    ASSUME NEW h, NEW k, StoreInv(h), k = (IF Open THEN mem' ELSE h), NEW c, openChatWithContact(c)
    PROVE  Story(k)'
  <1> DEFINE w0 == PutConvo(c.peer, "read")
  <1>1. Shape(h) /\ TimelyInv(h) /\ WholeInv(h) /\ CalmInv(h)
    BY DEF StoreInv, Story
  <1>a. /\ MemOK(mem) /\ (Open => h = mem)
        /\ (Timely /\ ~Open => mem = Nothing) /\ (Timely /\ loads # {} => Loading)
    BY DEF StoreInv, VaultInv, VaultOK
  <1>2. c \in mem.contacts /\ c.peer \in Peer
    BY <1>a, ContactFacts DEF openChatWithContact, MemOK
  <1>b. MemOK(mem') /\ MemOK(k)
    <2>1. /\ mem'.contacts = mem.contacts /\ mem'.msgs = mem.msgs /\ DOMAIN mem' = DOMAIN mem
          /\ mem'.convos = [mem.convos EXCEPT ![c.peer] = "read"]
      BY <1>a DEF openChatWithContact, MemOK
    <2>2. MemOK(mem')
      BY <1>a, <1>2, <2>1 DEF MemOK, Convo
    <2> QED
      BY <1>1, <2>2 DEF Shape
  <1>3. Timely =>
        /\ c \in h.contacts
        /\ k.contacts = h.contacts /\ k.msgs = h.msgs /\ DOMAIN k = DOMAIN h
        /\ k.convos = [h.convos EXCEPT ![c.peer] = "read"]
    BY <1>a, <1>2 DEF openChatWithContact, MemOK, Nothing
  <1>4. w0.store = "conversations" /\ w0.peer = c.peer /\ w0.value = "read" /\ WriteOK(w0)
    BY <1>2, WriteFacts, WritesOK
  <1>5. disk' = disk /\ tasks' = tasks /\ made' = made /\ pending' = pending \cup {w0}
        /\ amiss' = amiss \cup Harms({w0}) /\ amiss' \subseteq Ways
    BY <1>1 DEF openChatWithContact, Starts, Shape, Harms, Blame, If, Ways
  <1>6. /\ Timely' => Timely /\ \A t \in tasks : Deletes(t) => t.contact.peer # w0.peer
        /\ Whole' => Whole /\ Timely'
        /\ amiss' = {} => amiss = {} /\ Whole' /\ \A v \in pending : ~SameRecord(v, w0)
    <2>1. amiss \cup Harms({w0}) \subseteq amiss' /\ amiss' \subseteq Ways
      BY <1>5
    <2> HIDE DEF w0
    <2> QED
      BY <2>1, HarmsFacts
  <1> HIDE DEF w0
  <1>7. Shape(k)'
    <2>2. DiskOK(disk') /\ MadeOK(made')
      BY <1>1, <1>5 DEF Shape
    <2>3. amiss' \subseteq Ways /\ \A w \in pending' : WriteOK(w)
      BY <1>1, <1>4, <1>5 DEF Shape
    <2>4. \A t \in tasks' : TaskOK(t)
      BY <1>1, <1>5 DEF Shape
    <2> QED
      BY <1>b, <2>2, <2>3, <2>4 DEF Shape
  <1>8. ASSUME Timely' PROVE ContactsOK(k)' /\ OneTask' /\ Apart' /\ Kept(k)' /\ Erased'
    <2>1. Timely /\ ContactsOK(h) /\ OneTask /\ Apart /\ Kept(h) /\ Erased
      BY <1>1, <1>8, <1>5 DEF TimelyInv, Timely
    <2>2. ContactsOK(k)'
      BY <2>1, <1>3, <1>4, <1>5
         DEF ContactsOK, Kin, Known, Shape, MemOK, DiskOK, MadeOK
    <2>3. OneTask'
      BY <2>1, <1>5 DEF OneTask
    <2>4. Apart'
      BY <1>8, <2>1, <1>4, <1>5, <1>6 DEF Apart, Deletes
    <2>5. Kept(k)'
      BY <2>1, <1>3, <1>5 DEF Kept, Deletes
    <2>6. Erased'
      BY <2>1, <1>5 DEF Erased, Deletes
    <2> QED
      BY <2>2, <2>3, <2>4, <2>5, <2>6
  <1>9. ASSUME Whole' PROVE Shown(k)' /\ ListedOK' /\ Nobody(k)'
    <2>1. /\ Whole /\ Timely /\ Timely' /\ Shown(h) /\ ListedOK /\ Nobody(h) /\ ContactsOK(h)
          /\ OneTask /\ Apart /\ Kept(h) /\ Erased
      BY <1>1, <1>9, <1>5 DEF TimelyInv, WholeInv, Whole, Timely
    <2>2. Shown(k)'
      BY <2>1, <1>3, <1>4, <1>5 DEF Shown, Shape, WriteOK
    <2>3. ListedOK'
      BY <2>1, <1>4, <1>5 DEF ListedOK, Deletes
    <2>4. Nobody(k)'
      BY <1>1, <2>1, <1>2, <1>3, <1>4, <1>5 DEF Nobody, Stranger, Shape, MemOK
    <2> QED
      BY <2>2, <2>3, <2>4
  <1>10. ASSUME amiss' = {} PROVE ConvosOK(k)'
    <2>1. amiss = {} /\ Whole /\ Whole' /\ ConvosOK(h)
      BY <1>1, <1>10, <1>5 DEF CalmInv, Whole, Timely
    <2>2. ContactsOK(h) /\ OneTask /\ Apart /\ Kept(h) /\ Erased /\ Shown(h) /\ ListedOK /\ Nobody(h)
      BY <1>1, <2>1 DEF TimelyInv, WholeInv, Whole
    <2>3. ConvosOK(k)'
      BY <1>7, <1>10, <2>1, <1>3, <1>4, <1>5, <1>6
         DEF ConvosOK, Deletes, SameRecord, WriteOK, Shape, MemOK
    <2> QED
      BY <2>3
  <1> QED
    BY <1>7, <1>8, <1>9, <1>10 DEF Story, TimelyInv, WholeInv, CalmInv

(* An operation begins with its snapshot.                                   *)
LEMMA BeginKeeps ==
    ASSUME NEW h, StoreInv(h), NEW c \in mem.contacts,
           NEW op \in {"verify", "rename", "delete", "clear"}, Begin(op, c)
    PROVE  Story(h)'
  <1> DEFINE n == [op |-> op, contact |-> c, at |-> FirstPlace(op), snap |-> mem, doomed |-> {}]
  <1>1. Shape(h) /\ TimelyInv(h) /\ WholeInv(h) /\ CalmInv(h)
    BY DEF StoreInv, Story
  <1>a. MemOK(mem)
    BY DEF StoreInv, VaultInv, VaultOK
  <1>b. Timely => c \in h.contacts
    BY DEF StoreInv, VaultInv, Nothing
  <1>2. c \in Contact /\ c.peer \in Peer
    BY <1>a, ContactFacts DEF MemOK
  <1>3. /\ TaskOK(n) /\ n.op = op /\ n.contact = c
        /\ n.at = (IF Saves(n) THEN "write" ELSE IF op = "delete" THEN "contact" ELSE "convo")
        /\ Saves(n) \/ Deletes(n)
    BY <1>a, <1>2 DEF TaskOK, TaskFields, FirstPlace, Saves, Deletes, Shape
  <1>4. /\ disk' = disk /\ pending' = pending
        /\ tasks' = tasks \cup {n}
        /\ DOMAIN made' = DOMAIN made /\ made'.ids = made.ids /\ made'.msgs = made.msgs
        /\ amiss \subseteq amiss' /\ amiss' \subseteq Ways
    BY <1>1 DEF Begin, Blame, If, Shape, MadeOK, Ways
  <1>5. /\ (\E w \in pending : w.peer = c.peer /\ Deletes(n)) => "resurrected" \in amiss'
        /\ (\E t \in tasks : t.contact.peer = c.peer) => "stale" \in amiss'
        /\ (\E w \in pending : w.store = "contacts" /\ w.peer = c.peer) => "stale" \in amiss'
    BY <1>1, <1>3, WriteFacts DEF Begin, Blame, If, Deletes, Rewriting, SameRecord
  <1>6. Timely' =>
          /\ \A w \in pending : w.peer = c.peer => ~Deletes(n) /\ w.store # "contacts"
          /\ \A t \in tasks : t.contact.peer # c.peer
    BY <1>5 DEF Timely
  <1> HIDE DEF n
  <1>7. Shape(h)'
    BY <1>1, <1>3, <1>4 DEF Shape, MemOK, DiskOK, MadeOK
  <1>8. ASSUME Timely' PROVE ContactsOK(h)' /\ OneTask' /\ Apart' /\ Kept(h)' /\ Erased'
    <2>1. Timely /\ ContactsOK(h) /\ OneTask /\ Apart /\ Kept(h) /\ Erased
      BY <1>1, <1>8, <1>4 DEF TimelyInv, Timely
    <2>2. ContactsOK(h)'
      BY <2>1, <1>b, <1>3, <1>4
         DEF ContactsOK, Kin, Known, Shape, MemOK, DiskOK, MadeOK, Saves
    <2>3. OneTask'
      <3>1. \A v \in tasks' : v \in tasks \/ v = n
        BY <1>4
      <3>2. \A v \in tasks : v.contact.peer # n.contact.peer
        BY <1>6, <1>8, <1>3
      <3> QED
        BY <2>1, <3>1, <3>2 DEF OneTask
    <2>4. Apart'
      BY <1>8, <2>1, <1>3, <1>4, <1>6 DEF Apart, Deletes
    <2>5. Kept(h)'
      BY <2>1, <1>4 DEF Kept, Deletes
    <2>6. Erased'
      BY <2>1, <1>3, <1>4 DEF Erased, Deletes
    <2> QED
      BY <2>2, <2>3, <2>4, <2>5, <2>6
  <1>9. ASSUME Whole' PROVE Shown(h)' /\ ListedOK' /\ Nobody(h)'
    <2>1. /\ Whole /\ Timely /\ Timely' /\ Shown(h) /\ ListedOK /\ Nobody(h) /\ ContactsOK(h)
          /\ OneTask /\ Apart /\ Kept(h) /\ Erased
      BY <1>1, <1>9, <1>4 DEF TimelyInv, WholeInv, Whole, Timely
    <2>2. Shown(h)'
      BY <2>1, <1>4 DEF Shown, Shape, WriteOK
    <2>3. ListedOK'
      BY <2>1, <1>4 DEF ListedOK, Deletes
    <2>4. Nobody(h)'
      BY <2>1, <1>4 DEF Nobody, Stranger
    <2> QED
      BY <2>2, <2>3, <2>4
  <1>10. ASSUME amiss' = {} PROVE ConvosOK(h)'
    <2>1. amiss = {} /\ Whole /\ Whole' /\ ConvosOK(h)
      BY <1>1, <1>10, <1>4 DEF CalmInv, Whole, Timely
    <2>2. ContactsOK(h) /\ OneTask /\ Apart /\ Kept(h) /\ Erased /\ Shown(h) /\ ListedOK /\ Nobody(h)
      BY <1>1, <2>1 DEF TimelyInv, WholeInv, Whole
    <2>3. ConvosOK(h)'
      BY <2>1, <1>4 DEF ConvosOK, Deletes
    <2> QED
      BY <2>3
  <1> QED
    BY <1>7, <1>8, <1>9, <1>10 DEF Story, TimelyInv, WholeInv, CalmInv

(* It writes the contact,                                                   *)
LEMMA PutContactKeeps ==
    ASSUME NEW h, StoreInv(h), NEW t \in tasks, putContact(t)
    PROVE  Story(h)'
  <1> DEFINE u == [t EXCEPT !.at = "set"]
  <1>1. Shape(h) /\ TimelyInv(h) /\ WholeInv(h) /\ CalmInv(h)
    BY DEF StoreInv, Story
  <1>2. TaskOK(t) /\ t.contact \in Contact /\ t.contact.peer \in Peer
    BY <1>1, ContactFacts DEF Shape, TaskOK
  <1>3. /\ DOMAIN u = TaskFields /\ u.op = t.op /\ u.contact = t.contact /\ u.at = "set"
        /\ u.snap = t.snap /\ u.doomed = t.doomed
    BY <1>2, Moved
  <1>4. /\ t.at = "write" /\ tasks' = (tasks \ {t}) \cup {u}
        /\ pending' = pending /\ made' = made
        /\ amiss' = amiss
    BY DEF putContact, Awaits, Goes
  <1>5. /\ DOMAIN disk' = DOMAIN disk /\ disk'.contacts = With(disk.contacts, Updated(t))
        /\ disk'.convos = disk.convos /\ disk'.msgs = disk.msgs /\ disk'.blobs = disk.blobs
    BY <1>1, <1>2 DEF putContact, Shape, DiskOK, With
  <1> HIDE DEF u
  <1>6. TaskOK(u)
    BY <1>2, <1>3 DEF TaskOK, Shape, DiskOK
  <1>7. \A v \in tasks' : (v \in tasks /\ v # t) \/ v = u
    BY <1>4
  <1>8. Saves(t) /\ Saves(u) /\ ~Deletes(t) /\ ~Deletes(u) /\ Updated(u) = Updated(t)
    BY <1>2, <1>3, <1>4 DEF TaskOK, Saves, Deletes, Updated
  <1>9. /\ \A v \in tasks : v.contact.peer \in Peer
        /\ \A w \in pending : w.peer \in Peer
    BY <1>1, ContactFacts DEF Shape, TaskOK, WriteOK
  <1>10. OneTask => \A v \in tasks : v # t => v.contact.peer # t.contact.peer
    BY DEF OneTask
  <1>11. Shape(h)'
    BY <1>1, <1>2, <1>4, <1>5, <1>6, UpdatedFacts
       DEF Shape, MemOK, DiskOK, MadeOK, With
  <1>12. ASSUME Timely' PROVE ContactsOK(h)' /\ OneTask' /\ Apart' /\ Kept(h)' /\ Erased'
    <2>1. Timely /\ ContactsOK(h) /\ OneTask /\ Apart /\ Kept(h) /\ Erased
      BY <1>1, <1>12, <1>4 DEF TimelyInv, Timely
    <2>2. ContactsOK(h)'
      BY <1>1, <2>1, <1>3, <1>4, <1>5, <1>8, <1>10, UpdatedFacts
         DEF ContactsOK, Kin, Known, Shape, MemOK, DiskOK, MadeOK, With
    <2>3. OneTask'
      BY <2>1, <1>3, <1>4 DEF OneTask
    <2>4. Apart'
      BY <2>1, <1>3, <1>4 DEF Apart, Deletes
    <2>5. Kept(h)'
      BY <2>1, <1>3, <1>4, <1>5 DEF Kept, Deletes
    <2>6. Erased'
      BY <2>1, <1>5, <1>7, <1>8 DEF Erased, Deletes
    <2> QED
      BY <2>2, <2>3, <2>4, <2>5, <2>6
  <1>13. ASSUME Whole' PROVE Shown(h)' /\ ListedOK' /\ Nobody(h)'
    <2>1. /\ Whole /\ Timely /\ Timely' /\ Shown(h) /\ ListedOK /\ Nobody(h) /\ ContactsOK(h)
          /\ OneTask /\ Apart /\ Kept(h) /\ Erased
      BY <1>1, <1>13, <1>4 DEF TimelyInv, WholeInv, Whole, Timely
    <2>2. Shown(h)'
      BY <2>1, <1>4, <1>5 DEF Shown, Shape, WriteOK
    <2>3. ListedOK'
      BY <2>1, <1>3, <1>4, <1>5 DEF ListedOK, Deletes
    <2>4. Nobody(h)'
      BY <2>1, <1>4, <1>5 DEF Nobody, Stranger
    <2> QED
      BY <2>2, <2>3, <2>4
  <1>14. ASSUME amiss' = {} PROVE ConvosOK(h)'
    <2>1. amiss = {} /\ Whole /\ Whole' /\ ConvosOK(h)
      BY <1>1, <1>14, <1>4 DEF CalmInv, Whole, Timely
    <2>2. ContactsOK(h) /\ OneTask /\ Apart /\ Kept(h) /\ Erased /\ Shown(h) /\ ListedOK /\ Nobody(h)
      BY <1>1, <2>1 DEF TimelyInv, WholeInv, Whole
    <2>3. ConvosOK(h)'
      BY <2>1, <1>3, <1>4, <1>5 DEF ConvosOK, Deletes
    <2> QED
      BY <2>3
  <1> QED
    BY <1>11, <1>12, <1>13, <1>14 DEF Story, TimelyInv, WholeInv, CalmInv

(* deletes its record,                                                      *)
LEMMA DeleteContactKeeps ==
    ASSUME NEW h, StoreInv(h), NEW t \in tasks, deleteContactRecord(t)
    PROVE  Story(h)'
  <1> DEFINE u == [t EXCEPT !.at = "identity"]
  <1>1. Shape(h) /\ TimelyInv(h) /\ WholeInv(h) /\ CalmInv(h)
    BY DEF StoreInv, Story
  <1>2. TaskOK(t) /\ t.contact \in Contact /\ t.contact.peer \in Peer
    BY <1>1, ContactFacts DEF Shape, TaskOK
  <1>3. /\ DOMAIN u = TaskFields /\ u.op = t.op /\ u.contact = t.contact /\ u.at = "identity"
        /\ u.snap = t.snap /\ u.doomed = t.doomed
    BY <1>2, Moved
  <1>4. /\ t.at = "contact" /\ tasks' = (tasks \ {t}) \cup {u}
        /\ pending' = pending /\ made' = made
        /\ amiss' = amiss
    BY DEF deleteContactRecord, Awaits, Goes
  <1>5. /\ DOMAIN disk' = DOMAIN disk /\ disk'.contacts = Without(disk.contacts, t.contact.id)
        /\ disk'.convos = disk.convos /\ disk'.msgs = disk.msgs /\ disk'.blobs = disk.blobs
    BY <1>1, <1>2 DEF deleteContactRecord, Shape, DiskOK, With
  <1> HIDE DEF u
  <1>6. TaskOK(u)
    BY <1>2, <1>3, <1>4 DEF TaskOK, Shape, DiskOK
  <1>7. \A v \in tasks' : (v \in tasks /\ v # t) \/ v = u
    BY <1>4
  <1>8. Deletes(t) /\ Deletes(u) /\ ~Saves(t) /\ ~Saves(u) /\ t.op = "delete"
    BY <1>2, <1>3, <1>4 DEF TaskOK, Saves, Deletes, Updated
  <1>9. /\ \A v \in tasks : v.contact.peer \in Peer
        /\ \A w \in pending : w.peer \in Peer
    BY <1>1, ContactFacts DEF Shape, TaskOK, WriteOK
  <1>10. OneTask => \A v \in tasks : v # t => v.contact.peer # t.contact.peer
    BY DEF OneTask
  <1>11. Shape(h)'
    BY <1>1, <1>4, <1>5, <1>6 DEF Shape, MemOK, DiskOK, MadeOK, Without
  <1>12. ASSUME Timely' PROVE ContactsOK(h)' /\ OneTask' /\ Apart' /\ Kept(h)' /\ Erased'
    <2>1. Timely /\ ContactsOK(h) /\ OneTask /\ Apart /\ Kept(h) /\ Erased
      BY <1>1, <1>12, <1>4 DEF TimelyInv, Timely
    <2>2. ContactsOK(h)'
      <3>1. Kin(h.contacts)' /\ Known(h.contacts)'
        BY <2>1, <1>4 DEF ContactsOK, Kin, Known
      <3>2. (\A v \in tasks : v.contact \in h.contacts)'
        BY <2>1, <1>3, <1>4 DEF ContactsOK, Kin, Known
      <3>3. (\A w \in pending : w.store = "contacts" => w.value \in h.contacts)'
        BY <2>1, <1>4 DEF ContactsOK, Kin, Known, Without, Shape, MemOK, WriteOK
      <3>4. (\A c \in h.contacts :
               \/ c \in disk.contacts
               \/ \E w \in pending : w.store = "contacts" /\ w.value = c
               \/ \E v \in tasks : /\ v.contact = c
                                   /\ (Saves(v) /\ v.at = "set") \/ (v.op = "delete" /\ v.at # "contact"))'
        BY <2>1, <1>3, <1>4, <1>5, <1>8
           DEF ContactsOK, Kin, Known, Without, Shape, MemOK
      <3>5. (\A c \in disk.contacts :
               \/ /\ c \in h.contacts
                  /\ \A v \in tasks : v.contact = c => v.op = "clear" \/ v.at \in {"write", "contact"}
               \/ \E v \in tasks : Saves(v) /\ v.at = "set" /\ c = Updated(v))'
        BY <2>1, <1>3, <1>4, <1>5 DEF ContactsOK, Kin, Known, Without, Saves
      <3>6. (\A v \in tasks : Saves(v) /\ v.at = "set" => Updated(v) \in disk.contacts)'
        BY <1>1, <2>1, <1>3, <1>4, <1>5, <1>10, UpdatedFacts
           DEF ContactsOK, Kin, Known, Without, Shape, TaskOK, MemOK, Contact
      <3> QED
        BY <3>1, <3>2, <3>3, <3>4, <3>5, <3>6 DEF ContactsOK
    <2>3. OneTask'
      BY <2>1, <1>3, <1>4 DEF OneTask
    <2>4. Apart'
      BY <2>1, <1>3, <1>4 DEF Apart, Deletes
    <2>5. Kept(h)'
      BY <2>1, <1>3, <1>4, <1>5 DEF Kept, Deletes
    <2>6. Erased'
      BY <2>1, <1>3, <1>4, <1>5 DEF Erased, Deletes
    <2> QED
      BY <2>2, <2>3, <2>4, <2>5, <2>6
  <1>13. ASSUME Whole' PROVE Shown(h)' /\ ListedOK' /\ Nobody(h)'
    <2>1. /\ Whole /\ Timely /\ Timely' /\ Shown(h) /\ ListedOK /\ Nobody(h) /\ ContactsOK(h)
          /\ OneTask /\ Apart /\ Kept(h) /\ Erased
      BY <1>1, <1>13, <1>4 DEF TimelyInv, WholeInv, Whole, Timely
    <2>2. Shown(h)'
      BY <2>1, <1>4, <1>5 DEF Shown, Shape, WriteOK
    <2>3. ListedOK'
      BY <2>1, <1>3, <1>4, <1>5 DEF ListedOK, Deletes
    <2>4. Nobody(h)'
      BY <2>1, <1>4, <1>5 DEF Nobody, Stranger
    <2> QED
      BY <2>2, <2>3, <2>4
  <1>14. ASSUME amiss' = {} PROVE ConvosOK(h)'
    <2>1. amiss = {} /\ Whole /\ Whole' /\ ConvosOK(h)
      BY <1>1, <1>14, <1>4 DEF CalmInv, Whole, Timely
    <2>2. ContactsOK(h) /\ OneTask /\ Apart /\ Kept(h) /\ Erased /\ Shown(h) /\ ListedOK /\ Nobody(h)
      BY <1>1, <2>1 DEF TimelyInv, WholeInv, Whole
    <2>3. ConvosOK(h)'
      BY <2>1, <1>3, <1>4, <1>5 DEF ConvosOK, Deletes
    <2> QED
      BY <2>3
  <1> QED
    BY <1>11, <1>12, <1>13, <1>14 DEF Story, TimelyInv, WholeInv, CalmInv

(* finds its conversation,                                                  *)
LEMMA FindConvoGoesOn ==
    ASSUME NEW h, StoreInv(h), NEW t \in tasks, findConvo(t), identity
    PROVE  Story(h)'
  <1> DEFINE u == [t EXCEPT !.at = "convo"]
  <1>1. Shape(h) /\ TimelyInv(h) /\ WholeInv(h) /\ CalmInv(h)
    BY DEF StoreInv, Story
  <1>2. TaskOK(t) /\ t.contact \in Contact /\ t.contact.peer \in Peer
    BY <1>1, ContactFacts DEF Shape, TaskOK
  <1>3. /\ DOMAIN u = TaskFields /\ u.op = t.op /\ u.contact = t.contact /\ u.at = "convo"
        /\ u.snap = t.snap /\ u.doomed = t.doomed
    BY <1>2, Moved
  <1>4. /\ t.at = "identity" /\ tasks' = (tasks \ {t}) \cup {u}
        /\ pending' = pending /\ made' = made
        /\ amiss' = amiss
    BY DEF findConvo, Awaits, Goes
  <1>5. disk' = disk
    BY DEF findConvo
  <1> HIDE DEF u
  <1>6. TaskOK(u)
    BY <1>2, <1>3, <1>4 DEF TaskOK, Shape, DiskOK
  <1>7. \A v \in tasks' : (v \in tasks /\ v # t) \/ v = u
    BY <1>4
  <1>8. Deletes(t) /\ Deletes(u) /\ ~Saves(t) /\ ~Saves(u) /\ t.op = "delete"
    BY <1>2, <1>3, <1>4 DEF TaskOK, Saves, Deletes, Updated
  <1>9. /\ \A v \in tasks : v.contact.peer \in Peer
        /\ \A w \in pending : w.peer \in Peer
    BY <1>1, ContactFacts DEF Shape, TaskOK, WriteOK
  <1>10. OneTask => \A v \in tasks : v # t => v.contact.peer # t.contact.peer
    BY DEF OneTask
  <1>11. Shape(h)'
    BY <1>1, <1>4, <1>5, <1>6 DEF Shape, MemOK, DiskOK, MadeOK, Without
  <1>12. ASSUME Timely' PROVE ContactsOK(h)' /\ OneTask' /\ Apart' /\ Kept(h)' /\ Erased'
    <2>1. Timely /\ ContactsOK(h) /\ OneTask /\ Apart /\ Kept(h) /\ Erased
      BY <1>1, <1>12, <1>4 DEF TimelyInv, Timely
    <2>2. ContactsOK(h)'
      BY <2>1, <1>3, <1>4, <1>5, <1>8 DEF ContactsOK, Kin, Known, Saves
    <2>3. OneTask'
      BY <2>1, <1>3, <1>4 DEF OneTask
    <2>4. Apart'
      BY <2>1, <1>3, <1>4 DEF Apart, Deletes
    <2>5. Kept(h)'
      BY <2>1, <1>3, <1>4, <1>5 DEF Kept, Deletes
    <2>6. Erased'
      BY <2>1, <1>3, <1>4, <1>5 DEF Erased, Deletes
    <2> QED
      BY <2>2, <2>3, <2>4, <2>5, <2>6
  <1>13. ASSUME Whole' PROVE Shown(h)' /\ ListedOK' /\ Nobody(h)'
    <2>1. /\ Whole /\ Timely /\ Timely' /\ Shown(h) /\ ListedOK /\ Nobody(h) /\ ContactsOK(h)
          /\ OneTask /\ Apart /\ Kept(h) /\ Erased
      BY <1>1, <1>13, <1>4 DEF TimelyInv, WholeInv, Whole, Timely
    <2>2. Shown(h)'
      BY <2>1, <1>4, <1>5 DEF Shown, Shape, WriteOK
    <2>3. ListedOK'
      BY <2>1, <1>3, <1>4, <1>5 DEF ListedOK, Deletes
    <2>4. Nobody(h)'
      BY <2>1, <1>4, <1>5 DEF Nobody, Stranger
    <2> QED
      BY <2>2, <2>3, <2>4
  <1>14. ASSUME amiss' = {} PROVE ConvosOK(h)'
    <2>1. amiss = {} /\ Whole /\ Whole' /\ ConvosOK(h)
      BY <1>1, <1>14, <1>4 DEF CalmInv, Whole, Timely
    <2>2. ContactsOK(h) /\ OneTask /\ Apart /\ Kept(h) /\ Erased /\ Shown(h) /\ ListedOK /\ Nobody(h)
      BY <1>1, <2>1 DEF TimelyInv, WholeInv, Whole
    <2>3. ConvosOK(h)'
      BY <2>1, <1>3, <1>4, <1>5 DEF ConvosOK, Deletes
    <2> QED
      BY <2>3
  <1> QED
    BY <1>11, <1>12, <1>13, <1>14 DEF Story, TimelyInv, WholeInv, CalmInv

(* or is cut short by a lock: the story is then that of a contact deleted.  *)
LEMMA FindConvoCut ==
    ASSUME NEW h, NEW k, StoreInv(h), NEW t \in tasks, findConvo(t), ~identity,
           k = [contacts |-> h.contacts \ {t.contact}, convos |-> h.convos,
                msgs |-> [h.msgs EXCEPT ![t.contact.peer] = {}]]
    PROVE  Story(k)'
  <1>1. Shape(h) /\ TimelyInv(h)
    BY DEF StoreInv, Story
  <1>2. TaskOK(t) /\ t.contact \in Contact /\ t.contact.peer \in Peer /\ t.op = "delete"
    BY <1>1, ContactFacts DEF Shape, TaskOK, findConvo
  <1>3. /\ t.at = "identity" /\ tasks' = tasks \ {t} /\ disk' = disk /\ pending' = pending
        /\ made' = made /\ amiss' = amiss \cup {"cut"}
    BY DEF findConvo, Blame
  <1>4. Shape(k)'
    BY <1>1, <1>2, <1>3 DEF Shape, MemOK, Ways
  <1>5. ASSUME Timely' PROVE ContactsOK(k)' /\ OneTask' /\ Apart' /\ Kept(k)' /\ Erased'
    <2>1. Timely /\ ContactsOK(h) /\ OneTask /\ Apart /\ Kept(h) /\ Erased
      BY <1>1, <1>3, <1>5 DEF TimelyInv, Timely
    <2>2. /\ \A v \in tasks' : v \in tasks /\ v.contact.peer # t.contact.peer
          /\ \A w \in pending : w.peer # t.contact.peer
      BY <1>2, <1>3, <2>1 DEF OneTask, Apart, Deletes
    <2>3. ContactsOK(k)'
      <3>1. Kin(k.contacts)' /\ Known(k.contacts)'
        BY <1>3, <2>1 DEF ContactsOK, Kin, Known
      <3>2. (\A v \in tasks : v.contact \in k.contacts)'
        BY <2>1, <2>2 DEF ContactsOK
      <3>3. (\A w \in pending : w.store = "contacts" => w.value \in k.contacts)'
        BY <1>1, <1>3, <2>1, <2>2 DEF ContactsOK, Shape, WriteOK
      <3>4. (\A c \in k.contacts :
               \/ c \in disk.contacts
               \/ \E w \in pending : w.store = "contacts" /\ w.value = c
               \/ \E u \in tasks : /\ u.contact = c
                                   /\ (Saves(u) /\ u.at = "set") \/ (u.op = "delete" /\ u.at # "contact"))'
        BY <1>3, <2>1 DEF ContactsOK
      <3>5. (\A c \in disk.contacts :
               \/ /\ c \in k.contacts
                  /\ \A u \in tasks : u.contact = c => u.op = "clear" \/ u.at \in {"write", "contact"}
               \/ \E u \in tasks : Saves(u) /\ u.at = "set" /\ c = Updated(u))'
        BY <1>2, <1>3, <2>1 DEF ContactsOK, Saves
      <3>6. (\A u \in tasks : Saves(u) /\ u.at = "set" => Updated(u) \in disk.contacts)'
        BY <1>3, <2>1 DEF ContactsOK
      <3> QED
        BY <3>1, <3>2, <3>3, <3>4, <3>5, <3>6 DEF ContactsOK
    <2>4. OneTask' /\ Apart' /\ Erased'
      BY <1>3, <2>1 DEF OneTask, Apart, Erased
    <2>5. Kept(k)'
      <3> SUFFICES ASSUME NEW q \in Peer, NEW m \in k.msgs[q]
                   PROVE  \/ m \in disk.msgs[q]
                          \/ \E w \in pending : w.store = "messages" /\ w.peer = q /\ w.value = m
                          \/ \E v \in tasks' : Deletes(v) /\ v.contact.peer = q
        BY <1>3 DEF Kept
      <3>1. q # t.contact.peer /\ m \in h.msgs[q]
        BY <1>1, <1>2 DEF Shape, MemOK
      <3> QED
        BY <1>3, <2>1, <3>1 DEF Kept
    <2> QED
      BY <2>3, <2>4, <2>5
  <1>6. ~Whole' /\ amiss' # {}
    BY <1>3 DEF Whole
  <1> QED
    BY <1>4, <1>5, <1>6 DEF Story, TimelyInv, WholeInv, CalmInv

(* that of the conversation,                                                *)
LEMMA DeleteConvoKeeps ==
    ASSUME NEW h, StoreInv(h), NEW t \in tasks, deleteConvoRecord(t)
    PROVE  Story(h)'
  <1> DEFINE u == [t EXCEPT !.at = "keys"]
  <1>1. Shape(h) /\ TimelyInv(h) /\ WholeInv(h) /\ CalmInv(h)
    BY DEF StoreInv, Story
  <1>2. TaskOK(t) /\ t.contact \in Contact /\ t.contact.peer \in Peer
    BY <1>1, ContactFacts DEF Shape, TaskOK
  <1>3. /\ DOMAIN u = TaskFields /\ u.op = t.op /\ u.contact = t.contact /\ u.at = "keys"
        /\ u.snap = t.snap /\ u.doomed = t.doomed
    BY <1>2, Moved
  <1>4. /\ t.at = "convo" /\ tasks' = (tasks \ {t}) \cup {u}
        /\ pending' = pending /\ made' = made
        /\ amiss' = amiss
    BY DEF deleteConvoRecord, Awaits, Goes
  <1>5. /\ DOMAIN disk' = DOMAIN disk
        /\ disk'.convos = [disk.convos EXCEPT ![t.contact.peer] = "none"]
        /\ disk'.contacts = disk.contacts /\ disk'.msgs = disk.msgs /\ disk'.blobs = disk.blobs
    BY <1>1, <1>2 DEF deleteConvoRecord, Shape, DiskOK, With
  <1> HIDE DEF u
  <1>6. TaskOK(u)
    BY <1>2, <1>3, <1>4 DEF TaskOK, Shape, DiskOK
  <1>7. \A v \in tasks' : (v \in tasks /\ v # t) \/ v = u
    BY <1>4
  <1>8. Deletes(t) /\ Deletes(u) /\ ~Saves(t) /\ ~Saves(u)
    BY <1>2, <1>3, <1>4 DEF TaskOK, Saves, Deletes, Updated
  <1>9. /\ \A v \in tasks : v.contact.peer \in Peer
        /\ \A w \in pending : w.peer \in Peer
    BY <1>1, ContactFacts DEF Shape, TaskOK, WriteOK
  <1>10. OneTask => \A v \in tasks : v # t => v.contact.peer # t.contact.peer
    BY DEF OneTask
  <1>11. Shape(h)'
    BY <1>1, <1>2, <1>4, <1>5, <1>6 DEF Shape, MemOK, DiskOK, MadeOK, Convo
  <1>12. ASSUME Timely' PROVE ContactsOK(h)' /\ OneTask' /\ Apart' /\ Kept(h)' /\ Erased'
    <2>1. Timely /\ ContactsOK(h) /\ OneTask /\ Apart /\ Kept(h) /\ Erased
      BY <1>1, <1>12, <1>4 DEF TimelyInv, Timely
    <2>2. ContactsOK(h)'
      BY <2>1, <1>3, <1>4, <1>5
         DEF ContactsOK, Kin, Known, Shape, MemOK, DiskOK, MadeOK
    <2>3. OneTask'
      BY <2>1, <1>3, <1>4 DEF OneTask
    <2>4. Apart'
      BY <2>1, <1>3, <1>4 DEF Apart, Deletes
    <2>5. Kept(h)'
      BY <2>1, <1>3, <1>4, <1>5 DEF Kept, Deletes
    <2>6. Erased'
      <3> SUFFICES ASSUME NEW v \in tasks', Deletes(v)
                   PROVE  LET p == v.contact.peer IN
                          /\ v.at \in {"keys", "messages", "set"} => disk'.convos[p] = "none"
                          /\ v.at = "messages" => disk'.msgs[p] = v.doomed
                          /\ v.at = "set" => disk'.msgs[p] = {}
        BY DEF Erased
      <3>1. CASE v = u
        BY <1>1, <1>2, <1>3, <1>4, <1>5, <2>1 DEF Erased, Shape, DiskOK
      <3>2. CASE v \in tasks /\ v # t
        BY <1>5, <2>1, <3>2 DEF Erased, Shape, DiskOK
      <3> QED
        BY <1>7, <3>1, <3>2
    <2> QED
      BY <2>2, <2>3, <2>4, <2>5, <2>6
  <1>13. ASSUME Whole' PROVE Shown(h)' /\ ListedOK' /\ Nobody(h)'
    <2>1. /\ Whole /\ Timely /\ Timely' /\ Shown(h) /\ ListedOK /\ Nobody(h) /\ ContactsOK(h)
          /\ OneTask /\ Apart /\ Kept(h) /\ Erased
      BY <1>1, <1>13, <1>4 DEF TimelyInv, WholeInv, Whole, Timely
    <2>2. Shown(h)'
      BY <2>1, <1>4, <1>5 DEF Shown, Shape, WriteOK
    <2>3. ListedOK'
      BY <2>1, <1>3, <1>4, <1>5, <1>8
         DEF ListedOK, Deletes, Apart, Shape, WriteOK, DiskOK
    <2>4. Nobody(h)'
      BY <2>1, <1>4, <1>5 DEF Nobody, Stranger
    <2> QED
      BY <2>2, <2>3, <2>4
  <1>14. ASSUME amiss' = {} PROVE ConvosOK(h)'
    <2>1. amiss = {} /\ Whole /\ Whole' /\ ConvosOK(h)
      BY <1>1, <1>14, <1>4 DEF CalmInv, Whole, Timely
    <2>2. ContactsOK(h) /\ OneTask /\ Apart /\ Kept(h) /\ Erased /\ Shown(h) /\ ListedOK /\ Nobody(h)
      BY <1>1, <2>1 DEF TimelyInv, WholeInv, Whole
    <2>3. ConvosOK(h)'
      BY <2>1, <1>3, <1>4, <1>5, <1>8 DEF ConvosOK, Deletes
    <2> QED
      BY <2>3
  <1> QED
    BY <1>11, <1>12, <1>13, <1>14 DEF Story, TimelyInv, WholeInv, CalmInv

(* lists the messages,                                                      *)
LEMMA ListKeysKeeps ==
    ASSUME NEW h, StoreInv(h), NEW t \in tasks, listMessageKeys(t)
    PROVE  Story(h)'
  <1> DEFINE u == [t EXCEPT !.at = "messages", !.doomed = disk.msgs[t.contact.peer]]
  <1>1. Shape(h) /\ TimelyInv(h) /\ WholeInv(h) /\ CalmInv(h)
    BY DEF StoreInv, Story
  <1>2. TaskOK(t) /\ t.contact \in Contact /\ t.contact.peer \in Peer
    BY <1>1, ContactFacts DEF Shape, TaskOK
  <1>3. /\ DOMAIN u = TaskFields /\ u.op = t.op /\ u.contact = t.contact /\ u.at = "messages"
        /\ u.snap = t.snap /\ u.doomed = disk.msgs[t.contact.peer]
    BY <1>2 DEF TaskOK, TaskFields
  <1>4. /\ t.at = "keys" /\ tasks' = (tasks \ {t}) \cup {u}
        /\ pending' = pending /\ made' = made
        /\ amiss' = amiss
    BY DEF listMessageKeys, Awaits, Goes
  <1>5. disk' = disk
    BY <1>1, <1>2 DEF listMessageKeys, Shape, DiskOK, With
  <1> HIDE DEF u
  <1>6. TaskOK(u)
    BY <1>1, <1>2, <1>3, <1>4 DEF TaskOK, Shape, DiskOK
  <1>7. \A v \in tasks' : (v \in tasks /\ v # t) \/ v = u
    BY <1>4
  <1>8. Deletes(t) /\ Deletes(u) /\ ~Saves(t) /\ ~Saves(u)
    BY <1>2, <1>3, <1>4 DEF TaskOK, Saves, Deletes, Updated
  <1>9. /\ \A v \in tasks : v.contact.peer \in Peer
        /\ \A w \in pending : w.peer \in Peer
    BY <1>1, ContactFacts DEF Shape, TaskOK, WriteOK
  <1>10. OneTask => \A v \in tasks : v # t => v.contact.peer # t.contact.peer
    BY DEF OneTask
  <1>11. Shape(h)'
    BY <1>1, <1>4, <1>5, <1>6 DEF Shape, MemOK, DiskOK, MadeOK
  <1>12. ASSUME Timely' PROVE ContactsOK(h)' /\ OneTask' /\ Apart' /\ Kept(h)' /\ Erased'
    <2>1. Timely /\ ContactsOK(h) /\ OneTask /\ Apart /\ Kept(h) /\ Erased
      BY <1>1, <1>12, <1>4 DEF TimelyInv, Timely
    <2>2. ContactsOK(h)'
      BY <2>1, <1>3, <1>4, <1>5
         DEF ContactsOK, Kin, Known, Shape, MemOK, DiskOK, MadeOK
    <2>3. OneTask'
      BY <2>1, <1>3, <1>4 DEF OneTask
    <2>4. Apart'
      BY <2>1, <1>3, <1>4 DEF Apart, Deletes
    <2>5. Kept(h)'
      BY <2>1, <1>3, <1>4, <1>5 DEF Kept, Deletes
    <2>6. Erased'
      BY <2>1, <1>3, <1>4, <1>5 DEF Erased, Deletes
    <2> QED
      BY <2>2, <2>3, <2>4, <2>5, <2>6
  <1>13. ASSUME Whole' PROVE Shown(h)' /\ ListedOK' /\ Nobody(h)'
    <2>1. /\ Whole /\ Timely /\ Timely' /\ Shown(h) /\ ListedOK /\ Nobody(h) /\ ContactsOK(h)
          /\ OneTask /\ Apart /\ Kept(h) /\ Erased
      BY <1>1, <1>13, <1>4 DEF TimelyInv, WholeInv, Whole, Timely
    <2>2. Shown(h)'
      BY <2>1, <1>4, <1>5 DEF Shown, Shape, WriteOK
    <2>3. ListedOK'
      BY <2>1, <1>3, <1>4, <1>5 DEF ListedOK, Deletes
    <2>4. Nobody(h)'
      BY <2>1, <1>4, <1>5 DEF Nobody, Stranger
    <2> QED
      BY <2>2, <2>3, <2>4
  <1>14. ASSUME amiss' = {} PROVE ConvosOK(h)'
    <2>1. amiss = {} /\ Whole /\ Whole' /\ ConvosOK(h)
      BY <1>1, <1>14, <1>4 DEF CalmInv, Whole, Timely
    <2>2. ContactsOK(h) /\ OneTask /\ Apart /\ Kept(h) /\ Erased /\ Shown(h) /\ ListedOK /\ Nobody(h)
      BY <1>1, <2>1 DEF TimelyInv, WholeInv, Whole
    <2>3. ConvosOK(h)'
      BY <2>1, <1>3, <1>4, <1>5 DEF ConvosOK, Deletes
    <2> QED
      BY <2>3
  <1> QED
    BY <1>11, <1>12, <1>13, <1>14 DEF Story, TimelyInv, WholeInv, CalmInv

(* and deletes those.                                                       *)
LEMMA DeleteMessagesKeeps ==
    ASSUME NEW h, StoreInv(h), NEW t \in tasks, deleteMessages(t)
    PROVE  Story(h)'
  <1> DEFINE u == [t EXCEPT !.at = "set"]
  <1>1. Shape(h) /\ TimelyInv(h) /\ WholeInv(h) /\ CalmInv(h)
    BY DEF StoreInv, Story
  <1>2. TaskOK(t) /\ t.contact \in Contact /\ t.contact.peer \in Peer
    BY <1>1, ContactFacts DEF Shape, TaskOK
  <1>3. /\ DOMAIN u = TaskFields /\ u.op = t.op /\ u.contact = t.contact /\ u.at = "set"
        /\ u.snap = t.snap /\ u.doomed = t.doomed
    BY <1>2, Moved
  <1>4. /\ t.at = "messages" /\ tasks' = (tasks \ {t}) \cup {u}
        /\ pending' = pending /\ made' = made
        /\ amiss' = amiss
    BY DEF deleteMessages, Awaits, Goes
  <1>5. /\ DOMAIN disk' = DOMAIN disk
        /\ disk'.msgs = [disk.msgs EXCEPT ![t.contact.peer] = @ \ t.doomed]
        /\ disk'.contacts = disk.contacts /\ disk'.convos = disk.convos
        /\ disk'.blobs = disk.blobs
    BY <1>1, <1>2 DEF deleteMessages, Shape, DiskOK, With
  <1> HIDE DEF u
  <1>6. TaskOK(u)
    BY <1>2, <1>3 DEF TaskOK, Shape, DiskOK
  <1>7. \A v \in tasks' : (v \in tasks /\ v # t) \/ v = u
    BY <1>4
  <1>8. Deletes(t) /\ Deletes(u) /\ ~Saves(t) /\ ~Saves(u)
    BY <1>2, <1>3, <1>4 DEF TaskOK, Saves, Deletes, Updated
  <1>9. /\ \A v \in tasks : v.contact.peer \in Peer
        /\ \A w \in pending : w.peer \in Peer
    BY <1>1, ContactFacts DEF Shape, TaskOK, WriteOK
  <1>10. OneTask => \A v \in tasks : v # t => v.contact.peer # t.contact.peer
    BY DEF OneTask
  <1>11. Shape(h)'
    BY <1>1, <1>2, <1>4, <1>5, <1>6 DEF Shape, MemOK, DiskOK, MadeOK
  <1>12. ASSUME Timely' PROVE ContactsOK(h)' /\ OneTask' /\ Apart' /\ Kept(h)' /\ Erased'
    <2>1. Timely /\ ContactsOK(h) /\ OneTask /\ Apart /\ Kept(h) /\ Erased
      BY <1>1, <1>12, <1>4 DEF TimelyInv, Timely
    <2>2. ContactsOK(h)'
      BY <2>1, <1>3, <1>4, <1>5, <1>8
         DEF ContactsOK, Kin, Known, Shape, MemOK, DiskOK, MadeOK
    <2>3. OneTask'
      BY <2>1, <1>3, <1>4 DEF OneTask
    <2>4. Apart'
      BY <2>1, <1>3, <1>4 DEF Apart, Deletes
    <2>5. Kept(h)'
      BY <2>1, <1>3, <1>4, <1>5, <1>8 DEF Kept, Deletes
    <2>6. Erased'
      <3> SUFFICES ASSUME NEW v \in tasks', Deletes(v)
                   PROVE  LET p == v.contact.peer IN
                          /\ v.at \in {"keys", "messages", "set"} => disk'.convos[p] = "none"
                          /\ v.at = "messages" => disk'.msgs[p] = v.doomed
                          /\ v.at = "set" => disk'.msgs[p] = {}
        BY DEF Erased
      <3>1. CASE v = u
        BY <1>1, <1>2, <1>3, <1>4, <1>5, <1>8, <2>1, <3>1 DEF Erased, Shape, DiskOK
      <3>2. CASE v \in tasks /\ v # t
        BY <1>5, <1>10, <2>1, <3>2 DEF Erased, Shape, DiskOK
      <3> QED
        BY <1>7, <3>1, <3>2
    <2> QED
      BY <2>2, <2>3, <2>4, <2>5, <2>6
  <1>13. ASSUME Whole' PROVE Shown(h)' /\ ListedOK' /\ Nobody(h)'
    <2>1. /\ Whole /\ Timely /\ Timely' /\ Shown(h) /\ ListedOK /\ Nobody(h) /\ ContactsOK(h)
          /\ OneTask /\ Apart /\ Kept(h) /\ Erased
      BY <1>1, <1>13, <1>4 DEF TimelyInv, WholeInv, Whole, Timely
    <2>2. Shown(h)'
      BY <2>1, <1>4, <1>5 DEF Shown, Shape, WriteOK
    <2>3. ListedOK'
      BY <2>1, <1>3, <1>4, <1>5 DEF ListedOK, Deletes
    <2>4. Nobody(h)'
      BY <2>1, <1>4, <1>5 DEF Nobody, Stranger
    <2> QED
      BY <2>2, <2>3, <2>4
  <1>14. ASSUME amiss' = {} PROVE ConvosOK(h)'
    <2>1. amiss = {} /\ Whole /\ Whole' /\ ConvosOK(h)
      BY <1>1, <1>14, <1>4 DEF CalmInv, Whole, Timely
    <2>2. ContactsOK(h) /\ OneTask /\ Apart /\ Kept(h) /\ Erased /\ Shown(h) /\ ListedOK /\ Nobody(h)
      BY <1>1, <2>1 DEF TimelyInv, WholeInv, Whole
    <2>3. ConvosOK(h)'
      BY <2>1, <1>3, <1>4, <1>5 DEF ConvosOK, Deletes
    <2> QED
      BY <2>3
  <1> QED
    BY <1>11, <1>12, <1>13, <1>14 DEF Story, TimelyInv, WholeInv, CalmInv

(* It ends by putting back the contact it changed,                          *)
LEMMA FinishSavesKeeps ==
    ASSUME NEW h, NEW k, StoreInv(h), Open, k = mem', NEW t \in tasks, Finish(t), Saves(t)
    PROVE  Story(k)'
  <1>1. Shape(h) /\ TimelyInv(h) /\ WholeInv(h) /\ CalmInv(h)
    BY DEF StoreInv, Story
  <1>a. h = mem
    BY DEF StoreInv, VaultInv
  <1>2. TaskOK(t) /\ t.contact \in Contact /\ t.contact.peer \in Peer
    BY <1>1, ContactFacts DEF Shape, TaskOK
  <1>3. /\ t.at = "set" /\ tasks' = tasks \ {t} /\ k = PutBack(t) /\ disk' = disk
        /\ pending' = pending
        /\ made' = made /\ amiss \subseteq amiss' /\ amiss' \subseteq Ways
        /\ Timely' => ~Undoes(t)
    BY <1>1 DEF Finish, Blame, If, Shape, Ways, Timely
  <1>4. /\ \A v \in tasks : v.contact.peer \in Peer
        /\ \A w \in pending : w.peer \in Peer
    BY <1>1, ContactFacts DEF Shape, TaskOK, WriteOK
  <1>5. OneTask => \A v \in tasks : v # t => v.contact.peer # t.contact.peer
    BY DEF OneTask
  <1>6. /\ k.contacts = {IF c.id = t.contact.id THEN Updated(t) ELSE c : c \in t.snap.contacts}
        /\ k.convos = h.convos /\ k.msgs = h.msgs /\ DOMAIN k = DOMAIN h
    BY <1>1, <1>a, <1>3 DEF PutBack, Saves, Shape, MemOK
  <1>7. /\ Updated(t) \in Contact /\ Updated(t).id = t.contact.id
        /\ Updated(t).peer = t.contact.peer
    BY <1>2, UpdatedFacts
  <1>8. Timely' => h.contacts = t.snap.contacts
    BY <1>3, <1>a DEF Undoes, Saves
  <1>9. Timely' /\ ContactsOK(h) =>
          \A c : c \in k.contacts <=> (c \in h.contacts /\ c # t.contact) \/ c = Updated(t)
    BY <1>6, <1>8, <1>1 DEF ContactsOK, Kin
  <1>10. Shape(k)'
    BY <1>1, <1>3, <1>6, <1>7 DEF Shape, MemOK, DiskOK, MadeOK, TaskOK
  <1>11. ASSUME Timely' PROVE ContactsOK(k)' /\ OneTask' /\ Apart' /\ Kept(k)' /\ Erased'
    <2>1. Timely /\ ContactsOK(h) /\ OneTask /\ Apart /\ Kept(h) /\ Erased
      BY <1>1, <1>11, <1>3 DEF TimelyInv, Timely
    <2>2. ContactsOK(k)'
      <3>1. Kin(k.contacts)' /\ Known(k.contacts)'
        BY <1>11, <2>1, <1>3, <1>7, <1>9 DEF ContactsOK, Kin, Known, Shape, MemOK
      <3>2. (\A u \in tasks : u.contact \in k.contacts)'
        BY <1>11, <2>1, <1>3, <1>5, <1>6, <1>8 DEF ContactsOK, Kin, Known
      <3>3. (\A w \in pending : w.store = "contacts" => w.value \in k.contacts)'
        BY <1>1, <1>11, <2>1, <1>3, <1>9
           DEF ContactsOK, Kin, Known, Apart, WriteOK, Shape
      <3>4. (\A c \in k.contacts :
               \/ c \in disk.contacts
               \/ \E w \in pending : w.store = "contacts" /\ w.value = c
               \/ \E u \in tasks : /\ u.contact = c
                                   /\ (Saves(u) /\ u.at = "set") \/ (u.op = "delete" /\ u.at # "contact"))'
        BY <1>11, <2>1, <1>3, <1>9 DEF ContactsOK, Kin, Known
      <3>5. (\A c \in disk.contacts :
               \/ /\ c \in k.contacts
                  /\ \A u \in tasks : u.contact = c => u.op = "clear" \/ u.at \in {"write", "contact"}
               \/ \E u \in tasks : Saves(u) /\ u.at = "set" /\ c = Updated(u))'
        BY <1>11, <2>1, <1>3, <1>5, <1>6, <1>7, <1>8
           DEF ContactsOK, Kin, Known, Saves
      <3>6. (\A u \in tasks : Saves(u) /\ u.at = "set" => Updated(u) \in disk.contacts)'
        BY <2>1, <1>3 DEF ContactsOK, Kin, Known
      <3> QED
        BY <3>1, <3>2, <3>3, <3>4, <3>5, <3>6 DEF ContactsOK
    <2>3. OneTask'
      BY <2>1, <1>3 DEF OneTask
    <2>4. Apart'
      BY <2>1, <1>3 DEF Apart, Deletes
    <2>5. Kept(k)'
      BY <2>1, <1>3, <1>6 DEF Kept, Deletes, Saves
    <2>6. Erased'
      BY <2>1, <1>3 DEF Erased, Deletes
    <2> QED
      BY <2>2, <2>3, <2>4, <2>5, <2>6
  <1>12. ASSUME Whole' PROVE Shown(k)' /\ ListedOK' /\ Nobody(k)'
    <2>1. /\ Whole /\ Timely /\ Timely' /\ Shown(h) /\ ListedOK /\ Nobody(h) /\ ContactsOK(h)
          /\ OneTask /\ Apart /\ Kept(h) /\ Erased
      BY <1>1, <1>12, <1>3 DEF TimelyInv, WholeInv, Whole, Timely
    <2>2. Shown(k)'
      BY <2>1, <1>3, <1>6 DEF Shown, Shape, WriteOK
    <2>3. ListedOK'
      BY <2>1, <1>3 DEF ListedOK, Deletes, Saves
    <2>4. Nobody(k)'
      <3> SUFFICES ASSUME NEW q \in Peer, Stranger(k, q)
                   PROVE  Stranger(h, q)
        BY <1>3, <1>6, <2>1 DEF Nobody
      <3>1. Updated(t).peer # q
        BY <1>9, <2>1 DEF Stranger
      <3> QED
        BY <1>9, <1>7, <2>1 DEF Stranger
    <2> QED
      BY <2>2, <2>3, <2>4
  <1>13. ASSUME amiss' = {} PROVE ConvosOK(k)'
    <2>1. amiss = {} /\ Whole /\ Whole' /\ Timely' /\ ConvosOK(h)
      BY <1>1, <1>13, <1>3 DEF CalmInv, Whole, Timely
    <2>2. ContactsOK(h) /\ OneTask /\ Apart /\ Kept(h) /\ Erased /\ Shown(h) /\ ListedOK /\ Nobody(h)
      BY <1>1, <2>1 DEF TimelyInv, WholeInv, Whole
    <2>3. ConvosOK(k)'
      BY <2>1, <1>3, <1>6 DEF ConvosOK, Deletes, Saves
    <2> QED
      BY <2>3
  <1> QED
    BY <1>10, <1>11, <1>12, <1>13 DEF Story, TimelyInv, WholeInv, CalmInv

(* by removing the contact and its conversation,                            *)
LEMMA FinishDeleteKeeps ==
    ASSUME NEW h, NEW k, StoreInv(h), Open, k = mem', NEW t \in tasks, Finish(t), t.op = "delete"
    PROVE  Story(k)'
  <1>1. Shape(h) /\ TimelyInv(h) /\ WholeInv(h) /\ CalmInv(h)
    BY DEF StoreInv, Story
  <1>a. h = mem
    BY DEF StoreInv, VaultInv
  <1>2. TaskOK(t) /\ t.contact \in Contact /\ t.contact.peer \in Peer
    BY <1>1, ContactFacts DEF Shape, TaskOK
  <1>3. /\ t.at = "set" /\ tasks' = tasks \ {t} /\ k = PutBack(t) /\ disk' = disk
        /\ pending' = pending
        /\ made' = made /\ amiss \subseteq amiss' /\ amiss' \subseteq Ways
        /\ Timely' => ~Undoes(t)
    BY <1>1 DEF Finish, Blame, If, Shape, Ways, Timely
  <1>4. /\ \A v \in tasks : v.contact.peer \in Peer
        /\ \A w \in pending : w.peer \in Peer
    BY <1>1, ContactFacts DEF Shape, TaskOK, WriteOK
  <1>5. OneTask => \A v \in tasks : v # t => v.contact.peer # t.contact.peer
    BY DEF OneTask
  <1>6. /\ k.contacts = Without(t.snap.contacts, t.contact.id)
        /\ k.convos = [t.snap.convos EXCEPT ![t.contact.peer] = "none"]
        /\ k.msgs = [t.snap.msgs EXCEPT ![t.contact.peer] = {}] /\ DOMAIN k = DOMAIN h
    <2>1. k = [contacts |-> Without(t.snap.contacts, t.contact.id),
               convos |-> [t.snap.convos EXCEPT ![t.contact.peer] = "none"],
               msgs |-> [t.snap.msgs EXCEPT ![t.contact.peer] = {}]]
      BY <1>3 DEF PutBack
    <2> QED
      BY <1>1, <2>1 DEF Shape, MemOK
  <1>7. Timely' => h.contacts = t.snap.contacts /\ h.convos = t.snap.convos /\ h.msgs = t.snap.msgs
    BY <1>3, <1>a DEF Undoes
  <1>8. Timely' /\ ContactsOK(h) =>
          \A c : c \in k.contacts <=> c \in h.contacts /\ c # t.contact
    BY <1>6, <1>7, <1>1 DEF ContactsOK, Kin, Without
  <1>9. Erased => disk.convos[t.contact.peer] = "none" /\ disk.msgs[t.contact.peer] = {}
    BY <1>3 DEF Erased, Deletes
  <1>10. Apart => \A w \in pending : w.peer # t.contact.peer
    BY DEF Apart, Deletes
  <1>11. Shape(k)'
    BY <1>1, <1>2, <1>3, <1>6
       DEF Shape, MemOK, DiskOK, MadeOK, TaskOK, Without, Convo
  <1>12. ASSUME Timely' PROVE ContactsOK(k)' /\ OneTask' /\ Apart' /\ Kept(k)' /\ Erased'
    <2>1. Timely /\ ContactsOK(h) /\ OneTask /\ Apart /\ Kept(h) /\ Erased
      BY <1>1, <1>12, <1>3 DEF TimelyInv, Timely
    <2>2. ContactsOK(k)'
      <3>1. Kin(k.contacts)' /\ Known(k.contacts)'
        BY <1>12, <2>1, <1>3, <1>8 DEF ContactsOK, Kin, Known, Shape, MemOK
      <3>2. (\A u \in tasks : u.contact \in k.contacts)'
        BY <1>12, <2>1, <1>3, <1>5, <1>8 DEF ContactsOK, Kin, Known
      <3>3. (\A w \in pending : w.store = "contacts" => w.value \in k.contacts)'
        BY <1>11, <1>12, <2>1, <1>3, <1>8, <1>10
           DEF ContactsOK, Kin, Known, WriteOK, Shape
      <3>4. (\A c \in k.contacts :
               \/ c \in disk.contacts
               \/ \E w \in pending : w.store = "contacts" /\ w.value = c
               \/ \E u \in tasks : /\ u.contact = c
                                   /\ (Saves(u) /\ u.at = "set") \/ (u.op = "delete" /\ u.at # "contact"))'
        BY <1>12, <2>1, <1>3, <1>8 DEF ContactsOK, Kin, Known, Saves
      <3>5. (\A c \in disk.contacts :
               \/ /\ c \in k.contacts
                  /\ \A u \in tasks : u.contact = c => u.op = "clear" \/ u.at \in {"write", "contact"}
               \/ \E u \in tasks : Saves(u) /\ u.at = "set" /\ c = Updated(u))'
        BY <1>12, <2>1, <1>3, <1>8 DEF ContactsOK, Kin, Known, Saves
      <3>6. (\A u \in tasks : Saves(u) /\ u.at = "set" => Updated(u) \in disk.contacts)'
        BY <2>1, <1>3 DEF ContactsOK, Kin, Known
      <3> QED
        BY <3>1, <3>2, <3>3, <3>4, <3>5, <3>6 DEF ContactsOK
    <2>3. OneTask'
      BY <2>1, <1>3 DEF OneTask
    <2>4. Apart'
      BY <2>1, <1>3 DEF Apart, Deletes
    <2>5. Kept(k)'
      BY <1>11, <1>12, <2>1, <1>3, <1>6, <1>7 DEF Kept, Deletes, Saves, Shape, MemOK
    <2>6. Erased'
      BY <2>1, <1>3 DEF Erased, Deletes
    <2> QED
      BY <2>2, <2>3, <2>4, <2>5, <2>6
  <1>13. ASSUME Whole' PROVE Shown(k)' /\ ListedOK' /\ Nobody(k)'
    <2>1. /\ Whole /\ Timely /\ Timely' /\ Shown(h) /\ ListedOK /\ Nobody(h) /\ ContactsOK(h)
          /\ OneTask /\ Apart /\ Kept(h) /\ Erased
      BY <1>1, <1>13, <1>3 DEF TimelyInv, WholeInv, Whole, Timely
    <2>2. Shown(k)'
      BY <2>1, <1>3, <1>6, <1>7, <1>9, <1>10
         DEF Shown, Shape, WriteOK, MemOK, DiskOK
    <2>3. ListedOK'
      BY <2>1, <1>3, <1>9 DEF ListedOK, Deletes
    <2>4. Nobody(k)'
      <3> SUFFICES ASSUME NEW q \in Peer, Stranger(k, q)
                   PROVE  /\ k.convos[q] = "none" /\ disk.convos[q] = "none"
                          /\ disk.msgs[q] = {}
                          /\ \A w \in pending : w.peer # q
        BY <1>3 DEF Nobody
      <3>1. CASE q = t.contact.peer
        BY <1>1, <1>6, <1>9, <1>10, <2>1, <3>1 DEF Shape, MemOK, TaskOK
      <3>2. CASE q # t.contact.peer
        <4>1. Stranger(h, q)
          BY <1>8, <2>1, <3>2 DEF Stranger
        <4> QED
          BY <1>6, <1>7, <2>1, <4>1 DEF Nobody, Shape, MemOK
      <3> QED
        BY <3>1, <3>2
    <2> QED
      BY <2>2, <2>3, <2>4
  <1>14. ASSUME amiss' = {} PROVE ConvosOK(k)'
    <2>1. amiss = {} /\ Whole /\ Whole' /\ Timely' /\ ConvosOK(h)
      BY <1>1, <1>14, <1>3 DEF CalmInv, Whole, Timely
    <2>2. ContactsOK(h) /\ OneTask /\ Apart /\ Kept(h) /\ Erased /\ Shown(h) /\ ListedOK /\ Nobody(h)
      BY <1>1, <2>1 DEF TimelyInv, WholeInv, Whole
    <2>3. ConvosOK(k)'
      <3>1. (\A w \in pending : w.store = "conversations" => w.value = k.convos[w.peer])'
        BY <1>3, <1>6, <1>7, <2>1, <2>2 DEF ConvosOK, Shape, MemOK, Deletes, Apart
      <3> SUFFICES ASSUME NEW p \in Peer
                   PROVE  \/ disk'.convos[p] = k.convos[p]
                          \/ \E w \in pending' : w.store = "conversations" /\ w.peer = p
                          \/ k.convos[p] = "read" /\ disk'.convos[p] = "none" /\ k.msgs[p] = {}
                          \/ \E v \in tasks' : Deletes(v) /\ v.contact.peer = p
        BY <3>1 DEF ConvosOK
      <3>2. CASE p = t.contact.peer
        BY <1>1, <1>3, <1>6, <1>7, <1>9, <2>1, <2>2, <3>2, <2>1, <1>3
           DEF Shape, MemOK, Convo
      <3>3. CASE p # t.contact.peer
        BY <1>3, <1>6, <1>7, <2>1, <3>3, <2>1, <1>3 DEF ConvosOK, Shape, MemOK
      <3> QED
        BY <3>2, <3>3
    <2> QED
      BY <2>3
  <1> QED
    BY <1>11, <1>12, <1>13, <1>14 DEF Story, TimelyInv, WholeInv, CalmInv

(* or by emptying the conversation.                                         *)
LEMMA FinishClearKeeps ==
    ASSUME NEW h, NEW k, StoreInv(h), Open, k = mem', NEW t \in tasks, Finish(t), t.op = "clear"
    PROVE  Story(k)'
  <1>1. Shape(h) /\ TimelyInv(h) /\ WholeInv(h) /\ CalmInv(h)
    BY DEF StoreInv, Story
  <1>a. h = mem
    BY DEF StoreInv, VaultInv
  <1>2. TaskOK(t) /\ t.contact \in Contact /\ t.contact.peer \in Peer
    BY <1>1, ContactFacts DEF Shape, TaskOK
  <1>3. /\ t.at = "set" /\ tasks' = tasks \ {t} /\ k = PutBack(t) /\ disk' = disk
        /\ pending' = pending
        /\ made' = made /\ amiss \subseteq amiss' /\ amiss' \subseteq Ways
        /\ Timely' => ~Undoes(t)
    BY <1>1 DEF Finish, Blame, If, Shape, Ways, Timely
  <1>4. /\ \A v \in tasks : v.contact.peer \in Peer
        /\ \A w \in pending : w.peer \in Peer
    BY <1>1, ContactFacts DEF Shape, TaskOK, WriteOK
  <1>5. OneTask => \A v \in tasks : v # t => v.contact.peer # t.contact.peer
    BY DEF OneTask
  <1>6. /\ k.contacts = h.contacts
        /\ k.convos = [t.snap.convos EXCEPT ![t.contact.peer] = IF @ = "none" THEN @ ELSE "read"]
        /\ k.msgs = [t.snap.msgs EXCEPT ![t.contact.peer] = {}] /\ DOMAIN k = DOMAIN h
    BY <1>1, <1>a, <1>3 DEF PutBack, Shape, MemOK
  <1>7. Timely' => h.convos = t.snap.convos /\ h.msgs = t.snap.msgs
    BY <1>3, <1>a DEF Undoes
  <1>8. Erased => disk.convos[t.contact.peer] = "none" /\ disk.msgs[t.contact.peer] = {}
    BY <1>3 DEF Erased, Deletes
  <1>9. Apart => \A w \in pending : w.peer # t.contact.peer
    BY DEF Apart, Deletes
  <1>10. Shape(k)'
    BY <1>1, <1>2, <1>3, <1>6 DEF Shape, MemOK, DiskOK, MadeOK, TaskOK, Convo
  <1>11. ASSUME Timely' PROVE ContactsOK(k)' /\ OneTask' /\ Apart' /\ Kept(k)' /\ Erased'
    <2>1. Timely /\ ContactsOK(h) /\ OneTask /\ Apart /\ Kept(h) /\ Erased
      BY <1>1, <1>11, <1>3 DEF TimelyInv, Timely
    <2>2. ContactsOK(k)'
      <3>1. Kin(k.contacts)' /\ Known(k.contacts)'
        BY <2>1, <1>3, <1>6 DEF ContactsOK, Kin, Known
      <3>2. (\A u \in tasks : u.contact \in k.contacts)'
        BY <2>1, <1>3, <1>6 DEF ContactsOK, Kin, Known
      <3>3. (\A w \in pending : w.store = "contacts" => w.value \in k.contacts)'
        BY <2>1, <1>3, <1>6 DEF ContactsOK, Kin, Known
      <3>4. (\A c \in k.contacts :
               \/ c \in disk.contacts
               \/ \E w \in pending : w.store = "contacts" /\ w.value = c
               \/ \E u \in tasks : /\ u.contact = c
                                   /\ (Saves(u) /\ u.at = "set") \/ (u.op = "delete" /\ u.at # "contact"))'
        BY <2>1, <1>3, <1>6 DEF ContactsOK, Kin, Known, Saves
      <3>5. (\A c \in disk.contacts :
               \/ /\ c \in k.contacts
                  /\ \A u \in tasks : u.contact = c => u.op = "clear" \/ u.at \in {"write", "contact"}
               \/ \E u \in tasks : Saves(u) /\ u.at = "set" /\ c = Updated(u))'
        BY <2>1, <1>3, <1>6 DEF ContactsOK, Kin, Known, Saves
      <3>6. (\A u \in tasks : Saves(u) /\ u.at = "set" => Updated(u) \in disk.contacts)'
        BY <2>1, <1>3 DEF ContactsOK, Kin, Known
      <3> QED
        BY <3>1, <3>2, <3>3, <3>4, <3>5, <3>6 DEF ContactsOK
    <2>3. OneTask'
      BY <2>1, <1>3 DEF OneTask
    <2>4. Apart'
      BY <2>1, <1>3 DEF Apart, Deletes
    <2>5. Kept(k)'
      BY <1>1, <1>11, <2>1, <1>3, <1>6, <1>7 DEF Kept, Deletes, Saves, Shape, MemOK
    <2>6. Erased'
      BY <2>1, <1>3 DEF Erased, Deletes
    <2> QED
      BY <2>2, <2>3, <2>4, <2>5, <2>6
  <1>12. ASSUME Whole' PROVE Shown(k)' /\ ListedOK' /\ Nobody(k)'
    <2>1. /\ Whole /\ Timely /\ Timely' /\ Shown(h) /\ ListedOK /\ Nobody(h) /\ ContactsOK(h)
          /\ OneTask /\ Apart /\ Kept(h) /\ Erased
      BY <1>1, <1>12, <1>3 DEF TimelyInv, WholeInv, Whole, Timely
    <2>2. Shown(k)'
      BY <2>1, <1>3, <1>6, <1>7, <1>8, <1>9 DEF Shown, Shape, WriteOK, MemOK, DiskOK
    <2>3. ListedOK'
      BY <2>1, <1>3, <1>8 DEF ListedOK, Deletes
    <2>4. Nobody(k)'
      BY <2>1, <1>3, <1>6, <1>7 DEF Nobody, Stranger, Shape, MemOK
    <2> QED
      BY <2>2, <2>3, <2>4
  <1>13. ASSUME amiss' = {} PROVE ConvosOK(k)'
    <2>1. amiss = {} /\ Whole /\ Whole' /\ Timely' /\ ConvosOK(h)
      BY <1>1, <1>13, <1>3 DEF CalmInv, Whole, Timely
    <2>2. ContactsOK(h) /\ OneTask /\ Apart /\ Kept(h) /\ Erased /\ Shown(h) /\ ListedOK /\ Nobody(h)
      BY <1>1, <2>1 DEF TimelyInv, WholeInv, Whole
    <2>3. ConvosOK(k)'
      <3> DEFINE p0 == t.contact.peer
      <3>1. /\ k.convos[p0] = IF h.convos[p0] = "none" THEN "none" ELSE "read"
            /\ k.msgs[p0] = {}
            /\ \A q \in Peer : q # p0 => /\ k.convos[q] = h.convos[q]
                                       /\ k.msgs[q] = h.msgs[q]
        BY <1>1, <1>2, <1>6, <1>7, <2>1 DEF Shape, MemOK
      <3>2. disk.convos[p0] = "none" /\ \A w \in pending : w.peer # p0
        BY <1>8, <1>9, <2>2
      <3>3. \A w \in pending' : w.store = "conversations" => w.value = k.convos[w.peer]
        BY <1>3, <1>4, <2>1, <3>1, <3>2 DEF ConvosOK
      <3>4. ASSUME NEW q \in Peer
            PROVE  \/ disk'.convos[q] = k.convos[q]
                   \/ \E w \in pending' : w.store = "conversations" /\ w.peer = q
                   \/ /\ k.convos[q] = "read" /\ disk'.convos[q] = "none"
                      /\ k.msgs[q] = {}
                   \/ \E v \in tasks' : Deletes(v) /\ v.contact.peer = q
        <4>1. CASE q = p0
          BY <1>3, <3>1, <3>2, <4>1
        <4>2. CASE q # p0
          BY <1>3, <2>1, <3>1, <4>2 DEF ConvosOK
        <4> QED
          BY <4>1, <4>2
      <3> QED
        BY <3>3, <3>4 DEF ConvosOK, Deletes
    <2> QED
      BY <2>3
  <1> QED
    BY <1>10, <1>11, <1>12, <1>13 DEF Story, TimelyInv, WholeInv, CalmInv

(* In each case, and if the vault has been locked meanwhile:                *)
LEMMA FinishKeeps ==
    ASSUME NEW h, NEW k, StoreInv(h), k = (IF Open THEN mem' ELSE h), NEW t \in tasks, Finish(t)
    PROVE  Story(k)'
  <1>1. Saves(t) \/ t.op = "delete" \/ t.op = "clear"
    BY DEF StoreInv, Story, Shape, TaskOK, Saves
  <1>2. CASE Open
    BY <1>1, <1>2, FinishSavesKeeps, FinishDeleteKeeps, FinishClearKeeps
  <1>3. CASE ~Open
    <2>1. ~Timely' /\ amiss' \subseteq Ways
      BY <1>3 DEF Finish, Undoes, Blame, If, Timely, StoreInv, Story, Shape, Ways
    <2>2. Shape(h)'
      BY <2>1 DEF Finish, StoreInv, Story, Shape, MemOK, DiskOK, MadeOK
    <2> QED
      BY <1>3, <2>1, <2>2, TooLate
  <1> QED
    BY <1>2, <1>3

(* A contact reaches the disk,                                              *)
LEMMA ContactLands ==
    ASSUME NEW h, StoreInv(h), NEW w0 \in pending, w0.store = "contacts", Lands(w0)
    PROVE  Story(h)'
  <1>1. Shape(h) /\ TimelyInv(h) /\ WholeInv(h) /\ CalmInv(h)
    BY DEF StoreInv, Story
  <1>2. WriteOK(w0) /\ w0.peer \in Peer
    BY <1>1 DEF Shape, WriteOK
  <1>3. /\ DOMAIN disk' = DOMAIN disk /\ disk'.contacts = With(disk.contacts, w0.value)
        /\ disk'.convos = disk.convos /\ disk'.msgs = disk.msgs /\ disk'.blobs = disk.blobs
    BY <1>1, <1>2 DEF Lands, Stored, Shape, DiskOK
  <1>4. /\ tasks' = tasks /\ made' = made /\ amiss' = amiss
        /\ pending' = pending \ {w0}
    BY DEF Lands
  <1>5. /\ \A v \in tasks : v.contact.peer \in Peer
        /\ \A w \in pending : w.peer \in Peer
    BY <1>1, ContactFacts DEF Shape, TaskOK, WriteOK
  <1>6. Apart => \A t \in tasks : t.contact.peer = w0.peer => w0.store # "contacts" /\ ~Deletes(t)
    BY DEF Apart
  <1>7. Shape(h)'
    BY <1>1, <1>3, <1>4 DEF Shape, MemOK, DiskOK, MadeOK, With, WriteOK
  <1>8. ASSUME Timely' PROVE ContactsOK(h)' /\ OneTask' /\ Apart' /\ Kept(h)' /\ Erased'
    <2>1. Timely /\ ContactsOK(h) /\ OneTask /\ Apart /\ Kept(h) /\ Erased
      BY <1>1, <1>8, <1>4 DEF TimelyInv, Timely
    <2>2. ContactsOK(h)'
      <3>1. Kin(h.contacts)' /\ Known(h.contacts)'
        BY <2>1, <1>4 DEF ContactsOK, Kin, Known
      <3>2. (\A t \in tasks : t.contact \in h.contacts)'
        BY <2>1, <1>4 DEF ContactsOK, Kin, Known
      <3>3. (\A w \in pending : w.store = "contacts" => w.value \in h.contacts)'
        BY <2>1, <1>4 DEF ContactsOK, Kin, Known
      <3>4. (\A c \in h.contacts :
               \/ c \in disk.contacts
               \/ \E w \in pending : w.store = "contacts" /\ w.value = c
               \/ \E t \in tasks : /\ t.contact = c
                                   /\ (Saves(t) /\ t.at = "set") \/ (t.op = "delete" /\ t.at # "contact"))'
        BY <2>1, <1>3, <1>4
           DEF ContactsOK, Kin, Known, With, Shape, MemOK, DiskOK, WriteOK
      <3>5. (\A c \in disk.contacts :
               \/ /\ c \in h.contacts
                  /\ \A t \in tasks : t.contact = c => t.op = "clear" \/ t.at \in {"write", "contact"}
               \/ \E t \in tasks : Saves(t) /\ t.at = "set" /\ c = Updated(t))'
        BY <2>1, <1>2, <1>3, <1>4, <1>6 DEF ContactsOK, Kin, Known, With, WriteOK
      <3>6. (\A t \in tasks : Saves(t) /\ t.at = "set" => Updated(t) \in disk.contacts)'
        BY <1>7, <2>1, <1>2, <1>3, <1>4, <1>6, UpdatedFacts
           DEF ContactsOK, Kin, Known, With, WriteOK, Shape, TaskOK, Contact
      <3> QED
        BY <3>1, <3>2, <3>3, <3>4, <3>5, <3>6 DEF ContactsOK
    <2>3. OneTask'
      BY <2>1, <1>4 DEF OneTask
    <2>4. Apart'
      BY <2>1, <1>4 DEF Apart, Deletes
    <2>5. Kept(h)'
      BY <2>1, <1>3, <1>4 DEF Kept, Deletes
    <2>6. Erased'
      BY <2>1, <1>3, <1>4 DEF Erased, Deletes
    <2> QED
      BY <2>2, <2>3, <2>4, <2>5, <2>6
  <1>9. ASSUME Whole' PROVE Shown(h)' /\ ListedOK' /\ Nobody(h)'
    <2>1. /\ Whole /\ Timely /\ Timely' /\ Shown(h) /\ ListedOK /\ Nobody(h) /\ ContactsOK(h)
          /\ OneTask /\ Apart /\ Kept(h) /\ Erased
      BY <1>1, <1>9, <1>4 DEF TimelyInv, WholeInv, Whole, Timely
    <2>2. Shown(h)'
      BY <2>1, <1>3, <1>4 DEF Shown, Shape, WriteOK
    <2>3. ListedOK'
      BY <2>1, <1>3, <1>4 DEF ListedOK, Deletes
    <2>4. Nobody(h)'
      BY <2>1, <1>3, <1>4 DEF Nobody, Stranger
    <2> QED
      BY <2>2, <2>3, <2>4
  <1>10. ASSUME amiss' = {} PROVE ConvosOK(h)'
    <2>1. amiss = {} /\ Whole /\ Whole' /\ Timely' /\ ConvosOK(h)
      BY <1>1, <1>10, <1>4 DEF CalmInv, Whole, Timely
    <2>2. ContactsOK(h) /\ OneTask /\ Apart /\ Kept(h) /\ Erased /\ Shown(h) /\ ListedOK /\ Nobody(h)
      BY <1>1, <2>1 DEF TimelyInv, WholeInv, Whole
    <2>3. ConvosOK(h)'
      BY <2>1, <1>3, <1>4 DEF ConvosOK, Deletes
    <2> QED
      BY <2>3
  <1> QED
    BY <1>7, <1>8, <1>9, <1>10 DEF Story, TimelyInv, WholeInv, CalmInv

(* or a conversation,                                                       *)
LEMMA ConvoLands ==
    ASSUME NEW h, StoreInv(h), NEW w0 \in pending, w0.store = "conversations", Lands(w0)
    PROVE  Story(h)'
  <1>1. Shape(h) /\ TimelyInv(h) /\ WholeInv(h) /\ CalmInv(h)
    BY DEF StoreInv, Story
  <1>2. WriteOK(w0) /\ w0.peer \in Peer
    BY <1>1 DEF Shape, WriteOK
  <1>3. /\ DOMAIN disk' = DOMAIN disk
        /\ disk'.convos = [disk.convos EXCEPT ![w0.peer] = w0.value]
        /\ disk'.contacts = disk.contacts /\ disk'.msgs = disk.msgs /\ disk'.blobs = disk.blobs
    BY <1>1, <1>2 DEF Lands, Stored, Shape, DiskOK
  <1>4. /\ tasks' = tasks /\ made' = made /\ amiss' = amiss
        /\ pending' = pending \ {w0}
    BY DEF Lands
  <1>5. /\ \A v \in tasks : v.contact.peer \in Peer
        /\ \A w \in pending : w.peer \in Peer
    BY <1>1, ContactFacts DEF Shape, TaskOK, WriteOK
  <1>6. Apart => \A t \in tasks : t.contact.peer = w0.peer => w0.store # "contacts" /\ ~Deletes(t)
    BY DEF Apart
  <1>7. Shape(h)'
    BY <1>1, <1>3, <1>4 DEF Shape, MemOK, DiskOK, MadeOK, WriteOK, Convo
  <1>8. ASSUME Timely' PROVE ContactsOK(h)' /\ OneTask' /\ Apart' /\ Kept(h)' /\ Erased'
    <2>1. Timely /\ ContactsOK(h) /\ OneTask /\ Apart /\ Kept(h) /\ Erased
      BY <1>1, <1>8, <1>4 DEF TimelyInv, Timely
    <2>2. ContactsOK(h)'
      BY <2>1, <1>3, <1>4 DEF ContactsOK, Kin, Known, Shape, MemOK, DiskOK, MadeOK
    <2>3. OneTask'
      BY <2>1, <1>4 DEF OneTask
    <2>4. Apart'
      BY <2>1, <1>4 DEF Apart, Deletes
    <2>5. Kept(h)'
      BY <2>1, <1>3, <1>4 DEF Kept, Deletes
    <2>6. Erased'
      BY <2>1, <1>3, <1>4, <1>6 DEF Erased, Deletes, Shape, DiskOK
    <2> QED
      BY <2>2, <2>3, <2>4, <2>5, <2>6
  <1>9. ASSUME Whole' PROVE Shown(h)' /\ ListedOK' /\ Nobody(h)'
    <2>1. /\ Whole /\ Timely /\ Timely' /\ Shown(h) /\ ListedOK /\ Nobody(h) /\ ContactsOK(h)
          /\ OneTask /\ Apart /\ Kept(h) /\ Erased
      BY <1>1, <1>9, <1>4 DEF TimelyInv, WholeInv, Whole, Timely
    <2>2. Shown(h)'
      BY <2>1, <1>3, <1>4 DEF Shown, Shape, WriteOK
    <2>3. ListedOK'
      BY <1>1, <2>1, <1>3, <1>4 DEF ListedOK, Deletes, Shape, DiskOK, WriteOK
    <2>4. Nobody(h)'
      BY <2>1, <1>3, <1>4 DEF Nobody, Stranger, Shape, DiskOK
    <2> QED
      BY <2>2, <2>3, <2>4
  <1>10. ASSUME amiss' = {} PROVE ConvosOK(h)'
    <2>1. amiss = {} /\ Whole /\ Whole' /\ Timely' /\ ConvosOK(h)
      BY <1>1, <1>10, <1>4 DEF CalmInv, Whole, Timely
    <2>2. ContactsOK(h) /\ OneTask /\ Apart /\ Kept(h) /\ Erased /\ Shown(h) /\ ListedOK /\ Nobody(h)
      BY <1>1, <2>1 DEF TimelyInv, WholeInv, Whole
    <2>3. ConvosOK(h)'
      BY <1>7, <2>1, <1>3, <1>4 DEF ConvosOK, Deletes, Shape, DiskOK
    <2> QED
      BY <2>3
  <1> QED
    BY <1>7, <1>8, <1>9, <1>10 DEF Story, TimelyInv, WholeInv, CalmInv

(* a message,                                                               *)
LEMMA MessageLands ==
    ASSUME NEW h, StoreInv(h), NEW w0 \in pending, w0.store = "messages", Lands(w0)
    PROVE  Story(h)'
  <1>1. Shape(h) /\ TimelyInv(h) /\ WholeInv(h) /\ CalmInv(h)
    BY DEF StoreInv, Story
  <1>2. WriteOK(w0) /\ w0.peer \in Peer
    BY <1>1 DEF Shape, WriteOK
  <1>3. /\ DOMAIN disk' = DOMAIN disk
        /\ disk'.msgs = [disk.msgs EXCEPT ![w0.peer] = @ \cup {w0.value}]
        /\ disk'.contacts = disk.contacts /\ disk'.convos = disk.convos
        /\ disk'.blobs = disk.blobs
    BY <1>1, <1>2 DEF Lands, Stored, Shape, DiskOK
  <1>4. /\ tasks' = tasks /\ made' = made /\ amiss' = amiss
        /\ pending' = pending \ {w0}
    BY DEF Lands
  <1>5. /\ \A v \in tasks : v.contact.peer \in Peer
        /\ \A w \in pending : w.peer \in Peer
    BY <1>1, ContactFacts DEF Shape, TaskOK, WriteOK
  <1>6. Apart => \A t \in tasks : t.contact.peer = w0.peer => w0.store # "contacts" /\ ~Deletes(t)
    BY DEF Apart
  <1>7. Shape(h)'
    BY <1>1, <1>3, <1>4 DEF Shape, MemOK, DiskOK, MadeOK, WriteOK
  <1>8. ASSUME Timely' PROVE ContactsOK(h)' /\ OneTask' /\ Apart' /\ Kept(h)' /\ Erased'
    <2>1. Timely /\ ContactsOK(h) /\ OneTask /\ Apart /\ Kept(h) /\ Erased
      BY <1>1, <1>8, <1>4 DEF TimelyInv, Timely
    <2>2. ContactsOK(h)'
      BY <2>1, <1>3, <1>4 DEF ContactsOK, Kin, Known, Shape, MemOK, DiskOK, MadeOK
    <2>3. OneTask'
      BY <2>1, <1>4 DEF OneTask
    <2>4. Apart'
      BY <2>1, <1>4 DEF Apart, Deletes
    <2>5. Kept(h)'
      BY <1>1, <2>1, <1>3, <1>4 DEF Kept, Deletes, Shape, DiskOK
    <2>6. Erased'
      BY <2>1, <1>3, <1>4, <1>6 DEF Erased, Deletes, Shape, DiskOK
    <2> QED
      BY <2>2, <2>3, <2>4, <2>5, <2>6
  <1>9. ASSUME Whole' PROVE Shown(h)' /\ ListedOK' /\ Nobody(h)'
    <2>1. /\ Whole /\ Timely /\ Timely' /\ Shown(h) /\ ListedOK /\ Nobody(h) /\ ContactsOK(h)
          /\ OneTask /\ Apart /\ Kept(h) /\ Erased
      BY <1>1, <1>9, <1>4 DEF TimelyInv, WholeInv, Whole, Timely
    <2>2. Shown(h)'
      BY <2>1, <1>3, <1>4 DEF Shown, Shape, WriteOK, DiskOK
    <2>3. ListedOK'
      BY <2>1, <1>3, <1>4 DEF ListedOK, Deletes, Shape, DiskOK, WriteOK
    <2>4. Nobody(h)'
      BY <2>1, <1>3, <1>4 DEF Nobody, Stranger, Shape, DiskOK
    <2> QED
      BY <2>2, <2>3, <2>4
  <1>10. ASSUME amiss' = {} PROVE ConvosOK(h)'
    <2>1. amiss = {} /\ Whole /\ Whole' /\ Timely' /\ ConvosOK(h)
      BY <1>1, <1>10, <1>4 DEF CalmInv, Whole, Timely
    <2>2. ContactsOK(h) /\ OneTask /\ Apart /\ Kept(h) /\ Erased /\ Shown(h) /\ ListedOK /\ Nobody(h)
      BY <1>1, <2>1 DEF TimelyInv, WholeInv, Whole
    <2>3. ConvosOK(h)'
      BY <2>1, <1>3, <1>4 DEF ConvosOK, Deletes
    <2> QED
      BY <2>3
  <1> QED
    BY <1>7, <1>8, <1>9, <1>10 DEF Story, TimelyInv, WholeInv, CalmInv

(* an attachment.                                                           *)
LEMMA BlobLands ==
    ASSUME NEW h, StoreInv(h), NEW w0 \in pending, w0.store = "attachments", Lands(w0)
    PROVE  Story(h)'
  <1>1. Shape(h) /\ TimelyInv(h) /\ WholeInv(h) /\ CalmInv(h)
    BY DEF StoreInv, Story
  <1>2. WriteOK(w0) /\ w0.peer \in Peer
    BY <1>1 DEF Shape, WriteOK
  <1>3. /\ DOMAIN disk' = DOMAIN disk
        /\ disk'.blobs = [disk.blobs EXCEPT ![w0.peer] = @ \cup {w0.value}]
        /\ disk'.contacts = disk.contacts /\ disk'.convos = disk.convos
        /\ disk'.msgs = disk.msgs
    BY <1>1, <1>2 DEF Lands, Stored, Shape, DiskOK
  <1>4. /\ tasks' = tasks /\ made' = made /\ amiss' = amiss
        /\ pending' = pending \ {w0}
    BY DEF Lands
  <1>5. /\ \A v \in tasks : v.contact.peer \in Peer
        /\ \A w \in pending : w.peer \in Peer
    BY <1>1, ContactFacts DEF Shape, TaskOK, WriteOK
  <1>6. Apart => \A t \in tasks : t.contact.peer = w0.peer => w0.store # "contacts" /\ ~Deletes(t)
    BY DEF Apart
  <1>7. Shape(h)'
    BY <1>1, <1>3, <1>4 DEF Shape, MemOK, DiskOK, MadeOK, WriteOK
  <1>8. ASSUME Timely' PROVE ContactsOK(h)' /\ OneTask' /\ Apart' /\ Kept(h)' /\ Erased'
    <2>1. Timely /\ ContactsOK(h) /\ OneTask /\ Apart /\ Kept(h) /\ Erased
      BY <1>1, <1>8, <1>4 DEF TimelyInv, Timely
    <2>2. ContactsOK(h)'
      BY <2>1, <1>3, <1>4 DEF ContactsOK, Kin, Known, Shape, MemOK, DiskOK, MadeOK
    <2>3. OneTask'
      BY <2>1, <1>4 DEF OneTask
    <2>4. Apart'
      BY <2>1, <1>4 DEF Apart, Deletes
    <2>5. Kept(h)'
      BY <2>1, <1>3, <1>4 DEF Kept, Deletes
    <2>6. Erased'
      BY <2>1, <1>3, <1>4 DEF Erased, Deletes
    <2> QED
      BY <2>2, <2>3, <2>4, <2>5, <2>6
  <1>9. ASSUME Whole' PROVE Shown(h)' /\ ListedOK' /\ Nobody(h)'
    <2>1. /\ Whole /\ Timely /\ Timely' /\ Shown(h) /\ ListedOK /\ Nobody(h) /\ ContactsOK(h)
          /\ OneTask /\ Apart /\ Kept(h) /\ Erased
      BY <1>1, <1>9, <1>4 DEF TimelyInv, WholeInv, Whole, Timely
    <2>2. Shown(h)'
      BY <2>1, <1>3, <1>4 DEF Shown, Shape, WriteOK
    <2>3. ListedOK'
      BY <2>1, <1>3, <1>4 DEF ListedOK, Deletes
    <2>4. Nobody(h)'
      BY <2>1, <1>3, <1>4 DEF Nobody, Stranger
    <2> QED
      BY <2>2, <2>3, <2>4
  <1>10. ASSUME amiss' = {} PROVE ConvosOK(h)'
    <2>1. amiss = {} /\ Whole /\ Whole' /\ Timely' /\ ConvosOK(h)
      BY <1>1, <1>10, <1>4 DEF CalmInv, Whole, Timely
    <2>2. ContactsOK(h) /\ OneTask /\ Apart /\ Kept(h) /\ Erased /\ Shown(h) /\ ListedOK /\ Nobody(h)
      BY <1>1, <2>1 DEF TimelyInv, WholeInv, Whole
    <2>3. ConvosOK(h)'
      BY <2>1, <1>3, <1>4 DEF ConvosOK, Deletes
    <2> QED
      BY <2>3
  <1> QED
    BY <1>7, <1>8, <1>9, <1>10 DEF Story, TimelyInv, WholeInv, CalmInv

(* In each case:                                                            *)
LEMMA LandsKeeps ==
    ASSUME NEW h, StoreInv(h), NEW w0 \in pending, Lands(w0)
    PROVE  Story(h)'
  <1>1. w0.store \in {"contacts", "conversations", "messages", "attachments"}
    BY DEF StoreInv, Story, Shape, WriteOK
  <1> QED
    BY <1>1, ContactLands, ConvoLands, MessageLands, BlobLands

(* On disk too no two contacts share a peer or an id.                       *)
LEMMA DiskKin ==
    ASSUME NEW h, Shape(h), ContactsOK(h), OneTask
    PROVE  Kin(disk.contacts) /\ Known(disk.contacts)
  <1>1. \A t \in tasks : /\ Updated(t).id = t.contact.id /\ Updated(t).peer = t.contact.peer
                         /\ t.contact \in h.contacts
    BY UpdatedFacts DEF Shape, TaskOK, ContactsOK
  <1>2. SUFFICES ASSUME NEW c \in disk.contacts, NEW d \in disk.contacts,
                        c.peer = d.peer \/ c.id = d.id
                 PROVE  c = d /\ c.id <= made.ids
    BY DEF Kin, Known
  <1>3. CASE c \in h.contacts /\ d \in h.contacts
    BY <1>2, <1>3 DEF ContactsOK, Kin, Known
  <1>4. ASSUME NEW x \in disk.contacts, NEW y \in disk.contacts, x.peer = y.peer \/ x.id = y.id,
               /\ x \in h.contacts
               /\ \A t \in tasks : t.contact = x => t.op = "clear" \/ t.at \in {"write", "contact"},
               NEW t \in tasks, Saves(t), t.at = "set", y = Updated(t)
        PROVE  FALSE
    BY <1>1, <1>4 DEF ContactsOK, Kin, Saves
  <1>5. ASSUME NEW t \in tasks, c = Updated(t), NEW u \in tasks, d = Updated(u)
        PROVE  c = d /\ c.id <= made.ids
    BY <1>1, <1>2, <1>5 DEF ContactsOK, Kin, Known, OneTask
  <1> QED
    BY <1>2, <1>3, <1>4, <1>5 DEF ContactsOK

(* The page is reloaded: what is on disk is left.                           *)
LEMMA ReloadKeeps ==
    ASSUME NEW h, NEW k, StoreInv(h), Reload,
           k = [contacts |-> disk.contacts, convos |-> disk.convos,
                msgs |-> [p \in Peer |-> IF disk.convos[p] = "none" THEN {} ELSE disk.msgs[p]]]
    PROVE  Story(k)'
  <1>1. Shape(h) /\ TimelyInv(h) /\ WholeInv(h) /\ CalmInv(h)
    BY DEF StoreInv, Story
  <1>2. /\ k.contacts = disk.contacts /\ k.convos = disk.convos
        /\ DOMAIN k = {"contacts", "convos", "msgs"}
        /\ k.msgs = [p \in Peer |-> IF disk.convos[p] = "none" THEN {} ELSE disk.msgs[p]]
    OBVIOUS
  <1>3. /\ disk' = disk /\ tasks' = {} /\ pending' = {}
        /\ DOMAIN made' = DOMAIN made /\ made'.ids = made.ids /\ made'.msgs = made.msgs
        /\ amiss \subseteq amiss' /\ amiss' \subseteq Ways
        /\ Whole' => tasks = {} /\ pending = {}
    BY <1>1 DEF Reload, Blame, If, Shape, MadeOK, Ways, Whole
  <1>4. ContactsOK(h) /\ OneTask => Kin(disk.contacts) /\ Known(disk.contacts)
    BY <1>1, DiskKin
  <1>5. Whole' /\ ContactsOK(h) => h.contacts = disk.contacts
    BY <1>3 DEF ContactsOK
  <1>6. Shape(k)'
    BY <1>1, <1>2, <1>3 DEF Shape, MemOK, DiskOK, MadeOK
  <1>7. ASSUME Timely' PROVE ContactsOK(k)' /\ OneTask' /\ Apart' /\ Kept(k)' /\ Erased'
    <2>1. Timely /\ ContactsOK(h) /\ OneTask /\ Apart /\ Kept(h) /\ Erased
      BY <1>1, <1>7, <1>3 DEF TimelyInv, Timely
    <2>2. ContactsOK(k)'
      BY <2>1, <1>2, <1>3, <1>4
         DEF ContactsOK, Kin, Known, Shape, MemOK, DiskOK, MadeOK
    <2>3. OneTask'
      BY <1>3 DEF OneTask
    <2>4. Apart'
      BY <1>3 DEF Apart, Deletes
    <2>5. Kept(k)'
      BY <1>2, <1>3 DEF Kept, Deletes, Shape, DiskOK
    <2>6. Erased'
      BY <1>3 DEF Erased, Deletes
    <2> QED
      BY <2>2, <2>3, <2>4, <2>5, <2>6
  <1>8. ASSUME Whole' PROVE Shown(k)' /\ ListedOK' /\ Nobody(k)'
    <2>1. /\ Whole /\ Timely /\ Timely' /\ Shown(h) /\ ListedOK /\ Nobody(h) /\ ContactsOK(h)
          /\ OneTask /\ Apart /\ Kept(h) /\ Erased
      BY <1>1, <1>8, <1>3 DEF TimelyInv, WholeInv, Whole, Timely
    <2>2. Shown(k)'
      <3>1. \A p \in Peer : disk.convos[p] = "none" => disk.msgs[p] = {}
        BY <2>1, <1>3, <1>8 DEF ListedOK
      <3> QED
        BY <1>2, <1>3, <3>1 DEF Shown
    <2>3. ListedOK'
      BY <1>8, <2>1, <1>3 DEF ListedOK, Deletes, DiskOK
    <2>4. Nobody(k)'
      BY <1>8, <2>1, <1>2, <1>3, <1>5 DEF Nobody, Stranger
    <2> QED
      BY <2>2, <2>3, <2>4
  <1>9. ASSUME amiss' = {} PROVE ConvosOK(k)'
    <2>1. amiss = {} /\ Whole /\ Whole' /\ Timely' /\ ConvosOK(h)
      BY <1>1, <1>9, <1>3 DEF CalmInv, Whole, Timely
    <2>2. ContactsOK(h) /\ OneTask /\ Apart /\ Kept(h) /\ Erased /\ Shown(h) /\ ListedOK /\ Nobody(h)
      BY <1>1, <2>1 DEF TimelyInv, WholeInv, Whole
    <2>3. ConvosOK(k)'
      BY <1>2, <1>3 DEF ConvosOK, Deletes
    <2> QED
      BY <2>3
  <1> QED
    BY <1>6, <1>7, <1>8, <1>9 DEF Story, TimelyInv, WholeInv, CalmInv

(* The store is loaded: with what the disk holds.                           *)
LEMMA LoadStory ==
    ASSUME NEW h, NEW k, StoreInv(h), NEW l \in loads, NEW msgs \in Newest(l),
           loadAllData(l, msgs), k = (IF Open' THEN mem' ELSE h)
    PROVE  Story(k)'
  <1>1. /\ Shape(h) /\ TimelyInv(h) /\ WholeInv(h) /\ CalmInv(h) /\ MemOK(l) /\ identity \in BOOLEAN
        /\ (Timely => Loading)
    BY DEF StoreInv, Story, VaultInv, VaultOK
  <1>2. /\ mem' = [contacts |-> l.contacts, convos |-> l.convos, msgs |-> msgs]
        /\ loads' = loads \ {l} /\ identity' = identity
        /\ disk' = disk /\ pending' = pending /\ tasks' = tasks /\ made' = made /\ amiss' = amiss
    BY DEF loadAllData
  <1>3. /\ msgs \in [Peer -> SUBSET Message]
        /\ \A p \in Peer : l.convos[p] = "none" => msgs[p] = {}
        /\ \A p \in Peer : msgs[p] \subseteq l.msgs[p] \cup disk.msgs[p]
        /\ \A p \in Peer : l.convos[p] # "none" =>
              l.msgs[p] \subseteq msgs[p] \/ Cardinality(msgs[p]) = MaxListed
    BY DEF Newest
  <1>4. MemOK(mem') /\ MemOK(k)
    BY <1>1, <1>2, <1>3 DEF MemOK, Shape
  <1>5. Shape(k)'
    BY <1>1, <1>2, <1>4 DEF Shape
  <1>6. SUFFICES ASSUME Timely PROVE Story(k)'
    <2>1. ASSUME ~Timely PROVE ~Timely'
      BY <1>2, <2>1 DEF Timely
    <2> QED
      BY <1>5, <2>1, TooLate
  <1>7. /\ tasks = {} /\ \A w \in pending : w.store \in {"messages", "attachments"}
        /\ l.contacts = disk.contacts /\ l.convos = disk.convos
        /\ \A p \in Peer : l.msgs[p] \subseteq disk.msgs[p]
        /\ Whole => l.msgs = disk.msgs /\ pending = {}
        /\ k = mem'
    BY <1>1, <1>2, <1>6 DEF Loading, Open
  <1>8. k.contacts = disk.contacts /\ k.convos = disk.convos /\ k.msgs = msgs
    BY <1>2, <1>7
  <1>9. ContactsOK(h) /\ OneTask
    BY <1>1, <1>6 DEF TimelyInv
  <1>10. h.contacts = disk.contacts
    BY <1>7, <1>9 DEF ContactsOK
  <1>11. TimelyInv(k)'
    <2>1. ContactsOK(k)'
      BY <1>2, <1>7, <1>8, <1>9, <1>10 DEF ContactsOK, Kin, Known
    <2>2. OneTask' /\ Apart' /\ Erased'
      BY <1>2, <1>7 DEF OneTask, Apart, Erased
    <2>3. Kept(k)'
      BY <1>2, <1>3, <1>7, <1>8 DEF Kept
    <2> QED
      BY <2>1, <2>2, <2>3 DEF TimelyInv
  <1>12. ASSUME Whole' PROVE Shown(k)' /\ ListedOK' /\ Nobody(k)'
    <2>1. Whole /\ ListedOK /\ Nobody(h) /\ l.msgs = disk.msgs /\ pending = {}
      BY <1>1, <1>2, <1>7, <1>12 DEF WholeInv, Whole, Timely
    <2>2. ASSUME NEW p \in Peer
          PROVE  disk.msgs[p] \subseteq k.msgs[p] \/ Cardinality(k.msgs[p]) >= MaxListed
      <3>1. CASE l.convos[p] = "none"
        BY <1>7, <2>1, <3>1 DEF ListedOK
      <3>2. CASE l.convos[p] # "none"
        <4>1. MaxListed \in Nat /\ (disk.msgs[p] \subseteq k.msgs[p] \/ Cardinality(k.msgs[p]) = MaxListed)
          BY <1>3, <1>8, <2>1, <3>2, StoreAssumption DEF StoreAssumption
        <4> QED
          BY <4>1
      <3> QED
        BY <3>1, <3>2
    <2>3. Shown(k)'
      BY <1>2, <2>1, <2>2 DEF Shown
    <2>4. ListedOK'
      BY <1>2, <2>1 DEF ListedOK
    <2>5. Nobody(k)'
      BY <1>2, <1>8, <1>10, <2>1 DEF Nobody, Stranger
    <2> QED
      BY <2>3, <2>4, <2>5
  <1>13. ASSUME amiss' = {} PROVE ConvosOK(k)'
    <2>1. pending = {}
      BY <1>2, <1>7, <1>13 DEF Whole, Timely
    <2> QED
      BY <1>2, <1>8, <2>1 DEF ConvosOK
  <1> QED
    BY <1>5, <1>11, <1>12, <1>13 DEF Story, WholeInv, CalmInv

(* What memory has to do with the story, while the vault stays as it is.    *)
LEMMA VaultStays ==
    ASSUME NEW h, NEW k, VaultInv(h), k = (IF Open THEN mem' ELSE h), MemOK(mem'),
           UNCHANGED Vault, amiss \subseteq amiss',
           Timely' /\ ~Open => mem' = mem,
           Timely' /\ loads # {} /\ Loading => Loading'
    PROVE  VaultInv(k)'
  <1>1. identity' = identity /\ loads' = loads /\ (Open' <=> Open) /\ (Timely' => Timely)
    BY DEF Vault, Open, Timely
  <1>2. VaultOK'
    BY <1>1 DEF VaultInv, VaultOK
  <1> QED
    BY <1>1, <1>2 DEF VaultInv

(* A callback of the session leaves the vault as it is.                     *)
LEMMA CallbackVault ==
    ASSUME NEW h, NEW k, StoreInv(h), k = (IF Open THEN mem' ELSE h), NEW p \in Peer, NEW m \in Message,
           \/ \E c \in SecureContacts(p) : onSecure(p, c, m)
           \/ Sent(p, m)
           \/ \E seen \in BOOLEAN : onIncoming(p, m, seen)
    PROVE  VaultInv(k)'
  <1>1. VaultInv(h) /\ MemOK(mem) /\ MadeOK(made) /\ (Timely /\ ~Open => mem = Nothing)
    BY DEF StoreInv, Story, Shape, VaultInv, VaultOK
  <1>2. ASSUME NEW c \in SecureContacts(p), onSecure(p, c, m)
        PROVE  VaultInv(k)'
    <2>1. c \in Contact
      BY <1>1, <1>2, SecureContactFacts
    <2>2. /\ mem'.contacts = With(mem.contacts, c) /\ DOMAIN mem' = DOMAIN mem
          /\ mem'.convos = [mem.convos EXCEPT ![p] = IF mem.convos[p] = "none" THEN "read" ELSE mem.convos[p]]
          /\ mem'.msgs = [mem.msgs EXCEPT ![p] = @ \cup {m}]
      BY <1>1, <1>2 DEF onSecure, MemOK
    <2>3. MemOK(mem')
      BY <1>1, <2>1, <2>2 DEF MemOK, With, Convo
    <2>4. UNCHANGED Vault /\ amiss \subseteq amiss' /\ (Open \/ ~Timely') /\ (loads # {} => ~Timely')
      BY <1>2 DEF onSecure, Blame, If, Timely, Open
    <2> QED
      BY <1>1, <2>3, <2>4, VaultStays
  <1>3. ASSUME NEW known \in BOOLEAN, NEW convo, Keep(p, m, known, convo),
               known => mem.convos[p] # "none" /\ convo \in {"read", "unread"}
        PROVE  VaultInv(k)'
    <2>1. MemOK(mem') /\ (~known => mem' = mem)
      BY <1>1, <1>3 DEF Keep, MemOK, Convo
    <2>2. /\ UNCHANGED <<identity, loads, tasks, disk>> /\ UNCHANGED Vault /\ amiss \subseteq amiss'
          /\ (~known => "unheard" \in amiss')
          /\ \A w \in pending' : w \in pending \/ w \in Appends(p, m) \/ known
      BY <1>3 DEF Keep, Blame, If, Vault, Starts
    <2>3. \A w \in Appends(p, m) : w.store \in {"messages", "attachments"}
      BY WriteFacts DEF Appends
    <2>4. Timely' /\ ~Open => ~known
      BY <1>1, <1>3, <2>2 DEF Timely, Nothing
    <2>5. Timely' /\ loads # {} /\ Loading => Loading'
      BY <2>2, <2>3, <2>4 DEF Loading, Open, Whole
    <2> QED
      BY <1>1, <2>1, <2>2, <2>4, <2>5, VaultStays
  <1>4. CASE Sent(p, m)
    <2> DEFINE known == mem.convos[p] # "none"
               convo == mem.convos[p]
    <2>1. Keep(p, m, known, convo) /\ known \in BOOLEAN
      BY <1>4 DEF Sent
    <2>2. known => mem.convos[p] # "none" /\ convo \in {"read", "unread"}
      BY <1>1 DEF MemOK, Convo
    <2> HIDE DEF known, convo
    <2> QED
      BY <1>3, <2>1, <2>2
  <1>5. ASSUME NEW seen \in BOOLEAN, onIncoming(p, m, seen)
        PROVE  VaultInv(k)'
    <2> DEFINE known == ContactsOf(p) # {} /\ mem.convos[p] # "none"
               convo == IF seen THEN "read" ELSE "unread"
    <2>1. Keep(p, m, known, convo) /\ known \in BOOLEAN
      BY <1>5 DEF onIncoming
    <2>2. known => mem.convos[p] # "none" /\ convo \in {"read", "unread"}
      OBVIOUS
    <2> HIDE DEF known, convo
    <2> QED
      BY <1>3, <2>1, <2>2
  <1> QED
    BY <1>2, <1>4, <1>5

(* So does what works on the contacts shown,                                *)
LEMMA OperationVault ==
    ASSUME NEW h, NEW k, StoreInv(h), k = (IF Open THEN mem' ELSE h),
           \/ \E c \in mem.contacts : openChatWithContact(c)
           \/ \E c \in mem.contacts, op \in {"verify", "rename", "delete", "clear"} : Begin(op, c)
           \/ \E t \in tasks :
                \/ putContact(t) \/ deleteContactRecord(t) \/ deleteConvoRecord(t)
                \/ listMessageKeys(t) \/ deleteMessages(t) \/ Finish(t)
                \/ findConvo(t) /\ identity
    PROVE  VaultInv(k)'
  <1>1. /\ VaultInv(h) /\ MemOK(mem) /\ Shape(h) /\ (Timely /\ ~Open => mem = Nothing)
        /\ (Timely /\ loads # {} => Loading)
    BY DEF StoreInv, Story, VaultInv, VaultOK
  <1>2. ASSUME NEW c \in mem.contacts, openChatWithContact(c)
        PROVE  VaultInv(k)'
    <2>1. MemOK(mem')
      BY <1>1, <1>2, ContactFacts DEF openChatWithContact, MemOK, Convo
    <2>2. UNCHANGED Vault /\ amiss \subseteq amiss'
      BY <1>2 DEF openChatWithContact, Blame
    <2>3. Timely' => Open /\ loads = {}
      BY <1>1, <1>2, <2>2 DEF Timely, Nothing, Open
    <2> QED
      BY <1>1, <2>1, <2>2, <2>3, VaultStays
  <1>3. ASSUME NEW c \in mem.contacts, NEW op, Begin(op, c)
        PROVE  VaultInv(k)'
    <2>1. mem' = mem /\ UNCHANGED Vault /\ amiss \subseteq amiss'
      BY <1>3 DEF Begin, Blame
    <2>2. Timely' => loads = {}
      BY <1>1, <1>3, <2>1 DEF Timely, Nothing, Open
    <2> QED
      BY <1>1, <2>1, <2>2, VaultStays
  <1>4. ASSUME NEW t \in tasks, UNCHANGED <<mem, Vault, amiss>>
        PROVE  VaultInv(k)'
    <2>1. Timely' => loads = {}
      BY <1>1, <1>4 DEF Timely, Loading
    <2> QED
      BY <1>1, <1>4, <2>1, VaultStays
  <1>5. ASSUME NEW t \in tasks, Finish(t)
        PROVE  VaultInv(k)'
    <2>1. UNCHANGED Vault /\ amiss \subseteq amiss' /\ (Open \/ ~Timely')
      BY <1>5 DEF Finish, Blame, If, Undoes, Timely
    <2>2. TaskOK(t) /\ t.contact.peer \in Peer /\ Updated(t) \in Contact
      BY <1>1, ContactFacts, UpdatedFacts DEF Shape, TaskOK
    <2>3. mem' = PutBack(t)
      BY <1>5 DEF Finish
    <2>4. CASE t.op \in {"verify", "rename"}
      <3>1. /\ mem'.contacts = {IF c.id = t.contact.id THEN Updated(t) ELSE c : c \in t.snap.contacts}
            /\ mem'.convos = mem.convos /\ mem'.msgs = mem.msgs /\ DOMAIN mem' = DOMAIN mem
        BY <1>1, <2>3, <2>4 DEF PutBack, MemOK
      <3> QED
        BY <1>1, <2>1, <2>2, <3>1, VaultStays DEF MemOK, TaskOK, Open
    <2>5. CASE t.op = "delete"
      <3>1. mem' = [contacts |-> Without(t.snap.contacts, t.contact.id),
                    convos |-> [t.snap.convos EXCEPT ![t.contact.peer] = "none"],
                    msgs |-> [t.snap.msgs EXCEPT ![t.contact.peer] = {}]]
        BY <2>3, <2>5 DEF PutBack
      <3>2. MemOK(mem')
        BY <2>2, <3>1 DEF MemOK, TaskOK, Without, Convo
      <3> QED
        BY <1>1, <2>1, <3>2, VaultStays DEF Open
    <2>6. CASE t.op = "clear"
      <3>1. /\ mem'.contacts = mem.contacts /\ DOMAIN mem' = DOMAIN mem
            /\ mem'.convos = [t.snap.convos EXCEPT ![t.contact.peer] = IF @ = "none" THEN @ ELSE "read"]
            /\ mem'.msgs = [t.snap.msgs EXCEPT ![t.contact.peer] = {}]
        BY <1>1, <2>3, <2>6 DEF PutBack, MemOK
      <3>2. MemOK(mem')
        BY <1>1, <2>2, <3>1 DEF MemOK, TaskOK, Convo
      <3> QED
        BY <1>1, <2>1, <3>2, VaultStays DEF Open
    <2> QED
      BY <2>2, <2>4, <2>5, <2>6 DEF TaskOK
  <1> QED
    BY <1>2, <1>3, <1>4, <1>5
       DEF putContact, deleteContactRecord, deleteConvoRecord, listMessageKeys, deleteMessages,
           findConvo, Awaits

(* and a write that reaches the disk.                                       *)
LEMMA LandsVault ==
    ASSUME NEW h, StoreInv(h), NEW w \in pending, Lands(w)
    PROVE  VaultInv(h)'
  <1>1. VaultInv(h) /\ MemOK(mem) /\ Shape(h) /\ WriteOK(w)
    BY DEF StoreInv, Story, VaultInv, VaultOK, Shape
  <1>2. /\ mem' = mem /\ UNCHANGED Vault /\ amiss' = amiss /\ tasks' = tasks
        /\ pending' = pending \ {w} /\ disk' = Stored(w) /\ identity' = identity /\ loads' = loads
        /\ h = (IF Open THEN mem' ELSE h)
    BY <1>1 DEF Lands, Vault, VaultInv
  <1>3. ASSUME Loading, loads # {} PROVE Loading'
    <2>1. w.store \in {"messages", "attachments"} /\ ~Whole
      BY <1>3 DEF Loading
    <2>2. /\ disk'.contacts = disk.contacts /\ disk'.convos = disk.convos
          /\ \A p \in Peer : disk.msgs[p] \subseteq disk'.msgs[p]
      BY <1>1, <1>2, <2>1 DEF Stored, Shape, DiskOK, WriteOK
    <2>3. ~Whole'
      BY <1>2, <2>1 DEF Whole, Timely
    <2> QED
      BY <1>2, <1>3, <2>2, <2>3 DEF Loading
  <1> QED
    BY <1>1, <1>2, <1>3, VaultStays

(* The vault is locked, unlocked or loaded, or the page is.                 *)
LEMMA LockKeeps ==
    ASSUME NEW h, StoreInv(h), lockVault
    PROVE  StoreInv(h)'
  <1>1. Story(h) /\ VaultInv(h) /\ amiss \subseteq Ways
    BY DEF StoreInv, Story, Shape
  <1>2. /\ mem' = Nothing /\ identity' = FALSE /\ loads' = loads /\ UNCHANGED <<disk, pending, tasks, made>>
        /\ amiss \subseteq amiss' /\ amiss' \subseteq Ways /\ (loads # {} => ~Timely')
    BY <1>1 DEF lockVault, Blame, If, Ways, Timely
  <1>3. Story(h)'
    BY <1>1, <1>2, SameStory
  <1>4. MemOK(Nothing)
    BY DEF MemOK, Nothing, Convo
  <1> QED
    BY <1>1, <1>2, <1>3, <1>4 DEF StoreInv, VaultInv, VaultOK, Open, Loading

LEMMA UnlockKeeps ==
    ASSUME NEW h, StoreInv(h), unlockVault
    PROVE  StoreInv(h)'
  <1>1. Story(h) /\ VaultInv(h) /\ Shape(h)
    BY DEF StoreInv, Story
  <1> DEFINE l == [contacts |-> disk.contacts, convos |-> disk.convos, msgs |-> disk.msgs]
  <1>2. /\ mem' = mem /\ ~identity /\ identity' = TRUE /\ loads' = loads \cup {l}
        /\ UNCHANGED <<disk, pending, tasks>>
        /\ DOMAIN made' = DOMAIN made /\ made'.ids = made.ids /\ made'.msgs = made.msgs
        /\ amiss \subseteq amiss' /\ amiss' \subseteq Ways /\ (tasks # {} \/ pending # {} => ~Timely')
    BY <1>1 DEF unlockVault, Blame, If, Ways, Timely, Shape, MadeOK
  <1>3. Story(h)'
    BY <1>1, <1>2, SameStory
  <1>4. MemOK(l) /\ l.contacts = disk.contacts /\ l.convos = disk.convos /\ l.msgs = disk.msgs
    BY <1>1 DEF Shape, MemOK, DiskOK
  <1> HIDE DEF l
  <1>5. VaultOK' /\ ~Open' /\ (Timely' => Timely)
    BY <1>1, <1>2, <1>4 DEF VaultInv, VaultOK, Open, Timely
  <1>6. ASSUME Timely' PROVE mem' = Nothing /\ Loading'
    <2>1. Timely /\ ~Open /\ mem = Nothing /\ loads = {} /\ tasks = {} /\ pending = {}
      BY <1>1, <1>2, <1>5, <1>6 DEF VaultInv, Open, Loading
    <2> QED
      BY <1>2, <1>4, <2>1 DEF Loading
  <1> QED
    BY <1>3, <1>5, <1>6 DEF StoreInv, VaultInv

LEMMA LoadKeeps ==
    ASSUME NEW h, NEW k, StoreInv(h), NEW l \in loads, NEW msgs \in Newest(l),
           loadAllData(l, msgs), k = (IF Open' THEN mem' ELSE h)
    PROVE  StoreInv(k)'
  <1>1. Story(k)' /\ VaultInv(h) /\ MemOK(l)
    BY LoadStory DEF StoreInv, VaultInv, VaultOK
  <1>2. /\ mem' = [contacts |-> l.contacts, convos |-> l.convos, msgs |-> msgs]
        /\ loads' = loads \ {l} /\ identity' = identity /\ amiss' = amiss
        /\ msgs \in [Peer -> SUBSET Message]
    BY DEF loadAllData, Newest
  <1>3. VaultOK'
    BY <1>1, <1>2 DEF VaultInv, VaultOK, MemOK
  <1>4. Timely' => Timely /\ loads' = {} /\ Open'
    BY <1>1, <1>2 DEF VaultInv, Loading, Timely, Open
  <1> QED
    BY <1>1, <1>3, <1>4 DEF StoreInv, VaultInv

LEMMA ReloadVault ==
    ASSUME NEW k, Reload
    PROVE  VaultInv(k)'
  <1>1. mem' = Nothing /\ identity' = FALSE /\ loads' = {}
    BY DEF Reload
  <1>2. MemOK(Nothing)
    BY DEF MemOK, Nothing, Convo
  <1> QED
    BY <1>1, <1>2 DEF VaultInv, VaultOK, Open

(* A lock that cuts a deletion short has emptied memory before.             *)
LEMMA FindConvoVault ==
    ASSUME NEW h, NEW k, StoreInv(h), NEW t \in tasks, findConvo(t), ~identity
    PROVE  VaultInv(k)'
  <1>1. VaultInv(h)
    BY DEF StoreInv
  <1>2. /\ mem' = mem /\ identity' = identity /\ loads' = loads /\ amiss' = amiss \cup {"cut"}
    BY DEF findConvo, Blame, Vault
  <1>3. (Timely' => Timely) /\ ~Open /\ ~Open'
    BY <1>2 DEF Timely, Open
  <1> QED
    BY <1>1, <1>2, <1>3 DEF VaultInv, VaultOK, Loading

(* Every step keeps the invariant.                                          *)
LEMMA StepKeepsStore == Told /\ [Next]_vars => Told'
  <1> SUFFICES ASSUME NEW h, StoreInv(h), [Next]_vars PROVE Told'
    BY DEF Told
  <1>1. PICK k : k = IF Open THEN mem' ELSE h
    OBVIOUS
  <1>2. Open => h = mem
    BY DEF StoreInv, VaultInv
  <1>3. ASSUME NEW p \in Peer, NEW c \in SecureContacts(p),
               NEW sys \in Message \ Attachment, onSecure(p, c, sys)
        PROVE  Told'
    BY <1>1, <1>3, SecureKeeps, CallbackVault DEF StoreInv, Told
  <1>4. ASSUME NEW p \in Peer, NEW m \in Message,
               Sent(p, m) \/ \E seen \in BOOLEAN : onIncoming(p, m, seen)
        PROVE  Told'
    <2>1. Story(k)'
      BY <1>1, <1>4, SentKeeps, IncomingKeeps
    <2> QED
      BY <1>1, <1>4, <2>1, CallbackVault DEF StoreInv, Told
  <1>5. ASSUME NEW c \in mem.contacts, openChatWithContact(c)
        PROVE  Told'
    BY <1>1, <1>5, OpenKeeps, OperationVault DEF StoreInv, Told
  <1>6. CASE Operation
    <2>1. ASSUME mem' = mem PROVE k = h
      BY <1>1, <1>2, <2>1
    <2>2. ASSUME NEW c \in mem.contacts,
                 NEW op \in {"verify", "rename", "delete", "clear"}, Begin(op, c)
          PROVE  Told'
      <3>1. k = h
        BY <2>1, <2>2 DEF Begin
      <3> QED
        BY <1>1, <2>2, <3>1, BeginKeeps, OperationVault DEF StoreInv, Told
    <2>3. ASSUME NEW t \in tasks,
                 \/ putContact(t) \/ deleteContactRecord(t) \/ deleteConvoRecord(t)
                 \/ listMessageKeys(t) \/ deleteMessages(t) \/ (findConvo(t) /\ identity)
          PROVE  Told'
      <3>1. k = h
        BY <2>1, <2>3
           DEF putContact, deleteContactRecord, deleteConvoRecord, listMessageKeys,
               deleteMessages, findConvo, Awaits
      <3>2. Story(k)'
        BY <2>3, <3>1, PutContactKeeps, DeleteContactKeeps, DeleteConvoKeeps, ListKeysKeeps,
           DeleteMessagesKeeps, FindConvoGoesOn
      <3>3. VaultInv(k)'
        BY <1>1, <2>3, OperationVault
      <3> QED
        BY <3>2, <3>3 DEF StoreInv, Told
    <2>4. ASSUME NEW t \in tasks, Finish(t)
          PROVE  Told'
      <3>1. Story(k)'
        BY <1>1, <2>4, FinishKeeps
      <3>2. VaultInv(k)'
        BY <1>1, <2>4, OperationVault
      <3> QED
        BY <3>1, <3>2 DEF StoreInv, Told
    <2>5. ASSUME NEW t \in tasks, findConvo(t), ~identity
          PROVE  Told'
      <3>1. PICK g : g = [contacts |-> h.contacts \ {t.contact}, convos |-> h.convos,
                          msgs |-> [h.msgs EXCEPT ![t.contact.peer] = {}]]
        OBVIOUS
      <3> QED
        BY <2>5, <3>1, FindConvoCut, FindConvoVault DEF StoreInv, Told
    <2>6. identity \in BOOLEAN
      BY DEF StoreInv, VaultInv, VaultOK
    <2> QED
      BY <1>6, <2>2, <2>3, <2>4, <2>5, <2>6 DEF Operation
  <1>7. ASSUME NEW w \in pending, Lands(w)
        PROVE  Told'
    BY <1>7, LandsKeeps, LandsVault DEF StoreInv, Told
  <1>8. ASSUME NEW l \in loads, NEW msgs \in Newest(l), loadAllData(l, msgs)
        PROVE  Told'
    <2>1. PICK g : g = IF Open' THEN mem' ELSE h
      OBVIOUS
    <2> QED
      BY <1>8, <2>1, LoadKeeps DEF Told
  <1>9. CASE Reload
    <2>1. PICK g : g = [contacts |-> disk.contacts, convos |-> disk.convos,
                        msgs |-> [p \in Peer |-> IF disk.convos[p] = "none" THEN {} ELSE disk.msgs[p]]]
      OBVIOUS
    <2> QED
      BY <1>9, <2>1, ReloadKeeps, ReloadVault DEF StoreInv, Told
  <1>10. CASE UNCHANGED vars
    <2>1. StoreInv(h)' = StoreInv(h)
      BY <1>10 DEF vars, StoreInv, Story, Shape, TimelyInv, Timely, ContactsOK, Kin, Known, OneTask,
         Apart, Kept, Erased, WholeInv, Whole, Shown, ListedOK, Nobody, CalmInv, ConvosOK,
         VaultInv, VaultOK, Open, Loading
    <2> QED
      BY <2>1 DEF Told
  <1>11. CASE lockVault \/ unlockVault
    BY <1>11, LockKeeps, UnlockKeeps DEF Told
  <1> QED
    BY <1>3, <1>4, <1>5, <1>6, <1>7, <1>8, <1>9, <1>10, <1>11 DEF Next

(* The invariant says what the properties ask.                              *)
LEMMA StoreInvAgrees == Told => StoreAgrees /\ DeletedLeavesNothing
  <1> SUFFICES ASSUME NEW h, StoreInv(h) PROVE StoreAgrees /\ DeletedLeavesNothing
    BY DEF Told
  <1>1. /\ Shape(h) /\ TimelyInv(h) /\ WholeInv(h) /\ CalmInv(h) /\ VaultOK
        /\ (Open => h = mem) /\ (Timely /\ ~Open => mem = Nothing)
    BY DEF StoreInv, Story, VaultInv
  <1>2. /\ Only({"overtaken", "unheard", "unlisted", "cut"}) => Timely
        /\ Only({"overtaken"}) => Timely /\ Whole
        /\ Only({}) => Timely /\ Whole /\ amiss = {}
    BY DEF Only, Timely, Whole
  <1>3. TypeOK
    <2>1. ASSUME NEW w \in pending PROVE w \in Writes
      BY <1>1, <2>1
         DEF Shape, WriteOK, Writes, PutContact, PutConvo, AppendMessage, PutBlob
    <2>2. ASSUME NEW t \in tasks
          PROVE  /\ t.op \in {"verify", "rename", "delete", "clear"} /\ t.contact \in Contact
                 /\ t.at \in {"write", "contact", "identity", "convo", "keys", "messages", "set"}
                 /\ t.doomed \subseteq Message
      BY <1>1, <2>2 DEF Shape, TaskOK
    <2> QED
      BY <1>1, <2>1, <2>2 DEF TypeOK, Shape, VaultOK, MemOK, DiskOK, MadeOK
  <1>4. ContactsAgree
    BY <1>1, <1>2 DEF ContactsAgree, Quiet, TimelyInv, ContactsOK
  <1>5. MessagesAgree
    <2> SUFFICES ASSUME Quiet, Only({"overtaken"}), NEW p \in Peer
                 PROVE  /\ mem.msgs[p] \subseteq disk.msgs[p]
                        /\ mem.msgs[p] = disk.msgs[p] \/ Cardinality(mem.msgs[p]) >= MaxListed
      BY DEF MessagesAgree
    <2>1. Kept(h) /\ Shown(h) /\ h = mem /\ tasks = {} /\ pending = {}
      BY <1>1, <1>2 DEF TimelyInv, WholeInv, Quiet
    <2>2. mem.msgs[p] \subseteq disk.msgs[p]
      BY <2>1 DEF Kept
    <2> QED
      BY <2>1, <2>2 DEF Shown
  <1>6. ConvosAgree
    BY <1>1, <1>2 DEF ConvosAgree, Quiet, CalmInv, ConvosOK
  <1>7. OneContactPerPeer
    <2> SUFFICES ASSUME Only({"overtaken", "unheard", "unlisted", "cut"})
                 PROVE  Kin(mem.contacts) /\ Kin(disk.contacts)
      BY DEF OneContactPerPeer, Kin
    <2>1. Kin(h.contacts) /\ Kin(disk.contacts)
      BY <1>1, <1>2, DiskKin DEF TimelyInv, ContactsOK
    <2> QED
      BY <1>1, <1>2, <2>1 DEF Nothing, Kin
  <1>8. ShownIsKept
    <2> SUFFICES ASSUME Only({"overtaken", "unheard", "unlisted", "cut"}), NEW p \in Peer, NEW m \in mem.msgs[p]
                 PROVE  m \in disk.msgs[p] \/ AppendMessage(p, m) \in pending \/ Deleting(p)
      BY DEF ShownIsKept
    <2>1. Kept(h) /\ h = mem
      BY <1>1, <1>2 DEF TimelyInv, Nothing
    <2>2. \A w \in pending : w.store = "messages" /\ w.peer = p /\ w.value = m => w = AppendMessage(p, m)
      BY <1>1 DEF Shape, WriteOK, AppendMessage
    <2> QED
      BY <2>1, <2>2 DEF Kept, Deletes, Deleting
  <1>9. DeletedLeavesNothing
    <2> SUFFICES ASSUME Quiet, Only({"overtaken"}), NEW p \in Peer, ContactsOf(p) = {}
                 PROVE  disk.convos[p] = "none" /\ disk.msgs[p] = {}
      BY DEF DeletedLeavesNothing
    <2>1. Nobody(h) /\ Stranger(h, p)
      BY <1>1, <1>2 DEF WholeInv, Quiet, ContactsOf, Stranger
    <2> QED
      BY <2>1 DEF Nobody
  <1> QED
    BY <1>3, <1>4, <1>5, <1>6, <1>7, <1>8, <1>9 DEF StoreAgrees

(* No step takes a verification away, in the store (onSecure, verifyContact *)
(* and the other operations),                                               *)
LEMMA StoreStaysVerified ==
    ASSUME NEW h, StoreInv(h), Next, Timely'
    PROVE  StaysVerified(mem.contacts, mem'.contacts)
  <1> SUFFICES ASSUME NEW c \in mem.contacts, NEW d \in mem'.contacts, c.id = d.id, c.verified
               PROVE  d.verified
    BY DEF StaysVerified
  <1>1. /\ Shape(h) /\ MemOK(mem) /\ (Timely => ContactsOK(h))
        /\ (Open => h = mem) /\ (Timely /\ ~Open => mem = Nothing) /\ (Timely /\ loads # {} => Loading)
    BY DEF StoreInv, Story, TimelyInv, VaultInv, VaultOK
  <1>2. Timely /\ amiss \subseteq amiss'
    BY DEF Next, onSecure, Sent, onIncoming, Keep, openChatWithContact, Operation, Begin,
       putContact, deleteContactRecord, findConvo, deleteConvoRecord, listMessageKeys,
       deleteMessages, Finish, Awaits, Lands, lockVault, unlockVault, loadAllData, Reload,
       Blame, Timely
  <1>3. Open /\ h = mem /\ ContactsOK(h) /\ loads = {}
    BY <1>1, <1>2 DEF Nothing, Open
  <1>4. ASSUME d \in mem.contacts
        PROVE  d.verified
    BY <1>3, <1>4 DEF ContactsOK, Kin
  <1>5. ASSUME NEW t \in tasks, d = Updated(t)
        PROVE  d.verified
    BY <1>1, <1>3, <1>5, UpdatedFacts DEF ContactsOK, Kin, Shape, TaskOK
  <1>6. ASSUME NEW p \in Peer, NEW e \in SecureContacts(p),
               NEW sys \in Message \ Attachment, onSecure(p, e, sys)
        PROVE  d.verified
    <2>1. mem'.contacts = With(mem.contacts, e)
      BY <1>6 DEF onSecure
    <2>2. e \in mem.contacts \/ e.id = made.ids + 1
      BY <1>1, SecureContactFacts DEF Shape
    <2>3. ASSUME d = e, e.id = made.ids + 1 PROVE FALSE
      BY <1>1, <1>3, <2>1, <2>3 DEF ContactsOK, Known, Shape, MadeOK
    <2> QED
      BY <1>4, <2>1, <2>2, <2>3 DEF With
  <1>7. ASSUME NEW p, NEW m \in Message, NEW known, NEW convo, Keep(p, m, known, convo)
        PROVE  d.verified
    <2>1. mem'.contacts = mem.contacts
      BY <1>1, <1>7 DEF Keep, MemOK
    <2> QED
      BY <1>4, <2>1
  <1>8. ASSUME NEW p \in Peer, NEW m \in Message, Sent(p, m) \/ \E seen \in BOOLEAN : onIncoming(p, m, seen)
        PROVE  d.verified
    BY <1>7, <1>8 DEF Sent, onIncoming
  <1>9. ASSUME NEW e \in mem.contacts, openChatWithContact(e)
        PROVE  d.verified
    <2>1. mem'.contacts = mem.contacts
      BY <1>1, <1>9 DEF openChatWithContact, MemOK
    <2> QED
      BY <1>4, <2>1
  <1>10. ASSUME NEW t \in tasks, Finish(t)
         PROVE  d.verified
    <2>1. mem' = PutBack(t) /\ ~Undoes(t)
      BY <1>10 DEF Finish, Blame, If, Timely
    <2>2. t.op \in {"verify", "rename", "delete", "clear"}
      BY <1>1 DEF Shape, TaskOK
    <2>3. d \in mem.contacts \/ d = Updated(t)
      BY <1>1, <2>1, <2>2 DEF PutBack, Undoes, Without, MemOK
    <2> QED
      BY <1>4, <1>5, <2>3
  <1>11. CASE Operation
    BY <1>4, <1>10, <1>11
       DEF Operation, Begin, putContact, deleteContactRecord, findConvo, deleteConvoRecord,
           listMessageKeys, deleteMessages, Awaits
  <1>12. CASE lockVault \/ Reload
    BY <1>12 DEF lockVault, Reload, Nothing
  <1> QED
    BY <1>3, <1>4, <1>6, <1>8, <1>9, <1>11, <1>12 DEF Next, Lands, unlockVault

(* or on disk: what is written has been in the store.                       *)
LEMMA DiskStaysVerified ==
    ASSUME NEW h, StoreInv(h), Next, Timely'
    PROVE  StaysVerified(disk.contacts, disk'.contacts)
  <1> SUFFICES ASSUME NEW c \in disk.contacts, NEW d \in disk'.contacts, c.id = d.id, c.verified
               PROVE  d.verified
    BY DEF StaysVerified
  <1>1. Shape(h) /\ TimelyInv(h)
    BY DEF StoreInv, Story
  <1>2. Timely
    BY DEF Next, onSecure, Sent, onIncoming, Keep, openChatWithContact, Operation, Begin,
       putContact, deleteContactRecord, findConvo, deleteConvoRecord, listMessageKeys,
       deleteMessages, Finish, Awaits, Lands, lockVault, unlockVault, loadAllData, Reload,
       Blame, Timely
  <1>3. ContactsOK(h) /\ OneTask /\ Apart /\ Kin(disk.contacts)
    BY <1>1, <1>2, DiskKin DEF TimelyInv
  <1>4. ASSUME d \in disk.contacts
        PROVE  d.verified
    BY <1>3, <1>4 DEF Kin
  <1>5. ASSUME NEW t \in tasks, putContact(t)
        PROVE  d.verified
    <2>1. d \in disk.contacts \/ d = Updated(t)
      BY <1>5 DEF putContact, With
    <2>2. t.at = "write" /\ TaskOK(t)
      BY <1>1, <1>5 DEF putContact, Shape
    <2>3. ASSUME d = Updated(t) PROVE c = t.contact
      <3>1. c.id = t.contact.id
        BY <2>2, <2>3, UpdatedFacts DEF TaskOK
      <3>2. CASE c \in h.contacts
        BY <1>3, <3>1, <3>2 DEF ContactsOK, Kin
      <3>3. ASSUME NEW u \in tasks, u.at = "set", c = Updated(u) PROVE FALSE
        <4>1. u.contact.id = t.contact.id /\ u.contact \in h.contacts /\ t.contact \in h.contacts
          BY <1>1, <1>3, <3>1, <3>3, UpdatedFacts DEF ContactsOK, Shape, TaskOK
        <4>2. u.contact = t.contact
          BY <1>3, <4>1 DEF ContactsOK, Kin
        <4> QED
          BY <1>3, <2>2, <3>3, <4>2 DEF OneTask
      <3> QED
        BY <1>3, <3>2, <3>3 DEF ContactsOK
    <2> QED
      BY <1>4, <2>1, <2>2, <2>3, UpdatedFacts DEF TaskOK
  <1>6. ASSUME NEW t \in tasks, deleteContactRecord(t) \/ deleteConvoRecord(t) \/ deleteMessages(t)
        PROVE  d.verified
    <2>1. disk'.contacts \subseteq disk.contacts
      BY <1>1, <1>6 DEF deleteContactRecord, deleteConvoRecord, deleteMessages, Without, Shape, DiskOK
    <2> QED
      BY <1>4, <2>1
  <1>7. ASSUME NEW w \in pending, Lands(w)
        PROVE  d.verified
    <2>1. WriteOK(w)
      BY <1>1 DEF Shape
    <2>2. CASE w.store = "contacts"
      <3>0. disk' = [disk EXCEPT !.contacts = With(@, w.value)]
        BY <1>7, <2>2 DEF Lands, Stored
      <3>1. disk'.contacts = With(disk.contacts, w.value) /\ w.value \in h.contacts /\ w.value.peer = w.peer
        <4>1. disk'.contacts = With(disk.contacts, w.value)
          BY <1>1, <3>0 DEF Shape, DiskOK
        <4>2. w.value.peer = w.peer
          BY <2>1, <2>2 DEF WriteOK
        <4>3. w.value \in h.contacts
          BY <1>3, <1>7, <2>2 DEF ContactsOK
        <4> QED
          BY <4>1, <4>2, <4>3
      <3>2. ASSUME d = w.value PROVE c = d
        <4>1. CASE c \in h.contacts
          BY <1>3, <3>1, <3>2, <4>1 DEF ContactsOK, Kin
        <4>2. ASSUME NEW u \in tasks, c = Updated(u) PROVE FALSE
          <5>1. u.contact.id = d.id /\ u.contact \in h.contacts
            BY <1>1, <1>3, <4>2, UpdatedFacts DEF ContactsOK, Shape, TaskOK
          <5>2. u.contact = d
            BY <1>3, <3>1, <3>2, <5>1 DEF ContactsOK, Kin
          <5> QED
            BY <1>3, <2>2, <3>1, <3>2, <5>2 DEF Apart
        <4> QED
          BY <1>3, <4>1, <4>2 DEF ContactsOK
      <3> QED
        BY <1>4, <3>1, <3>2 DEF With
    <2>3. CASE w.store # "contacts"
      BY <1>1, <1>4, <1>7, <2>1, <2>3 DEF Lands, Stored, Shape, DiskOK, WriteOK
    <2> QED
      BY <2>2, <2>3
  <1>8. CASE Operation
    BY <1>4, <1>5, <1>6, <1>8 DEF Operation, Begin, findConvo, listMessageKeys, Finish
  <1> QED
    BY <1>4, <1>7, <1>8
       DEF Next, onSecure, Sent, onIncoming, Keep, openChatWithContact, lockVault, unlockVault,
           loadAllData, Reload

(* Together:                                                                *)
LEMMA StepKeepsVerification == Told /\ Next => VerificationKept
  <1> SUFFICES ASSUME NEW h, StoreInv(h), Next, amiss' \subseteq {"overtaken", "unheard", "unlisted", "cut"}
               PROVE  /\ StaysVerified(mem.contacts, mem'.contacts)
                      /\ StaysVerified(disk.contacts, disk'.contacts)
    BY DEF Told, VerificationKept
  <1>1. Timely'
    BY DEF Timely
  <1> QED
    BY <1>1, StoreStaysVerified, DiskStaysVerified

(* Only deleteConversation takes messages off the disk.                     *)
LEMMA StepDeletesOnlyDeleted == Told /\ Next => OnlyDeletionDeletes
  <1> SUFFICES ASSUME NEW h, StoreInv(h), Next, NEW p \in Peer
               PROVE  disk.msgs[p] \subseteq disk'.msgs[p] \/ Deleting(p)
    BY DEF Told, OnlyDeletionDeletes
  <1>1. Shape(h)
    BY DEF StoreInv, Story
  <1>2. ASSUME NEW t \in tasks, deleteMessages(t)
        PROVE  disk.msgs[p] \subseteq disk'.msgs[p] \/ Deleting(p)
    <2>1. t.op \in {"delete", "clear"}
      BY <1>1, <1>2 DEF Shape, TaskOK, deleteMessages
    <2>2. p # t.contact.peer => disk'.msgs[p] = disk.msgs[p]
      BY <1>1, <1>2 DEF deleteMessages, Shape, DiskOK
    <2> QED
      BY <2>1, <2>2 DEF Deleting
  <1>3. ASSUME NEW w \in pending, Lands(w)
        PROVE  disk.msgs[p] \subseteq disk'.msgs[p]
    BY <1>1, <1>3 DEF Lands, Stored, Shape, DiskOK, WriteOK
  <1>4. ASSUME NEW t \in tasks, putContact(t) \/ deleteContactRecord(t) \/ deleteConvoRecord(t)
        PROVE  disk'.msgs = disk.msgs
    BY <1>1, <1>4
       DEF putContact, deleteContactRecord, deleteConvoRecord, Shape, DiskOK
  <1>5. CASE Operation
    <2>1. ASSUME NEW t \in tasks, listMessageKeys(t) \/ findConvo(t) \/ Finish(t)
          PROVE  disk' = disk
      BY <2>1 DEF listMessageKeys, findConvo, Finish
    <2>2. ASSUME NEW c, NEW op, Begin(op, c)
          PROVE  disk' = disk
      BY <2>2 DEF Begin
    <2> QED
      BY <1>2, <1>4, <1>5, <2>1, <2>2 DEF Operation
  <1> QED
    BY <1>3, <1>5
       DEF Next, onSecure, Sent, onIncoming, Keep, openChatWithContact,
       lockVault, unlockVault, loadAllData, Reload

(* Memory and disk tell the same story, for every number of peers,          *)
(* messages, operations, locks and reloads: once nothing is in flight, contacts,   *)
(* messages and conversations are those on disk, no two contacts share a    *)
(* peer, and what is shown is kept - each as long as none of what its       *)
(* premise excludes has happened.                                           *)
THEOREM StoreAlwaysAgrees == Spec => []StoreAgrees
  BY InitStore, StepKeepsStore, StoreInvAgrees, PTL DEF Spec

(* A contact's deletion leaves neither its conversation nor a message on    *)
(* disk (deleteContact with deleteConversation).                            *)
THEOREM DeletionLeavesNothing == Spec => []DeletedLeavesNothing
  BY InitStore, StepKeepsStore, StoreInvAgrees, PTL DEF Spec

(* No step takes a contact's verification away, and a stored message leaves *)
(* the disk only while its own conversation is being deleted.               *)
THEOREM RecordsAlwaysKept == Spec => RecordsKept
  <1>1. Told /\ [Next]_vars => [VerificationKept /\ OnlyDeletionDeletes]_vars
    BY StepKeepsVerification, StepDeletesOnlyDeleted
  <1> QED
    BY InitStore, StepKeepsStore, <1>1, PTL DEF Spec, RecordsKept
=============================================================================

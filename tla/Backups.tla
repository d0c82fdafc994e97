------------------------------- MODULE Backups -------------------------------
(***************************************************************************)
(* Backups, the security log and attachments of one device: exportBackup,  *)
(* inAppImport, deleteContact, clearConversation and getAttachmentUrl      *)
(* (store/app-store.ts) over the records of storage/vault-store.ts, while  *)
(* a session goes on writing and the user goes on tapping.                 *)
(*                                                                         *)
(* A list is read key by key, an import is written record by record, and   *)
(* the log is trimmed key by key: anything may come in between.  From the  *)
(* start of an import's wipe until its initStorage there is no storage,    *)
(* and whoever asks for it then fails.                                     *)
(*                                                                         *)
(* The history variable amiss records what was done to the records other   *)
(* than by one operation at a time:                                        *)
(*   amid         a session wrote, or a contact was deleted, in an import  *)
(*   torn         a file was exported while the records were changing      *)
(*   straggler    a write started before a wipe was in flight after it     *)
(*   resurrected  a record was written while its contact was deleted       *)
(*   thrown       an operation, or a write, found no storage               *)
(*   failed       a write of an import was refused                         *)
(*   astray       a message was stored whose contact or conversation was   *)
(*                not shown, or not stored                                 *)
(*   stale        a snapshot was put back over something newer             *)
(*   early        the records were loaded while a write was in flight      *)
(*   cut          the page was reloaded amid an operation or a write, or a *)
(*                lock ended a deletion halfway                            *)
(*   late         an attachment was decrypted after its chat had gone      *)
(*   twice        an attachment was decrypted twice at once                *)
(***************************************************************************)
EXTENDS Naturals, FiniteSets

CONSTANTS Contact,        \* contacts, each with its one conversation
          Message,        \* messages, numbered by their timestamps
          ContactOf(_),   \* whose conversation a message belongs to
          Attachment,     \* the messages with an attachment
          Kept,           \* records on disk at the start
          Older,          \* records in a backup made earlier
          Limit,          \* messages loaded per conversation (300)
          LogLimit,       \* LOG_LIMIT (500)
          MaxOps,         \* bound on operations ever started
          MaxTogether,    \* bound on operations under way when one starts
          MaxPending,     \* bound on writes in flight
          MaxAmiss        \* bound on how many of the ways above are taken

Stores == {"contacts", "conversations", "messages"}
Record == ({"contacts", "conversations"} \X Contact) \cup ({"messages"} \X Message)
Owner(r) == IF r[1] = "messages" THEN ContactOf(r[2]) ELSE r[2]
Of(store, rs) == {r \in rs : r[1] = store}
About(c, rs) == {r \in rs : Owner(r) = c}
Messages(rs) == {r[2] : r \in Of("messages", rs)}

(* What a record refers to: a message to its conversation, a conversation   *)
(* to its contact.                                                          *)
Needs(r) == {<<s, Owner(r)>> : s \in CASE r[1] = "messages" -> {"contacts", "conversations"}
                                       [] r[1] = "conversations" -> {"contacts"}
                                       [] OTHER -> {}}
Whole(rs) == \A r \in rs : Needs(r) \subseteq rs

ASSUME BackupsAssumption ==
    /\ Message \subseteq Nat /\ IsFiniteSet(Message) /\ Attachment \subseteq Message
    /\ \A m \in Message : ContactOf(m) \in Contact
    /\ Kept \cup Older \subseteq Record /\ Whole(Kept) /\ Whole(Older)
    /\ {Limit, LogLimit, MaxOps, MaxTogether, MaxPending, MaxAmiss} \subseteq Nat

VARIABLES
    disk,     \* records, attachment ciphertexts, events of the log; is there a vault?
    ready,    \* vaultStore has its storage
    mem,      \* what the store shows, as records; is it locked?
    pending,  \* writes started and not awaited
    files,    \* backup files: the records in them
    tasks,    \* operations under way
    chat,     \* ChatView: is it open, its attachments, the object URLs
    made,     \* messages, events and operations so far
    during,   \* history of the export under way: records there all along, and at any time
    amiss     \* history: see above

vars == <<disk, ready, mem, pending, files, tasks, chat, made, during, amiss>>

Event == 1..(LogLimit + MaxOps)
NoBody == [a \in Attachment |-> "none"]
NoUrls == [a \in Attachment |-> 0]
NoHistory == [always |-> {}, ever |-> {}]

(* listByPrefix: keys sort by timestamp; the newest few, or the oldest.     *)
Newest(keys, n) == {k \in keys : Cardinality({l \in keys : l > k}) < n}
Oldest(keys, n) == {k \in keys : Cardinality({l \in keys : l < k}) < n}
ListByPrefixOldest(keys, limit) == Oldest(keys, limit)
ListByPrefix(keys, limit) == Newest(keys, limit)

(* loadAllData: the messages of every conversation on disk.                 *)
LoadedMessages ==
    UNION {ListByPrefix(Messages(About(r[2], disk.records)), Limit)
             : r \in Of("conversations", disk.records)}
Loaded ==
    [records |-> Of("contacts", disk.records) \cup Of("conversations", disk.records)
                 \cup {<<"messages", m>> : m \in LoadedMessages},
     locked |-> FALSE]
Locked == [records |-> {}, locked |-> TRUE]

Init ==
    /\ disk = [records |-> Kept, blobs |-> Messages(Kept) \cap Attachment, log |-> 1..LogLimit,
               vault |-> TRUE]
    /\ ready = TRUE /\ mem = Loaded /\ pending = {} /\ files = {Older}
    /\ tasks = {}
    /\ chat = [open |-> FALSE, round |-> 0, body |-> NoBody, registry |-> {}, live |-> NoUrls]
    /\ made = [messages |-> Messages(Kept \cup Older), events |-> LogLimit, ops |-> 0]
    /\ during = NoHistory /\ amiss = {}

-----------------------------------------------------------------------------
(* Operations under way.                                                    *)
Task(op, at) == [op |-> op, at |-> at, keys |-> {}, got |-> {}, number |-> 0, ints |-> {}, who |-> {}]
Running(op) == \E t \in tasks : t.op = op
Starts(t) == Cardinality(tasks) < MaxTogether /\ tasks' = tasks \cup {t}
Counts(events) ==
    /\ made.ops < MaxOps
    /\ made' = [made EXCEPT !.ops = @ + 1, !.events = @ + events]
Becomes(t, u) == tasks' = (tasks \ {t}) \cup {u}
Drop(t) == tasks' = tasks \ {t}
Deletion == {"delete", "clear"}
Deleting(c) == \E t \in tasks : t.op \in Deletion /\ t.who = {c}
Blame(ways) == amiss' = amiss \cup ways /\ Cardinality(amiss \cup ways) <= MaxAmiss
If(condition, way) == IF condition THEN {way} ELSE {}

(* Every change of the records is part of the export's history.             *)
Records(rs) ==
    /\ disk' = [disk EXCEPT !.records = rs]
    /\ during' = IF Running("export")
                 THEN [always |-> during.always \cap rs, ever |-> during.ever \cup rs]
                 ELSE during
Writes(r) == If(Deleting(Owner(r)), "resurrected")

(* The storage is asked for at these places.                                *)
AsksStorage(t) ==
    t.at \in {"contacts", "conversations", "messages", "contact", "convo", "list",
              "seal", "log", "logged", "trim", "read"}
Throws(t) ==
    /\ ~ready /\ AsksStorage(t) /\ Drop(t) /\ Blame({"thrown"})
    /\ UNCHANGED <<disk, ready, mem, pending, files, chat, made, during>>

-----------------------------------------------------------------------------
(* The session and its writes, which nobody awaits.  A message is stamped   *)
(* here when it is made or received.                                        *)
Stray(r, rs) == ~Deleting(Owner(r)) /\ ~(Needs(r) \subseteq disk.records \cup pending \cup rs)

Write(m, rs, shown) ==
    /\ m \notin made.messages /\ m \notin Attachment
    /\ \A n \in made.messages : ContactOf(n) = ContactOf(m) => n < m
    /\ made' = [made EXCEPT !.messages = @ \cup {m}]
    /\ pending' = IF ready THEN pending \cup rs ELSE pending
    /\ Cardinality(pending') <= MaxPending
    /\ mem' = IF shown THEN [mem EXCEPT !.records = @ \cup rs] ELSE mem
    /\ Blame((UNION {Writes(r) : r \in rs}) \cup If(Running("import"), "amid")
             \cup If(~ready, "thrown")
             \cup If(~shown \/ \E r \in rs : Stray(r, rs), "astray"))
    /\ UNCHANGED <<disk, ready, files, tasks, chat, during>>

(* privateRefs.identity: an unlock has it before it has loaded the records. *)
Identity == ~mem.locked \/ Running("unlock")

(* With a system message.  A conversation that is shown is not written      *)
(* again, also when it was cleared and is no longer on disk.                *)
onSecure(m) ==
    LET c == ContactOf(m) IN
    /\ Identity
    /\ Write(m, {<<"contacts", c>>, <<"messages", m>>}
                \cup ({<<"conversations", c>>} \ mem.records), TRUE)

(* It is stored whether or not there is a conversation to show it in.       *)
onIncoming(m) ==
    LET known == Needs(<<"messages", m>>) \subseteq mem.records
    IN  Write(m, {<<"messages", m>>}
                 \cup (IF known THEN {<<"conversations", ContactOf(m)>>} ELSE {}), known)

Lands(r) ==
    /\ r \in pending /\ pending' = pending \ {r}
    /\ Records(disk.records \cup {r})
    /\ Blame(If(Deleting(Owner(r)), "resurrected"))
    /\ UNCHANGED <<ready, mem, files, tasks, chat, made>>

-----------------------------------------------------------------------------
(* appendSecurityEvent: put, list the keys, delete the oldest one by one.   *)
(* It is the last thing an operation awaits, or all there is to one.        *)
Logs(t) ==
    /\ made' = [made EXCEPT !.events = @ + 1]
    /\ Becomes(t, [t EXCEPT !.at = "log", !.number = made.events + 1])

appendSecurityEvent ==
    /\ Starts([Task("log", "log") EXCEPT !.number = made.events + 1])
    /\ Counts(1)
    /\ UNCHANGED <<disk, ready, mem, pending, files, chat, during, amiss>>

LogEnds(t) ==
    IF t.op \in {"import", "unlock"} THEN Becomes(t, [t EXCEPT !.at = "load", !.ints = {}])
    ELSE IF t.op \in Deletion THEN Becomes(t, [t EXCEPT !.at = "set", !.ints = {}])
    ELSE Drop(t)
Unlogged == UNCHANGED <<ready, mem, pending, files, chat, made, during, amiss>>

putEvent(t) ==
    /\ t.at = "log" /\ ready
    /\ disk' = [disk EXCEPT !.log = @ \cup {t.number}]
    /\ Becomes(t, [t EXCEPT !.at = "logged"]) /\ Unlogged

Surplus(keys) ==
    IF Cardinality(keys) > LogLimit THEN Oldest(keys, Cardinality(keys) - LogLimit) ELSE {}

ListLog(t) ==
    /\ t.at = "logged" /\ ready
    /\ IF Surplus(disk.log) = {} THEN LogEnds(t)
       ELSE Becomes(t, [t EXCEPT !.at = "trim", !.ints = Surplus(disk.log)])
    /\ UNCHANGED disk /\ Unlogged

TrimLog(t) ==
    /\ t.at = "trim" /\ ready
    /\ \E e \in t.ints :
          /\ \A k \in t.ints : e <= k
          /\ disk' = [disk EXCEPT !.log = @ \ {e}]
          /\ IF t.ints = {e} THEN LogEnds(t) ELSE Becomes(t, [t EXCEPT !.ints = @ \ {e}])
    /\ Unlogged

-----------------------------------------------------------------------------
(* exportBackup: each store is listed, then its records are read one by     *)
(* one; one that has gone by then is left out.  One export at a time, which *)
(* the screen's busy flag sees to until the screen is left: a bound here.   *)
exportBackup ==
    /\ ~mem.locked /\ ~Running("export")
    /\ Starts(Task("export", "contacts")) /\ Counts(0)
    /\ during' = [always |-> disk.records, ever |-> disk.records]
    /\ UNCHANGED <<disk, ready, mem, pending, files, chat, amiss>>

After(store) == CASE store = "contacts" -> "conversations"
                  [] store = "conversations" -> "messages"
                  [] store = "messages" -> "seal"

(* allMessages lists them all, not only those that are shown.               *)
KeysShown(store) ==
    {r \in Of(store, disk.records) : store = "messages" => r \in mem.records}
Keys(store) == Of(store, disk.records)

ListKeys(t) ==
    /\ t.op = "export" /\ t.at \in Stores /\ t.keys = {} /\ ready
    /\ Becomes(t, IF Keys(t.at) = {} THEN [t EXCEPT !.at = After(@)]
                  ELSE [t EXCEPT !.keys = Keys(t.at), !.at = "get"])
    /\ UNCHANGED <<disk, ready, mem, pending, files, chat, made, during, amiss>>

GetRecord(t, r) ==
    /\ t.op = "export" /\ t.at = "get" /\ r \in t.keys
    /\ LET u == [t EXCEPT !.keys = @ \ {r}, !.got = @ \cup ({r} \cap disk.records)]
       IN  Becomes(t, IF u.keys = {} THEN [u EXCEPT !.at = After(r[1])] ELSE u)
    /\ UNCHANGED <<disk, ready, mem, pending, files, chat, made, during, amiss>>

(* The file is the user's from then on: no wipe or lock reaches it.         *)
downloadJsonFile(records) == files' = files \cup {records}

createBackupFile(t) ==
    /\ t.at = "seal" /\ ready /\ Logs(t)
    /\ downloadJsonFile(t.got) /\ during' = NoHistory
    /\ Blame(If(during.always # during.ever \/ pending # {} \/ (\E u \in tasks : u.op \in Deletion) \/ Running("import"),
                "torn"))
    /\ UNCHANGED <<disk, ready, mem, pending, chat>>

-----------------------------------------------------------------------------
(* inAppImport: nothing is touched before the file has been opened.  Then   *)
(* the wipe, with no storage until initStorage (and no vault until its      *)
(* record and the identity are saved, which is VaultLifecycle's subject),   *)
(* and record after record.                                                 *)
inAppImport(backup) ==
    /\ ~mem.locked /\ ~Running("import") /\ backup \in files
    /\ Starts([Task("import", "open") EXCEPT !.got = backup]) /\ Counts(0)
    /\ UNCHANGED <<disk, ready, mem, pending, files, chat, during, amiss>>

Asleep == UNCHANGED <<mem, pending, files, chat, made, during, amiss>>

openBackupFile(t) ==
    /\ t.at = "open" /\ (Drop(t) \/ Becomes(t, [t EXCEPT !.at = "null"]))
    /\ UNCHANGED <<disk, ready>> /\ Asleep

dropStorage(t) ==
    /\ t.at = "null" /\ ready' = FALSE /\ Becomes(t, [t EXCEPT !.at = "wipe"])
    /\ UNCHANGED disk /\ Asleep

deleteDatabase(t) ==
    /\ t.at = "wipe" /\ Becomes(t, [t EXCEPT !.at = "init"])
    /\ disk' = [records |-> {}, blobs |-> {}, log |-> {}, vault |-> FALSE]
    /\ during' = [always |-> {}, ever |-> during.ever]
    /\ Blame(If(pending # {}, "straggler") \cup If(\E u \in tasks : u.op \in Deletion, "amid"))
    /\ UNCHANGED <<ready, mem, pending, files, chat, made>>

initStorage(t) ==
    /\ t.at = "init" /\ ready' = TRUE /\ disk' = [disk EXCEPT !.vault = TRUE]
    /\ Becomes(t, [t EXCEPT !.at = "restore", !.keys = t.got]) /\ Asleep

(* Contacts first, then conversations, then messages.                       *)
NextRecords(t) == {r \in t.keys : Needs(r) \cap t.keys = {}}

Restore(t, r) ==
    /\ t.at = "restore" /\ r \in NextRecords(t)
    /\ Records(disk.records \cup {r})
    /\ Becomes(t, [t EXCEPT !.keys = @ \ {r}])
    /\ Blame(Writes(r))
    /\ UNCHANGED <<ready, mem, pending, files, chat, made>>

(* A write is refused (quota): the rest is not written, nothing is loaded.  *)
RestoreFails(t) ==
    /\ t.at = "restore" /\ t.keys # {} /\ Drop(t) /\ Blame({"failed"})
    /\ UNCHANGED <<disk, ready, mem, pending, files, chat, made, during>>

Restored(t) ==
    /\ t.at = "restore" /\ t.keys = {} /\ Logs(t)
    /\ UNCHANGED <<disk, ready, mem, pending, files, chat, during, amiss>>

-----------------------------------------------------------------------------
(* deleteContact, and clearConversation, which keeps the contact: what is   *)
(* shown at the start is what the set() at the end goes by.                 *)
Deletes(op, at, c) ==
    /\ ~mem.locked /\ <<"contacts", c>> \in mem.records
    /\ Starts([Task(op, at) EXCEPT !.number = made.ops,
                                            !.got = mem.records, !.who = {c}]) /\ Counts(0)
    /\ Blame(If(About(c, pending) # {}, "resurrected") \cup If(Running("import"), "amid"))
    /\ UNCHANGED <<disk, ready, mem, pending, files, chat, during>>
deleteContact(c) == Deletes("delete", "contact", c)
clearConversation(c) == Deletes("clear", "convo", c)

DeletesRecord(t, r, place) ==
    /\ ready /\ Records(disk.records \ {r}) /\ Becomes(t, [t EXCEPT !.at = place])
    /\ UNCHANGED <<ready, mem, pending, files, chat, made, amiss>>

deleteRecord(t) ==
    \E c \in t.who :
      \/ t.at = "contact" /\ DeletesRecord(t, <<"contacts", c>>, "identity")
      \/ t.at = "convo" /\ DeletesRecord(t, <<"conversations", c>>, "list")

(* deleteContact needs the identity for the conversation's id: a lock       *)
(* during its first await makes it throw, with the contact gone.            *)
findConvo(t) ==
    /\ t.at = "identity"
    /\ IF Identity THEN Becomes(t, [t EXCEPT !.at = "convo"]) /\ UNCHANGED amiss
       ELSE Drop(t) /\ Blame({"cut"})
    /\ UNCHANGED <<disk, ready, mem, pending, files, chat, made, during>>

listMessageKeysUnfiltered(t) ==
    /\ t.at = "list" /\ ready
    /\ Becomes(t, [t EXCEPT !.at = "doomed", !.keys = Of("messages", disk.records)])
    /\ UNCHANGED <<disk, ready, mem, pending, files, chat, made, during, amiss>>

listMessageKeys(t) ==
    /\ t.at = "list" /\ ready
    /\ Becomes(t, [t EXCEPT !.at = "doomed",
                            !.keys = Of("messages", UNION {About(c, disk.records) : c \in t.who})])
    /\ UNCHANGED <<disk, ready, mem, pending, files, chat, made, during, amiss>>

deleteMessage(t, r) ==
    /\ t.at = "doomed" /\ r \in t.keys /\ Records(disk.records \ {r})
    /\ Becomes(t, [t EXCEPT !.keys = @ \ {r}])
    /\ UNCHANGED <<ready, mem, pending, files, chat, made, amiss>>

Deleted(t) ==
    /\ t.at = "doomed" /\ t.keys = {} /\ Logs(t)
    /\ UNCHANGED <<disk, ready, mem, pending, files, chat, during, amiss>>

Gone == [chat EXCEPT !.open = FALSE, !.body = NoBody]

(* The set(), when the deletion has been logged.  A cleared conversation    *)
(* goes on being shown, without messages.                                   *)
PutBack(t, shown) ==
    IF t.op = "delete" THEN {r \in shown : Owner(r) \notin t.who}
    ELSE Of("contacts", mem.records) \cup Of("conversations", shown)
         \cup {r \in Of("messages", shown) : Owner(r) \notin t.who}

Finish(t) ==
    /\ t.at = "set" /\ Drop(t)
    /\ mem' = [mem EXCEPT !.records = PutBack(t, t.got)]
    /\ Blame(If(PutBack(t, t.got) # PutBack(t, mem.records), "stale"))
    /\ chat' = IF t.op = "delete" THEN Gone ELSE chat
    /\ UNCHANGED <<disk, ready, pending, files, made, during>>

-----------------------------------------------------------------------------
(* Attachments: AttachmentBody asks for its URL when it appears, and again  *)
(* when its message was loaded anew; only the last asking is answered.      *)
Shown(messages) == messages \cap Attachment
Appears(messages, round, rest) ==
    LET shown == Shown(messages)
        asked == shown \ chat.registry
    IN  /\ chat' = [chat EXCEPT !.open = TRUE, !.round = round,
                       !.body = [a \in Attachment |-> IF a \in asked THEN "loading"
                                                      ELSE IF a \in shown THEN "url" ELSE "none"]]
        /\ tasks' = rest \cup {[Task("open", "read") EXCEPT !.number = round, !.ints = {a}]
                                   : a \in asked}

OpenChat ==
    /\ ~mem.locked /\ ~chat.open /\ Appears(Messages(mem.records), chat.round + 1, tasks) /\ Counts(0)
    /\ UNCHANGED <<disk, ready, mem, pending, files, during, amiss>>

CloseChat ==
    /\ chat.open /\ chat' = Gone
    /\ UNCHANGED <<disk, ready, mem, pending, files, tasks, made, during, amiss>>

Alive(t) == chat.open /\ t.number = chat.round
Answers(t, what) == IF Alive(t) THEN [a \in Attachment |-> IF a \in t.ints THEN what ELSE chat.body[a]]
                    ELSE chat.body

getAttachmentBlob(t) ==
    /\ t.at = "read" /\ ready
    /\ IF t.ints \subseteq disk.blobs
       THEN Becomes(t, [t EXCEPT !.at = "decrypt"]) /\ UNCHANGED chat
       ELSE Drop(t) /\ chat' = [chat EXCEPT !.body = Answers(t, "missing")]
    /\ UNCHANGED <<disk, ready, mem, pending, files, made, during, amiss>>

Decrypted(t) ==
    /\ t.at = "decrypt" /\ Drop(t)
    /\ chat' = [chat EXCEPT !.body = Answers(t, "url"), !.registry = @ \cup t.ints,
                            !.live = [a \in Attachment |-> IF a \in t.ints THEN @[a] + 1 ELSE @[a]]]
    /\ Blame(If(mem.locked, "late") \cup If(t.ints \subseteq chat.registry, "twice"))
    /\ UNCHANGED <<disk, ready, mem, pending, files, made, during>>

Revoked == [Gone EXCEPT !.registry = {},
                !.live = [a \in Attachment |-> IF a \in chat.registry THEN @[a] - 1 ELSE @[a]]]

-----------------------------------------------------------------------------
(* lockVault revokes the URLs that are registered.  What a lock does to an  *)
(* import is the subject of VaultLifecycle.                                 *)
Locks == mem' = Locked /\ chat' = Revoked
lockVault ==
    /\ ~mem.locked /\ ~Running("import") /\ Locks /\ Counts(1)
    /\ tasks' = tasks \cup {[Task("log", "log") EXCEPT !.number = made.events + 1]}
    /\ UNCHANGED <<disk, ready, pending, files, during, amiss>>

unlockVault ==
    /\ mem.locked /\ disk.vault /\ ~Running("unlock") /\ Counts(1)
    /\ Starts([Task("unlock", "log") EXCEPT !.number = made.events + 1])
    /\ UNCHANGED <<disk, ready, mem, pending, files, chat, during, amiss>>

(* loadAllData, after an unlock or an import, in one step here: a write that *)
(* could land between its reads is in flight before them (early).           *)
loadAllData(t) ==
    /\ t.at = "load" /\ mem' = Loaded
    /\ IF chat.open THEN Appears(LoadedMessages, chat.round + 1, tasks \ {t})
       ELSE Drop(t) /\ UNCHANGED chat
    /\ Blame(If(pending # {}, "early"))
    /\ UNCHANGED <<disk, ready, pending, files, made, during>>

Reload ==
    /\ Counts(0) /\ tasks' = {} /\ pending' = {} /\ mem' = Locked /\ during' = NoHistory
    /\ ready' = TRUE /\ chat' = [Gone EXCEPT !.registry = {}, !.live = NoUrls]
    /\ Blame(If(pending # {} \/ \E t \in tasks : t.op # "open", "cut"))
    /\ UNCHANGED <<disk, files>>

-----------------------------------------------------------------------------
Step(t) ==
    \/ putEvent(t) \/ ListLog(t) \/ TrimLog(t)
    \/ ListKeys(t) \/ createBackupFile(t)
    \/ openBackupFile(t) \/ dropStorage(t) \/ deleteDatabase(t)
    \/ initStorage(t) \/ RestoreFails(t) \/ Restored(t)
    \/ deleteRecord(t) \/ findConvo(t) \/ listMessageKeys(t) \/ Deleted(t) \/ Finish(t)
    \/ getAttachmentBlob(t) \/ Decrypted(t) \/ loadAllData(t) \/ Throws(t)
    \/ \E r \in t.keys : GetRecord(t, r) \/ Restore(t, r) \/ deleteMessage(t, r)

Next ==
    \/ \E m \in Message : onSecure(m) \/ onIncoming(m)
    \/ \E c \in Contact : deleteContact(c) \/ clearConversation(c)
    \/ \E r \in pending : Lands(r)
    \/ \E f \in files : inAppImport(f)
    \/ exportBackup \/ appendSecurityEvent
    \/ OpenChat \/ CloseChat \/ lockVault \/ unlockVault \/ Reload
    \/ \E t \in tasks : Step(t)

Spec == Init /\ [][Next]_vars

-----------------------------------------------------------------------------
Ways == {"amid", "torn", "straggler", "resurrected", "thrown", "failed", "astray", "stale", "early",
         "cut", "late", "twice"}
Only(ways) == amiss \subseteq ways

(* The values the records, the operations and the chat can hold.            *)
TypeOK ==
    /\ disk.records \subseteq Record /\ disk.blobs \subseteq Attachment /\ disk.log \subseteq Event
    /\ ready \in BOOLEAN /\ pending \subseteq Record /\ files \subseteq SUBSET Record
    /\ mem.records \subseteq Record /\ mem.locked \in BOOLEAN
    /\ \A t \in tasks : t.number \in Nat /\ t.who \subseteq Contact /\ t.got \subseteq Record
    /\ chat.open \in BOOLEAN /\ chat.round \in Nat
    /\ chat.body \in [Attachment -> {"none", "loading", "url", "missing"}]
    /\ chat.registry \subseteq Attachment /\ chat.live \in [Attachment -> Nat]
    /\ made.messages \subseteq Message /\ made.ops \in 0..MaxOps /\ LogLimit + made.ops >= made.events
    /\ amiss \subseteq Ways

(* A backup holds every record that was there all through the export, those *)
(* that are not shown included, and none that never was, whatever was       *)
(* written or deleted while it was read.                                    *)
ExportsAll ==
    \A t \in tasks : t.op = "export" /\ t.at = "seal" =>
        during.always \subseteq t.got /\ t.got \subseteq during.ever

(* Every message on disk has its conversation and its contact, or will have *)
(* them when a write has landed; also in the middle of an import and after  *)
(* one that failed or was cut off.  A file has them too.                    *)
RecordsWhole ==
    /\ Only({"failed", "late", "twice"}) =>
         \A r \in disk.records :
             Needs(r) \subseteq disk.records \cup pending \/ Deleting(Owner(r))
    /\ Only(Ways \ {"torn", "resurrected", "cut", "thrown", "amid", "straggler",
                    "astray"}) =>
         \A f \in files : Whole(f)

(* When the last record is restored, the disk holds what the file holds and *)
(* nothing from before.                                                     *)
ImportReplaces ==
    \A t \in tasks : t.op = "import" /\ t.at = "restore" /\ t.keys = {} =>
        /\ Only(Ways \ {"amid", "resurrected"}) => t.got \subseteq disk.records
        /\ Only(Ways \ {"amid", "straggler"}) => disk.records \subseteq t.got

(* What is loaded of a conversation is its newest part: no message on disk  *)
(* that is newer than one shown is missing from the screen.                 *)
NewestShown ==
    Only({"torn", "late", "twice"}) /\ ~mem.locked /\ ~Running("import") =>
        \A m \in Messages(mem.records), r \in disk.records :
            r[1] = "messages" /\ Owner(r) = ContactOf(m) /\ r[2] > m => r \in mem.records

(* The URL of a decrypted attachment is one that a lock revokes; a shown    *)
(* one is live, and none is live over a locked vault.                       *)
UrlsRevocable ==
    /\ Only(Ways \ {"twice"}) =>
         \A a \in Attachment : chat.live[a] = IF a \in chat.registry THEN 1 ELSE 0
    /\ \A a \in Attachment : chat.body[a] = "url" => chat.live[a] > 0
    /\ Only(Ways \ {"late", "twice"}) /\ mem.locked => chat.live = NoUrls

(* The log is never longer than its limit by more than the events whose     *)
(* trimming is under way or was cut off.                                    *)
LogBounded ==
    Only(Ways \ {"cut", "thrown"}) =>
        Cardinality(disk.log) <= LogLimit + Cardinality({t \in tasks : t.at \in {"logged", "trim"}})

(* What is shown and what is stored, in one formula.                        *)
RecordsAgree == TypeOK /\ NewestShown /\ UrlsRevocable /\ LogBounded

(* Backups hold what was there, and give it back, in one formula.           *)
BackupsRoundTrip == ExportsAll /\ RecordsWhole /\ ImportReplaces

(* However many trim the log at once, an event is deleted only while        *)
(* LogLimit newer ones are there; a wipe aside.  And a record is deleted    *)
(* only by an import whose file was opened, while its own contact is being  *)
(* deleted, or, unless it is a contact, its own conversation cleared.       *)
DeletedForAReason ==
    [][ /\ \A e \in disk.log \ disk'.log :
             Running("import") \/ Cardinality({f \in disk.log : f > e}) >= LogLimit
        /\ \A r \in disk.records \ disk'.records :
             \E t \in tasks :
                 \/ t.op = "import" /\ t.at = "wipe"
                 \/ t.op = "delete" /\ t.who = {Owner(r)}
                 \/ t.op = "clear" /\ t.who = {Owner(r)} /\ r[1] # "contacts" ]_vars
=============================================================================

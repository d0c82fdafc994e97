---------------------------- MODULE BackupsProofs ----------------------------
(***************************************************************************)
(* Theorems about Backups, for any contacts, messages, limits and numbers  *)
(* of operations: what is shown and stored agrees, backups hold what was   *)
(* there and give it back, and nothing is deleted without a reason.        *)
(*                                                                         *)
(* First comes what every action sets (the lemmas ...Sets), so that the    *)
(* later proofs need not expand the actions; then a part of the invariant  *)
(* at a time; at the end the parts are put together (Inv).                 *)
(***************************************************************************)
EXTENDS Backups, FiniteSetTheorems, TLAPS

(* The places an operation can be at.                                       *)
Place == {"contacts", "conversations", "messages", "get", "seal", "open", "null", "wipe", "init",
          "restore", "contact", "identity", "convo", "list", "doomed", "set", "read", "decrypt",
          "log", "logged", "trim", "load"}
Operation == {"export", "import", "delete", "clear", "log", "unlock", "open"}
TaskType == [op : Operation, at : Place, keys : SUBSET Record, got : SUBSET Record, number : Nat,
             ints : SUBSET Nat, who : SUBSET Contact]

(* The values of the variables.                                             *)
StoredTyped ==
    /\ disk \in [records : SUBSET Record, blobs : SUBSET Attachment, log : SUBSET Nat,
                 vault : BOOLEAN]
    /\ ready \in BOOLEAN /\ pending \subseteq Record /\ files \subseteq SUBSET Record
    /\ mem \in [records : SUBSET Record, locked : BOOLEAN]
    /\ made \in [messages : SUBSET Message, events : Nat, ops : Nat]
    /\ during \in [always : SUBSET Record, ever : SUBSET Record]
TasksTyped == tasks \subseteq TaskType /\ IsFiniteSet(tasks)
ChatTyped ==
    /\ chat \in [open : BOOLEAN, round : Nat,
                 body : [Attachment -> {"none", "loading", "url", "missing"}],
                 registry : SUBSET Attachment, live : [Attachment -> Nat]]
    /\ \A a \in chat.registry : chat.live[a] > 0

(* A record, its store and its owner.                                       *)
LEMMA RecordFacts ==
    ASSUME NEW r \in Record
    PROVE  /\ r = <<r[1], r[2]>> /\ r[1] \in Stores /\ Owner(r) \in Contact
           /\ r[1] = "messages" => r[2] \in Message /\ Owner(r) = ContactOf(r[2])
           /\ r[1] # "messages" => r[2] \in Contact /\ Owner(r) = r[2]
<1>1. CASE r \in {"contacts", "conversations"} \X Contact
  BY <1>1 DEF Stores, Owner
<1>2. CASE r \in {"messages"} \X Message
  <2>1. PICK m \in Message : r = <<"messages", m>>
    BY <1>2
  <2>2. r[1] = "messages" /\ r[2] = m
    BY <2>1
  <2>3. ContactOf(m) \in Contact
    BY BackupsAssumption
  <2> QED BY <2>1, <2>2, <2>3 DEF Stores, Owner
<1> QED BY <1>1, <1>2 DEF Record

(* The records of a contact and of a message.                               *)
LEMMA RecordsOf ==
    /\ \A c \in Contact : /\ <<"contacts", c>> \in Record /\ Owner(<<"contacts", c>>) = c
                          /\ <<"conversations", c>> \in Record /\ Owner(<<"conversations", c>>) = c
    /\ \A m \in Message : /\ <<"messages", m>> \in Record
                          /\ Owner(<<"messages", m>>) = ContactOf(m)
  BY BackupsAssumption DEF Record, Owner

(* The messages of records.                                                 *)
LEMMA MessagesAre ==
    ASSUME NEW rs \in SUBSET Record
    PROVE  /\ Messages(rs) \subseteq Message
           /\ \A m \in Message : m \in Messages(rs) <=> <<"messages", m>> \in rs
  BY RecordFacts DEF Messages, Of

(* What is loaded is of the types of what is shown.                         *)
LEMMA LoadedTyped ==
    ASSUME StoredTyped
    PROVE  /\ LoadedMessages \subseteq Message
           /\ Loaded \in [records : SUBSET Record, locked : BOOLEAN]
<1>1. Of("contacts", disk.records) \cup Of("conversations", disk.records) \subseteq Record
  BY DEF StoredTyped, Of
<1>2. ASSUME NEW c \in Contact
      PROVE  ListByPrefix(Messages(About(c, disk.records)), Limit) \subseteq Message
  BY MessagesAre DEF StoredTyped, ListByPrefix, Newest, About
<1>3. \A r \in Of("conversations", disk.records) : r[2] \in Contact
  BY RecordFacts DEF StoredTyped, Of
<1>4. LoadedMessages \subseteq Message
  <2>1. ASSUME NEW m \in LoadedMessages PROVE m \in Message
    BY <1>2, <1>3, <2>1 DEF LoadedMessages
  <2> QED BY <2>1
<1>5. {<<"messages", m>> : m \in LoadedMessages} \subseteq Record
  BY <1>4, RecordsOf
<1>6. Loaded = [records |-> Of("contacts", disk.records) \cup Of("conversations", disk.records)
                            \cup {<<"messages", m>> : m \in LoadedMessages},
                locked |-> FALSE]
  BY DEF Loaded
<1> QED BY <1>1, <1>4, <1>5, <1>6

(* A task moves on, ends or starts.                                         *)
LEMMA Tasking ==
    ASSUME TasksTyped
    PROVE  /\ \A t : \A u \in TaskType : Becomes(t, u) => TasksTyped'
           /\ \A t : Drop(t) => TasksTyped'
           /\ \A u \in TaskType : tasks' = tasks \cup {u} => TasksTyped'
<1>1. ASSUME NEW t, NEW u \in TaskType, Becomes(t, u) PROVE TasksTyped'
  <2>1. IsFiniteSet(tasks \ {t}) /\ IsFiniteSet((tasks \ {t}) \cup {u})
    BY FS_RemoveElement, FS_AddElement DEF TasksTyped
  <2> QED BY <1>1, <2>1 DEF TasksTyped, Becomes
<1>2. ASSUME NEW t, Drop(t) PROVE TasksTyped'
  BY <1>2, FS_RemoveElement DEF TasksTyped, Drop
<1>3. ASSUME NEW u \in TaskType, tasks' = tasks \cup {u} PROVE TasksTyped'
  BY <1>3, FS_AddElement DEF TasksTyped
<1> QED BY <1>1, <1>2, <1>3

(* How a step changes the tasks, the disk, what was made and the history.   *)
Turned(t, at, keys, got, number, ints) ==
    [op |-> t.op, at |-> at, keys |-> keys, got |-> got, number |-> number, ints |-> ints,
     who |-> t.who]
Turns(t, at, keys, got, number, ints) ==
    \E u : /\ u = Turned(t, at, keys, got, number, ints) /\ tasks' = (tasks \ {t}) \cup {u}
          /\ u.op = t.op /\ u.at = at /\ u.keys = keys /\ u.got = got /\ u.number = number
          /\ u.ints = ints /\ u.who = t.who
Begun(op, at, got, number, ints, who) ==
    [op |-> op, at |-> at, keys |-> {}, got |-> got, number |-> number, ints |-> ints, who |-> who]
Begins(op, at, got, number, ints, who) ==
    \E u : /\ u = Begun(op, at, got, number, ints, who) /\ tasks' = tasks \cup {u}
          /\ u.op = op /\ u.at = at /\ u.keys = {} /\ u.got = got /\ u.number = number
          /\ u.ints = ints /\ u.who = who
Asks(rest, round, asked) ==
    /\ tasks' = rest \cup {Begun("open", "read", {}, round, {a}, {}) : a \in asked}
    /\ \A u \in tasks' : \/ u \in rest
                        \/ /\ u.op = "open" /\ u.at = "read" /\ u.keys = {} /\ u.got = {}
                           /\ u.number = round /\ u.who = {} /\ \E a \in asked : u.ints = {a}
LogOver(t) ==
    \/ t.op \in {"import", "unlock"} /\ Turns(t, "load", t.keys, t.got, t.number, {})
    \/ t.op \in {"delete", "clear"} /\ Turns(t, "set", t.keys, t.got, t.number, {})
    \/ t.op \notin {"import", "unlock", "delete", "clear"} /\ Drop(t)
DiskIs(rs, log) ==
    /\ disk' = [records |-> rs, blobs |-> disk.blobs, log |-> log, vault |-> disk.vault]
    /\ disk'.records = rs /\ disk'.log = log
MadeIs(messages, events, ops) ==
    /\ made' = [messages |-> messages, events |-> made.events + events, ops |-> made.ops + ops]
    /\ made'.messages = messages /\ made'.events = made.events + events
    /\ made'.ops = made.ops + ops /\ (ops = 1 => made.ops < MaxOps)
MemIs(records, locked) ==
    /\ mem' = [records |-> records, locked |-> locked]
    /\ mem'.records = records /\ mem'.locked = locked
DuringIs(always, ever) ==
    /\ during' = [always |-> always, ever |-> ever]
    /\ during'.always = always /\ during'.ever = ever
Remembers(rs) ==
    IF Running("export") THEN DuringIs(during.always \cap rs, during.ever \cup rs)
    ELSE UNCHANGED during

(* What a task turns into and what begins, field by field.                  *)
LEMMA Becoming ==
    /\ \A t, at, keys, got, number, ints :
          Becomes(t, Turned(t, at, keys, got, number, ints))
            => Turns(t, at, keys, got, number, ints)
    /\ \A op, at, got, number, ints, who :
          tasks' = tasks \cup {Begun(op, at, got, number, ints, who)}
            => Begins(op, at, got, number, ints, who)
    /\ \A rest, round, asked :
          tasks' = rest \cup {Begun("open", "read", {}, round, {a}, {}) : a \in asked}
            => Asks(rest, round, asked)
<1>1. ASSUME NEW t, NEW at, NEW keys, NEW got, NEW number, NEW ints,
             Becomes(t, Turned(t, at, keys, got, number, ints))
      PROVE  Turns(t, at, keys, got, number, ints)
  <2> DEFINE u == Turned(t, at, keys, got, number, ints)
  <2>1. /\ u.op = t.op /\ u.at = at /\ u.keys = keys /\ u.got = got /\ u.number = number
        /\ u.ints = ints /\ u.who = t.who
    BY DEF Turned
  <2>2. u = Turned(t, at, keys, got, number, ints) /\ tasks' = (tasks \ {t}) \cup {u}
    BY <1>1 DEF Becomes
  <2> HIDE DEF u
  <2> QED BY <2>1, <2>2 DEF Turns
<1>2. ASSUME NEW op, NEW at, NEW got, NEW number, NEW ints, NEW who,
             tasks' = tasks \cup {Begun(op, at, got, number, ints, who)}
      PROVE  Begins(op, at, got, number, ints, who)
  <2> DEFINE u == Begun(op, at, got, number, ints, who)
  <2>1. /\ u.op = op /\ u.at = at /\ u.keys = {} /\ u.got = got /\ u.number = number
        /\ u.ints = ints /\ u.who = who
    BY DEF Begun
  <2>2. u = Begun(op, at, got, number, ints, who) /\ tasks' = tasks \cup {u}
    BY <1>2
  <2> HIDE DEF u
  <2> QED BY <2>1, <2>2 DEF Begins
<1>3. ASSUME NEW rest, NEW round, NEW asked,
             tasks' = rest \cup {Begun("open", "read", {}, round, {a}, {}) : a \in asked}
      PROVE  Asks(rest, round, asked)
  <2>1. \A a : LET u == Begun("open", "read", {}, round, {a}, {}) IN
              /\ u.op = "open" /\ u.at = "read" /\ u.keys = {} /\ u.got = {}
              /\ u.number = round /\ u.who = {} /\ u.ints = {a}
    BY DEF Begun
  <2>2. ASSUME NEW u \in tasks', u \notin rest
        PROVE  /\ u.op = "open" /\ u.at = "read" /\ u.keys = {} /\ u.got = {}
               /\ u.number = round /\ u.who = {} /\ \E a \in asked : u.ints = {a}
    <3>1. PICK a \in asked : u = Begun("open", "read", {}, round, {a}, {})
      BY <1>3, <2>2
    <3> QED BY <2>1, <3>1
  <2> QED BY <1>3, <2>2 DEF Asks
<1> QED BY <1>1, <1>2, <1>3

(* A record that is built, field by field.                                  *)
LEMMA Becomings ==
    /\ \A rs, log : disk' = [records |-> rs, blobs |-> disk.blobs, log |-> log, vault |-> disk.vault]
                   => DiskIs(rs, log)
    /\ \A rs, locked : mem' = [records |-> rs, locked |-> locked] => MemIs(rs, locked)
    /\ \A always, ever : during' = [always |-> always, ever |-> ever] => DuringIs(always, ever)
  BY DEF DiskIs, MemIs, DuringIs

(* A task is what its fields say.                                           *)
LEMMA TaskFields ==
    \A t \in TaskType : t = Turned(t, t.at, t.keys, t.got, t.number, t.ints)
  BY DEF TaskType, Turned

(* A task goes on to another place.                                         *)
LEMMA TurnAt ==
    ASSUME NEW t \in TaskType, NEW at \in Place
    PROVE  [t EXCEPT !.at = at] = Turned(t, at, t.keys, t.got, t.number, t.ints)
<1> DEFINE u == [t EXCEPT !.at = at]
<1>1. u \in TaskType
  BY DEF TaskType
<1>2. /\ u.op = t.op /\ u.at = at /\ u.keys = t.keys /\ u.got = t.got
      /\ u.number = t.number /\ u.ints = t.ints /\ u.who = t.who
  BY DEF TaskType
<1> HIDE DEF u
<1>3. u = Turned(u, u.at, u.keys, u.got, u.number, u.ints)
  BY <1>1, TaskFields
<1>4. u = Turned(t, at, t.keys, t.got, t.number, t.ints)
  BY <1>2, <1>3 DEF Turned
<1> QED
  BY <1>4 DEF u

(* A task goes on to another record.                                        *)
LEMMA TurnKeys ==
    ASSUME NEW t \in TaskType, NEW keys \in SUBSET Record
    PROVE  [t EXCEPT !.keys = keys] = Turned(t, t.at, keys, t.got, t.number, t.ints)
<1> DEFINE u == [t EXCEPT !.keys = keys]
<1>1. u \in TaskType
  BY DEF TaskType
<1>2. /\ u.op = t.op /\ u.at = t.at /\ u.keys = keys /\ u.got = t.got
      /\ u.number = t.number /\ u.ints = t.ints /\ u.who = t.who
  BY DEF TaskType
<1> HIDE DEF u
<1>3. u = Turned(u, u.at, u.keys, u.got, u.number, u.ints)
  BY <1>1, TaskFields
<1>4. u = Turned(t, t.at, keys, t.got, t.number, t.ints)
  BY <1>2, <1>3 DEF Turned
<1> QED
  BY <1>4 DEF u

(* A task goes on to another event.                                         *)
LEMMA TurnInts ==
    ASSUME NEW t \in TaskType, NEW ints \in SUBSET Nat
    PROVE  [t EXCEPT !.ints = ints] = Turned(t, t.at, t.keys, t.got, t.number, ints)
<1> DEFINE u == [t EXCEPT !.ints = ints]
<1>1. u \in TaskType
  BY DEF TaskType
<1>2. /\ u.op = t.op /\ u.at = t.at /\ u.keys = t.keys /\ u.got = t.got
      /\ u.number = t.number /\ u.ints = ints /\ u.who = t.who
  BY DEF TaskType
<1> HIDE DEF u
<1>3. u = Turned(u, u.at, u.keys, u.got, u.number, u.ints)
  BY <1>1, TaskFields
<1>4. u = Turned(t, t.at, t.keys, t.got, t.number, ints)
  BY <1>2, <1>3 DEF Turned
<1> QED
  BY <1>4 DEF u

(* A task has its events.                                                   *)
LEMMA TurnAtInts ==
    ASSUME NEW t \in TaskType, NEW at \in Place, NEW ints \in SUBSET Nat
    PROVE  [t EXCEPT !.at = at, !.ints = ints] = Turned(t, at, t.keys, t.got, t.number, ints)
<1> DEFINE u == [t EXCEPT !.at = at, !.ints = ints]
<1>1. u \in TaskType
  BY DEF TaskType
<1>2. /\ u.op = t.op /\ u.at = at /\ u.keys = t.keys /\ u.got = t.got
      /\ u.number = t.number /\ u.ints = ints /\ u.who = t.who
  BY DEF TaskType
<1> HIDE DEF u
<1>3. u = Turned(u, u.at, u.keys, u.got, u.number, u.ints)
  BY <1>1, TaskFields
<1>4. u = Turned(t, at, t.keys, t.got, t.number, ints)
  BY <1>2, <1>3 DEF Turned
<1> QED
  BY <1>4 DEF u

(* A task goes on with its keys.                                            *)
LEMMA TurnAtKeys ==
    ASSUME NEW t \in TaskType, NEW at \in Place, NEW keys \in SUBSET Record
    PROVE  [t EXCEPT !.at = at, !.keys = keys] = Turned(t, at, keys, t.got, t.number, t.ints)
<1> DEFINE u == [t EXCEPT !.at = at, !.keys = keys]
<1>1. u \in TaskType
  BY DEF TaskType
<1>2. /\ u.op = t.op /\ u.at = at /\ u.keys = keys /\ u.got = t.got
      /\ u.number = t.number /\ u.ints = t.ints /\ u.who = t.who
  BY DEF TaskType
<1> HIDE DEF u
<1>3. u = Turned(u, u.at, u.keys, u.got, u.number, u.ints)
  BY <1>1, TaskFields
<1>4. u = Turned(t, at, keys, t.got, t.number, t.ints)
  BY <1>2, <1>3 DEF Turned
<1> QED
  BY <1>4 DEF u

(* A task has listed its keys.                                              *)
LEMMA TurnKeysAt ==
    ASSUME NEW t \in TaskType, NEW keys \in SUBSET Record, NEW at \in Place
    PROVE  [t EXCEPT !.keys = keys, !.at = at] = Turned(t, at, keys, t.got, t.number, t.ints)
<1> DEFINE u == [t EXCEPT !.keys = keys, !.at = at]
<1>1. u \in TaskType
  BY DEF TaskType
<1>2. /\ u.op = t.op /\ u.at = at /\ u.keys = keys /\ u.got = t.got
      /\ u.number = t.number /\ u.ints = t.ints /\ u.who = t.who
  BY DEF TaskType
<1> HIDE DEF u
<1>3. u = Turned(u, u.at, u.keys, u.got, u.number, u.ints)
  BY <1>1, TaskFields
<1>4. u = Turned(t, at, keys, t.got, t.number, t.ints)
  BY <1>2, <1>3 DEF Turned
<1> QED
  BY <1>4 DEF u

(* A task has read a record.                                                *)
LEMMA TurnKeysGot ==
    ASSUME NEW t \in TaskType, NEW keys \in SUBSET Record, NEW got \in SUBSET Record
    PROVE  [t EXCEPT !.keys = keys, !.got = got] = Turned(t, t.at, keys, got, t.number, t.ints)
<1> DEFINE u == [t EXCEPT !.keys = keys, !.got = got]
<1>1. u \in TaskType
  BY DEF TaskType
<1>2. /\ u.op = t.op /\ u.at = t.at /\ u.keys = keys /\ u.got = got
      /\ u.number = t.number /\ u.ints = t.ints /\ u.who = t.who
  BY DEF TaskType
<1> HIDE DEF u
<1>3. u = Turned(u, u.at, u.keys, u.got, u.number, u.ints)
  BY <1>1, TaskFields
<1>4. u = Turned(t, t.at, keys, got, t.number, t.ints)
  BY <1>2, <1>3 DEF Turned
<1> QED
  BY <1>4 DEF u

(* A task is logged.                                                        *)
LEMMA TurnLog ==
    ASSUME NEW t \in TaskType, NEW number \in Nat
    PROVE  [t EXCEPT !.at = "log", !.number = number] = Turned(t, "log", t.keys, t.got, number, t.ints)
<1> DEFINE u == [t EXCEPT !.at = "log", !.number = number]
<1>1. u \in TaskType
  BY DEF TaskType, Place
<1>2. /\ u.op = t.op /\ u.at = "log" /\ u.keys = t.keys /\ u.got = t.got
      /\ u.number = number /\ u.ints = t.ints /\ u.who = t.who
  BY DEF TaskType
<1> HIDE DEF u
<1>3. u = Turned(u, u.at, u.keys, u.got, u.number, u.ints)
  BY <1>1, TaskFields
<1>4. u = Turned(t, "log", t.keys, t.got, number, t.ints)
  BY <1>2, <1>3 DEF Turned
<1> QED
  BY <1>4 DEF u

(* A task goes on when its log is done.                                     *)
LEMMA LogIsOver ==
    ASSUME NEW t \in TaskType, LogEnds(t)
    PROVE  LogOver(t)
<1>1. {} \in SUBSET Nat /\ "load" \in Place /\ "set" \in Place
  BY DEF Place
<1>2. CASE t.op \in {"import", "unlock"}
  <2>1. Becomes(t, [t EXCEPT !.at = "load", !.ints = {}])
    BY <1>2 DEF LogEnds
  <2>2. Turns(t, "load", t.keys, t.got, t.number, {})
    BY <1>1, <2>1, TurnAtInts, Becoming
  <2> QED BY <1>2, <2>2 DEF LogOver
<1>3. CASE t.op \in {"delete", "clear"}
  <2>1. Becomes(t, [t EXCEPT !.at = "set", !.ints = {}])
    BY <1>3 DEF LogEnds, Deletion
  <2>2. Turns(t, "set", t.keys, t.got, t.number, {})
    BY <1>1, <2>1, TurnAtInts, Becoming
  <2> QED BY <1>3, <2>2 DEF LogOver
<1>4. CASE t.op \notin {"import", "unlock", "delete", "clear"}
  BY <1>4 DEF LogEnds, LogOver, Deletion
<1> QED BY <1>2, <1>3, <1>4

(* A write that nobody awaits, and what it may be amiss with.               *)
LEMMA Writing ==
    ASSUME NEW m, NEW rs, NEW shown, Write(m, rs, shown)
    PROVE  /\ m \notin made.messages /\ m \notin Attachment
           /\ \A n \in made.messages : ContactOf(n) = ContactOf(m) => n < m
           /\ pending' = IF ready THEN pending \cup rs ELSE pending
           /\ mem' = IF shown THEN [mem EXCEPT !.records = @ \cup rs] ELSE mem
           /\ amiss \subseteq amiss'
           /\ Running("import") => "amid" \in amiss'
           /\ ~ready => "thrown" \in amiss'
           /\ \A r \in rs : Deleting(Owner(r)) => "resurrected" \in amiss'
           /\ ~shown => "astray" \in amiss'
           /\ \A r \in rs : Stray(r, rs) => "astray" \in amiss'
           /\ UNCHANGED <<disk, ready, files, tasks, chat, during>>
<1> DEFINE stray == ~shown \/ \E r \in rs : Stray(r, rs)
<1>1. amiss' = amiss \cup ((UNION {Writes(r) : r \in rs}) \cup If(Running("import"), "amid")
             \cup If(~ready, "thrown") \cup If(stray, "astray"))
  BY DEF Write, Blame
<1>2. ASSUME NEW r \in rs, Deleting(Owner(r)) PROVE "resurrected" \in amiss'
  <2>1. Writes(r) = {"resurrected"}
    BY <1>2 DEF Writes, If
  <2> QED BY <1>1, <2>1
<1>3. Running("import") => "amid" \in amiss'
  BY <1>1 DEF If
<1>4. ~ready => "thrown" \in amiss'
  BY <1>1 DEF If
<1>5. stray => "astray" \in amiss'
  <2> HIDE DEF stray
  <2> QED BY <1>1 DEF If
<1>6. amiss \subseteq amiss'
  BY <1>1
<1> QED BY <1>2, <1>3, <1>4, <1>5, <1>6 DEF Write

(* A task at its start.                                                     *)
LEMMA TaskStarts ==
    /\ \A op, at : Task(op, at) = Begun(op, at, {}, 0, {}, {})
    /\ \A f : [Task("import", "open") EXCEPT !.got = f] = Begun("import", "open", f, 0, {}, {})
    /\ \A n : [Task("log", "log") EXCEPT !.number = n] = Begun("log", "log", {}, n, {}, {})
    /\ \A n : [Task("unlock", "log") EXCEPT !.number = n] = Begun("unlock", "log", {}, n, {}, {})
    /\ \A n, i : [Task("open", "read") EXCEPT !.number = n, !.ints = i]
                 = Begun("open", "read", {}, n, i, {})
<1>2. \A f : [Task("import", "open") EXCEPT !.got = f] = Begun("import", "open", f, 0, {}, {})
  BY DEF Task, Begun
<1>3. \A n : [Task("log", "log") EXCEPT !.number = n] = Begun("log", "log", {}, n, {}, {})
  BY DEF Task, Begun
<1>4. \A n : [Task("unlock", "log") EXCEPT !.number = n] = Begun("unlock", "log", {}, n, {}, {})
  BY DEF Task, Begun
<1>5. \A n, i : [Task("open", "read") EXCEPT !.number = n, !.ints = i]
                = Begun("open", "read", {}, n, i, {})
  <2>1. \A n : [Task("open", "read") EXCEPT !.number = n] = Begun("open", "read", {}, n, {}, {})
    BY DEF Task, Begun
  <2>2. \A n, i : [Begun("open", "read", {}, n, {}, {}) EXCEPT !.ints = i]
                  = Begun("open", "read", {}, n, i, {})
    BY DEF Begun
  <2>3. \A n, i : [Task("open", "read") EXCEPT !.number = n, !.ints = i]
                 = [[Task("open", "read") EXCEPT !.number = n] EXCEPT !.ints = i]
    BY DEF Task
  <2> QED BY <2>1, <2>2, <2>3
<1>6. \A op, at : Task(op, at) = Begun(op, at, {}, 0, {}, {})
  BY DEF Task, Begun
<1> QED BY <1>2, <1>3, <1>4, <1>5, <1>6

(* What a task turns into is a task.                                        *)
LEMMA TurnedTyped ==
    ASSUME NEW t \in TaskType, NEW at \in Place, NEW keys \in SUBSET Record,
           NEW got \in SUBSET Record, NEW number \in Nat, NEW ints \in SUBSET Nat
    PROVE  Turned(t, at, keys, got, number, ints) \in TaskType
  BY DEF TaskType, Turned

(* The disk with other records, and with another log.                       *)
LEMMA DiskChanges ==
    ASSUME StoredTyped, NEW rs, NEW log
    PROVE  /\ [disk EXCEPT !.records = rs]
                = [records |-> rs, blobs |-> disk.blobs, log |-> disk.log, vault |-> disk.vault]
           /\ [disk EXCEPT !.log = log]
                = [records |-> disk.records, blobs |-> disk.blobs, log |-> log,
                   vault |-> disk.vault]
           /\ [disk EXCEPT !.vault = TRUE]
                = [records |-> disk.records, blobs |-> disk.blobs, log |-> disk.log, vault |-> TRUE]
<1>1. \A x : [disk EXCEPT !.records = x]
        = [records |-> x, blobs |-> disk.blobs, log |-> disk.log, vault |-> disk.vault]
  BY DEF StoredTyped
<1>2. \A x : [disk EXCEPT !.log = x]
        = [records |-> disk.records, blobs |-> disk.blobs, log |-> x, vault |-> disk.vault]
  BY DEF StoredTyped
<1>3. \A x : [disk EXCEPT !.vault = x]
        = [records |-> disk.records, blobs |-> disk.blobs, log |-> disk.log, vault |-> x]
  BY DEF StoredTyped
<1> QED BY <1>1, <1>2, <1>3

(* What was made, and counted.                                              *)
LEMMA Counting ==
    ASSUME StoredTyped
    PROVE  /\ made.events \in Nat /\ made.ops \in Nat
           /\ \A n \in Nat : Counts(n) => MadeIs(made.messages, n, 1)
           /\ made' = [made EXCEPT !.events = @ + 1] => MadeIs(made.messages, 1, 0)
           /\ \A m : made' = [made EXCEPT !.messages = @ \cup {m}]
                     => MadeIs(made.messages \cup {m}, 0, 0)
<1>1. made \in [messages : SUBSET Message, events : Nat, ops : Nat]
  BY DEF StoredTyped
<1>2. ASSUME NEW n \in Nat, Counts(n) PROVE MadeIs(made.messages, n, 1)
  <2>1. made.ops < MaxOps /\ made' = [made EXCEPT !.ops = @ + 1, !.events = @ + n]
    BY <1>2 DEF Counts
  <2>2. made' \in [messages : SUBSET Message, events : Nat, ops : Nat]
    <3>1. made.ops + 1 \in Nat /\ made.events + n \in Nat
      BY <1>1
    <3>2. \A a, b \in Nat : [made EXCEPT !.ops = a, !.events = b]
                            \in [messages : SUBSET Message, events : Nat, ops : Nat]
      BY <1>1
    <3> QED BY <2>1, <3>1, <3>2
  <2>3. /\ made'.messages = made.messages /\ made'.events = made.events + n
        /\ made'.ops = made.ops + 1
    BY <1>1, <2>1
  <2>4. made' = [messages |-> made'.messages, events |-> made'.events, ops |-> made'.ops]
    BY <2>2
  <2> QED BY <2>1, <2>3, <2>4 DEF MadeIs
<1>3. \A x : [made EXCEPT !.events = x]
               = [messages |-> made.messages, events |-> x, ops |-> made.ops]
  BY <1>1
<1>4. \A x : [made EXCEPT !.messages = x]
               = [messages |-> x, events |-> made.events, ops |-> made.ops]
  BY <1>1
<1>5. made.events + 0 = made.events /\ made.ops + 0 = made.ops
  BY <1>1
<1> QED BY <1>1, <1>2, <1>3, <1>4, <1>5 DEF MadeIs

(* A message is stored, and shown with what it came with if it is shown.    *)
LEMMA MessageSets ==
    ASSUME StoredTyped, TasksTyped, NEW m \in Message, onSecure(m) \/ onIncoming(m)
    PROVE  /\ m \notin made.messages
           /\ \A n \in made.messages : ContactOf(n) = ContactOf(m) => n < m
           /\ ContactOf(m) \in Contact
           /\ MadeIs(made.messages \cup {m}, 0, 0)
           /\ amiss \subseteq amiss'
           /\ Running("import") => "amid" \in amiss'
           /\ Deleting(ContactOf(m)) => "resurrected" \in amiss'
           /\ ~ready => "thrown" \in amiss'
           /\ \E ws \in SUBSET Record :
                /\ <<"messages", m>> \in ws
                /\ \A r \in ws :
                     /\ Owner(r) = ContactOf(m)
                     /\ r[1] = "messages" => r = <<"messages", m>>
                     /\ Stray(r, ws) => "astray" \in amiss'
                /\ Needs(<<"messages", m>>) \subseteq mem.records \cup ws \/ "astray" \in amiss'
                /\ \/ MemIs(mem.records \cup ws, mem.locked)
                   \/ MemIs(mem.records, mem.locked) /\ "astray" \in amiss'
                /\ pending' = IF ready THEN pending \cup ws ELSE pending
           /\ UNCHANGED <<disk, ready, files, tasks, chat, during>>
<1> DEFINE c == ContactOf(m)
           secure == {<<"contacts", c>>, <<"messages", m>>} \cup ({<<"conversations", c>>} \ mem.records)
           known == Needs(<<"messages", m>>) \subseteq mem.records
           incoming == {<<"messages", m>>} \cup (IF known THEN {<<"conversations", c>>} ELSE {})
           all == {<<"contacts", c>>, <<"conversations", c>>, <<"messages", m>>}
<1>1. c \in Contact
  BY BackupsAssumption
<1>2. \A r \in all :
        /\ r \in Record /\ Owner(r) = c
        /\ r[1] = "messages" => r = <<"messages", m>>
  <2>1. <<"contacts", c>>[1] = "contacts" /\ <<"conversations", c>>[1] = "conversations"
    OBVIOUS
  <2> QED BY <1>1, <2>1, RecordsOf
<1>3. Needs(<<"messages", m>>) = {<<"contacts", c>>, <<"conversations", c>>}
  BY RecordsOf DEF Needs
<1>4. mem \in [records : SUBSET Record, locked : BOOLEAN]
  BY DEF StoredTyped
<1>5. \A x : [mem EXCEPT !.records = x] = [records |-> x, locked |-> mem.locked]
  BY <1>4
<1>6. mem = [records |-> mem.records, locked |-> mem.locked]
  BY <1>4
<1>7. PICK rs \in SUBSET all, shown \in BOOLEAN :
        /\ Write(m, rs, shown) /\ <<"messages", m>> \in rs
        /\ shown => Needs(<<"messages", m>>) \subseteq mem.records \cup rs
  <2>1. CASE onSecure(m)
    <3>1. Write(m, secure, TRUE)
      BY <2>1 DEF onSecure
    <3>2. secure \in SUBSET all /\ <<"messages", m>> \in secure
      OBVIOUS
    <3>3. Needs(<<"messages", m>>) \subseteq mem.records \cup secure
      BY <1>3
    <3> HIDE DEF secure, all
    <3> QED BY <3>1, <3>2, <3>3
  <2>2. CASE onIncoming(m)
    <3>1. Write(m, incoming, known)
      BY <2>2 DEF onIncoming
    <3>2. incoming \in SUBSET all /\ <<"messages", m>> \in incoming
      OBVIOUS
    <3>3. known \in BOOLEAN
      OBVIOUS
    <3>4. known => Needs(<<"messages", m>>) \subseteq mem.records \cup incoming
      OBVIOUS
    <3> HIDE DEF incoming, all, known
    <3> QED BY <3>1, <3>2, <3>3, <3>4
  <2> QED BY <2>1, <2>2
<1>8. MadeIs(made.messages \cup {m}, 0, 0)
  BY <1>7, Counting DEF Write
<1> HIDE DEF all
<1>9. MemIs(mem.records \cup rs, mem.locked) \/ (MemIs(mem.records, mem.locked) /\ ~shown)
  <2>1. CASE shown
    <3>1. mem' = [mem EXCEPT !.records = mem.records \cup rs]
      BY <1>7, <2>1, Writing
    <3>2. mem' = [records |-> mem.records \cup rs, locked |-> mem.locked]
      BY <1>5, <3>1
    <3> QED BY <3>2, Becomings
  <2>2. CASE ~shown
    <3>1. mem' = mem
      BY <1>7, <2>2, Writing
    <3> QED BY <1>6, <2>2, <3>1, Becomings
  <2> QED BY <2>1, <2>2
<1>10. Deleting(c) => "resurrected" \in amiss'
  <2>1. <<"messages", m>> \in rs /\ Owner(<<"messages", m>>) = c
    BY <1>7, RecordsOf
  <2>2. \A r \in rs : Deleting(Owner(r)) => "resurrected" \in amiss'
    BY <1>7, Writing
  <2> QED BY <2>1, <2>2
<1>11. /\ m \notin made.messages
       /\ \A n \in made.messages : ContactOf(n) = ContactOf(m) => n < m
       /\ amiss \subseteq amiss'
       /\ Running("import") => "amid" \in amiss'
       /\ ~ready => "thrown" \in amiss'
       /\ ~shown => "astray" \in amiss'
       /\ \A r \in rs : Stray(r, rs) => "astray" \in amiss'
       /\ pending' = IF ready THEN pending \cup rs ELSE pending
       /\ UNCHANGED <<disk, ready, files, tasks, chat, during>>
  BY <1>7, Writing
<1>12. rs \in SUBSET Record
  BY <1>2, <1>7
<1>13. \A r \in rs :
         /\ Owner(r) = ContactOf(m)
         /\ r[1] = "messages" => r = <<"messages", m>>
         /\ Stray(r, rs) => "astray" \in amiss'
  BY <1>2, <1>7, <1>11
<1>14. Needs(<<"messages", m>>) \subseteq mem.records \cup rs \/ "astray" \in amiss'
  BY <1>7, <1>11
<1>15. \/ MemIs(mem.records \cup rs, mem.locked)
       \/ MemIs(mem.records, mem.locked) /\ "astray" \in amiss'
  BY <1>9, <1>11
<1>16. /\ <<"messages", m>> \in rs
       /\ pending' = IF ready THEN pending \cup rs ELSE pending
  BY <1>7, <1>11
<1> QED
  <2>1. \E x \in SUBSET Record :
          /\ <<"messages", m>> \in x
          /\ \A r \in x :
               /\ Owner(r) = ContactOf(m)
               /\ r[1] = "messages" => r = <<"messages", m>>
               /\ Stray(r, x) => "astray" \in amiss'
          /\ Needs(<<"messages", m>>) \subseteq mem.records \cup x \/ "astray" \in amiss'
          /\ \/ MemIs(mem.records \cup x, mem.locked)
             \/ MemIs(mem.records, mem.locked) /\ "astray" \in amiss'
          /\ pending' = IF ready THEN pending \cup x ELSE pending
    <3> WITNESS rs \in SUBSET Record
    <3> QED BY <1>13, <1>14, <1>15, <1>16
  <2>2. (Deleting(ContactOf(m)) => "resurrected" \in amiss') /\ ContactOf(m) \in Contact
    BY <1>1, <1>10
  <2> QED BY <1>8, <1>11, <2>1, <2>2

(* A deletion begins.                                                       *)
LEMMA DeleteSets ==
    ASSUME StoredTyped, TasksTyped, NEW c \in Contact, deleteContact(c) \/ clearConversation(c)
    PROVE  /\ ~mem.locked /\ made.ops \in Nat
           /\ \/ Begins("delete", "contact", mem.records, made.ops, {}, {c})
              \/ Begins("clear", "convo", mem.records, made.ops, {}, {c})
           /\ MadeIs(made.messages, 0, 1)
           /\ amiss \subseteq amiss'
           /\ About(c, pending) # {} => "resurrected" \in amiss'
           /\ Running("import") => "amid" \in amiss'
           /\ UNCHANGED <<disk, ready, mem, pending, files, chat, during>>
<1>1. ASSUME NEW op, NEW at, Deletes(op, at, c)
      PROVE  /\ ~mem.locked
             /\ Begins(op, at, mem.records, made.ops, {}, {c})
             /\ MadeIs(made.messages, 0, 1)
             /\ amiss \subseteq amiss'
             /\ About(c, pending) # {} => "resurrected" \in amiss'
             /\ Running("import") => "amid" \in amiss'
             /\ UNCHANGED <<disk, ready, mem, pending, files, chat, during>>
  <2>1. [Task(op, at) EXCEPT !.number = made.ops, !.got = mem.records, !.who = {c}]
          = Begun(op, at, mem.records, made.ops, {}, {c})
    <3> DEFINE u == [Task(op, at) EXCEPT !.number = made.ops, !.got = mem.records, !.who = {c}]
    <3>1. u \in [op : {op}, at : {at}, keys : {{}}, got : {mem.records}, number : {made.ops},
                 ints : {{}}, who : {{c}}]
      BY DEF Task
    <3> HIDE DEF u
    <3>2. u = Begun(op, at, mem.records, made.ops, {}, {c})
      BY <3>1 DEF Begun
    <3> QED BY <3>2 DEF u
  <2>2. tasks' = tasks \cup {Begun(op, at, mem.records, made.ops, {}, {c})}
    BY <1>1, <2>1 DEF Deletes, Starts
  <2>3. Begins(op, at, mem.records, made.ops, {}, {c})
    BY <2>2, Becoming
  <2>4. MadeIs(made.messages, 0, 1)
    BY <1>1, Counting DEF Deletes
  <2> QED BY <1>1, <2>3, <2>4 DEF Deletes, Blame, If
<1>2. made.ops \in Nat
  BY DEF StoredTyped
<1>3. CASE deleteContact(c)
  <2>1. Deletes("delete", "contact", c)
    BY <1>3 DEF deleteContact
  <2> QED BY <1>1, <1>2, <2>1
<1>4. CASE clearConversation(c)
  <2>1. Deletes("clear", "convo", c)
    BY <1>4 DEF clearConversation
  <2> QED BY <1>1, <1>2, <2>1
<1> QED BY <1>3, <1>4

(* A write lands on the disk.                                               *)
LEMMA LandsSets ==
    ASSUME StoredTyped, TasksTyped, NEW r \in pending, Lands(r)
    PROVE  /\ r \in Record
           /\ pending' = pending \ {r}
           /\ DiskIs(disk.records \cup {r}, disk.log)
           /\ Remembers(disk.records \cup {r})
           /\ amiss \subseteq amiss'
           /\ Deleting(Owner(r)) => "resurrected" \in amiss'
           /\ UNCHANGED <<ready, mem, files, tasks, chat, made>>
  BY DiskChanges, Becomings DEF Lands, Records, Blame, If, Remembers, StoredTyped

(* An import begins with a file.                                            *)
LEMMA ImportSets ==
    ASSUME StoredTyped, TasksTyped, NEW f \in files, inAppImport(f)
    PROVE  /\ ~mem.locked /\ ~Running("import")
           /\ Begins("import", "open", f, 0, {}, {})
           /\ MadeIs(made.messages, 0, 1)
           /\ UNCHANGED <<disk, ready, mem, pending, files, chat, during, amiss>>
<1>1. [Task("import", "open") EXCEPT !.got = f] = Begun("import", "open", f, 0, {}, {})
  BY TaskStarts
<1> QED
  BY <1>1, Counting, Becoming DEF inAppImport, Starts

(* An export begins, and its history.                                       *)
LEMMA ExportSets ==
    ASSUME StoredTyped, TasksTyped, exportBackup
    PROVE  /\ ~mem.locked /\ ~Running("export")
           /\ Begins("export", "contacts", {}, 0, {}, {})
           /\ MadeIs(made.messages, 0, 1)
           /\ DuringIs(disk.records, disk.records)
           /\ UNCHANGED <<disk, ready, mem, pending, files, chat, amiss>>
<1>1. Task("export", "contacts") = Begun("export", "contacts", {}, 0, {}, {})
  BY TaskStarts
<1> QED
  BY <1>1, Counting, Becoming, Becomings DEF exportBackup, Starts

(* An event is logged on its own.                                           *)
LEMMA AppendSets ==
    ASSUME StoredTyped, TasksTyped, appendSecurityEvent
    PROVE  /\ Begins("log", "log", {}, made.events + 1, {}, {})
           /\ MadeIs(made.messages, 1, 1)
           /\ UNCHANGED <<disk, ready, mem, pending, files, chat, during, amiss>>
<1>1. [Task("log", "log") EXCEPT !.number = made.events + 1]
        = Begun("log", "log", {}, made.events + 1, {}, {})
  BY TaskStarts
<1> QED
  BY <1>1, Counting, Becoming DEF appendSecurityEvent, Starts

(* The chat opens and asks for its attachments.                             *)
LEMMA OpenSets ==
    ASSUME StoredTyped, TasksTyped, OpenChat
    PROVE  /\ ~mem.locked /\ ~chat.open
           /\ \E asked \in SUBSET Attachment : Asks(tasks, chat.round + 1, asked)
           /\ MadeIs(made.messages, 0, 1)
           /\ UNCHANGED <<disk, ready, mem, pending, files, during, amiss>>
<1>1. PICK asked \in SUBSET Attachment :
        tasks' = tasks \cup {[Task("open", "read") EXCEPT !.number = chat.round + 1, !.ints = {a}]
                                : a \in asked}
  BY DEF OpenChat, Appears, Shown
<1>2. Asks(tasks, chat.round + 1, asked)
  <2> DEFINE X(a) == [Task("open", "read") EXCEPT !.number = chat.round + 1, !.ints = {a}]
             Y(a) == Begun("open", "read", {}, chat.round + 1, {a}, {})
  <2>1. \A a : X(a) = Y(a)
    BY TaskStarts
  <2>2. tasks' = tasks \cup {X(a) : a \in asked}
    BY <1>1
  <2> HIDE DEF X, Y
  <2>3. tasks' = tasks \cup {Y(a) : a \in asked}
    BY <2>1, <2>2
  <2> QED BY <2>3, Becoming DEF Y
<1> QED
  BY <1>2, Counting DEF OpenChat

(* The chat closes.                                                         *)
LEMMA CloseSets ==
    ASSUME StoredTyped, TasksTyped, CloseChat
    PROVE  /\ UNCHANGED <<disk, ready, mem, pending, files, tasks, made, during, amiss>>
  BY DEF CloseChat

(* A lock forgets what is shown and logs it.                                *)
LEMMA LockSets ==
    ASSUME StoredTyped, TasksTyped, lockVault
    PROVE  /\ ~mem.locked /\ ~Running("import")
           /\ MemIs({}, TRUE)
           /\ Begins("log", "log", {}, made.events + 1, {}, {})
           /\ MadeIs(made.messages, 1, 1)
           /\ UNCHANGED <<disk, ready, pending, files, during, amiss>>
<1>1. [Task("log", "log") EXCEPT !.number = made.events + 1]
        = Begun("log", "log", {}, made.events + 1, {}, {})
  BY TaskStarts
<1> QED
  BY <1>1, Counting, Becoming, Becomings DEF lockVault, Locks, Locked

(* An unlock logs itself before it loads.                                   *)
LEMMA UnlockSets ==
    ASSUME StoredTyped, TasksTyped, unlockVault
    PROVE  /\ mem.locked
           /\ Begins("unlock", "log", {}, made.events + 1, {}, {})
           /\ MadeIs(made.messages, 1, 1)
           /\ UNCHANGED <<disk, ready, mem, pending, files, chat, during, amiss>>
<1>1. [Task("unlock", "log") EXCEPT !.number = made.events + 1]
        = Begun("unlock", "log", {}, made.events + 1, {}, {})
  BY TaskStarts
<1> QED
  BY <1>1, Counting, Becoming DEF unlockVault, Starts

(* The page is loaded anew.                                                 *)
LEMMA ReloadSets ==
    ASSUME StoredTyped, TasksTyped, Reload
    PROVE  /\ tasks' = {} /\ pending' = {} /\ ready' = TRUE
           /\ MemIs({}, TRUE)
           /\ DuringIs({}, {})
           /\ MadeIs(made.messages, 0, 1)
           /\ amiss \subseteq amiss'
           /\ pending # {} => "cut" \in amiss'
           /\ (\E t \in tasks : t.op # "open") => "cut" \in amiss'
           /\ UNCHANGED <<disk, files>>
  BY Counting, Becomings DEF Reload, Locked, NoHistory, Blame, If, StoredTyped

(* An event is put in the log.                                              *)
LEMMA PutSets ==
    ASSUME StoredTyped, TasksTyped, NEW t \in tasks, putEvent(t)
    PROVE  /\ t.at = "log"
           /\ DiskIs(disk.records, disk.log \cup {t.number})
           /\ Turns(t, "logged", t.keys, t.got, t.number, t.ints)
           /\ UNCHANGED <<ready, mem, pending, files, chat, made, during, amiss>>
<1>1. /\ t \in TaskType /\ t.keys \in SUBSET Record /\ t.got \in SUBSET Record
      /\ t.number \in Nat /\ t.ints \in SUBSET Nat /\ t.at \in Place
      /\ disk.records \in SUBSET Record /\ disk.log \in SUBSET Nat /\ made.events \in Nat
  BY DEF TasksTyped, TaskType, StoredTyped
<1>2. [t EXCEPT !.at = "logged"] = Turned(t, "logged", t.keys, t.got, t.number, t.ints)
  BY <1>1, TurnAt DEF Place
<1> QED
  BY <1>1, <1>2, DiskChanges, Becoming, Becomings DEF putEvent, Unlogged, Becomes

(* The log is listed, and there is something to trim or not.                *)
LEMMA ListLogSets ==
    ASSUME StoredTyped, TasksTyped, NEW t \in tasks, ListLog(t)
    PROVE  /\ t.at = "logged"
           /\ \/ Surplus(disk.log) = {} /\ LogOver(t)
              \/ /\ Surplus(disk.log) # {}
                 /\ Turns(t, "trim", t.keys, t.got, t.number, Surplus(disk.log))
           /\ UNCHANGED disk
           /\ UNCHANGED <<ready, mem, pending, files, chat, made, during, amiss>>
<1> DEFINE ints == Surplus(disk.log)
<1>1. t \in TaskType /\ ints \in SUBSET Nat /\ "trim" \in Place
  BY DEF TasksTyped, TaskType, StoredTyped, Surplus, Oldest, Place
<1>2. /\ t.at = "logged" /\ UNCHANGED disk
      /\ IF ints = {} THEN LogEnds(t) ELSE Becomes(t, [t EXCEPT !.at = "trim", !.ints = ints])
      /\ UNCHANGED <<ready, mem, pending, files, chat, made, during, amiss>>
  BY DEF ListLog, Unlogged
<1> HIDE DEF ints
<1>3. [t EXCEPT !.at = "trim", !.ints = ints] = Turned(t, "trim", t.keys, t.got, t.number, ints)
  BY <1>1, TurnAtInts
<1>4. LogEnds(t) => LogOver(t)
  BY <1>1, LogIsOver
<1> QED
  BY <1>2, <1>3, <1>4, Becoming DEF ints

(* The oldest of what is to be trimmed is deleted.                          *)
LEMMA TrimSets ==
    ASSUME StoredTyped, TasksTyped, NEW t \in tasks, TrimLog(t)
    PROVE  /\ t.at = "trim"
           /\ \E e \in t.ints :
                /\ \A k \in t.ints : e <= k
                /\ DiskIs(disk.records, disk.log \ {e})
                /\ \/ t.ints = {e} /\ LogOver(t)
                   \/ t.ints # {e} /\ Turns(t, "trim", t.keys, t.got, t.number, t.ints \ {e})
           /\ UNCHANGED <<ready, mem, pending, files, chat, made, during, amiss>>
<1>1. t \in TaskType /\ t.ints \in SUBSET Nat /\ t.at = "trim"
  BY DEF TasksTyped, TaskType, TrimLog
<1>2. PICK e \in t.ints :
        /\ \A k \in t.ints : e <= k
        /\ disk' = [disk EXCEPT !.log = @ \ {e}]
        /\ IF t.ints = {e} THEN LogEnds(t) ELSE Becomes(t, [t EXCEPT !.ints = @ \ {e}])
  BY DEF TrimLog
<1>3. DiskIs(disk.records, disk.log \ {e})
  BY <1>2, DiskChanges, Becomings
<1>4. [t EXCEPT !.ints = t.ints \ {e}] = Turned(t, t.at, t.keys, t.got, t.number, t.ints \ {e})
  BY <1>1, TurnInts
<1>5. LogEnds(t) => LogOver(t)
  BY <1>1, LogIsOver
<1>6. /\ \/ t.ints = {e} /\ LogOver(t)
         \/ t.ints # {e} /\ Turns(t, "trim", t.keys, t.got, t.number, t.ints \ {e})
  BY <1>1, <1>2, <1>4, <1>5, Becoming
<1>7. UNCHANGED <<ready, mem, pending, files, chat, made, during, amiss>>
  BY DEF TrimLog, Unlogged
<1> QED
  BY <1>1, <1>2, <1>3, <1>6, <1>7

(* An export lists a store.                                                 *)
LEMMA ListKeysSets ==
    ASSUME StoredTyped, TasksTyped, NEW t \in tasks, ListKeys(t)
    PROVE  /\ t.op = "export" /\ t.at \in Stores /\ t.keys = {}
           /\ \/ /\ Of(t.at, disk.records) = {}
                 /\ Turns(t, After(t.at), {}, t.got, t.number, t.ints)
              \/ /\ Of(t.at, disk.records) # {}
                 /\ Turns(t, "get", Of(t.at, disk.records), t.got, t.number, t.ints)
           /\ UNCHANGED <<disk, ready, mem, pending, files, chat, made, during, amiss>>
<1>1. /\ t \in TaskType /\ t.keys \in SUBSET Record /\ t.got \in SUBSET Record
      /\ t.number \in Nat /\ t.ints \in SUBSET Nat /\ t.at \in Place
      /\ disk.records \in SUBSET Record /\ disk.log \in SUBSET Nat /\ made.events \in Nat
  BY DEF TasksTyped, TaskType, StoredTyped
<1>2. t.at \in Stores => [t EXCEPT !.at = After(t.at)] = Turned(t, After(t.at), t.keys, t.got, t.number, t.ints)
  BY <1>1, TurnAt DEF Place, After, Stores, Of
<1>3. [t EXCEPT !.keys = Of(t.at, disk.records), !.at = "get"] = Turned(t, "get", Of(t.at, disk.records), t.got, t.number, t.ints)
  BY <1>1, TurnKeysAt DEF Place, Of, About
<1> QED
  BY <1>1, <1>2, <1>3, Becoming DEF ListKeys, Keys, Becomes

(* An export reads a record, if it is still there.                          *)
LEMMA GetSets ==
    ASSUME StoredTyped, TasksTyped, NEW t \in tasks, NEW r \in t.keys, GetRecord(t, r)
    PROVE  /\ t.op = "export" /\ t.at = "get" /\ r \in Record
           /\ Turns(t, IF t.keys = {r} THEN After(r[1]) ELSE "get", t.keys \ {r},
                    t.got \cup ({r} \cap disk.records), t.number, t.ints)
           /\ UNCHANGED <<disk, ready, mem, pending, files, chat, made, during, amiss>>
<1> DEFINE found == t.got \cup ({r} \cap disk.records)
           u == [t EXCEPT !.keys = t.keys \ {r}, !.got = found]
<1>1. /\ t \in TaskType /\ t.keys \in SUBSET Record /\ t.keys \ {r} \in SUBSET Record
      /\ found \in SUBSET Record /\ t.number \in Nat /\ t.ints \in SUBSET Nat /\ t.at \in Place
      /\ r \in Record
  BY DEF TasksTyped, TaskType, StoredTyped
<1>2. After(r[1]) \in Place
  BY <1>1, RecordFacts DEF After, Stores, Place
<1>3. t.op = "export" /\ t.at = "get"
  BY DEF GetRecord
<1>4. /\ tasks' = (tasks \ {t}) \cup {IF u.keys = {} THEN [u EXCEPT !.at = After(r[1])] ELSE u}
      /\ UNCHANGED <<disk, ready, mem, pending, files, chat, made, during, amiss>>
  BY DEF GetRecord, Becomes
<1> HIDE DEF found
<1>5. u = Turned(t, t.at, t.keys \ {r}, found, t.number, t.ints)
  BY <1>1, TurnKeysGot
<1>6. u \in TaskType
  BY <1>1, <1>5, TurnedTyped
<1> HIDE DEF u
<1>7. [u EXCEPT !.at = After(r[1])] = Turned(u, After(r[1]), u.keys, u.got, u.number, u.ints)
  BY <1>2, <1>6, TurnAt
<1>8. /\ u.op = t.op /\ u.keys = t.keys \ {r} /\ u.got = found /\ u.number = t.number
      /\ u.ints = t.ints /\ u.who = t.who
  BY <1>5 DEF Turned
<1>9. [u EXCEPT !.at = After(r[1])] = Turned(t, After(r[1]), t.keys \ {r}, found, t.number, t.ints)
  BY <1>7, <1>8 DEF Turned
<1>10. Turns(t, IF t.keys = {r} THEN After(r[1]) ELSE "get", t.keys \ {r}, found, t.number, t.ints)
  <2>1. u.keys = {} <=> t.keys = {r}
    BY <1>8
  <2>2. Becomes(t, Turned(t, IF t.keys = {r} THEN After(r[1]) ELSE "get", t.keys \ {r}, found,
                           t.number, t.ints))
    BY <1>3, <1>4, <1>5, <1>9, <2>1 DEF Becomes
  <2> QED BY <2>2, Becoming
<1> QED
  BY <1>1, <1>3, <1>4, <1>10 DEF found

(* An export has its file.                                                  *)
LEMMA SealSets ==
    ASSUME StoredTyped, TasksTyped, NEW t \in tasks, createBackupFile(t)
    PROVE  /\ t.at = "seal"
           /\ Turns(t, "log", t.keys, t.got, made.events + 1, t.ints)
           /\ MadeIs(made.messages, 1, 0)
           /\ files' = files \cup {t.got}
           /\ DuringIs({}, {})
           /\ amiss \subseteq amiss'
           /\ during.always # during.ever => "torn" \in amiss'
           /\ pending # {} => "torn" \in amiss'
           /\ (\E u \in tasks : u.op \in Deletion) => "torn" \in amiss'
           /\ UNCHANGED <<disk, ready, mem, pending, chat>>
<1>1. /\ t \in TaskType /\ t.keys \in SUBSET Record /\ t.got \in SUBSET Record
      /\ t.number \in Nat /\ t.ints \in SUBSET Nat /\ t.at \in Place
      /\ disk.records \in SUBSET Record /\ disk.log \in SUBSET Nat /\ made.events \in Nat
      /\ {} \in SUBSET Nat /\ {} \in SUBSET Record /\ made.events + 1 \in Nat /\ "log" \in Place /\ "load" \in Place
  BY DEF TasksTyped, TaskType, StoredTyped, Place
<1>2. [t EXCEPT !.at = "log", !.number = made.events + 1] = Turned(t, "log", t.keys, t.got, made.events + 1, t.ints)
  BY <1>1, TurnLog DEF Place
<1> QED
  BY <1>1, <1>2, Counting, Becoming, Becomings DEF createBackupFile, Logs, downloadJsonFile, NoHistory, Blame, If, Becomes

(* An import opens its file, or not.                                        *)
LEMMA OpenFileSets ==
    ASSUME StoredTyped, TasksTyped, NEW t \in tasks, openBackupFile(t)
    PROVE  /\ t.at = "open"
           /\ Drop(t) \/ Turns(t, "null", t.keys, t.got, t.number, t.ints)
           /\ UNCHANGED <<disk, ready, mem, pending, files, chat, made, during, amiss>>
<1>1. /\ t \in TaskType /\ t.keys \in SUBSET Record /\ t.got \in SUBSET Record
      /\ t.number \in Nat /\ t.ints \in SUBSET Nat /\ t.at \in Place
      /\ disk.records \in SUBSET Record /\ disk.log \in SUBSET Nat /\ made.events \in Nat
  BY DEF TasksTyped, TaskType, StoredTyped
<1>2. [t EXCEPT !.at = "null"] = Turned(t, "null", t.keys, t.got, t.number, t.ints)
  BY <1>1, TurnAt DEF Place
<1> QED
  BY <1>1, <1>2, Becoming DEF openBackupFile, Asleep, Becomes

(* An import closes the storage.                                            *)
LEMMA DropStorageSets ==
    ASSUME StoredTyped, TasksTyped, NEW t \in tasks, dropStorage(t)
    PROVE  /\ t.at = "null" /\ ready' = FALSE
           /\ Turns(t, "wipe", t.keys, t.got, t.number, t.ints)
           /\ UNCHANGED <<disk, mem, pending, files, chat, made, during, amiss>>
<1>1. /\ t \in TaskType /\ t.keys \in SUBSET Record /\ t.got \in SUBSET Record
      /\ t.number \in Nat /\ t.ints \in SUBSET Nat /\ t.at \in Place
      /\ disk.records \in SUBSET Record /\ disk.log \in SUBSET Nat /\ made.events \in Nat
  BY DEF TasksTyped, TaskType, StoredTyped
<1>2. [t EXCEPT !.at = "wipe"] = Turned(t, "wipe", t.keys, t.got, t.number, t.ints)
  BY <1>1, TurnAt DEF Place
<1> QED
  BY <1>1, <1>2, Becoming DEF dropStorage, Asleep, Becomes

(* An import wipes the disk.                                                *)
LEMMA WipeSets ==
    ASSUME StoredTyped, TasksTyped, NEW t \in tasks, deleteDatabase(t)
    PROVE  /\ t.at = "wipe"
           /\ Turns(t, "init", t.keys, t.got, t.number, t.ints)
           /\ disk' = [records |-> {}, blobs |-> {}, log |-> {}, vault |-> FALSE]
           /\ DuringIs({}, during.ever)
           /\ amiss \subseteq amiss'
           /\ pending # {} => "straggler" \in amiss'
           /\ (\E u \in tasks : u.op \in Deletion) => "amid" \in amiss'
           /\ UNCHANGED <<ready, mem, pending, files, chat, made>>
<1>1. /\ t \in TaskType /\ t.keys \in SUBSET Record /\ t.got \in SUBSET Record
      /\ t.number \in Nat /\ t.ints \in SUBSET Nat /\ t.at \in Place
      /\ disk.records \in SUBSET Record /\ disk.log \in SUBSET Nat /\ made.events \in Nat
  BY DEF TasksTyped, TaskType, StoredTyped
<1>2. [t EXCEPT !.at = "init"] = Turned(t, "init", t.keys, t.got, t.number, t.ints)
  BY <1>1, TurnAt DEF Place
<1> QED
  BY <1>1, <1>2, Becoming, Becomings DEF deleteDatabase, Blame, If, Becomes

(* An import opens the storage anew.                                        *)
LEMMA InitSets ==
    ASSUME StoredTyped, TasksTyped, NEW t \in tasks, initStorage(t)
    PROVE  /\ t.at = "init" /\ ready' = TRUE
           /\ Turns(t, "restore", t.got, t.got, t.number, t.ints)
           /\ disk' = [records |-> disk.records, blobs |-> disk.blobs, log |-> disk.log, vault |-> TRUE]
           /\ UNCHANGED <<mem, pending, files, chat, made, during, amiss>>
<1>1. /\ t \in TaskType /\ t.keys \in SUBSET Record /\ t.got \in SUBSET Record
      /\ t.number \in Nat /\ t.ints \in SUBSET Nat /\ t.at \in Place
      /\ disk.records \in SUBSET Record /\ disk.log \in SUBSET Nat /\ made.events \in Nat
  BY DEF TasksTyped, TaskType, StoredTyped
<1>2. [t EXCEPT !.at = "restore", !.keys = t.got] = Turned(t, "restore", t.got, t.got, t.number, t.ints)
  BY <1>1, TurnAtKeys DEF Place
<1> QED
  BY <1>1, <1>2, DiskChanges, Becoming DEF initStorage, Asleep, Becomes

(* An import writes a record.                                               *)
LEMMA RestoreSets ==
    ASSUME StoredTyped, TasksTyped, NEW t \in tasks, NEW r \in t.keys, Restore(t, r)
    PROVE  /\ t.at = "restore" /\ r \in Record /\ Needs(r) \cap t.keys = {}
           /\ DiskIs(disk.records \cup {r}, disk.log)
           /\ Remembers(disk.records \cup {r})
           /\ Turns(t, "restore", t.keys \ {r}, t.got, t.number, t.ints)
           /\ amiss \subseteq amiss'
           /\ Deleting(Owner(r)) => "resurrected" \in amiss'
           /\ UNCHANGED <<ready, mem, pending, files, chat, made>>
<1>1. /\ t \in TaskType /\ t.keys \in SUBSET Record /\ t.got \in SUBSET Record
      /\ t.number \in Nat /\ t.ints \in SUBSET Nat /\ t.at \in Place
      /\ disk.records \in SUBSET Record /\ disk.log \in SUBSET Nat /\ made.events \in Nat
  BY DEF TasksTyped, TaskType, StoredTyped
<1>2. [t EXCEPT !.keys = t.keys \ {r}] = Turned(t, t.at, t.keys \ {r}, t.got, t.number, t.ints)
  BY <1>1, TurnKeys DEF Place
<1> QED
  BY <1>1, <1>2, DiskChanges, Becoming, Becomings DEF Restore, NextRecords, Records, Blame, Writes, If, Remembers, Becomes, StoredTyped

(* A write of an import fails.                                              *)
LEMMA RestoreFailsSets ==
    ASSUME StoredTyped, TasksTyped, NEW t \in tasks, RestoreFails(t)
    PROVE  /\ t.at = "restore" /\ Drop(t)
           /\ amiss \subseteq amiss' /\ "failed" \in amiss'
           /\ UNCHANGED <<disk, ready, mem, pending, files, chat, made, during>>
  BY DEF RestoreFails, Blame

(* An import has written them all.                                          *)
LEMMA RestoredSets ==
    ASSUME StoredTyped, TasksTyped, NEW t \in tasks, Restored(t)
    PROVE  /\ t.at = "restore" /\ t.keys = {}
           /\ Turns(t, "log", t.keys, t.got, made.events + 1, t.ints)
           /\ MadeIs(made.messages, 1, 0)
           /\ UNCHANGED <<disk, ready, mem, pending, files, chat, during, amiss>>
<1>1. /\ t \in TaskType /\ t.keys \in SUBSET Record /\ t.got \in SUBSET Record
      /\ t.number \in Nat /\ t.ints \in SUBSET Nat /\ t.at \in Place
      /\ disk.records \in SUBSET Record /\ disk.log \in SUBSET Nat /\ made.events \in Nat
      /\ {} \in SUBSET Nat /\ {} \in SUBSET Record /\ made.events + 1 \in Nat /\ "log" \in Place /\ "load" \in Place
  BY DEF TasksTyped, TaskType, StoredTyped, Place
<1>2. [t EXCEPT !.at = "log", !.number = made.events + 1] = Turned(t, "log", t.keys, t.got, made.events + 1, t.ints)
  BY <1>1, TurnLog DEF Place
<1> QED
  BY <1>1, <1>2, Counting, Becoming DEF Restored, Logs, Becomes

(* A deletion deletes the contact, then the conversation.                   *)
LEMMA DeleteRecordSets ==
    ASSUME StoredTyped, TasksTyped, NEW t \in tasks, deleteRecord(t)
    PROVE  /\ \E c \in t.who, s \in {"contacts", "conversations"} :
                /\ t.at = (IF s = "contacts" THEN "contact" ELSE "convo")
                /\ DiskIs(disk.records \ {<<s, c>>}, disk.log)
                /\ Remembers(disk.records \ {<<s, c>>})
                /\ Turns(t, IF s = "contacts" THEN "identity" ELSE "list", t.keys, t.got, t.number,
                         t.ints)
           /\ UNCHANGED <<ready, mem, pending, files, chat, made, amiss>>
<1>1. t \in TaskType /\ "identity" \in Place /\ "list" \in Place
  BY DEF TasksTyped, Place
<1>2. ASSUME NEW s, NEW c, NEW place \in Place, DeletesRecord(t, <<s, c>>, place)
      PROVE  /\ DiskIs(disk.records \ {<<s, c>>}, disk.log)
             /\ Remembers(disk.records \ {<<s, c>>})
             /\ Turns(t, place, t.keys, t.got, t.number, t.ints)
             /\ UNCHANGED <<ready, mem, pending, files, chat, made, amiss>>
  <2>1. Turns(t, place, t.keys, t.got, t.number, t.ints)
    BY <1>1, <1>2, TurnAt, Becoming DEF DeletesRecord
  <2>2. DiskIs(disk.records \ {<<s, c>>}, disk.log) /\ Remembers(disk.records \ {<<s, c>>})
    BY <1>2, DiskChanges, Becomings DEF DeletesRecord, Records, Remembers
  <2> QED BY <1>2, <2>1, <2>2 DEF DeletesRecord
<1>3. PICK c \in t.who :
        \/ t.at = "contact" /\ DeletesRecord(t, <<"contacts", c>>, "identity")
        \/ t.at = "convo" /\ DeletesRecord(t, <<"conversations", c>>, "list")
  BY DEF deleteRecord
<1>4. CASE t.at = "contact" /\ DeletesRecord(t, <<"contacts", c>>, "identity")
  BY <1>1, <1>2, <1>4
<1>5. CASE t.at = "convo" /\ DeletesRecord(t, <<"conversations", c>>, "list")
  BY <1>1, <1>2, <1>5
<1> QED
  BY <1>3, <1>4, <1>5

(* A deletion goes on to the conversation, unless the identity has gone.    *)
LEMMA FindConvoSets ==
    ASSUME StoredTyped, TasksTyped, NEW t \in tasks, findConvo(t)
    PROVE  /\ t.at = "identity"
           /\ amiss \subseteq amiss'
           /\ \/ Turns(t, "convo", t.keys, t.got, t.number, t.ints)
              \/ Drop(t) /\ "cut" \in amiss'
           /\ UNCHANGED <<disk, ready, mem, pending, files, chat, made, during>>
<1>1. t \in TaskType /\ "convo" \in Place
  BY DEF TasksTyped, Place
<1>2. [t EXCEPT !.at = "convo"] = Turned(t, "convo", t.keys, t.got, t.number, t.ints)
  BY <1>1, TurnAt
<1> QED
  BY <1>2, Becoming DEF findConvo, Blame

(* A deletion lists the messages.                                           *)
LEMMA DoomSets ==
    ASSUME StoredTyped, TasksTyped, NEW t \in tasks, listMessageKeys(t)
    PROVE  /\ t.at = "list"
           /\ Turns(t, "doomed", Of("messages", UNION {About(c, disk.records) : c \in t.who}), t.got,
                    t.number, t.ints)
           /\ UNCHANGED <<disk, ready, mem, pending, files, chat, made, during, amiss>>
<1> DEFINE keys == Of("messages", UNION {About(c, disk.records) : c \in t.who})
<1>1. t \in TaskType /\ disk.records \in SUBSET Record /\ "doomed" \in Place
  BY DEF TasksTyped, StoredTyped, Place
<1>2. keys \in SUBSET Record
  BY <1>1 DEF Of, About
<1>3. /\ t.at = "list" /\ Becomes(t, [t EXCEPT !.at = "doomed", !.keys = keys])
      /\ UNCHANGED <<disk, ready, mem, pending, files, chat, made, during, amiss>>
  BY DEF listMessageKeys
<1> HIDE DEF keys
<1>4. [t EXCEPT !.at = "doomed", !.keys = keys] = Turned(t, "doomed", keys, t.got, t.number, t.ints)
  BY <1>1, <1>2, TurnAtKeys
<1>5. Turns(t, "doomed", keys, t.got, t.number, t.ints)
  BY <1>3, <1>4, Becoming
<1> QED
  BY <1>3, <1>5 DEF keys

(* A deletion deletes a message.                                            *)
LEMMA DeleteMessageSets ==
    ASSUME StoredTyped, TasksTyped, NEW t \in tasks, NEW r \in t.keys, deleteMessage(t, r)
    PROVE  /\ t.at = "doomed"
           /\ DiskIs(disk.records \ {r}, disk.log) /\ Remembers(disk.records \ {r})
           /\ Turns(t, "doomed", t.keys \ {r}, t.got, t.number, t.ints)
           /\ UNCHANGED <<ready, mem, pending, files, chat, made, amiss>>
<1>1. /\ t \in TaskType /\ t.keys \in SUBSET Record /\ t.got \in SUBSET Record
      /\ t.number \in Nat /\ t.ints \in SUBSET Nat /\ t.at \in Place
      /\ disk.records \in SUBSET Record /\ disk.log \in SUBSET Nat /\ made.events \in Nat
  BY DEF TasksTyped, TaskType, StoredTyped
<1>2. [t EXCEPT !.keys = t.keys \ {r}] = Turned(t, t.at, t.keys \ {r}, t.got, t.number, t.ints)
  BY <1>1, TurnKeys DEF Place
<1>3. t.at = "doomed" /\ Becomes(t, [t EXCEPT !.keys = t.keys \ {r}])
  BY DEF deleteMessage
<1>4. Records(disk.records \ {r})
  BY DEF deleteMessage
<1>5. DiskIs(disk.records \ {r}, disk.log)
  BY <1>4, DiskChanges, Becomings DEF Records
<1>6. Remembers(disk.records \ {r})
  BY <1>4, Becomings DEF Records, Remembers
<1>7. Turns(t, "doomed", t.keys \ {r}, t.got, t.number, t.ints)
  BY <1>2, <1>3, Becoming
<1>8. UNCHANGED <<ready, mem, pending, files, chat, made, amiss>>
  BY DEF deleteMessage
<1> QED
  BY <1>3, <1>5, <1>6, <1>7, <1>8

(* A deletion has deleted them all.                                         *)
LEMMA DeletedSets ==
    ASSUME StoredTyped, TasksTyped, NEW t \in tasks, Deleted(t)
    PROVE  /\ t.at = "doomed" /\ t.keys = {}
           /\ Turns(t, "log", t.keys, t.got, made.events + 1, t.ints)
           /\ MadeIs(made.messages, 1, 0)
           /\ UNCHANGED <<disk, ready, mem, pending, files, chat, during, amiss>>
<1>1. /\ t \in TaskType /\ t.keys \in SUBSET Record /\ t.got \in SUBSET Record
      /\ t.number \in Nat /\ t.ints \in SUBSET Nat /\ t.at \in Place
      /\ disk.records \in SUBSET Record /\ disk.log \in SUBSET Nat /\ made.events \in Nat
      /\ {} \in SUBSET Nat /\ {} \in SUBSET Record /\ made.events + 1 \in Nat /\ "log" \in Place /\ "load" \in Place
  BY DEF TasksTyped, TaskType, StoredTyped, Place
<1>2. [t EXCEPT !.at = "log", !.number = made.events + 1] = Turned(t, "log", t.keys, t.got, made.events + 1, t.ints)
  BY <1>1, TurnLog DEF Place
<1> QED
  BY <1>1, <1>2, Counting, Becoming DEF Deleted, Logs, Becomes

(* What a deletion leaves on the screen are records.                        *)
LEMMA PutsBack ==
    ASSUME StoredTyped, NEW t, NEW shown \in SUBSET Record
    PROVE  PutBack(t, shown) \in SUBSET Record
  BY DEF PutBack, StoredTyped, Of

(* A deletion puts back what was shown when it began.                       *)
LEMMA FinishSets ==
    ASSUME StoredTyped, TasksTyped, NEW t \in tasks, Finish(t)
    PROVE  /\ t.at = "set" /\ Drop(t)
           /\ PutBack(t, t.got) \in SUBSET Record
           /\ MemIs(PutBack(t, t.got), mem.locked)
           /\ amiss \subseteq amiss'
           /\ PutBack(t, t.got) # PutBack(t, mem.records) => "stale" \in amiss'
           /\ chat' = Gone \/ UNCHANGED chat
           /\ UNCHANGED <<disk, ready, pending, files, made, during>>
<1>1. t.got \in SUBSET Record
  BY DEF TasksTyped, TaskType
<1>2. \A x : [mem EXCEPT !.records = x] = [records |-> x, locked |-> mem.locked]
  BY DEF StoredTyped
<1>3. mem' = [mem EXCEPT !.records = PutBack(t, t.got)]
  BY DEF Finish
<1>4. MemIs(PutBack(t, t.got), mem.locked)
  BY <1>2, <1>3, Becomings
<1>5. amiss' = amiss \cup If(PutBack(t, t.got) # PutBack(t, mem.records), "stale")
  BY DEF Finish, Blame
<1>6. amiss \subseteq amiss' /\ (PutBack(t, t.got) # PutBack(t, mem.records) => "stale" \in amiss')
  BY <1>5 DEF If
<1>7. chat' = Gone \/ UNCHANGED chat
  BY DEF Finish
<1> QED
  BY <1>1, <1>4, <1>6, <1>7, PutsBack DEF Finish

(* An attachment is read, or is missing.                                    *)
LEMMA BlobSets ==
    ASSUME StoredTyped, TasksTyped, NEW t \in tasks, getAttachmentBlob(t)
    PROVE  /\ t.at = "read"
           /\ Drop(t) \/ Turns(t, "decrypt", t.keys, t.got, t.number, t.ints)
           /\ UNCHANGED <<disk, ready, mem, pending, files, made, during, amiss>>
<1>1. /\ t \in TaskType /\ t.keys \in SUBSET Record /\ t.got \in SUBSET Record
      /\ t.number \in Nat /\ t.ints \in SUBSET Nat /\ t.at \in Place
      /\ disk.records \in SUBSET Record /\ disk.log \in SUBSET Nat /\ made.events \in Nat
  BY DEF TasksTyped, TaskType, StoredTyped
<1>2. [t EXCEPT !.at = "decrypt"] = Turned(t, "decrypt", t.keys, t.got, t.number, t.ints)
  BY <1>1, TurnAt DEF Place
<1> QED
  BY <1>1, <1>2, Becoming DEF getAttachmentBlob, Becomes

(* An attachment is decrypted.                                              *)
LEMMA DecryptedSets ==
    ASSUME StoredTyped, TasksTyped, NEW t \in tasks, Decrypted(t)
    PROVE  /\ t.at = "decrypt" /\ Drop(t)
           /\ amiss \subseteq amiss'
           /\ mem.locked => "late" \in amiss'
           /\ t.ints \subseteq chat.registry => "twice" \in amiss'
           /\ UNCHANGED <<disk, ready, mem, pending, files, made, during>>
  BY DEF Decrypted, Blame, If

(* The records are loaded.                                                  *)
LEMMA LoadSets ==
    ASSUME StoredTyped, TasksTyped, NEW t \in tasks, loadAllData(t)
    PROVE  /\ t.at = "load" /\ mem' = Loaded
           /\ \/ Drop(t)
              \/ \E asked \in SUBSET Attachment : Asks(tasks \ {t}, chat.round + 1, asked)
           /\ amiss \subseteq amiss' /\ (pending # {} => "early" \in amiss')
           /\ UNCHANGED <<disk, ready, pending, files, made, during>>
<1>1. ASSUME ~Drop(t)
      PROVE  \E asked \in SUBSET Attachment : Asks(tasks \ {t}, chat.round + 1, asked)
  <2>1. PICK asked \in SUBSET Attachment :
          tasks' = (tasks \ {t})
                     \cup {[Task("open", "read") EXCEPT !.number = chat.round + 1, !.ints = {a}]
                             : a \in asked}
    BY <1>1 DEF loadAllData, Appears, Shown
  <2>2. Asks(tasks \ {t}, chat.round + 1, asked)
    <3> DEFINE X(a) == [Task("open", "read") EXCEPT !.number = chat.round + 1, !.ints = {a}]
               Y(a) == Begun("open", "read", {}, chat.round + 1, {a}, {})
    <3>1. \A a : X(a) = Y(a)
      BY TaskStarts
    <3>2. tasks' = (tasks \ {t}) \cup {X(a) : a \in asked}
      BY <2>1
    <3> HIDE DEF X, Y
    <3>3. tasks' = (tasks \ {t}) \cup {Y(a) : a \in asked}
      BY <3>1, <3>2
    <3> QED BY <3>3, Becoming DEF Y
  <2> QED BY <2>2
<1> QED
  BY <1>1 DEF loadAllData, Blame, If

(* An operation finds no storage.                                           *)
LEMMA ThrowsSets ==
    ASSUME StoredTyped, TasksTyped, NEW t \in tasks, Throws(t)
    PROVE  /\ Drop(t) /\ amiss \subseteq amiss' /\ "thrown" \in amiss'
           /\ UNCHANGED <<disk, ready, mem, pending, files, chat, made, during>>
  BY DEF Throws, Blame

(* What an operation does, where it does it, and for whom.                  *)
Logging(t) == t.at \in {"log", "logged", "trim"}
Staged(t) ==
    /\ t.op = "export" => t.at \in {"contacts", "conversations", "messages", "get", "seal"} \/ Logging(t)
    /\ t.op = "import" => t.at \in {"open", "null", "wipe", "init", "restore", "load"} \/ Logging(t)
    /\ t.op = "delete" => \/ t.at \in {"contact", "identity", "convo", "list", "doomed", "set"}
                         \/ Logging(t)
    /\ t.op = "clear" => t.at \in {"convo", "list", "doomed", "set"} \/ Logging(t)
    /\ t.op = "log" => Logging(t)
    /\ t.op = "unlock" => t.at = "load" \/ Logging(t)
    /\ t.op = "open" => t.at \in {"read", "decrypt"}
    /\ IF t.op \in {"delete", "clear"} THEN \E c \in Contact : t.who = {c} ELSE t.who = {}
    /\ t.at = "doomed" => \A r \in t.keys : r[1] = "messages" /\ Owner(r) \in t.who
    /\ IF t.op = "open" THEN \E a \in Attachment : t.ints = {a}
       ELSE t.at # "trim" <=> t.ints = {}
AllStaged == \A t \in tasks : Staged(t)

(* A task that turns into another is one still.                             *)
LEMMA TasksTurn ==
    ASSUME TasksTyped, NEW t \in tasks, NEW at \in Place, NEW keys \in SUBSET Record,
           NEW got \in SUBSET Record, NEW number \in Nat, NEW ints \in SUBSET Nat,
           Turns(t, at, keys, got, number, ints)
    PROVE  TasksTyped'
<1>1. Turned(t, at, keys, got, number, ints) \in TaskType
  BY TurnedTyped DEF TasksTyped
<1>2. Becomes(t, Turned(t, at, keys, got, number, ints))
  BY DEF Turns, Becomes
<1> QED BY <1>1, <1>2, Tasking

(* What begins is a task.                                                   *)
LEMMA TasksBegin ==
    ASSUME TasksTyped, NEW op \in Operation, NEW at \in Place, NEW got \in SUBSET Record,
           NEW number \in Nat, NEW ints \in SUBSET Nat, NEW who \in SUBSET Contact,
           Begins(op, at, got, number, ints, who)
    PROVE  TasksTyped'
<1>1. Begun(op, at, got, number, ints, who) \in TaskType
  BY DEF TaskType, Begun
<1> QED BY <1>1, Tasking DEF Begins

(* What the chat asks for are tasks.                                        *)
LEMMA TasksAsk ==
    ASSUME TasksTyped, NEW rest \in SUBSET tasks, NEW round \in Nat, NEW asked \in SUBSET Attachment,
           Asks(rest, round, asked)
    PROVE  TasksTyped'
<1> DEFINE Open(a) == Begun("open", "read", {}, round, {a}, {})
           f == [a \in asked |-> Open(a)]
           opens == {Open(a) : a \in asked}
<1>1. IsFiniteSet(asked)
  BY BackupsAssumption, FS_Subset
<1>2. ASSUME NEW a \in asked PROVE Open(a) \in TaskType
  <2>1. {a} \in SUBSET Nat
    BY BackupsAssumption
  <2> QED BY <2>1 DEF Begun, TaskType, Operation, Place
<1> HIDE DEF Open
<1>3. f \in Surjection(asked, opens)
  BY DEF Surjection
<1>4. IsFiniteSet(opens)
  BY <1>1, <1>3, FS_Surjection
<1>5. IsFiniteSet(rest) /\ rest \subseteq TaskType
  BY FS_Subset DEF TasksTyped
<1>6. IsFiniteSet(rest \cup opens)
  BY <1>4, <1>5, FS_Union
<1>7. tasks' = rest \cup opens
  BY DEF Asks, Open
<1> QED BY <1>2, <1>5, <1>6, <1>7 DEF TasksTyped

(* Each variable that a step builds anew is typed.                          *)
LEMMA BuiltTyped ==
    ASSUME StoredTyped
    PROVE  /\ \A rs \in SUBSET Record, log \in SUBSET Nat : DiskIs(rs, log) =>
                 disk' \in [records : SUBSET Record, blobs : SUBSET Attachment, log : SUBSET Nat,
                            vault : BOOLEAN]
           /\ \A ms \in SUBSET Message, e, o \in Nat : MadeIs(ms, e, o) =>
                 made' \in [messages : SUBSET Message, events : Nat, ops : Nat]
           /\ \A rs \in SUBSET Record, l \in BOOLEAN : MemIs(rs, l) =>
                 mem' \in [records : SUBSET Record, locked : BOOLEAN]
           /\ \A always, ever \in SUBSET Record : DuringIs(always, ever) =>
                 during' \in [always : SUBSET Record, ever : SUBSET Record]
           /\ \A rs \in SUBSET Record : Remembers(rs) =>
                 during' \in [always : SUBSET Record, ever : SUBSET Record]
<1>1. /\ disk.blobs \in SUBSET Attachment /\ disk.vault \in BOOLEAN
      /\ made.events \in Nat /\ made.ops \in Nat
      /\ during.always \in SUBSET Record /\ during.ever \in SUBSET Record
      /\ during \in [always : SUBSET Record, ever : SUBSET Record]
  BY DEF StoredTyped
<1>2. ASSUME NEW rs \in SUBSET Record, NEW log \in SUBSET Nat, DiskIs(rs, log)
      PROVE  disk' \in [records : SUBSET Record, blobs : SUBSET Attachment, log : SUBSET Nat,
                        vault : BOOLEAN]
  BY <1>1, <1>2 DEF DiskIs
<1>3. ASSUME NEW ms \in SUBSET Message, NEW e \in Nat, NEW o \in Nat, MadeIs(ms, e, o)
      PROVE  made' \in [messages : SUBSET Message, events : Nat, ops : Nat]
  BY <1>1, <1>3 DEF MadeIs
<1>4. ASSUME NEW rs \in SUBSET Record, NEW l \in BOOLEAN, MemIs(rs, l)
      PROVE  mem' \in [records : SUBSET Record, locked : BOOLEAN]
  BY <1>4 DEF MemIs
<1>5. ASSUME NEW always \in SUBSET Record, NEW ever \in SUBSET Record, DuringIs(always, ever)
      PROVE  during' \in [always : SUBSET Record, ever : SUBSET Record]
  BY <1>5 DEF DuringIs
<1>6. ASSUME NEW rs \in SUBSET Record, Remembers(rs)
      PROVE  during' \in [always : SUBSET Record, ever : SUBSET Record]
  BY <1>1, <1>5, <1>6 DEF Remembers
<1> QED BY <1>2, <1>3, <1>4, <1>5, <1>6

(* What can be amiss.                                                       *)
WaysOK == amiss \subseteq Ways

(* There is one export at a time, and one import.                           *)
OnlyOne ==
    \A t, u \in tasks : t.op = u.op /\ t.op \in {"export", "import"} => t = u

(* What a trimming turns into.                                              *)
LEMMA TrimTurns ==
    ASSUME StoredTyped, TasksTyped, NEW t \in tasks, TrimLog(t)
    PROVE  \A u \in tasks' : \/ u \in tasks
                            \/ /\ u.op = t.op /\ u.who = t.who /\ u.got = t.got
                               /\ u.number = t.number /\ u.keys = t.keys
                               /\ \/ u.at = "load" /\ u.ints = {} /\ t.op \in {"import", "unlock"}
                                  \/ u.at = "set" /\ u.ints = {} /\ t.op \in {"delete", "clear"}
                                  \/ u.at = "trim" /\ u.ints # {} /\ u.ints \subseteq t.ints
<1>1. PICK e \in t.ints : \/ t.ints = {e} /\ LogOver(t)
                        \/ /\ t.ints # {e}
                           /\ Turns(t, "trim", t.keys, t.got, t.number, t.ints \ {e})
  BY TrimSets
<1>2. CASE LogOver(t)
  BY <1>2 DEF LogOver, Turns, Drop
<1>3. CASE t.ints # {e} /\ Turns(t, "trim", t.keys, t.got, t.number, t.ints \ {e})
  <2>1. t.ints \ {e} # {} /\ t.ints \ {e} \subseteq t.ints
    BY <1>1, <1>3
  <2> QED BY <1>3, <2>1 DEF Turns
<1> QED BY <1>1, <1>2, <1>3

(* What the deletion of a record turns into.                                *)
LEMMA DeleteRecordTurns ==
    ASSUME StoredTyped, TasksTyped, NEW t \in tasks, deleteRecord(t)
    PROVE  \A u \in tasks' : \/ u \in tasks
                            \/ /\ u.op = t.op /\ u.who = t.who /\ u.got = t.got
                               /\ u.number = t.number /\ u.keys = t.keys /\ u.ints = t.ints
                               /\ \/ u.at = "identity" /\ t.at = "contact"
                                  \/ u.at = "list" /\ t.at = "convo"
<1>1. \/ t.at = "contact" /\ Turns(t, "identity", t.keys, t.got, t.number, t.ints)
      \/ t.at = "convo" /\ Turns(t, "list", t.keys, t.got, t.number, t.ints)
  BY DeleteRecordSets
<1> QED BY <1>1 DEF Turns

(* Every step keeps the values of the variables.                            *)
LEMMA StoredTypedKept ==
    ASSUME StoredTyped, TasksTyped, [Next]_vars PROVE StoredTyped'
<1>1. CASE UNCHANGED vars
  BY <1>1 DEF vars, StoredTyped
<1>2. ASSUME NEW m \in Message, onSecure(m) \/ onIncoming(m) PROVE StoredTyped'
  <2>1. PICK rs \in SUBSET Record :
          /\ \/ MemIs(mem.records \cup rs, mem.locked)
             \/ MemIs(mem.records, mem.locked)
          /\ pending' = IF ready THEN pending \cup rs ELSE pending
    BY <1>2, MessageSets
  <2>2. /\ mem.records \in SUBSET Record /\ mem.records \cup rs \in SUBSET Record
        /\ mem.locked \in BOOLEAN /\ made.messages \cup {m} \in SUBSET Message
    BY DEF StoredTyped
  <2>3. mem' \in [records : SUBSET Record, locked : BOOLEAN]
    BY <2>1, <2>2, BuiltTyped
  <2>4. MadeIs(made.messages \cup {m}, 0, 0)
    BY <1>2, MessageSets
  <2>5. made' \in [messages : SUBSET Message, events : Nat, ops : Nat]
    BY <2>2, <2>4, BuiltTyped
  <2>6. pending' \subseteq Record
    BY <2>1 DEF StoredTyped
  <2>7. UNCHANGED <<disk, ready, files, tasks, chat, during>>
    BY <1>2, MessageSets
  <2> QED
    BY <2>3, <2>5, <2>6, <2>7 DEF StoredTyped
<1>3. ASSUME NEW c \in Contact, deleteContact(c) \/ clearConversation(c) PROVE StoredTyped'
  BY <1>3, DeleteSets, BuiltTyped DEF StoredTyped
<1>5. ASSUME NEW r \in pending, Lands(r) PROVE StoredTyped'
  <2>1. /\ disk.records \cup {r} \in SUBSET Record /\ disk.log \in SUBSET Nat
    BY <1>5, LandsSets DEF StoredTyped, TasksTyped, TaskType
  <2>2. DiskIs(disk.records \cup {r}, disk.log)
    BY <1>5, LandsSets
  <2>3. disk' \in [records : SUBSET Record, blobs : SUBSET Attachment, log : SUBSET Nat,
                    vault : BOOLEAN]
    BY <2>1, <2>2, BuiltTyped
  <2>4. Remembers(disk.records \cup {r})
    BY <1>5, LandsSets
  <2>5. during' \in [always : SUBSET Record, ever : SUBSET Record]
    BY <2>1, <2>4, BuiltTyped
  <2>6. pending' \subseteq Record
    <3>1. pending' = pending \ {r}
      BY <1>5, LandsSets
    <3> QED BY <3>1 DEF StoredTyped
  <2>7. UNCHANGED <<ready, mem, files, tasks, chat, made>>
    BY <1>5, LandsSets
  <2> QED
    BY <2>3, <2>5, <2>6, <2>7 DEF StoredTyped
<1>6. ASSUME NEW f \in files, inAppImport(f) PROVE StoredTyped'
  BY <1>6, ImportSets, BuiltTyped DEF StoredTyped
<1>7. CASE exportBackup
  BY <1>7, ExportSets, BuiltTyped DEF StoredTyped
<1>8. CASE appendSecurityEvent
  BY <1>8, AppendSets, BuiltTyped DEF StoredTyped
<1>9. CASE OpenChat
  BY <1>9, OpenSets, BuiltTyped DEF StoredTyped
<1>10. CASE CloseChat
  BY <1>10, CloseSets, BuiltTyped DEF StoredTyped
<1>11. CASE lockVault
  BY <1>11, LockSets, BuiltTyped DEF StoredTyped
<1>12. CASE unlockVault
  BY <1>12, UnlockSets, BuiltTyped DEF StoredTyped
<1>13. CASE Reload
  BY <1>13, ReloadSets, BuiltTyped DEF StoredTyped
<1>14. ASSUME NEW t \in tasks, putEvent(t) PROVE StoredTyped'
  <2>1. /\ disk.log \cup {t.number} \in SUBSET Nat /\ disk.records \in SUBSET Record
    BY <1>14, PutSets DEF StoredTyped, TasksTyped, TaskType
  <2>2. DiskIs(disk.records, disk.log \cup {t.number})
    BY <1>14, PutSets
  <2>3. disk' \in [records : SUBSET Record, blobs : SUBSET Attachment, log : SUBSET Nat,
                    vault : BOOLEAN]
    BY <2>1, <2>2, BuiltTyped
  <2>4. UNCHANGED <<ready, mem, pending, files, chat, made, during, amiss>>
    BY <1>14, PutSets
  <2> QED
    BY <2>3, <2>4 DEF StoredTyped
<1>15. ASSUME NEW t \in tasks, ListLog(t) PROVE StoredTyped'
  BY <1>15, ListLogSets, BuiltTyped DEF StoredTyped
<1>16. ASSUME NEW t \in tasks, TrimLog(t) PROVE StoredTyped'
  <2>1. PICK e : DiskIs(disk.records, disk.log \ {e})
    BY <1>16, TrimSets
  <2> DEFINE log == disk.log \ {e}
  <2>2. log \in SUBSET Nat /\ disk.records \in SUBSET Record /\ DiskIs(disk.records, log)
    BY <2>1 DEF StoredTyped
  <2> HIDE DEF log
  <2>3. disk' \in [records : SUBSET Record, blobs : SUBSET Attachment, log : SUBSET Nat,
                    vault : BOOLEAN]
    BY <2>2, BuiltTyped
  <2>4. UNCHANGED <<ready, mem, pending, files, chat, made, during, amiss>>
    BY <1>16, TrimSets
  <2> QED
    BY <2>3, <2>4 DEF StoredTyped
<1>17. ASSUME NEW t \in tasks, ListKeys(t) PROVE StoredTyped'
  BY <1>17, ListKeysSets, BuiltTyped DEF StoredTyped
<1>18. ASSUME NEW t \in tasks, createBackupFile(t) PROVE StoredTyped'
  <2>1. /\ MadeIs(made.messages, 1, 0) /\ DuringIs({}, {}) /\ files' = files \cup {t.got}
        /\ UNCHANGED <<disk, ready, mem, pending>>
    BY <1>18, SealSets
  <2> QED BY <2>1, BuiltTyped DEF TasksTyped, TaskType, StoredTyped
<1>19. ASSUME NEW t \in tasks, openBackupFile(t) PROVE StoredTyped'
  BY <1>19, OpenFileSets, BuiltTyped DEF StoredTyped
<1>20. ASSUME NEW t \in tasks, dropStorage(t) PROVE StoredTyped'
  BY <1>20, DropStorageSets, BuiltTyped DEF StoredTyped
<1>21. ASSUME NEW t \in tasks, deleteDatabase(t) PROVE StoredTyped'
  <2>1. /\ during.ever \in SUBSET Record /\ {} \in SUBSET Record
    BY <1>21, WipeSets DEF StoredTyped, TasksTyped, TaskType
  <2>2. disk' \in [records : SUBSET Record, blobs : SUBSET Attachment, log : SUBSET Nat,
                    vault : BOOLEAN]
    <3>1. disk' = [records |-> {}, blobs |-> {}, log |-> {}, vault |-> FALSE]
      BY <1>21, WipeSets
    <3>2. [records |-> {}, blobs |-> {}, log |-> {}, vault |-> FALSE]
            \in [records : SUBSET Record, blobs : SUBSET Attachment, log : SUBSET Nat,
                 vault : BOOLEAN]
      BY <2>1
    <3> QED BY <3>1, <3>2
  <2>3. DuringIs({}, during.ever)
    BY <1>21, WipeSets
  <2>4. during' \in [always : SUBSET Record, ever : SUBSET Record]
    BY <2>1, <2>3, BuiltTyped
  <2>5. UNCHANGED <<ready, mem, pending, files, chat, made>>
    BY <1>21, WipeSets
  <2> QED
    BY <2>2, <2>4, <2>5 DEF StoredTyped
<1>22. ASSUME NEW t \in tasks, initStorage(t) PROVE StoredTyped'
  <2>1. /\ disk.records \in SUBSET Record /\ disk.blobs \in SUBSET Attachment /\ disk.log \in SUBSET Nat
    BY <1>22, InitSets DEF StoredTyped, TasksTyped, TaskType
  <2>2. disk' \in [records : SUBSET Record, blobs : SUBSET Attachment, log : SUBSET Nat,
                    vault : BOOLEAN]
    <3>1. disk' = [records |-> disk.records, blobs |-> disk.blobs, log |-> disk.log, vault |-> TRUE]
      BY <1>22, InitSets
    <3>2. [records |-> disk.records, blobs |-> disk.blobs, log |-> disk.log, vault |-> TRUE]
            \in [records : SUBSET Record, blobs : SUBSET Attachment, log : SUBSET Nat,
                 vault : BOOLEAN]
      BY <2>1
    <3> QED BY <3>1, <3>2
  <2>3. UNCHANGED <<mem, pending, files, chat, made, during, amiss>>
    BY <1>22, InitSets
  <2> QED
    BY <2>2, <2>3, <1>22, InitSets DEF StoredTyped
<1>23. ASSUME NEW t \in tasks, RestoreFails(t) PROVE StoredTyped'
  BY <1>23, RestoreFailsSets, BuiltTyped DEF StoredTyped
<1>24. ASSUME NEW t \in tasks, Restored(t) PROVE StoredTyped'
  BY <1>24, RestoredSets, BuiltTyped DEF StoredTyped
<1>25. ASSUME NEW t \in tasks, deleteRecord(t) PROVE StoredTyped'
  <2>1. \A x : disk.records \ {x} \in SUBSET Record
    BY <1>25, DeleteRecordSets DEF StoredTyped, TasksTyped, TaskType
  <2>2. PICK r : DiskIs(disk.records \ {r}, disk.log)
    BY <1>25, DeleteRecordSets
  <2>3. disk' \in [records : SUBSET Record, blobs : SUBSET Attachment, log : SUBSET Nat,
                    vault : BOOLEAN]
    BY <2>1, <2>2, BuiltTyped DEF StoredTyped
  <2>4. \E x : Remembers(disk.records \ {x})
    BY <1>25, DeleteRecordSets
  <2>5. during' \in [always : SUBSET Record, ever : SUBSET Record]
    BY <2>1, <2>4, BuiltTyped DEF StoredTyped
  <2>6. UNCHANGED <<ready, mem, pending, files, chat, made, amiss>>
    BY <1>25, DeleteRecordSets
  <2> QED
    BY <2>3, <2>5, <2>6 DEF StoredTyped
<1>26. ASSUME NEW t \in tasks, listMessageKeys(t) PROVE StoredTyped'
  BY <1>26, DoomSets, BuiltTyped DEF StoredTyped
<1>27. ASSUME NEW t \in tasks, Deleted(t) PROVE StoredTyped'
  BY <1>27, DeletedSets, BuiltTyped DEF StoredTyped
<1>28. ASSUME NEW t \in tasks, getAttachmentBlob(t) PROVE StoredTyped'
  BY <1>28, BlobSets, BuiltTyped DEF StoredTyped
<1>29. ASSUME NEW t \in tasks, Decrypted(t) PROVE StoredTyped'
  BY <1>29, DecryptedSets, BuiltTyped DEF StoredTyped
<1>30. ASSUME NEW t \in tasks, loadAllData(t) PROVE StoredTyped'
  BY <1>30, LoadSets, LoadedTyped DEF StoredTyped
<1>31. ASSUME NEW t \in tasks, Throws(t) PROVE StoredTyped'
  BY <1>31, ThrowsSets, BuiltTyped DEF StoredTyped
<1>32. ASSUME NEW t \in tasks, NEW r \in t.keys, GetRecord(t, r) PROVE StoredTyped'
  BY <1>32, GetSets, BuiltTyped DEF TasksTyped, TaskType, StoredTyped
<1>33. ASSUME NEW t \in tasks, NEW r \in t.keys, Restore(t, r) PROVE StoredTyped'
  <2>1. /\ disk.records \cup {r} \in SUBSET Record /\ disk.log \in SUBSET Nat
    BY <1>33, RestoreSets DEF StoredTyped, TasksTyped, TaskType
  <2>2. DiskIs(disk.records \cup {r}, disk.log)
    BY <1>33, RestoreSets
  <2>3. disk' \in [records : SUBSET Record, blobs : SUBSET Attachment, log : SUBSET Nat,
                    vault : BOOLEAN]
    BY <2>1, <2>2, BuiltTyped
  <2>4. Remembers(disk.records \cup {r})
    BY <1>33, RestoreSets
  <2>5. during' \in [always : SUBSET Record, ever : SUBSET Record]
    BY <2>1, <2>4, BuiltTyped
  <2>6. UNCHANGED <<ready, mem, pending, files, chat, made>>
    BY <1>33, RestoreSets
  <2> QED
    BY <2>3, <2>5, <2>6 DEF StoredTyped
<1>34. ASSUME NEW t \in tasks, NEW r \in t.keys, deleteMessage(t, r) PROVE StoredTyped'
  <2>1. /\ disk.records \ {r} \in SUBSET Record /\ disk.log \in SUBSET Nat
    BY <1>34, DeleteMessageSets DEF StoredTyped, TasksTyped, TaskType
  <2>2. DiskIs(disk.records \ {r}, disk.log)
    BY <1>34, DeleteMessageSets
  <2>3. disk' \in [records : SUBSET Record, blobs : SUBSET Attachment, log : SUBSET Nat,
                    vault : BOOLEAN]
    BY <2>1, <2>2, BuiltTyped
  <2>4. Remembers(disk.records \ {r})
    BY <1>34, DeleteMessageSets
  <2>5. during' \in [always : SUBSET Record, ever : SUBSET Record]
    BY <2>1, <2>4, BuiltTyped
  <2>6. UNCHANGED <<ready, mem, pending, files, chat, made, amiss>>
    BY <1>34, DeleteMessageSets
  <2> QED
    BY <2>3, <2>5, <2>6 DEF StoredTyped
<1>35. ASSUME NEW t \in tasks, findConvo(t) PROVE StoredTyped'
  BY <1>35, FindConvoSets, BuiltTyped DEF StoredTyped
<1>36. ASSUME NEW t \in tasks, Finish(t) PROVE StoredTyped'
  <2>1. MemIs(PutBack(t, t.got), mem.locked) /\ PutBack(t, t.got) \in SUBSET Record
    BY <1>36, FinishSets
  <2>2. mem' \in [records : SUBSET Record, locked : BOOLEAN]
    BY <2>1, BuiltTyped DEF StoredTyped
  <2>3. UNCHANGED <<disk, ready, pending, files, made, during>>
    BY <1>36, FinishSets
  <2> QED BY <2>2, <2>3 DEF StoredTyped
<1> QED
  BY <1>1, <1>2, <1>3, <1>5, <1>6, <1>7, <1>8, <1>9, <1>10, <1>11, <1>12, <1>13, <1>14, <1>15, <1>16, <1>17, <1>18, <1>19, <1>20, <1>21, <1>22, <1>23, <1>24, <1>25, <1>26, <1>27, <1>28, <1>29, <1>30, <1>31, <1>32, <1>33, <1>34, <1>35, <1>36 DEF Next, Step

(* Every step keeps the tasks finitely many, and tasks.                     *)
LEMMA TasksTypedKept ==
    ASSUME StoredTyped, TasksTyped, ChatTyped, [Next]_vars PROVE TasksTyped'
<1>1. CASE UNCHANGED vars
  BY <1>1 DEF vars, TasksTyped
<1>2. ASSUME NEW m \in Message, onSecure(m) \/ onIncoming(m) PROVE TasksTyped'
  BY <1>2, MessageSets DEF TasksTyped
<1>3. ASSUME NEW c \in Contact, deleteContact(c) \/ clearConversation(c) PROVE TasksTyped'
  <2>1. /\ "delete" \in Operation /\ "contact" \in Place /\ "clear" \in Operation /\ "convo" \in Place
        /\ mem.records \in SUBSET Record
        /\ made.ops \in Nat
        /\ {} \in SUBSET Nat
        /\ {c} \in SUBSET Contact
    BY <1>3 DEF StoredTyped, TasksTyped, TaskType, Place, Operation
  <2>2. \/ Begins("delete", "contact", mem.records, made.ops, {}, {c})
        \/ Begins("clear", "convo", mem.records, made.ops, {}, {c})
    BY <1>3, DeleteSets
  <2> QED
    BY <2>1, <2>2, TasksBegin
<1>5. ASSUME NEW r \in pending, Lands(r) PROVE TasksTyped'
  BY <1>5, LandsSets DEF TasksTyped
<1>6. ASSUME NEW f \in files, inAppImport(f) PROVE TasksTyped'
  <2>1. /\ "import" \in Operation
        /\ "open" \in Place
        /\ f \in SUBSET Record
        /\ 0 \in Nat
        /\ {} \in SUBSET Nat
        /\ {} \in SUBSET Contact
    BY <1>6 DEF StoredTyped, TasksTyped, TaskType, Place, Operation
  <2> QED
    BY <1>6, ImportSets, <2>1, TasksBegin
<1>7. CASE exportBackup
  <2>1. /\ "export" \in Operation
        /\ "contacts" \in Place
        /\ {} \in SUBSET Record
        /\ 0 \in Nat
        /\ {} \in SUBSET Nat
        /\ {} \in SUBSET Contact
    BY <1>7 DEF StoredTyped, TasksTyped, TaskType, Place, Operation
  <2> QED
    BY <1>7, ExportSets, <2>1, TasksBegin
<1>8. CASE appendSecurityEvent
  <2>1. /\ "log" \in Operation
        /\ "log" \in Place
        /\ {} \in SUBSET Record
        /\ made.events + 1 \in Nat
        /\ {} \in SUBSET Nat
        /\ {} \in SUBSET Contact
    BY <1>8 DEF StoredTyped, TasksTyped, TaskType, Place, Operation
  <2> QED
    BY <1>8, AppendSets, <2>1, TasksBegin
<1>9. CASE OpenChat
  <2>1. tasks \in SUBSET tasks /\ chat.round + 1 \in Nat
    BY DEF ChatTyped
  <2>2. \E asked \in SUBSET Attachment : Asks(tasks, chat.round + 1, asked)
    BY <1>9, OpenSets
  <2> QED
    BY <2>1, <2>2, TasksAsk
<1>10. CASE CloseChat
  BY <1>10, CloseSets DEF TasksTyped
<1>11. CASE lockVault
  <2>1. /\ "log" \in Operation
        /\ "log" \in Place
        /\ {} \in SUBSET Record
        /\ made.events + 1 \in Nat
        /\ {} \in SUBSET Nat
        /\ {} \in SUBSET Contact
    BY <1>11 DEF StoredTyped, TasksTyped, TaskType, Place, Operation
  <2> QED
    BY <1>11, LockSets, <2>1, TasksBegin
<1>12. CASE unlockVault
  <2>1. /\ "unlock" \in Operation
        /\ "log" \in Place
        /\ {} \in SUBSET Record
        /\ made.events + 1 \in Nat
        /\ {} \in SUBSET Nat
        /\ {} \in SUBSET Contact
    BY <1>12 DEF StoredTyped, TasksTyped, TaskType, Place, Operation
  <2> QED
    BY <1>12, UnlockSets, <2>1, TasksBegin
<1>13. CASE Reload
  BY <1>13, ReloadSets, FS_EmptySet DEF TasksTyped
<1>14. ASSUME NEW t \in tasks, putEvent(t) PROVE TasksTyped'
  <2>1. /\ "logged" \in Place
        /\ t.keys \in SUBSET Record
        /\ t.got \in SUBSET Record
        /\ t.number \in Nat
        /\ t.ints \in SUBSET Nat
    BY <1>14 DEF StoredTyped, TasksTyped, TaskType, Place, Operation
  <2> QED
    BY <1>14, PutSets, <2>1, TasksTurn
<1>15. ASSUME NEW t \in tasks, ListLog(t) PROVE TasksTyped'
  <2>1. /\ "trim" \in Place
        /\ t.keys \in SUBSET Record
        /\ t.got \in SUBSET Record
        /\ t.number \in Nat
        /\ Surplus(disk.log) \in SUBSET Nat
    BY <1>15 DEF StoredTyped, TasksTyped, TaskType, Place, Operation, Surplus, Oldest
  <2>2. Turns(t, "trim", t.keys, t.got, t.number, Surplus(disk.log)) => TasksTyped'
    BY <2>1, TasksTurn
  <2>3. /\ "load" \in Place
        /\ t.keys \in SUBSET Record
        /\ t.got \in SUBSET Record
        /\ t.number \in Nat
        /\ {} \in SUBSET Nat /\ "set" \in Place
    BY <1>15 DEF StoredTyped, TasksTyped, TaskType, Place, Operation, Surplus, Oldest
  <2>4. /\ Turns(t, "load", t.keys, t.got, t.number, {}) => TasksTyped'
        /\ Turns(t, "set", t.keys, t.got, t.number, {}) => TasksTyped'
    BY <2>3, TasksTurn
  <2> QED
    BY <1>15, ListLogSets, <2>2, <2>4, Tasking DEF LogOver
<1>16. ASSUME NEW t \in tasks, TrimLog(t) PROVE TasksTyped'
  <2>1. PICK e \in t.ints : \/ t.ints = {e} /\ LogOver(t)
                           \/ Turns(t, "trim", t.keys, t.got, t.number, t.ints \ {e})
    BY <1>16, TrimSets
  <2>2. /\ "trim" \in Place
        /\ t.keys \in SUBSET Record
        /\ t.got \in SUBSET Record
        /\ t.number \in Nat
        /\ t.ints \ {e} \in SUBSET Nat
    BY <1>16 DEF StoredTyped, TasksTyped, TaskType, Place, Operation
  <2>3. Turns(t, "trim", t.keys, t.got, t.number, t.ints \ {e}) => TasksTyped'
    BY <2>2, TasksTurn
  <2>4. /\ "load" \in Place
        /\ t.keys \in SUBSET Record
        /\ t.got \in SUBSET Record
        /\ t.number \in Nat
        /\ {} \in SUBSET Nat /\ "set" \in Place
    BY <1>16 DEF StoredTyped, TasksTyped, TaskType, Place, Operation
  <2>5. /\ Turns(t, "load", t.keys, t.got, t.number, {}) => TasksTyped'
        /\ Turns(t, "set", t.keys, t.got, t.number, {}) => TasksTyped'
    BY <2>4, TasksTurn
  <2> QED
    BY <2>1, <2>3, <2>5, Tasking DEF LogOver
<1>17. ASSUME NEW t \in tasks, ListKeys(t) PROVE TasksTyped'
  <2>1. t.at \in Stores
    BY <1>17, ListKeysSets
  <2>2. /\ After(t.at) \in Place
        /\ {} \in SUBSET Record
        /\ t.got \in SUBSET Record
        /\ t.number \in Nat
        /\ t.ints \in SUBSET Nat
    BY <2>1, <1>17 DEF StoredTyped, TasksTyped, TaskType, Place, Operation, After, Of, Stores
  <2>3. Turns(t, After(t.at), {}, t.got, t.number, t.ints) => TasksTyped'
    BY <2>2, TasksTurn
  <2>4. t.at \in Stores
    BY <1>17, ListKeysSets
  <2>5. /\ "get" \in Place
        /\ Of(t.at, disk.records) \in SUBSET Record
        /\ t.got \in SUBSET Record
        /\ t.number \in Nat
        /\ t.ints \in SUBSET Nat
    BY <2>4, <1>17 DEF StoredTyped, TasksTyped, TaskType, Place, Operation, After, Of, Stores
  <2>6. Turns(t, "get", Of(t.at, disk.records), t.got, t.number, t.ints) => TasksTyped'
    BY <2>5, TasksTurn
  <2> QED
    BY <1>17, ListKeysSets, <2>3, <2>6
<1>18. ASSUME NEW t \in tasks, createBackupFile(t) PROVE TasksTyped'
  <2>1. /\ "log" \in Place
        /\ t.keys \in SUBSET Record
        /\ t.got \in SUBSET Record
        /\ made.events + 1 \in Nat
        /\ t.ints \in SUBSET Nat
    BY <1>18 DEF StoredTyped, TasksTyped, TaskType, Place, Operation
  <2> QED
    BY <1>18, SealSets, <2>1, TasksTurn
<1>19. ASSUME NEW t \in tasks, openBackupFile(t) PROVE TasksTyped'
  <2>1. /\ "null" \in Place
        /\ t.keys \in SUBSET Record
        /\ t.got \in SUBSET Record
        /\ t.number \in Nat
        /\ t.ints \in SUBSET Nat
    BY <1>19 DEF StoredTyped, TasksTyped, TaskType, Place, Operation
  <2>2. Turns(t, "null", t.keys, t.got, t.number, t.ints) => TasksTyped'
    BY <2>1, TasksTurn
  <2> QED
    BY <1>19, OpenFileSets, <2>2, Tasking
<1>20. ASSUME NEW t \in tasks, dropStorage(t) PROVE TasksTyped'
  <2>1. /\ "wipe" \in Place
        /\ t.keys \in SUBSET Record
        /\ t.got \in SUBSET Record
        /\ t.number \in Nat
        /\ t.ints \in SUBSET Nat
    BY <1>20 DEF StoredTyped, TasksTyped, TaskType, Place, Operation
  <2> QED
    BY <1>20, DropStorageSets, <2>1, TasksTurn
<1>21. ASSUME NEW t \in tasks, deleteDatabase(t) PROVE TasksTyped'
  <2>1. /\ "init" \in Place
        /\ t.keys \in SUBSET Record
        /\ t.got \in SUBSET Record
        /\ t.number \in Nat
        /\ t.ints \in SUBSET Nat
    BY <1>21 DEF StoredTyped, TasksTyped, TaskType, Place, Operation
  <2> QED
    BY <1>21, WipeSets, <2>1, TasksTurn
<1>22. ASSUME NEW t \in tasks, initStorage(t) PROVE TasksTyped'
  <2>1. /\ "restore" \in Place
        /\ t.got \in SUBSET Record
        /\ t.got \in SUBSET Record
        /\ t.number \in Nat
        /\ t.ints \in SUBSET Nat
    BY <1>22 DEF StoredTyped, TasksTyped, TaskType, Place, Operation
  <2> QED
    BY <1>22, InitSets, <2>1, TasksTurn
<1>23. ASSUME NEW t \in tasks, RestoreFails(t) PROVE TasksTyped'
  BY <1>23, RestoreFailsSets, Tasking
<1>24. ASSUME NEW t \in tasks, Restored(t) PROVE TasksTyped'
  <2>1. /\ "log" \in Place
        /\ t.keys \in SUBSET Record
        /\ t.got \in SUBSET Record
        /\ made.events + 1 \in Nat
        /\ t.ints \in SUBSET Nat
    BY <1>24 DEF StoredTyped, TasksTyped, TaskType, Place, Operation
  <2> QED
    BY <1>24, RestoredSets, <2>1, TasksTurn
<1>25. ASSUME NEW t \in tasks, deleteRecord(t) PROVE TasksTyped'
  <2>1. \/ Turns(t, "identity", t.keys, t.got, t.number, t.ints)
        \/ Turns(t, "list", t.keys, t.got, t.number, t.ints)
    BY <1>25, DeleteRecordSets
  <2>2. /\ "identity" \in Place
        /\ t.keys \in SUBSET Record
        /\ t.got \in SUBSET Record
        /\ t.number \in Nat
        /\ t.ints \in SUBSET Nat
    BY <1>25 DEF StoredTyped, TasksTyped, TaskType, Place, Operation
  <2>3. Turns(t, "identity", t.keys, t.got, t.number, t.ints) => TasksTyped'
    BY <2>2, TasksTurn
  <2>4. /\ "list" \in Place
        /\ t.keys \in SUBSET Record
        /\ t.got \in SUBSET Record
        /\ t.number \in Nat
        /\ t.ints \in SUBSET Nat
    BY <1>25 DEF StoredTyped, TasksTyped, TaskType, Place, Operation
  <2>5. Turns(t, "list", t.keys, t.got, t.number, t.ints) => TasksTyped'
    BY <2>4, TasksTurn
  <2> QED
    BY <2>1, <2>3, <2>5
<1>26. ASSUME NEW t \in tasks, listMessageKeys(t) PROVE TasksTyped'
  <2>1. /\ "doomed" \in Place
        /\ Of("messages", UNION {About(c, disk.records) : c \in t.who}) \in SUBSET Record
        /\ t.got \in SUBSET Record
        /\ t.number \in Nat
        /\ t.ints \in SUBSET Nat
    BY <1>26 DEF StoredTyped, TasksTyped, TaskType, Place, Operation, Of, About
  <2> QED
    BY <1>26, DoomSets, <2>1, TasksTurn
<1>27. ASSUME NEW t \in tasks, Deleted(t) PROVE TasksTyped'
  <2>1. /\ "log" \in Place
        /\ t.keys \in SUBSET Record
        /\ t.got \in SUBSET Record
        /\ made.events + 1 \in Nat
        /\ t.ints \in SUBSET Nat
    BY <1>27 DEF StoredTyped, TasksTyped, TaskType, Place, Operation
  <2> QED
    BY <1>27, DeletedSets, <2>1, TasksTurn
<1>28. ASSUME NEW t \in tasks, getAttachmentBlob(t) PROVE TasksTyped'
  <2>1. /\ "decrypt" \in Place
        /\ t.keys \in SUBSET Record
        /\ t.got \in SUBSET Record
        /\ t.number \in Nat
        /\ t.ints \in SUBSET Nat
    BY <1>28 DEF StoredTyped, TasksTyped, TaskType, Place, Operation
  <2>2. Turns(t, "decrypt", t.keys, t.got, t.number, t.ints) => TasksTyped'
    BY <2>1, TasksTurn
  <2> QED
    BY <1>28, BlobSets, <2>2, Tasking
<1>29. ASSUME NEW t \in tasks, Decrypted(t) PROVE TasksTyped'
  BY <1>29, DecryptedSets, Tasking
<1>30. ASSUME NEW t \in tasks, loadAllData(t) PROVE TasksTyped'
  <2>1. tasks \ {t} \in SUBSET tasks /\ chat.round + 1 \in Nat
    BY DEF ChatTyped
  <2>2. Drop(t) \/ \E asked \in SUBSET Attachment : Asks(tasks \ {t}, chat.round + 1, asked)
    BY <1>30, LoadSets
  <2> QED
    BY <2>1, <2>2, TasksAsk, Tasking
<1>31. ASSUME NEW t \in tasks, Throws(t) PROVE TasksTyped'
  BY <1>31, ThrowsSets, Tasking
<1>32. ASSUME NEW t \in tasks, NEW r \in t.keys, GetRecord(t, r) PROVE TasksTyped'
  <2>1. r \in Record /\ r[1] \in Stores /\ After(r[1]) \in Place
    BY <1>32, GetSets, RecordFacts DEF After, Stores, Place
  <2>2. /\ (IF t.keys = {r} THEN After(r[1]) ELSE "get") \in Place
        /\ t.keys \ {r} \in SUBSET Record
        /\ t.got \cup ({r} \cap disk.records) \in SUBSET Record
        /\ t.number \in Nat
        /\ t.ints \in SUBSET Nat
    BY <2>1, <1>32 DEF StoredTyped, TasksTyped, TaskType, Place, Operation, After, Stores
  <2> QED
    BY <1>32, GetSets, <2>2, TasksTurn
<1>33. ASSUME NEW t \in tasks, NEW r \in t.keys, Restore(t, r) PROVE TasksTyped'
  <2>1. /\ "restore" \in Place
        /\ t.keys \ {r} \in SUBSET Record
        /\ t.got \in SUBSET Record
        /\ t.number \in Nat
        /\ t.ints \in SUBSET Nat
    BY <1>33 DEF StoredTyped, TasksTyped, TaskType, Place, Operation
  <2> QED
    BY <1>33, RestoreSets, <2>1, TasksTurn
<1>34. ASSUME NEW t \in tasks, NEW r \in t.keys, deleteMessage(t, r) PROVE TasksTyped'
  <2>1. /\ "doomed" \in Place
        /\ t.keys \ {r} \in SUBSET Record
        /\ t.got \in SUBSET Record
        /\ t.number \in Nat
        /\ t.ints \in SUBSET Nat
    BY <1>34 DEF StoredTyped, TasksTyped, TaskType, Place, Operation
  <2> QED
    BY <1>34, DeleteMessageSets, <2>1, TasksTurn
<1>35. ASSUME NEW t \in tasks, findConvo(t) PROVE TasksTyped'
  <2>1. /\ "convo" \in Place
        /\ t.keys \in SUBSET Record
        /\ t.got \in SUBSET Record
        /\ t.number \in Nat
        /\ t.ints \in SUBSET Nat
    BY <1>35 DEF StoredTyped, TasksTyped, TaskType, Place, Operation
  <2>2. Turns(t, "convo", t.keys, t.got, t.number, t.ints) => TasksTyped'
    BY <2>1, TasksTurn
  <2> QED
    BY <1>35, FindConvoSets, <2>2, Tasking
<1>36. ASSUME NEW t \in tasks, Finish(t) PROVE TasksTyped'
  BY <1>36, FinishSets, Tasking
<1> QED
  BY <1>1, <1>2, <1>3, <1>5, <1>6, <1>7, <1>8, <1>9, <1>10, <1>11, <1>12, <1>13, <1>14, <1>15, <1>16, <1>17, <1>18, <1>19, <1>20, <1>21, <1>22, <1>23, <1>24, <1>25, <1>26, <1>27, <1>28, <1>29, <1>30, <1>31, <1>32, <1>33, <1>34, <1>35, <1>36 DEF Next, Step

(* Every step keeps the operations at their places.                         *)
LEMMA AllStagedKept ==
    ASSUME StoredTyped, TasksTyped, AllStaged, [Next]_vars PROVE AllStaged'
<1> USE DEF AllStaged
<1>1. CASE UNCHANGED vars
  BY <1>1 DEF vars, Staged
<1>2. ASSUME NEW m \in Message, onSecure(m) \/ onIncoming(m) PROVE AllStaged'
  BY <1>2, MessageSets DEF AllStaged
<1>3. ASSUME NEW c \in Contact, deleteContact(c) \/ clearConversation(c) PROVE AllStaged'
  <2> SUFFICES ASSUME NEW u \in tasks', u \notin tasks PROVE Staged(u)
    BY DEF AllStaged
  <2>0. \/ Begins("delete", "contact", mem.records, made.ops, {}, {c})
        \/ Begins("clear", "convo", mem.records, made.ops, {}, {c})
    BY <1>3, DeleteSets
  <2>1. /\ \/ u.op = "delete" /\ u.at = "contact"
           \/ u.op = "clear" /\ u.at = "convo"
        /\ u.keys = {} /\ u.ints = {} /\ u.who = {c}
    <3>1. CASE Begins("delete", "contact", mem.records, made.ops, {}, {c})
      BY <3>1 DEF Begins
    <3>2. CASE Begins("clear", "convo", mem.records, made.ops, {}, {c})
      BY <3>2 DEF Begins
    <3> QED BY <2>0, <3>1, <3>2
  <2> QED
    BY <2>1 DEF Staged, Logging, After, Stores
<1>5. ASSUME NEW r \in pending, Lands(r) PROVE AllStaged'
  BY <1>5, LandsSets DEF AllStaged
<1>6. ASSUME NEW f \in files, inAppImport(f) PROVE AllStaged'
  <2> SUFFICES ASSUME NEW u \in tasks', u \notin tasks PROVE Staged(u)
    BY DEF AllStaged
  <2>0. Begins("import", "open", f, 0, {}, {})
    BY <1>6, ImportSets
  <2>1. /\ u.op = "import" /\ u.at = "open" /\ u.keys = {} /\ u.got = f /\ u.number = 0
        /\ u.ints = {} /\ u.who = {}
    BY <2>0 DEF Begins
  <2> QED
    BY <2>1 DEF Staged, Logging, After, Stores
<1>7. CASE exportBackup
  <2> SUFFICES ASSUME NEW u \in tasks', u \notin tasks PROVE Staged(u)
    BY DEF AllStaged
  <2>0. Begins("export", "contacts", {}, 0, {}, {})
    BY <1>7, ExportSets
  <2>1. /\ u.op = "export" /\ u.at = "contacts" /\ u.keys = {} /\ u.got = {} /\ u.number = 0
        /\ u.ints = {} /\ u.who = {}
    BY <2>0 DEF Begins
  <2> QED
    BY <2>1 DEF Staged, Logging, After, Stores
<1>8. CASE appendSecurityEvent
  <2> SUFFICES ASSUME NEW u \in tasks', u \notin tasks PROVE Staged(u)
    BY DEF AllStaged
  <2>0. Begins("log", "log", {}, made.events + 1, {}, {})
    BY <1>8, AppendSets
  <2>1. /\ u.op = "log" /\ u.at = "log" /\ u.keys = {} /\ u.got = {} /\ u.number = made.events + 1
        /\ u.ints = {} /\ u.who = {}
    BY <2>0 DEF Begins
  <2> QED
    BY <2>1 DEF Staged, Logging, After, Stores
<1>9. CASE OpenChat
  <2> SUFFICES ASSUME NEW u \in tasks', u \notin tasks PROVE Staged(u)
    BY DEF AllStaged
  <2>1. /\ u.op = "open" /\ u.at = "read" /\ u.keys = {} /\ u.got = {} /\ u.who = {}
        /\ u.number = chat.round + 1 /\ \E a \in Attachment : u.ints = {a}
    BY <1>9, OpenSets DEF Asks
  <2> QED
    BY <2>1 DEF Staged, Logging, After, Stores
<1>10. CASE CloseChat
  BY <1>10, CloseSets DEF AllStaged
<1>11. CASE lockVault
  <2> SUFFICES ASSUME NEW u \in tasks', u \notin tasks PROVE Staged(u)
    BY DEF AllStaged
  <2>0. Begins("log", "log", {}, made.events + 1, {}, {})
    BY <1>11, LockSets
  <2>1. /\ u.op = "log" /\ u.at = "log" /\ u.keys = {} /\ u.got = {} /\ u.number = made.events + 1
        /\ u.ints = {} /\ u.who = {}
    BY <2>0 DEF Begins
  <2> QED
    BY <2>1 DEF Staged, Logging, After, Stores
<1>12. CASE unlockVault
  <2> SUFFICES ASSUME NEW u \in tasks', u \notin tasks PROVE Staged(u)
    BY DEF AllStaged
  <2>0. Begins("unlock", "log", {}, made.events + 1, {}, {})
    BY <1>12, UnlockSets
  <2>1. /\ u.op = "unlock" /\ u.at = "log" /\ u.keys = {} /\ u.got = {} /\ u.number = made.events + 1
        /\ u.ints = {} /\ u.who = {}
    BY <2>0 DEF Begins
  <2> QED
    BY <2>1 DEF Staged, Logging, After, Stores
<1>13. CASE Reload
  BY <1>13, ReloadSets DEF AllStaged
<1>14. ASSUME NEW t \in tasks, putEvent(t) PROVE AllStaged'
  <2> SUFFICES ASSUME NEW u \in tasks', u \notin tasks PROVE Staged(u)
    BY DEF AllStaged
  <2>0. Turns(t, "logged", t.keys, t.got, t.number, t.ints)
    BY <1>14, PutSets
  <2>1. /\ u.op = t.op /\ u.who = t.who /\ u.at = ("logged") /\ u.keys = t.keys
        /\ u.got = t.got /\ u.number = t.number /\ u.ints = t.ints
    BY <2>0 DEF Turns
  <2>2. Staged(t)
    BY DEF AllStaged
  <2> QED
    BY <2>1, <2>2, <1>14, PutSets DEF Staged, Logging, After, Stores
<1>15. ASSUME NEW t \in tasks, ListLog(t) PROVE AllStaged'
  <2> SUFFICES ASSUME NEW u \in tasks', u \notin tasks PROVE Staged(u)
    BY DEF AllStaged
  <2>1. /\ u.op = t.op /\ u.who = t.who /\ u.got = t.got /\ u.number = t.number
        /\ \/ u.at = "load" /\ u.ints = {} /\ t.op \in {"import", "unlock"} /\ u.keys = t.keys
           \/ u.at = "set" /\ u.ints = {} /\ t.op \in {"delete", "clear"} /\ u.keys = t.keys
           \/ u.at = "trim" /\ u.ints = Surplus(disk.log) /\ u.ints # {} /\ u.keys = t.keys
    BY <1>15, ListLogSets DEF LogOver, Turns, Drop
  <2>2. Staged(t)
    BY DEF AllStaged
  <2> QED
    BY <2>1, <2>2, <1>15, ListLogSets DEF Staged, Logging, After, Stores
<1>16. ASSUME NEW t \in tasks, TrimLog(t) PROVE AllStaged'
  <2> SUFFICES ASSUME NEW u \in tasks', u \notin tasks PROVE Staged(u)
    BY DEF AllStaged
  <2>1. /\ u.op = t.op /\ u.who = t.who /\ u.got = t.got /\ u.number = t.number
        /\ \/ u.at = "load" /\ u.ints = {} /\ t.op \in {"import", "unlock"} /\ u.keys = t.keys
           \/ u.at = "set" /\ u.ints = {} /\ t.op \in {"delete", "clear"} /\ u.keys = t.keys
           \/ u.at = "trim" /\ u.ints # {} /\ u.ints \subseteq t.ints /\ u.keys = t.keys
    <3>1. PICK e \in t.ints :
            /\ \A k \in t.ints : e <= k
            /\ DiskIs(disk.records, disk.log \ {e})
            /\ \/ t.ints = {e} /\ LogOver(t)
               \/ t.ints # {e} /\ Turns(t, "trim", t.keys, t.got, t.number, t.ints \ {e})
      BY <1>16, TrimSets
    <3>2. t.ints \ {e} # {} \/ LogOver(t)
      BY <3>1
    <3> QED BY <3>1, <3>2 DEF LogOver, Turns, Drop
  <2>2. Staged(t)
    BY DEF AllStaged
  <2> QED
    BY <2>1, <2>2, <1>16, TrimSets DEF Staged, Logging, After, Stores
<1>17. ASSUME NEW t \in tasks, ListKeys(t) PROVE AllStaged'
  <2> SUFFICES ASSUME NEW u \in tasks', u \notin tasks PROVE Staged(u)
    BY DEF AllStaged
  <2>1. /\ u.op = t.op /\ u.who = t.who /\ u.got = t.got /\ u.number = t.number
        /\ \/ u.at = After(t.at) /\ u.keys = {} /\ u.ints = t.ints
           \/ u.at = "get" /\ u.keys = Of(t.at, disk.records) /\ u.ints = t.ints
    BY <1>17, ListKeysSets DEF Turns
  <2>2. Staged(t)
    BY DEF AllStaged
  <2> QED
    BY <2>1, <2>2, <1>17, ListKeysSets DEF Staged, Logging, After, Stores
<1>18. ASSUME NEW t \in tasks, createBackupFile(t) PROVE AllStaged'
  <2> SUFFICES ASSUME NEW u \in tasks', u \notin tasks PROVE Staged(u)
    BY DEF AllStaged
  <2>0. Turns(t, "log", t.keys, t.got, made.events + 1, t.ints)
    BY <1>18, SealSets
  <2>1. /\ u.op = t.op /\ u.who = t.who /\ u.at = ("log") /\ u.keys = t.keys
        /\ u.got = t.got /\ u.number = made.events + 1 /\ u.ints = t.ints
    BY <2>0 DEF Turns
  <2>2. Staged(t)
    BY DEF AllStaged
  <2> QED
    BY <2>1, <2>2, <1>18, SealSets DEF Staged, Logging, After, Stores
<1>19. ASSUME NEW t \in tasks, openBackupFile(t) PROVE AllStaged'
  <2> SUFFICES ASSUME NEW u \in tasks', u \notin tasks PROVE Staged(u)
    BY DEF AllStaged
  <2>0. Drop(t) \/ Turns(t, "null", t.keys, t.got, t.number, t.ints)
    BY <1>19, OpenFileSets
  <2>1. /\ u.op = t.op /\ u.who = t.who /\ u.at = ("null") /\ u.keys = t.keys
        /\ u.got = t.got /\ u.number = t.number /\ u.ints = t.ints
    BY <2>0 DEF Turns, Drop
  <2>2. Staged(t)
    BY DEF AllStaged
  <2> QED
    BY <2>1, <2>2, <1>19, OpenFileSets DEF Staged, Logging, After, Stores
<1>20. ASSUME NEW t \in tasks, dropStorage(t) PROVE AllStaged'
  <2> SUFFICES ASSUME NEW u \in tasks', u \notin tasks PROVE Staged(u)
    BY DEF AllStaged
  <2>0. Turns(t, "wipe", t.keys, t.got, t.number, t.ints)
    BY <1>20, DropStorageSets
  <2>1. /\ u.op = t.op /\ u.who = t.who /\ u.at = ("wipe") /\ u.keys = t.keys
        /\ u.got = t.got /\ u.number = t.number /\ u.ints = t.ints
    BY <2>0 DEF Turns
  <2>2. Staged(t)
    BY DEF AllStaged
  <2> QED
    BY <2>1, <2>2, <1>20, DropStorageSets DEF Staged, Logging, After, Stores
<1>21. ASSUME NEW t \in tasks, deleteDatabase(t) PROVE AllStaged'
  <2> SUFFICES ASSUME NEW u \in tasks', u \notin tasks PROVE Staged(u)
    BY DEF AllStaged
  <2>0. Turns(t, "init", t.keys, t.got, t.number, t.ints)
    BY <1>21, WipeSets
  <2>1. /\ u.op = t.op /\ u.who = t.who /\ u.at = ("init") /\ u.keys = t.keys
        /\ u.got = t.got /\ u.number = t.number /\ u.ints = t.ints
    BY <2>0 DEF Turns
  <2>2. Staged(t)
    BY DEF AllStaged
  <2> QED
    BY <2>1, <2>2, <1>21, WipeSets DEF Staged, Logging, After, Stores
<1>22. ASSUME NEW t \in tasks, initStorage(t) PROVE AllStaged'
  <2> SUFFICES ASSUME NEW u \in tasks', u \notin tasks PROVE Staged(u)
    BY DEF AllStaged
  <2>0. Turns(t, "restore", t.got, t.got, t.number, t.ints)
    BY <1>22, InitSets
  <2>1. /\ u.op = t.op /\ u.who = t.who /\ u.at = ("restore") /\ u.keys = t.got
        /\ u.got = t.got /\ u.number = t.number /\ u.ints = t.ints
    BY <2>0 DEF Turns
  <2>2. Staged(t)
    BY DEF AllStaged
  <2> QED
    BY <2>1, <2>2, <1>22, InitSets DEF Staged, Logging, After, Stores
<1>23. ASSUME NEW t \in tasks, RestoreFails(t) PROVE AllStaged'
  BY <1>23, RestoreFailsSets DEF Drop, AllStaged
<1>24. ASSUME NEW t \in tasks, Restored(t) PROVE AllStaged'
  <2> SUFFICES ASSUME NEW u \in tasks', u \notin tasks PROVE Staged(u)
    BY DEF AllStaged
  <2>0. Turns(t, "log", t.keys, t.got, made.events + 1, t.ints)
    BY <1>24, RestoredSets
  <2>1. /\ u.op = t.op /\ u.who = t.who /\ u.at = ("log") /\ u.keys = t.keys
        /\ u.got = t.got /\ u.number = made.events + 1 /\ u.ints = t.ints
    BY <2>0 DEF Turns
  <2>2. Staged(t)
    BY DEF AllStaged
  <2> QED
    BY <2>1, <2>2, <1>24, RestoredSets DEF Staged, Logging, After, Stores
<1>25. ASSUME NEW t \in tasks, deleteRecord(t) PROVE AllStaged'
  <2> SUFFICES ASSUME NEW u \in tasks', u \notin tasks PROVE Staged(u)
    BY DEF AllStaged
  <2>1. /\ u.op = t.op /\ u.who = t.who /\ u.got = t.got /\ u.number = t.number
        /\ \/ u.at = "identity" /\ t.at = "contact" /\ u.keys = t.keys /\ u.ints = t.ints
           \/ u.at = "list" /\ t.at = "convo" /\ u.keys = t.keys /\ u.ints = t.ints
    BY <1>25, DeleteRecordSets DEF Turns
  <2>2. Staged(t)
    BY DEF AllStaged
  <2> QED
    BY <2>1, <2>2, <1>25, DeleteRecordSets DEF Staged, Logging, After, Stores
<1>26. ASSUME NEW t \in tasks, listMessageKeys(t) PROVE AllStaged'
  <2> SUFFICES ASSUME NEW u \in tasks', u \notin tasks PROVE Staged(u)
    BY DEF AllStaged
  <2>0. Turns(t, "doomed", Of("messages", UNION {About(c, disk.records) : c \in t.who}), t.got, t.number, t.ints)
    BY <1>26, DoomSets
  <2>1. /\ u.op = t.op /\ u.who = t.who /\ u.at = ("doomed") /\ u.keys = Of("messages", UNION {About(c, disk.records) : c \in t.who})
        /\ u.got = t.got /\ u.number = t.number /\ u.ints = t.ints
    BY <2>0 DEF Turns
  <2>2. Staged(t) /\ t.at = "list"
    BY <1>26, DoomSets DEF AllStaged
  <2>3. \A q \in u.keys : q[1] = "messages" /\ Owner(q) \in t.who
    BY <2>1 DEF Of, About
  <2>4. u.op = t.op /\ u.who = t.who /\ u.at = "doomed" /\ u.ints = t.ints
    BY <2>1
  <2> QED
    BY <2>2, <2>3, <2>4 DEF Staged, Logging
<1>27. ASSUME NEW t \in tasks, Deleted(t) PROVE AllStaged'
  <2> SUFFICES ASSUME NEW u \in tasks', u \notin tasks PROVE Staged(u)
    BY DEF AllStaged
  <2>0. Turns(t, "log", t.keys, t.got, made.events + 1, t.ints)
    BY <1>27, DeletedSets
  <2>1. /\ u.op = t.op /\ u.who = t.who /\ u.at = ("log") /\ u.keys = t.keys
        /\ u.got = t.got /\ u.number = made.events + 1 /\ u.ints = t.ints
    BY <2>0 DEF Turns
  <2>2. Staged(t)
    BY DEF AllStaged
  <2> QED
    BY <2>1, <2>2, <1>27, DeletedSets DEF Staged, Logging, After, Stores
<1>28. ASSUME NEW t \in tasks, getAttachmentBlob(t) PROVE AllStaged'
  <2> SUFFICES ASSUME NEW u \in tasks', u \notin tasks PROVE Staged(u)
    BY DEF AllStaged
  <2>0. Drop(t) \/ Turns(t, "decrypt", t.keys, t.got, t.number, t.ints)
    BY <1>28, BlobSets
  <2>1. /\ u.op = t.op /\ u.who = t.who /\ u.at = ("decrypt") /\ u.keys = t.keys
        /\ u.got = t.got /\ u.number = t.number /\ u.ints = t.ints
    BY <2>0 DEF Turns, Drop
  <2>2. Staged(t)
    BY DEF AllStaged
  <2> QED
    BY <2>1, <2>2, <1>28, BlobSets DEF Staged, Logging, After, Stores
<1>29. ASSUME NEW t \in tasks, Decrypted(t) PROVE AllStaged'
  BY <1>29, DecryptedSets DEF Drop, AllStaged
<1>30. ASSUME NEW t \in tasks, loadAllData(t) PROVE AllStaged'
  <2> SUFFICES ASSUME NEW u \in tasks', u \notin tasks PROVE Staged(u)
    BY DEF AllStaged
  <2>1. /\ u.op = "open" /\ u.at = "read" /\ u.keys = {} /\ u.got = {} /\ u.who = {}
        /\ u.number = chat.round + 1 /\ \E a \in Attachment : u.ints = {a}
    BY <1>30, LoadSets DEF Drop, Asks
  <2> QED
    BY <2>1 DEF Staged, Logging, After, Stores
<1>31. ASSUME NEW t \in tasks, Throws(t) PROVE AllStaged'
  BY <1>31, ThrowsSets DEF Drop, AllStaged
<1>32. ASSUME NEW t \in tasks, NEW r \in t.keys, GetRecord(t, r) PROVE AllStaged'
  <2> SUFFICES ASSUME NEW u \in tasks', u \notin tasks PROVE Staged(u)
    BY DEF AllStaged
  <2>0. Turns(t, IF t.keys = {r} THEN After(r[1]) ELSE "get", t.keys \ {r}, t.got \cup ({r} \cap disk.records), t.number, t.ints)
    BY <1>32, GetSets
  <2>1. /\ u.op = t.op /\ u.who = t.who /\ u.at = (IF t.keys = {r} THEN After(r[1]) ELSE "get") /\ u.keys = t.keys \ {r}
        /\ u.got = t.got \cup ({r} \cap disk.records) /\ u.number = t.number /\ u.ints = t.ints
    BY <2>0 DEF Turns
  <2>2. Staged(t) /\ t.op = "export" /\ r \in Record
    BY <1>32, GetSets DEF AllStaged
  <2>3. r[1] \in Stores
    BY <2>2, RecordFacts
  <2>4. After(r[1]) \in {"conversations", "messages", "seal"}
    BY <2>3 DEF After, Stores
  <2>5. u.op = "export" /\ u.at \in {"conversations", "messages", "seal", "get"} /\ u.ints = t.ints
        /\ u.who = t.who
    BY <2>1, <2>2, <2>4
  <2>6. t.who = {} /\ (t.at = "get" => t.ints = {}) /\ t.at = "get"
    BY <1>32, <2>2, GetSets DEF Staged
  <2> QED
    BY <2>5, <2>6 DEF Staged
<1>33. ASSUME NEW t \in tasks, NEW r \in t.keys, Restore(t, r) PROVE AllStaged'
  <2> SUFFICES ASSUME NEW u \in tasks', u \notin tasks PROVE Staged(u)
    BY DEF AllStaged
  <2>0. Turns(t, "restore", t.keys \ {r}, t.got, t.number, t.ints)
    BY <1>33, RestoreSets
  <2>1. /\ u.op = t.op /\ u.who = t.who /\ u.at = ("restore") /\ u.keys = t.keys \ {r}
        /\ u.got = t.got /\ u.number = t.number /\ u.ints = t.ints
    BY <2>0 DEF Turns
  <2>2. Staged(t)
    BY DEF AllStaged
  <2> QED
    BY <2>1, <2>2, <1>33, RestoreSets DEF Staged, Logging, After, Stores
<1>34. ASSUME NEW t \in tasks, NEW r \in t.keys, deleteMessage(t, r) PROVE AllStaged'
  <2> SUFFICES ASSUME NEW u \in tasks', u \notin tasks PROVE Staged(u)
    BY DEF AllStaged
  <2>0. Turns(t, "doomed", t.keys \ {r}, t.got, t.number, t.ints)
    BY <1>34, DeleteMessageSets
  <2>1. /\ u.op = t.op /\ u.who = t.who /\ u.at = ("doomed") /\ u.keys = t.keys \ {r}
        /\ u.got = t.got /\ u.number = t.number /\ u.ints = t.ints
    BY <2>0 DEF Turns
  <2>2. Staged(t)
    BY DEF AllStaged
  <2> QED
    BY <2>1, <2>2, <1>34, DeleteMessageSets DEF Staged, Logging, After, Stores
<1>35. ASSUME NEW t \in tasks, findConvo(t) PROVE AllStaged'
  <2> SUFFICES ASSUME NEW u \in tasks', u \notin tasks PROVE Staged(u)
    BY DEF AllStaged
  <2>1. /\ u.op = t.op /\ u.who = t.who /\ u.at = "convo" /\ u.keys = t.keys
        /\ u.got = t.got /\ u.number = t.number /\ u.ints = t.ints
    BY <1>35, FindConvoSets DEF Turns, Drop
  <2>2. Staged(t)
    BY DEF AllStaged
  <2> QED
    BY <2>1, <2>2, <1>35, FindConvoSets DEF Staged, Logging
<1>36. ASSUME NEW t \in tasks, Finish(t) PROVE AllStaged'
  BY <1>36, FinishSets DEF Drop, AllStaged
<1> HIDE DEF AllStaged
<1> QED
  BY <1>1, <1>2, <1>3, <1>5, <1>6, <1>7, <1>8, <1>9, <1>10, <1>11, <1>12, <1>13, <1>14, <1>15, <1>16, <1>17, <1>18, <1>19, <1>20, <1>21, <1>22, <1>23, <1>24, <1>25, <1>26, <1>27, <1>28, <1>29, <1>30, <1>31, <1>32, <1>33, <1>34, <1>35, <1>36 DEF Next, Step

(* Every step keeps what is amiss among what can be.                        *)
LEMMA WaysKept ==
    ASSUME StoredTyped, TasksTyped, WaysOK, [Next]_vars PROVE WaysOK'
<1>1. CASE UNCHANGED vars
  BY <1>1 DEF vars, WaysOK
<1>2. ASSUME NEW m \in Message, onSecure(m) \/ onIncoming(m) PROVE WaysOK'
  <2>1. PICK rs, shown : Write(m, rs, shown)
    BY <1>2 DEF onSecure, onIncoming
  <2>2. \A r \in rs : Writes(r) \subseteq Ways
    BY DEF Writes, If, Ways
  <2>3. UNION {Writes(r) : r \in rs} \subseteq Ways
    BY <2>2
  <2>4. \A b : If(b, "amid") \subseteq Ways /\ If(b, "thrown") \subseteq Ways /\ If(b, "astray") \subseteq Ways
    BY DEF If, Ways
  <2> QED
    BY <2>1, <2>3, <2>4 DEF Write, Blame, WaysOK
<1>3. ASSUME NEW c \in Contact, deleteContact(c) \/ clearConversation(c) PROVE WaysOK'
  BY <1>3 DEF deleteContact, clearConversation, Deletes, Blame, If, Writes, Ways, WaysOK
<1>5. ASSUME NEW r \in pending, Lands(r) PROVE WaysOK'
  BY <1>5 DEF Lands, Blame, If, Writes, Ways, WaysOK
<1>6. ASSUME NEW f \in files, inAppImport(f) PROVE WaysOK'
  BY <1>6, ImportSets DEF WaysOK
<1>7. CASE exportBackup
  BY <1>7, ExportSets DEF WaysOK
<1>8. CASE appendSecurityEvent
  BY <1>8, AppendSets DEF WaysOK
<1>9. CASE OpenChat
  BY <1>9, OpenSets DEF WaysOK
<1>10. CASE CloseChat
  BY <1>10, CloseSets DEF WaysOK
<1>11. CASE lockVault
  BY <1>11, LockSets DEF WaysOK
<1>12. CASE unlockVault
  BY <1>12, UnlockSets DEF WaysOK
<1>13. CASE Reload
  BY <1>13 DEF Reload, Blame, If, Writes, Ways, WaysOK
<1>14. ASSUME NEW t \in tasks, putEvent(t) PROVE WaysOK'
  BY <1>14, PutSets DEF WaysOK
<1>15. ASSUME NEW t \in tasks, ListLog(t) PROVE WaysOK'
  BY <1>15, ListLogSets DEF WaysOK
<1>16. ASSUME NEW t \in tasks, TrimLog(t) PROVE WaysOK'
  BY <1>16, TrimSets DEF WaysOK
<1>17. ASSUME NEW t \in tasks, ListKeys(t) PROVE WaysOK'
  BY <1>17, ListKeysSets DEF WaysOK
<1>18. ASSUME NEW t \in tasks, createBackupFile(t) PROVE WaysOK'
  BY <1>18 DEF createBackupFile, Blame, If, Writes, Ways, WaysOK
<1>19. ASSUME NEW t \in tasks, openBackupFile(t) PROVE WaysOK'
  BY <1>19, OpenFileSets DEF WaysOK
<1>20. ASSUME NEW t \in tasks, dropStorage(t) PROVE WaysOK'
  BY <1>20, DropStorageSets DEF WaysOK
<1>21. ASSUME NEW t \in tasks, deleteDatabase(t) PROVE WaysOK'
  BY <1>21 DEF deleteDatabase, Blame, If, Writes, Ways, WaysOK
<1>22. ASSUME NEW t \in tasks, initStorage(t) PROVE WaysOK'
  BY <1>22, InitSets DEF WaysOK
<1>23. ASSUME NEW t \in tasks, RestoreFails(t) PROVE WaysOK'
  BY <1>23 DEF RestoreFails, Blame, If, Writes, Ways, WaysOK
<1>24. ASSUME NEW t \in tasks, Restored(t) PROVE WaysOK'
  BY <1>24, RestoredSets DEF WaysOK
<1>25. ASSUME NEW t \in tasks, deleteRecord(t) PROVE WaysOK'
  BY <1>25, DeleteRecordSets DEF WaysOK
<1>26. ASSUME NEW t \in tasks, listMessageKeys(t) PROVE WaysOK'
  BY <1>26, DoomSets DEF WaysOK
<1>27. ASSUME NEW t \in tasks, Deleted(t) PROVE WaysOK'
  BY <1>27, DeletedSets DEF WaysOK
<1>28. ASSUME NEW t \in tasks, getAttachmentBlob(t) PROVE WaysOK'
  BY <1>28, BlobSets DEF WaysOK
<1>29. ASSUME NEW t \in tasks, Decrypted(t) PROVE WaysOK'
  BY <1>29 DEF Decrypted, Blame, If, Writes, Ways, WaysOK
<1>30. ASSUME NEW t \in tasks, loadAllData(t) PROVE WaysOK'
  BY <1>30 DEF loadAllData, Blame, If, Writes, Ways, WaysOK
<1>31. ASSUME NEW t \in tasks, Throws(t) PROVE WaysOK'
  BY <1>31 DEF Throws, Blame, If, Writes, Ways, WaysOK
<1>32. ASSUME NEW t \in tasks, NEW r \in t.keys, GetRecord(t, r) PROVE WaysOK'
  BY <1>32, GetSets DEF WaysOK
<1>33. ASSUME NEW t \in tasks, NEW r \in t.keys, Restore(t, r) PROVE WaysOK'
  BY <1>33 DEF Restore, Blame, If, Writes, Ways, WaysOK
<1>34. ASSUME NEW t \in tasks, NEW r \in t.keys, deleteMessage(t, r) PROVE WaysOK'
  BY <1>34, DeleteMessageSets DEF WaysOK
<1>35. ASSUME NEW t \in tasks, findConvo(t) PROVE WaysOK'
  BY <1>35 DEF findConvo, Blame, Ways, WaysOK
<1>36. ASSUME NEW t \in tasks, Finish(t) PROVE WaysOK'
  BY <1>36 DEF Finish, Blame, If, Ways, WaysOK
<1> QED
  BY <1>1, <1>2, <1>3, <1>5, <1>6, <1>7, <1>8, <1>9, <1>10, <1>11, <1>12, <1>13, <1>14, <1>15, <1>16, <1>17, <1>18, <1>19, <1>20, <1>21, <1>22, <1>23, <1>24, <1>25, <1>26, <1>27, <1>28, <1>29, <1>30, <1>31, <1>32, <1>33, <1>34, <1>35, <1>36 DEF Next, Step

(* Every step keeps exports and imports one at a time.                      *)
LEMMA OnlyOneKept ==
    ASSUME StoredTyped, TasksTyped, OnlyOne, [Next]_vars PROVE OnlyOne'
<1>1. CASE UNCHANGED vars
  BY <1>1 DEF vars, OnlyOne
<1>2. ASSUME NEW m \in Message, onSecure(m) \/ onIncoming(m) PROVE OnlyOne'
  BY <1>2, MessageSets DEF OnlyOne
<1>3. ASSUME NEW c \in Contact, deleteContact(c) \/ clearConversation(c) PROVE OnlyOne'
  <2>1. \/ Begins("delete", "contact", mem.records, made.ops, {}, {c})
        \/ Begins("clear", "convo", mem.records, made.ops, {}, {c})
    BY <1>3, DeleteSets
  <2>2. ASSUME NEW op \in {"delete", "clear"}, NEW at, Begins(op, at, mem.records, made.ops, {}, {c})
        PROVE  OnlyOne'
    BY <2>2 DEF OnlyOne, Begins
  <2> QED BY <2>1, <2>2
<1>5. ASSUME NEW r \in pending, Lands(r) PROVE OnlyOne'
  BY <1>5, LandsSets DEF OnlyOne
<1>6. ASSUME NEW f \in files, inAppImport(f) PROVE OnlyOne'
  <2>1. (\E u : u.op = "import" /\ tasks' = tasks \cup {u}) /\ ~Running("import")
    BY <1>6, ImportSets DEF Begins
  <2>2. \A x \in tasks : x.op # "import"
    BY <2>1 DEF Running
  <2> QED BY <2>1, <2>2 DEF OnlyOne
<1>7. CASE exportBackup
  <2>1. (\E u : u.op = "export" /\ tasks' = tasks \cup {u}) /\ ~Running("export")
    BY <1>7, ExportSets DEF Begins
  <2>2. \A x \in tasks : x.op # "export"
    BY <2>1 DEF Running
  <2> QED BY <2>1, <2>2 DEF OnlyOne
<1>8. CASE appendSecurityEvent
  <2>1. (\E u : u.op = "log" /\ tasks' = tasks \cup {u})
    BY <1>8, AppendSets DEF Begins
  <2> QED BY <2>1 DEF OnlyOne
<1>9. CASE OpenChat
  <2>1. \A u \in tasks' : u \in tasks \/ u.op = "open"
    BY <1>9, OpenSets DEF Asks
  <2> QED BY <2>1 DEF OnlyOne
<1>10. CASE CloseChat
  BY <1>10, CloseSets DEF OnlyOne
<1>11. CASE lockVault
  <2>1. (\E u : u.op = "log" /\ tasks' = tasks \cup {u})
    BY <1>11, LockSets DEF Begins
  <2> QED BY <2>1 DEF OnlyOne
<1>12. CASE unlockVault
  <2>1. (\E u : u.op = "unlock" /\ tasks' = tasks \cup {u})
    BY <1>12, UnlockSets DEF Begins
  <2> QED BY <2>1 DEF OnlyOne
<1>13. CASE Reload
  BY <1>13, ReloadSets DEF OnlyOne
<1>14. ASSUME NEW t \in tasks, putEvent(t) PROVE OnlyOne'
  <2>1. (tasks' \subseteq tasks) \/ \E u : u.op = t.op /\ tasks' = (tasks \ {t}) \cup {u}
    BY <1>14, PutSets DEF Turns
  <2> QED BY <2>1 DEF OnlyOne
<1>15. ASSUME NEW t \in tasks, ListLog(t) PROVE OnlyOne'
  <2>1. (tasks' \subseteq tasks) \/ \E u : u.op = t.op /\ tasks' = (tasks \ {t}) \cup {u}
    BY <1>15, ListLogSets DEF LogOver, Turns, Drop
  <2> QED BY <2>1 DEF OnlyOne
<1>16. ASSUME NEW t \in tasks, TrimLog(t) PROVE OnlyOne'
  <2>1. (tasks' \subseteq tasks) \/ \E u : u.op = t.op /\ tasks' = (tasks \ {t}) \cup {u}
    BY <1>16, TrimSets DEF LogOver, Turns, Drop
  <2> QED BY <2>1 DEF OnlyOne
<1>17. ASSUME NEW t \in tasks, ListKeys(t) PROVE OnlyOne'
  <2>1. (tasks' \subseteq tasks) \/ \E u : u.op = t.op /\ tasks' = (tasks \ {t}) \cup {u}
    BY <1>17, ListKeysSets DEF Turns
  <2> QED BY <2>1 DEF OnlyOne
<1>18. ASSUME NEW t \in tasks, createBackupFile(t) PROVE OnlyOne'
  <2>1. (tasks' \subseteq tasks) \/ \E u : u.op = t.op /\ tasks' = (tasks \ {t}) \cup {u}
    BY <1>18, SealSets DEF Turns
  <2> QED BY <2>1 DEF OnlyOne
<1>19. ASSUME NEW t \in tasks, openBackupFile(t) PROVE OnlyOne'
  <2>1. (tasks' \subseteq tasks) \/ \E u : u.op = t.op /\ tasks' = (tasks \ {t}) \cup {u}
    BY <1>19, OpenFileSets DEF Turns, Drop
  <2> QED BY <2>1 DEF OnlyOne
<1>20. ASSUME NEW t \in tasks, dropStorage(t) PROVE OnlyOne'
  <2>1. (tasks' \subseteq tasks) \/ \E u : u.op = t.op /\ tasks' = (tasks \ {t}) \cup {u}
    BY <1>20, DropStorageSets DEF Turns
  <2> QED BY <2>1 DEF OnlyOne
<1>21. ASSUME NEW t \in tasks, deleteDatabase(t) PROVE OnlyOne'
  <2>1. (tasks' \subseteq tasks) \/ \E u : u.op = t.op /\ tasks' = (tasks \ {t}) \cup {u}
    BY <1>21, WipeSets DEF Turns
  <2> QED BY <2>1 DEF OnlyOne
<1>22. ASSUME NEW t \in tasks, initStorage(t) PROVE OnlyOne'
  <2>1. (tasks' \subseteq tasks) \/ \E u : u.op = t.op /\ tasks' = (tasks \ {t}) \cup {u}
    BY <1>22, InitSets DEF Turns
  <2> QED BY <2>1 DEF OnlyOne
<1>23. ASSUME NEW t \in tasks, RestoreFails(t) PROVE OnlyOne'
  BY <1>23, RestoreFailsSets DEF OnlyOne, Drop
<1>24. ASSUME NEW t \in tasks, Restored(t) PROVE OnlyOne'
  <2>1. (tasks' \subseteq tasks) \/ \E u : u.op = t.op /\ tasks' = (tasks \ {t}) \cup {u}
    BY <1>24, RestoredSets DEF Turns
  <2> QED BY <2>1 DEF OnlyOne
<1>25. ASSUME NEW t \in tasks, deleteRecord(t) PROVE OnlyOne'
  <2>1. (tasks' \subseteq tasks) \/ \E u : u.op = t.op /\ tasks' = (tasks \ {t}) \cup {u}
    <3>1. \/ Turns(t, "identity", t.keys, t.got, t.number, t.ints)
          \/ Turns(t, "list", t.keys, t.got, t.number, t.ints)
      BY <1>25, DeleteRecordSets
    <3> QED BY <3>1 DEF Turns
  <2> QED BY <2>1 DEF OnlyOne
<1>26. ASSUME NEW t \in tasks, listMessageKeys(t) PROVE OnlyOne'
  <2>1. (tasks' \subseteq tasks) \/ \E u : u.op = t.op /\ tasks' = (tasks \ {t}) \cup {u}
    BY <1>26, DoomSets DEF Turns
  <2> QED BY <2>1 DEF OnlyOne
<1>27. ASSUME NEW t \in tasks, Deleted(t) PROVE OnlyOne'
  <2>1. (tasks' \subseteq tasks) \/ \E u : u.op = t.op /\ tasks' = (tasks \ {t}) \cup {u}
    BY <1>27, DeletedSets DEF Turns
  <2> QED BY <2>1 DEF OnlyOne
<1>28. ASSUME NEW t \in tasks, getAttachmentBlob(t) PROVE OnlyOne'
  <2>1. (tasks' \subseteq tasks) \/ \E u : u.op = t.op /\ tasks' = (tasks \ {t}) \cup {u}
    BY <1>28, BlobSets DEF Turns, Drop
  <2> QED BY <2>1 DEF OnlyOne
<1>29. ASSUME NEW t \in tasks, Decrypted(t) PROVE OnlyOne'
  BY <1>29, DecryptedSets DEF OnlyOne, Drop
<1>30. ASSUME NEW t \in tasks, loadAllData(t) PROVE OnlyOne'
  <2>1. \A u \in tasks' : u \in tasks \/ u.op = "open"
    BY <1>30, LoadSets DEF Asks, Drop
  <2> QED BY <2>1 DEF OnlyOne
<1>31. ASSUME NEW t \in tasks, Throws(t) PROVE OnlyOne'
  BY <1>31, ThrowsSets DEF OnlyOne, Drop
<1>32. ASSUME NEW t \in tasks, NEW r \in t.keys, GetRecord(t, r) PROVE OnlyOne'
  <2>1. (tasks' \subseteq tasks) \/ \E u : u.op = t.op /\ tasks' = (tasks \ {t}) \cup {u}
    <3>1. \A at, keys, got, number, ints : Turns(t, at, keys, got, number, ints)
            => \E u : u.op = t.op /\ tasks' = (tasks \ {t}) \cup {u}
      BY DEF Turns
    <3> QED BY <1>32, <3>1, GetSets
  <2> QED BY <2>1 DEF OnlyOne
<1>33. ASSUME NEW t \in tasks, NEW r \in t.keys, Restore(t, r) PROVE OnlyOne'
  <2>1. (tasks' \subseteq tasks) \/ \E u : u.op = t.op /\ tasks' = (tasks \ {t}) \cup {u}
    BY <1>33, RestoreSets DEF Turns
  <2> QED BY <2>1 DEF OnlyOne
<1>34. ASSUME NEW t \in tasks, NEW r \in t.keys, deleteMessage(t, r) PROVE OnlyOne'
  <2>1. (tasks' \subseteq tasks) \/ \E u : u.op = t.op /\ tasks' = (tasks \ {t}) \cup {u}
    BY <1>34, DeleteMessageSets DEF Turns
  <2> QED BY <2>1 DEF OnlyOne
<1>35. ASSUME NEW t \in tasks, findConvo(t) PROVE OnlyOne'
  <2>1. (tasks' \subseteq tasks) \/ \E u : u.op = t.op /\ tasks' = (tasks \ {t}) \cup {u}
    BY <1>35, FindConvoSets DEF Turns, Drop
  <2> QED BY <2>1 DEF OnlyOne
<1>36. ASSUME NEW t \in tasks, Finish(t) PROVE OnlyOne'
  BY <1>36, FinishSets DEF OnlyOne, Drop
<1> QED
  BY <1>1, <1>2, <1>3, <1>5, <1>6, <1>7, <1>8, <1>9, <1>10, <1>11, <1>12, <1>13, <1>14, <1>15, <1>16, <1>17, <1>18, <1>19, <1>20, <1>21, <1>22, <1>23, <1>24, <1>25, <1>26, <1>27, <1>28, <1>29, <1>30, <1>31, <1>32, <1>33, <1>34, <1>35, <1>36 DEF Next, Step

(* The values of the chat.                                                  *)
BodyType == [Attachment -> {"none", "loading", "url", "missing"}]
ChatType == [open : BOOLEAN, round : Nat, body : BodyType, registry : SUBSET Attachment,
             live : [Attachment -> Nat]]

(* How a step changes the URLs: not at all, by one decrypted, by revoking   *)
(* those registered, or by loading the page.                                *)
UrlsStay ==
    /\ chat' \in ChatType /\ chat'.registry = chat.registry /\ chat'.live = chat.live
    /\ \A a \in Attachment : chat'.body[a] = "url" => a \in chat.registry \/ chat.body[a] = "url"
    /\ mem'.locked => mem.locked
UrlMade ==
    \E a \in Attachment :
        /\ chat' \in ChatType /\ chat'.registry = chat.registry \cup {a} /\ mem' = mem
        /\ \A x \in Attachment : chat'.live[x] = IF x = a THEN chat.live[x] + 1 ELSE chat.live[x]
        /\ \A x \in Attachment : chat'.body[x] = "url" => x = a \/ chat.body[x] = "url"
        /\ mem.locked => "late" \in amiss'
        /\ a \in chat.registry => "twice" \in amiss'
UrlsRevoked ==
    /\ chat' \in ChatType /\ chat'.registry = {}
    /\ \A a \in Attachment : /\ chat'.live[a] = IF a \in chat.registry THEN chat.live[a] - 1
                                                ELSE chat.live[a]
                             /\ chat'.body[a] = "none"
UrlsGone ==
    /\ chat' \in ChatType /\ chat'.registry = {}
    /\ \A a \in Attachment : chat'.live[a] = 0 /\ chat'.body[a] = "none"

(* The chat opens, or its messages are loaded anew: the URLs stay.          *)
LEMMA Appearing ==
    ASSUME ChatTyped, NEW messages, NEW round \in Nat, NEW rest, Appears(messages, round, rest)
    PROVE  /\ chat' \in ChatType /\ chat'.registry = chat.registry /\ chat'.live = chat.live
           /\ \A a \in Attachment : chat'.body[a] = "url" => a \in chat.registry
<1> DEFINE shown == Shown(messages)
           asked == shown \ chat.registry
           b == [a \in Attachment |-> IF a \in asked THEN "loading"
                                      ELSE IF a \in shown THEN "url" ELSE "none"]
<1>1. chat' = [chat EXCEPT !.open = TRUE, !.round = round, !.body = b]
  BY DEF Appears
<1>2. b \in BodyType
  BY DEF BodyType
<1>3. \A a \in Attachment : b[a] = "url" => a \in chat.registry
  OBVIOUS
<1>4. chat \in ChatType
  BY DEF ChatTyped, ChatType, BodyType
<1> HIDE DEF b
<1>5. chat' \in ChatType /\ chat'.registry = chat.registry /\ chat'.live = chat.live /\ chat'.body = b
  BY <1>1, <1>2, <1>4 DEF ChatType
<1> QED BY <1>3, <1>5

(* The chat goes: it shows nothing.                                         *)
LEMMA Going ==
    ASSUME ChatTyped
    PROVE  /\ Gone \in ChatType /\ Gone.registry = chat.registry /\ Gone.live = chat.live
           /\ \A a \in Attachment : Gone.body[a] = "none"
<1>1. NoBody \in BodyType /\ \A a \in Attachment : NoBody[a] = "none"
  BY DEF NoBody, BodyType
<1>2. chat \in ChatType
  BY DEF ChatTyped, ChatType, BodyType
<1>3. Gone \in ChatType /\ Gone.registry = chat.registry /\ Gone.live = chat.live /\ Gone.body = NoBody
  BY <1>1, <1>2 DEF Gone, ChatType
<1> QED BY <1>1, <1>3

(* A lock revokes what is registered.                                       *)
LEMMA Revoking ==
    ASSUME ChatTyped, chat' = Revoked
    PROVE  UrlsRevoked
<1> DEFINE l == [a \in Attachment |-> IF a \in chat.registry THEN chat.live[a] - 1
                                      ELSE chat.live[a]]
<1>1. chat.registry \subseteq Attachment /\ chat.live \in [Attachment -> Nat]
      /\ \A a \in chat.registry : chat.live[a] > 0
  BY DEF ChatTyped
<1>2. l \in [Attachment -> Nat]
  BY <1>1
<1>3. \A a \in Attachment : l[a] = IF a \in chat.registry THEN chat.live[a] - 1 ELSE chat.live[a]
  OBVIOUS
<1>4. chat' = [Gone EXCEPT !.registry = {}, !.live = l]
  <2>1. \A g \in ChatType : g.live = chat.live =>
           [g EXCEPT !.registry = {},
                     !.live = [a \in Attachment |-> IF a \in chat.registry THEN @[a] - 1 ELSE @[a]]]
             = [g EXCEPT !.registry = {}, !.live = l]
    BY DEF ChatType
  <2>2. Gone \in ChatType /\ Gone.live = chat.live
    BY Going
  <2> QED BY <2>1, <2>2 DEF Revoked
<1> HIDE DEF l
<1>5. chat' \in ChatType /\ chat'.registry = {} /\ chat'.live = l /\ chat'.body = Gone.body
  BY <1>2, <1>4, Going DEF ChatType
<1> QED BY <1>3, <1>5, Going DEF UrlsRevoked

(* A page that is loaded has no URLs.                                       *)
LEMMA Reloading ==
    ASSUME ChatTyped, Reload
    PROVE  UrlsGone
<1>1. chat' = [Gone EXCEPT !.registry = {}, !.live = NoUrls]
  BY DEF Reload
<1>2. NoUrls \in [Attachment -> Nat] /\ \A a \in Attachment : NoUrls[a] = 0
  BY DEF NoUrls
<1>3. chat' \in ChatType /\ chat'.registry = {} /\ chat'.live = NoUrls /\ chat'.body = Gone.body
  BY <1>1, <1>2, Going DEF ChatType
<1> QED BY <1>2, <1>3, Going DEF UrlsGone

(* What an answer shows.                                                    *)
LEMMA Answering ==
    ASSUME ChatTyped, NEW t, NEW what \in {"url", "missing"}
    PROVE  /\ Answers(t, what) \in BodyType
           /\ \A a \in Attachment :
                Answers(t, what)[a] = "url" => (a \in t.ints /\ what = "url") \/ chat.body[a] = "url"
<1>1. chat.body \in BodyType
  BY DEF ChatTyped, BodyType
<1> QED BY <1>1 DEF Answers, BodyType

(* An attachment is read: its URL is not there yet.                         *)
LEMMA Reading ==
    ASSUME ChatTyped, NEW t \in tasks, getAttachmentBlob(t)
    PROVE  UrlsStay
<1>1. chat \in ChatType /\ mem' = mem
  BY DEF ChatTyped, ChatType, BodyType, getAttachmentBlob
<1>2. CASE UNCHANGED chat
  BY <1>1, <1>2 DEF UrlsStay
<1>3. CASE chat' = [chat EXCEPT !.body = Answers(t, "missing")]
  <2>1. /\ chat' \in ChatType /\ chat'.registry = chat.registry /\ chat'.live = chat.live
        /\ chat'.body = Answers(t, "missing")
    BY <1>1, <1>3, Answering DEF ChatType
  <2> QED BY <1>1, <2>1, Answering DEF UrlsStay
<1> QED BY <1>2, <1>3 DEF getAttachmentBlob

(* An attachment has been decrypted: its URL is made and registered.        *)
LEMMA Decrypting ==
    ASSUME StoredTyped, TasksTyped, AllStaged, ChatTyped, NEW t \in tasks, Decrypted(t)
    PROVE  UrlMade
<1>2. mem.locked => "late" \in amiss'
  BY DecryptedSets
<1>3. Staged(t) /\ t.op \in Operation /\ t.at = "decrypt"
  BY DecryptedSets DEF AllStaged, TasksTyped, TaskType
<1>4. t.op = "open"
  BY <1>3 DEF Staged, Logging, Operation
<1>5. PICK a \in Attachment : t.ints = {a}
  BY <1>3, <1>4 DEF Staged
<1> DEFINE l == [x \in Attachment |-> IF x \in t.ints THEN chat.live[x] + 1 ELSE chat.live[x]]
           b == Answers(t, "url")
           r == chat.registry \cup t.ints
<1>6. chat \in ChatType
  BY DEF ChatTyped, ChatType, BodyType
<1>7. l \in [Attachment -> Nat] /\ r \in SUBSET Attachment /\ b \in BodyType
  BY <1>5, <1>6, Answering DEF ChatType
<1>8. \A x \in Attachment : l[x] = IF x = a THEN chat.live[x] + 1 ELSE chat.live[x]
  BY <1>5
<1>9. \A x \in Attachment : b[x] = "url" => x = a \/ chat.body[x] = "url"
  BY <1>5, Answering
<1>10. chat' = [chat EXCEPT !.body = b, !.registry = r, !.live = l]
  <2>1. \A g \in ChatType :
          [g EXCEPT !.body = b, !.registry = @ \cup t.ints,
                    !.live = [x \in Attachment |-> IF x \in t.ints THEN @[x] + 1 ELSE @[x]]]
            = [g EXCEPT !.body = b, !.registry = g.registry \cup t.ints,
                        !.live = [x \in Attachment |-> IF x \in t.ints THEN g.live[x] + 1
                                                       ELSE g.live[x]]]
    BY DEF ChatType
  <2> QED BY <1>6, <2>1 DEF Decrypted
<1>11. mem' = mem
  BY DecryptedSets
<1>12. r = chat.registry \cup {a} /\ (a \in chat.registry => "twice" \in amiss')
  <2>1. t.at = "decrypt" /\ (t.ints \subseteq chat.registry => "twice" \in amiss')
    BY DecryptedSets
  <2> QED BY <1>5, <2>1
<1> HIDE DEF l, b, r
<1>13. chat' \in ChatType /\ chat'.registry = r /\ chat'.live = l /\ chat'.body = b
  BY <1>6, <1>7, <1>10 DEF ChatType
<1> QED BY <1>2, <1>8, <1>9, <1>11, <1>12, <1>13 DEF UrlMade

(* How each step changes the URLs.                                          *)
LEMMA UrlsChange ==
    ASSUME StoredTyped, TasksTyped, AllStaged, ChatTyped, [Next]_vars
    PROVE  /\ amiss \subseteq amiss'
           /\ UrlsStay \/ UrlMade \/ UrlsRevoked \/ UrlsGone
<1>0. chat \in ChatType
  BY DEF ChatTyped, ChatType, BodyType
<1>1. CASE UNCHANGED vars
  BY <1>0, <1>1 DEF vars, UrlsStay
<1>2. ASSUME NEW m \in Message, onSecure(m) \/ onIncoming(m) PROVE  amiss \subseteq amiss' /\ (UrlsStay \/ UrlMade \/ UrlsRevoked \/ UrlsGone)
  <2>1. UNCHANGED chat /\ (mem'.locked => mem.locked) /\ amiss \subseteq amiss'
    BY <1>2, MessageSets DEF MemIs
  <2> QED
    BY <1>0, <2>1 DEF UrlsStay
<1>3. ASSUME NEW c \in Contact, deleteContact(c) \/ clearConversation(c) PROVE  amiss \subseteq amiss' /\ (UrlsStay \/ UrlMade \/ UrlsRevoked \/ UrlsGone)
  <2>1. UNCHANGED chat /\ (mem'.locked => mem.locked) /\ amiss \subseteq amiss'
    BY <1>3, DeleteSets
  <2> QED
    BY <1>0, <2>1 DEF UrlsStay
<1>5. ASSUME NEW r \in pending, Lands(r) PROVE  amiss \subseteq amiss' /\ (UrlsStay \/ UrlMade \/ UrlsRevoked \/ UrlsGone)
  <2>1. UNCHANGED chat /\ (mem'.locked => mem.locked) /\ amiss \subseteq amiss'
    BY <1>5, LandsSets
  <2> QED
    BY <1>0, <2>1 DEF UrlsStay
<1>6. ASSUME NEW f \in files, inAppImport(f) PROVE  amiss \subseteq amiss' /\ (UrlsStay \/ UrlMade \/ UrlsRevoked \/ UrlsGone)
  <2>1. UNCHANGED chat /\ (mem'.locked => mem.locked) /\ amiss \subseteq amiss'
    BY <1>6, ImportSets
  <2> QED
    BY <1>0, <2>1 DEF UrlsStay
<1>7. CASE exportBackup
  <2>1. UNCHANGED chat /\ (mem'.locked => mem.locked) /\ amiss \subseteq amiss'
    BY <1>7, ExportSets
  <2> QED
    BY <1>0, <2>1 DEF UrlsStay
<1>8. CASE appendSecurityEvent
  <2>1. UNCHANGED chat /\ (mem'.locked => mem.locked) /\ amiss \subseteq amiss'
    BY <1>8, AppendSets
  <2> QED
    BY <1>0, <2>1 DEF UrlsStay
<1>9. CASE OpenChat
  <2>1. Appears(Messages(mem.records), chat.round + 1, tasks) /\ chat.round + 1 \in Nat
    BY <1>9 DEF OpenChat, ChatTyped
  <2> QED
    BY <1>9, <2>1, OpenSets, Appearing DEF UrlsStay
<1>10. CASE CloseChat
  <2>1. chat' = Gone
    BY <1>10 DEF CloseChat
  <2> QED
    BY <1>10, <2>1, CloseSets, Going DEF UrlsStay
<1>11. CASE lockVault
  <2>1. chat' = Revoked
    BY <1>11 DEF lockVault, Locks
  <2> QED
    BY <1>11, <2>1, LockSets, Revoking
<1>12. CASE unlockVault
  <2>1. UNCHANGED chat /\ (mem'.locked => mem.locked) /\ amiss \subseteq amiss'
    BY <1>12, UnlockSets
  <2> QED
    BY <1>0, <2>1 DEF UrlsStay
<1>13. CASE Reload
  BY <1>13, ReloadSets, Reloading
<1>14. ASSUME NEW t \in tasks, putEvent(t) PROVE  amiss \subseteq amiss' /\ (UrlsStay \/ UrlMade \/ UrlsRevoked \/ UrlsGone)
  <2>1. UNCHANGED chat /\ (mem'.locked => mem.locked) /\ amiss \subseteq amiss'
    BY <1>14, PutSets
  <2> QED
    BY <1>0, <2>1 DEF UrlsStay
<1>15. ASSUME NEW t \in tasks, ListLog(t) PROVE  amiss \subseteq amiss' /\ (UrlsStay \/ UrlMade \/ UrlsRevoked \/ UrlsGone)
  <2>1. UNCHANGED chat /\ (mem'.locked => mem.locked) /\ amiss \subseteq amiss'
    BY <1>15, ListLogSets
  <2> QED
    BY <1>0, <2>1 DEF UrlsStay
<1>16. ASSUME NEW t \in tasks, TrimLog(t) PROVE  amiss \subseteq amiss' /\ (UrlsStay \/ UrlMade \/ UrlsRevoked \/ UrlsGone)
  <2>1. UNCHANGED chat /\ (mem'.locked => mem.locked) /\ amiss \subseteq amiss'
    BY <1>16, TrimSets
  <2> QED
    BY <1>0, <2>1 DEF UrlsStay
<1>17. ASSUME NEW t \in tasks, ListKeys(t) PROVE  amiss \subseteq amiss' /\ (UrlsStay \/ UrlMade \/ UrlsRevoked \/ UrlsGone)
  <2>1. UNCHANGED chat /\ (mem'.locked => mem.locked) /\ amiss \subseteq amiss'
    BY <1>17, ListKeysSets
  <2> QED
    BY <1>0, <2>1 DEF UrlsStay
<1>18. ASSUME NEW t \in tasks, createBackupFile(t) PROVE  amiss \subseteq amiss' /\ (UrlsStay \/ UrlMade \/ UrlsRevoked \/ UrlsGone)
  <2>1. UNCHANGED chat /\ (mem'.locked => mem.locked) /\ amiss \subseteq amiss'
    BY <1>18, SealSets
  <2> QED
    BY <1>0, <2>1 DEF UrlsStay
<1>19. ASSUME NEW t \in tasks, openBackupFile(t) PROVE  amiss \subseteq amiss' /\ (UrlsStay \/ UrlMade \/ UrlsRevoked \/ UrlsGone)
  <2>1. UNCHANGED chat /\ (mem'.locked => mem.locked) /\ amiss \subseteq amiss'
    BY <1>19, OpenFileSets
  <2> QED
    BY <1>0, <2>1 DEF UrlsStay
<1>20. ASSUME NEW t \in tasks, dropStorage(t) PROVE  amiss \subseteq amiss' /\ (UrlsStay \/ UrlMade \/ UrlsRevoked \/ UrlsGone)
  <2>1. UNCHANGED chat /\ (mem'.locked => mem.locked) /\ amiss \subseteq amiss'
    BY <1>20, DropStorageSets
  <2> QED
    BY <1>0, <2>1 DEF UrlsStay
<1>21. ASSUME NEW t \in tasks, deleteDatabase(t) PROVE  amiss \subseteq amiss' /\ (UrlsStay \/ UrlMade \/ UrlsRevoked \/ UrlsGone)
  <2>1. UNCHANGED chat /\ (mem'.locked => mem.locked) /\ amiss \subseteq amiss'
    BY <1>21, WipeSets
  <2> QED
    BY <1>0, <2>1 DEF UrlsStay
<1>22. ASSUME NEW t \in tasks, initStorage(t) PROVE  amiss \subseteq amiss' /\ (UrlsStay \/ UrlMade \/ UrlsRevoked \/ UrlsGone)
  <2>1. UNCHANGED chat /\ (mem'.locked => mem.locked) /\ amiss \subseteq amiss'
    BY <1>22, InitSets
  <2> QED
    BY <1>0, <2>1 DEF UrlsStay
<1>23. ASSUME NEW t \in tasks, RestoreFails(t) PROVE  amiss \subseteq amiss' /\ (UrlsStay \/ UrlMade \/ UrlsRevoked \/ UrlsGone)
  <2>1. UNCHANGED chat /\ (mem'.locked => mem.locked) /\ amiss \subseteq amiss'
    BY <1>23, RestoreFailsSets
  <2> QED
    BY <1>0, <2>1 DEF UrlsStay
<1>24. ASSUME NEW t \in tasks, Restored(t) PROVE  amiss \subseteq amiss' /\ (UrlsStay \/ UrlMade \/ UrlsRevoked \/ UrlsGone)
  <2>1. UNCHANGED chat /\ (mem'.locked => mem.locked) /\ amiss \subseteq amiss'
    BY <1>24, RestoredSets
  <2> QED
    BY <1>0, <2>1 DEF UrlsStay
<1>25. ASSUME NEW t \in tasks, deleteRecord(t) PROVE  amiss \subseteq amiss' /\ (UrlsStay \/ UrlMade \/ UrlsRevoked \/ UrlsGone)
  <2>1. UNCHANGED chat /\ (mem'.locked => mem.locked) /\ amiss \subseteq amiss'
    BY <1>25, DeleteRecordSets
  <2> QED
    BY <1>0, <2>1 DEF UrlsStay
<1>26. ASSUME NEW t \in tasks, listMessageKeys(t) PROVE  amiss \subseteq amiss' /\ (UrlsStay \/ UrlMade \/ UrlsRevoked \/ UrlsGone)
  <2>1. UNCHANGED chat /\ (mem'.locked => mem.locked) /\ amiss \subseteq amiss'
    BY <1>26, DoomSets
  <2> QED
    BY <1>0, <2>1 DEF UrlsStay
<1>27. ASSUME NEW t \in tasks, Deleted(t) PROVE  amiss \subseteq amiss' /\ (UrlsStay \/ UrlMade \/ UrlsRevoked \/ UrlsGone)
  <2>1. UNCHANGED chat /\ (mem'.locked => mem.locked) /\ amiss \subseteq amiss'
    BY <1>27, DeletedSets DEF MemIs
  <2> QED
    BY <1>0, <2>1 DEF UrlsStay
<1>28. ASSUME NEW t \in tasks, getAttachmentBlob(t) PROVE  amiss \subseteq amiss' /\ (UrlsStay \/ UrlMade \/ UrlsRevoked \/ UrlsGone)
  BY <1>28, BlobSets, Reading
<1>29. ASSUME NEW t \in tasks, Decrypted(t) PROVE  amiss \subseteq amiss' /\ (UrlsStay \/ UrlMade \/ UrlsRevoked \/ UrlsGone)
  BY <1>29, DecryptedSets, Decrypting
<1>30. ASSUME NEW t \in tasks, loadAllData(t) PROVE  amiss \subseteq amiss' /\ (UrlsStay \/ UrlMade \/ UrlsRevoked \/ UrlsGone)
  <2>1. mem' = Loaded /\ ~Loaded.locked
    BY <1>30, LoadSets DEF Loaded
  <2>2. CASE UNCHANGED chat
    BY <1>30, <1>0, <2>1, <2>2, LoadSets DEF UrlsStay
  <2>3. CASE Appears(LoadedMessages, chat.round + 1, tasks \ {t})
    <3>1. chat.round + 1 \in Nat
      BY DEF ChatTyped
    <3> QED BY <1>30, <2>1, <2>3, <3>1, LoadSets, Appearing DEF UrlsStay
  <2> QED
    BY <1>30, <2>2, <2>3 DEF loadAllData
<1>31. ASSUME NEW t \in tasks, Throws(t) PROVE  amiss \subseteq amiss' /\ (UrlsStay \/ UrlMade \/ UrlsRevoked \/ UrlsGone)
  <2>1. UNCHANGED chat /\ (mem'.locked => mem.locked) /\ amiss \subseteq amiss'
    BY <1>31, ThrowsSets
  <2> QED
    BY <1>0, <2>1 DEF UrlsStay
<1>32. ASSUME NEW t \in tasks, NEW r \in t.keys, GetRecord(t, r) PROVE  amiss \subseteq amiss' /\ (UrlsStay \/ UrlMade \/ UrlsRevoked \/ UrlsGone)
  <2>1. UNCHANGED chat /\ (mem'.locked => mem.locked) /\ amiss \subseteq amiss'
    BY <1>32, GetSets
  <2> QED
    BY <1>0, <2>1 DEF UrlsStay
<1>33. ASSUME NEW t \in tasks, NEW r \in t.keys, Restore(t, r) PROVE  amiss \subseteq amiss' /\ (UrlsStay \/ UrlMade \/ UrlsRevoked \/ UrlsGone)
  <2>1. UNCHANGED chat /\ (mem'.locked => mem.locked) /\ amiss \subseteq amiss'
    BY <1>33, RestoreSets
  <2> QED
    BY <1>0, <2>1 DEF UrlsStay
<1>34. ASSUME NEW t \in tasks, NEW r \in t.keys, deleteMessage(t, r) PROVE  amiss \subseteq amiss' /\ (UrlsStay \/ UrlMade \/ UrlsRevoked \/ UrlsGone)
  <2>1. UNCHANGED chat /\ (mem'.locked => mem.locked) /\ amiss \subseteq amiss'
    BY <1>34, DeleteMessageSets
  <2> QED
    BY <1>0, <2>1 DEF UrlsStay
<1>35. ASSUME NEW t \in tasks, findConvo(t) PROVE  amiss \subseteq amiss' /\ (UrlsStay \/ UrlMade \/ UrlsRevoked \/ UrlsGone)
  <2>1. UNCHANGED chat /\ (mem'.locked => mem.locked) /\ amiss \subseteq amiss'
    BY <1>35, FindConvoSets
  <2> QED
    BY <1>0, <2>1 DEF UrlsStay
<1>36. ASSUME NEW t \in tasks, Finish(t) PROVE  amiss \subseteq amiss' /\ (UrlsStay \/ UrlMade \/ UrlsRevoked \/ UrlsGone)
  <2>1. /\ chat' = Gone \/ UNCHANGED chat
        /\ mem'.locked => mem.locked
        /\ amiss \subseteq amiss'
    BY <1>36, FinishSets DEF MemIs
  <2> QED
    BY <1>0, <2>1, Going DEF UrlsStay
<1> QED
  BY <1>1, <1>2, <1>3, <1>5, <1>6, <1>7, <1>8, <1>9, <1>10, <1>11, <1>12, <1>13, <1>14, <1>15, <1>16, <1>17, <1>18, <1>19, <1>20, <1>21, <1>22, <1>23, <1>24, <1>25, <1>26, <1>27, <1>28, <1>29, <1>30, <1>31, <1>32, <1>33, <1>34, <1>35, <1>36 DEF Next, Step

(* The URLs of the chat: a shown or a registered one is live, and one that  *)
(* is live is registered and not registered over a locked vault, the ways   *)
(* amiss aside.                                                             *)
UrlsKept ==
    /\ ChatTyped
    /\ \A a \in Attachment : chat.body[a] = "url" => chat.live[a] > 0
    /\ "twice" \notin amiss =>
         \A a \in Attachment : chat.live[a] = IF a \in chat.registry THEN 1 ELSE 0
    /\ "late" \notin amiss /\ mem.locked => chat.registry = {}

(* Every step keeps them so.                                                *)
LEMMA UrlsKeptKept ==
    ASSUME StoredTyped, TasksTyped, AllStaged, UrlsKept, [Next]_vars
    PROVE  UrlsKept'
<1>1. /\ amiss \subseteq amiss' /\ ChatTyped /\ chat \in ChatType
      /\ UrlsStay \/ UrlMade \/ UrlsRevoked \/ UrlsGone
  BY UrlsChange DEF UrlsKept, ChatTyped, ChatType, BodyType
<1>2. /\ chat.registry \subseteq Attachment /\ \A a \in Attachment : chat.live[a] \in Nat
      /\ \A a \in chat.registry : chat.live[a] > 0
  BY <1>1 DEF ChatTyped
<1>3. chat' \in ChatType /\ (\A a \in chat'.registry : chat'.live[a] > 0) => ChatTyped'
  BY DEF ChatTyped, ChatType, BodyType
<1>4. CASE UrlsStay
  <2>1. ChatTyped'
    BY <1>2, <1>3, <1>4 DEF UrlsStay
  <2> QED BY <1>1, <1>2, <1>4, <2>1 DEF UrlsStay, UrlsKept
<1>5. CASE UrlMade
  <2>1. PICK a \in Attachment :
        /\ chat' \in ChatType /\ chat'.registry = chat.registry \cup {a} /\ mem' = mem
        /\ \A x \in Attachment : chat'.live[x] = IF x = a THEN chat.live[x] + 1 ELSE chat.live[x]
        /\ \A x \in Attachment : chat'.body[x] = "url" => x = a \/ chat.body[x] = "url"
        /\ mem.locked => "late" \in amiss'
        /\ a \in chat.registry => "twice" \in amiss'
    BY <1>5 DEF UrlMade
  <2>2. \A x \in chat'.registry : chat'.live[x] > 0
    BY <1>2, <2>1
  <2>3. \A x \in Attachment : chat'.body[x] = "url" => chat'.live[x] > 0
    BY <1>2, <2>1 DEF UrlsKept
  <2>4. ASSUME "twice" \notin amiss', NEW x \in Attachment
        PROVE  chat'.live[x] = IF x \in chat'.registry THEN 1 ELSE 0
    BY <1>1, <1>2, <2>1, <2>4 DEF UrlsKept
  <2>5. "late" \notin amiss' /\ mem'.locked => chat'.registry = {}
    BY <2>1
  <2>6. ChatTyped'
    BY <1>3, <2>1, <2>2
  <2> QED BY <2>3, <2>4, <2>5, <2>6 DEF UrlsKept
<1>6. CASE UrlsRevoked
  <2>1. ChatTyped'
    BY <1>3, <1>6 DEF UrlsRevoked
  <2>2. ASSUME "twice" \notin amiss', NEW x \in Attachment
        PROVE  chat'.live[x] = IF x \in chat'.registry THEN 1 ELSE 0
    BY <1>1, <1>2, <1>6, <2>2 DEF UrlsRevoked, UrlsKept
  <2> QED BY <1>6, <2>1, <2>2 DEF UrlsRevoked, UrlsKept
<1>7. CASE UrlsGone
  BY <1>3, <1>7 DEF UrlsGone, UrlsKept
<1> QED BY <1>1, <1>4, <1>5, <1>6, <1>7

(* What it says of the URLs a lock reaches.                                 *)
LEMMA UrlsAreRevocable ==
    ASSUME UrlsKept, amiss \subseteq Ways
    PROVE  UrlsRevocable
<1>1. Only(Ways \ {"twice"}) => "twice" \notin amiss
  BY DEF Only
<1>2. Only(Ways \ {"late", "twice"}) => "twice" \notin amiss /\ "late" \notin amiss
  BY DEF Only
<1>3. \A f \in [Attachment -> Nat] : (\A a \in Attachment : f[a] = 0) => f = NoUrls
  BY DEF NoUrls
<1>4. chat.live \in [Attachment -> Nat]
  BY DEF UrlsKept, ChatTyped
<1>5. ASSUME "twice" \notin amiss, "late" \notin amiss, mem.locked PROVE chat.live = NoUrls
  BY <1>3, <1>4, <1>5 DEF UrlsKept
<1> QED BY <1>1, <1>2, <1>5 DEF UrlsRevocable, UrlsKept

(* A finite set of numbers has a smallest: of the sets of those up to one,  *)
(* a least one.                                                             *)
LEMMA Smallest ==
    ASSUME NEW S \in SUBSET Nat, IsFiniteSet(S), S # {}
    PROVE  \E k \in S : \A l \in S : k <= l
<1> DEFINE upto(k) == {l \in S : l <= k}
           R == StrictSubsetOrdering(S)
           T == {upto(k) : k \in S}
<1>1. IsWellFoundedOn(R, FiniteSubsetsOf(S))
  BY FS_StrictSubsetOrderingWellFounded
<1>2. T \subseteq FiniteSubsetsOf(S)
  <2>1. FiniteSubsetsOf(S) = SUBSET S
    BY FS_FiniteSubsetsOfFinite
  <2> QED BY <2>1
<1>3. T # {}
  OBVIOUS
<1> HIDE DEF R, T
<1>4. PICK x \in T : \A y \in T : ~ (<<y, x>> \in R)
  BY <1>1, <1>2, <1>3, WFMin
<1> USE DEF T
<1>5. PICK k \in S : x = upto(k)
  BY <1>4
<1>6. ASSUME NEW l \in S, l < k PROVE FALSE
  <2>0. \A n \in S : n \in Nat
    OBVIOUS
  <2>1. upto(l) \subseteq upto(k) /\ k \notin upto(l) /\ k \in upto(k)
    <3>1. l \in Nat /\ k \in Nat
      BY <2>0
    <3>2. ASSUME NEW n \in S, n <= l PROVE n <= k
      <4>1. n \in Nat
        BY <2>0
      <4> QED BY <1>6, <3>1, <3>2, <4>1
    <3>3. k <= k /\ ~(k <= l)
      BY <1>6, <3>1
    <3> QED BY <3>2, <3>3
  <2>2. <<upto(l), upto(k)>> \in R
    BY <2>1 DEF R, StrictSubsetOrdering
  <2>3. upto(l) \in T
    BY <1>6
  <2> QED BY <1>4, <1>5, <2>2, <2>3
<1>7. \A n \in S : n \in Nat
  OBVIOUS
<1> QED BY <1>6, <1>7

(* Finite sets of numbers: those below, those above, and the oldest ones.   *)
LEMMA Parting ==
    ASSUME NEW S \in SUBSET Nat, IsFiniteSet(S), NEW k \in S
    PROVE  /\ Cardinality({l \in S : l < k}) \in Nat /\ Cardinality({l \in S : l > k}) \in Nat
           /\ Cardinality(S) = Cardinality({l \in S : l < k}) + Cardinality({l \in S : l > k}) + 1
<1> DEFINE lo == {l \in S : l < k}
           hi == {l \in S : l > k}
<1>1. IsFiniteSet(lo) /\ IsFiniteSet(hi)
  BY FS_Subset
<1>2. lo \cap (hi \cup {k}) = {} /\ k \notin hi /\ S = lo \cup (hi \cup {k})
  <2>1. k \in Nat /\ ~(k < k) /\ ~(k > k)
    OBVIOUS
  <2>2. ASSUME NEW l \in S PROVE ~(l < k /\ l > k) /\ (l < k \/ l > k \/ l = k)
    <3>1. l \in Nat
      OBVIOUS
    <3> QED BY <2>1, <3>1
  <2> QED BY <2>1, <2>2
<1>3. IsFiniteSet(hi \cup {k}) /\ Cardinality(hi \cup {k}) = Cardinality(hi) + 1
  BY <1>1, <1>2, FS_AddElement
<1>4. Cardinality(S) = Cardinality(lo) + Cardinality(hi \cup {k})
  <2>1. Cardinality(lo \cap (hi \cup {k})) = 0
    BY <1>2, FS_EmptySet
  <2>2. Cardinality(lo) \in Nat /\ Cardinality(hi \cup {k}) \in Nat
    BY <1>1, <1>3, FS_CardinalityType
  <2>3. Cardinality(lo \cup (hi \cup {k}))
          = Cardinality(lo) + Cardinality(hi \cup {k}) - Cardinality(lo \cap (hi \cup {k}))
    BY <1>1, <1>3, FS_Union
  <2> HIDE DEF lo, hi
  <2>4. Cardinality(S) = Cardinality(lo \cup (hi \cup {k}))
    BY <1>2
  <2> QED BY <2>1, <2>2, <2>3, <2>4
<1>5. Cardinality(lo) \in Nat /\ Cardinality(hi) \in Nat
  BY <1>1, FS_CardinalityType
<1> HIDE DEF lo, hi
<1>6. Cardinality(S) = Cardinality(lo) + Cardinality(hi) + 1
  BY <1>3, <1>4, <1>5
<1> QED BY <1>5, <1>6 DEF lo, hi

(* What is not among the oldest n is all but n of them, or none.            *)
LEMMA OldestLeave ==
    ASSUME NEW S \in SUBSET Nat, IsFiniteSet(S), NEW n \in Nat, n <= Cardinality(S)
    PROVE  Cardinality(S \ Oldest(S, n)) <= Cardinality(S) - n
<1> DEFINE rest == S \ Oldest(S, n)
<1>1. IsFiniteSet(rest) /\ Cardinality(S) \in Nat
  BY FS_Subset, FS_CardinalityType
<1>2. CASE rest = {}
  BY <1>1, <1>2, FS_EmptySet
<1>3. CASE rest # {}
  <2>1. PICK k \in rest : \A l \in rest : k <= l
    BY <1>1, <1>3, Smallest
  <2>2. k \in S /\ ~(Cardinality({l \in S : l < k}) < n)
    BY DEF Oldest
  <2>3. rest \subseteq {l \in S : l > k} \cup {k}
    <3>1. \A l \in rest : l \in S /\ l \in Nat
      OBVIOUS
    <3> HIDE DEF rest
    <3> QED BY <2>1, <2>2, <3>1
  <2>4. IsFiniteSet({l \in S : l > k})
    BY FS_Subset
  <2>5. /\ IsFiniteSet({l \in S : l > k} \cup {k})
        /\ Cardinality({l \in S : l > k} \cup {k}) = Cardinality({l \in S : l > k}) + 1
    BY <2>4, FS_AddElement, k \notin {l \in S : l > k}
  <2>6. Cardinality(rest) <= Cardinality({l \in S : l > k}) + 1
    BY <2>3, <2>5, FS_Subset
  <2>7. Cardinality(rest) \in Nat
    BY <1>1, FS_CardinalityType
  <2> HIDE DEF rest
  <2>8. Cardinality(rest) <= Cardinality(S) - n
    <3> DEFINE a == Cardinality({l \in S : l < k})
               b == Cardinality({l \in S : l > k})
    <3>1. a \in Nat /\ b \in Nat /\ Cardinality(S) = a + b + 1 /\ ~(a < n)
      BY <2>2, Parting
    <3>2. Cardinality(rest) <= b + 1
      BY <2>6
    <3> HIDE DEF a, b
    <3> QED BY <1>1, <2>7, <3>1, <3>2
  <2> QED BY <2>8 DEF rest
<1> QED BY <1>2, <1>3

(* What a trim is to delete has LogLimit newer ones, and leaves LogLimit.   *)
LEMMA SurplusIs ==
    ASSUME NEW S \in SUBSET Nat, IsFiniteSet(S), LogLimit \in Nat
    PROVE  /\ Surplus(S) \subseteq S
           /\ \A e \in Surplus(S) : Cardinality({f \in S : f > e}) >= LogLimit
           /\ Surplus(S) = {} => Cardinality(S) <= LogLimit
           /\ Cardinality(S \ Surplus(S)) <= LogLimit
<1>1. Cardinality(S) \in Nat
  BY FS_CardinalityType
<1>2. CASE Cardinality(S) > LogLimit
  <2> DEFINE n == Cardinality(S) - LogLimit
  <2>1. n \in Nat /\ n <= Cardinality(S) /\ Cardinality(S) - n = LogLimit
    BY <1>1, <1>2
  <2>2. Surplus(S) = Oldest(S, n)
    BY <1>2 DEF Surplus
  <2>0. n = Cardinality(S) - LogLimit
    OBVIOUS
  <2> HIDE DEF n
  <2>3. Cardinality(S \ Surplus(S)) <= LogLimit
    BY <2>1, <2>2, OldestLeave
  <2>4. ASSUME NEW e \in Surplus(S) PROVE e \in S /\ Cardinality({f \in S : f > e}) >= LogLimit
    <3>1. e \in S /\ Cardinality({l \in S : l < e}) < n
      BY <2>2 DEF Oldest
    <3>2. /\ Cardinality({l \in S : l < e}) \in Nat /\ Cardinality({f \in S : f > e}) \in Nat
          /\ Cardinality(S) = Cardinality({l \in S : l < e}) + Cardinality({f \in S : f > e}) + 1
      BY <3>1, Parting
    <3> DEFINE a == Cardinality({l \in S : l < e})
               b == Cardinality({f \in S : f > e})
    <3>3. a \in Nat /\ b \in Nat /\ Cardinality(S) = a + b + 1 /\ a < n
      BY <3>1, <3>2
    <3> HIDE DEF a, b
    <3>4. b >= LogLimit
      BY <1>1, <2>0, <3>3
    <3> QED BY <3>1, <3>4 DEF b
  <2>5. S \ {} = S
    OBVIOUS
  <2> QED BY <2>3, <2>4, <2>5
<1>3. CASE ~(Cardinality(S) > LogLimit)
  <2>1. Surplus(S) = {}
    BY <1>3 DEF Surplus
  <2>2. S \ {} = S
    OBVIOUS
  <2> QED BY <1>1, <1>3, <2>1, <2>2
<1> QED BY <1>2, <1>3

(* One deleted from a log leaves an older one with at least as many newer.  *)
LEMMA NewerStay ==
    ASSUME NEW S \in SUBSET Nat, IsFiniteSet(S), NEW d, NEW e \in S, e # d, NEW n \in Nat,
           d \in S => Cardinality({f \in S : f > d}) >= n, Cardinality({f \in S : f > e}) >= n
    PROVE  Cardinality({f \in S \ {d} : f > e}) >= n
<1> DEFINE hi == {f \in S : f > e}
<1>1. IsFiniteSet(hi)
  BY FS_Subset
<1>2. CASE d \notin hi
  <2>1. {f \in S \ {d} : f > e} = hi
    BY <1>2
  <2> QED BY <2>1
<1>3. CASE d \in hi
  <2>1. {f \in S \ {d} : f > e} = hi \ {d}
    OBVIOUS
  <2>2. Cardinality(hi \ {d}) = Cardinality(hi) - 1 /\ IsFiniteSet(hi \ {d})
    BY <1>1, <1>3, FS_RemoveElement
  <2> DEFINE dd == {f \in S : f > d}
  <2>3. dd \subseteq hi \ {d} /\ Cardinality(dd) >= n
    <3>1. d \in S /\ d > e /\ d \in Nat /\ e \in Nat
      BY <1>3
    <3>2. Cardinality(dd) >= n
      BY <3>1
    <3>3. ASSUME NEW f \in S, f > d PROVE f > e /\ f # d
      <4>1. f \in Nat
        OBVIOUS
      <4> QED BY <3>1, <3>3, <4>1
    <3> QED BY <3>2, <3>3
  <2>4. Cardinality(dd) <= Cardinality(hi \ {d}) /\ IsFiniteSet(dd)
    BY <2>2, <2>3, FS_Subset
  <2>5. Cardinality(dd) \in Nat /\ Cardinality(hi \ {d}) \in Nat
    BY <2>2, <2>4, FS_CardinalityType
  <2> QED BY <2>1, <2>3, <2>4, <2>5
<1> QED BY <1>2, <1>3

(* An event put into a log adds to what is newer.                           *)
LEMMA NewerGrow ==
    ASSUME NEW S \in SUBSET Nat, IsFiniteSet(S), NEW d, NEW e, NEW n \in Nat,
           Cardinality({f \in S : f > e}) >= n
    PROVE  Cardinality({f \in S \cup {d} : f > e}) >= n
<1>1. IsFiniteSet(S \cup {d})
  BY FS_AddElement
<1>2. IsFiniteSet({f \in S \cup {d} : f > e}) /\ IsFiniteSet({f \in S : f > e})
  BY <1>1, FS_Subset
<1>3. {f \in S : f > e} \subseteq {f \in S \cup {d} : f > e}
  OBVIOUS
<1>4. Cardinality({f \in S : f > e}) <= Cardinality({f \in S \cup {d} : f > e})
  BY <1>2, <1>3, FS_Subset
<1>5. Cardinality({f \in S : f > e}) \in Nat /\ Cardinality({f \in S \cup {d} : f > e}) \in Nat
  BY <1>2, FS_CardinalityType
<1> QED BY <1>4, <1>5

(* What is known of every state: types, and where the operations are.       *)
Typed == StoredTyped /\ TasksTyped /\ AllStaged

(* The log has events that were made; an operation has one of its own to    *)
(* put there; and of what is to be trimmed each has LogLimit newer ones.    *)
LogKept ==
    /\ \A e \in disk.log : e \in Nat /\ 0 < e /\ e <= made.events
    /\ \A t \in tasks : Logging(t) => 0 < t.number /\ t.number <= made.events
    /\ \A t, u \in tasks : Logging(t) /\ Logging(u) /\ t.number = u.number => t = u
    /\ \A t \in tasks : t.at = "log" =>
         t.number \notin disk.log /\ \A u \in tasks : u.at = "trim" => t.number \notin u.ints
    /\ \A t \in tasks : t.at = "trim" => \A e \in t.ints : e \in Nat /\ 0 < e /\ e <= made.events
    /\ \A t \in tasks : t.at = "trim" => \A e \in t.ints \cap disk.log :
         Cardinality({f \in disk.log : f > e}) >= LogLimit

(* A step that leaves the log alone; what it starts to log is a new event.  *)
LogStays ==
    /\ disk'.log = disk.log
    /\ made'.events = made.events \/ made'.events = made.events + 1
    /\ \A u \in tasks' : u \notin tasks /\ Logging(u) =>
         u.at = "log" /\ u.number = made.events + 1 /\ made'.events = made.events + 1
    /\ \A u, v \in tasks' : u \notin tasks /\ v \notin tasks /\ Logging(u) /\ Logging(v) => u = v

(* The log is finite.                                                       *)
LEMMA LogIsFinite ==
    ASSUME Typed, LogKept
    PROVE  disk.log \in SUBSET Nat /\ IsFiniteSet(disk.log) /\ made.events \in Nat
           /\ LogLimit \in Nat
<1>1. disk.log \in SUBSET Nat /\ made.events \in Nat
  BY DEF Typed, StoredTyped
<1>2. IsFiniteSet(disk.log)
  BY <1>1, FS_BoundedSetOfNaturals DEF LogKept
<1> QED BY <1>1, <1>2, BackupsAssumption

(* The types of a task.                                                     *)
LEMMA TaskTyped ==
    ASSUME Typed, NEW t \in tasks
    PROVE  /\ t.op \in Operation /\ t.at \in Place /\ t.keys \in SUBSET Record
           /\ t.got \in SUBSET Record /\ t.number \in Nat /\ t.ints \in SUBSET Nat
           /\ t.who \in SUBSET Contact /\ Staged(t)
  BY DEF Typed, TasksTyped, TaskType, AllStaged

(* Such a step keeps the log's invariant.                                   *)
LEMMA LogKeptStays ==
    ASSUME Typed, LogKept, LogStays
    PROVE  LogKept'
<1>1. made.events \in Nat /\ \A t \in tasks : t.number \in Nat
  BY LogIsFinite, TaskTyped
<1>2. \A e \in Nat : e <= made.events => e <= made'.events /\ e # made.events + 1
  BY <1>1 DEF LogStays
<1>3. \A e \in disk'.log : e \in Nat /\ 0 < e /\ e <= made'.events
  BY <1>2 DEF LogKept, LogStays
<1>4. ASSUME NEW t \in tasks', Logging(t) PROVE 0 < t.number /\ t.number <= made'.events
  <2>1. CASE t \in tasks
    BY <1>1, <1>2, <1>4, <2>1 DEF LogKept
  <2>2. CASE t \notin tasks
    BY <1>1, <1>4, <2>2 DEF LogStays
  <2> QED BY <2>1, <2>2
<1>5. ASSUME NEW t \in tasks', NEW u \in tasks', Logging(t), Logging(u), t.number = u.number
      PROVE  t = u
  <2>1. \A x \in tasks : Logging(x) => x.number # made.events + 1
    BY <1>1, <1>2 DEF LogKept
  <2>2. CASE t \in tasks /\ u \in tasks
    BY <1>5, <2>2 DEF LogKept
  <2>3. CASE t \notin tasks /\ u \notin tasks
    BY <1>5, <2>3 DEF LogStays
  <2>4. CASE t \in tasks /\ u \notin tasks
    BY <1>5, <2>1, <2>4 DEF LogStays
  <2>5. CASE t \notin tasks /\ u \in tasks
    BY <1>5, <2>1, <2>5 DEF LogStays
  <2> QED BY <2>2, <2>3, <2>4, <2>5
<1>6. \A u \in tasks' : u.at = "trim" => u \in tasks
  BY DEF LogStays, Logging
<1>7. ASSUME NEW t \in tasks', t.at = "log"
      PROVE  t.number \notin disk'.log /\ \A u \in tasks' : u.at = "trim" => t.number \notin u.ints
  <2>1. CASE t \in tasks
    BY <1>6, <1>7, <2>1 DEF LogKept, LogStays
  <2>2. CASE t \notin tasks
    <3>1. t.number = made.events + 1
      BY <1>7, <2>2 DEF LogStays, Logging
    <3>2. t.number \notin disk'.log
      BY <1>2, <3>1 DEF LogKept, LogStays
    <3>3. ASSUME NEW u \in tasks', u.at = "trim" PROVE t.number \notin u.ints
      BY <1>2, <1>6, <3>1, <3>3 DEF LogKept
    <3> QED BY <3>2, <3>3
  <2> QED BY <2>1, <2>2
<1>8. ASSUME NEW t \in tasks', t.at = "trim"
      PROVE  /\ \A e \in t.ints : e \in Nat /\ 0 < e /\ e <= made'.events
             /\ \A e \in t.ints \cap disk'.log :
                   Cardinality({f \in disk'.log : f > e}) >= LogLimit
  BY <1>2, <1>6, <1>8 DEF LogKept, LogStays
<1> QED BY <1>3, <1>4, <1>5, <1>7, <1>8 DEF LogKept

(* Four actions change the log, or what is to be trimmed.                   *)
LogChanges ==
    LogStays \/ \E t \in tasks : putEvent(t) \/ ListLog(t) \/ TrimLog(t) \/ deleteDatabase(t)

(* All the others leave the log alone.                                      *)
LEMMA LogStaysOrChanges ==
    ASSUME StoredTyped, TasksTyped, AllStaged, [Next]_vars
    PROVE  LogChanges
<1>0. made.events \in Nat /\ made.events + 0 = made.events
  BY DEF StoredTyped
<1>1. CASE UNCHANGED vars
  BY <1>1 DEF vars, LogStays, LogChanges
<1>2. ASSUME NEW m \in Message, onSecure(m) \/ onIncoming(m) PROVE  LogChanges
  <2>1. disk'.log = disk.log /\ made'.events = made.events
    BY <1>0, <1>2, MessageSets DEF MadeIs
  <2>2. tasks' \subseteq tasks
    BY <1>2, MessageSets
  <2> QED
    BY <2>1, <2>2 DEF LogStays, LogChanges
<1>3. ASSUME NEW c \in Contact, deleteContact(c) \/ clearConversation(c) PROVE  LogChanges
  <2>1. disk'.log = disk.log /\ made'.events = made.events
    BY <1>0, <1>3, DeleteSets DEF MadeIs
  <2>2. \/ Begins("delete", "contact", mem.records, made.ops, {}, {c})
        \/ Begins("clear", "convo", mem.records, made.ops, {}, {c})
    BY <1>3, DeleteSets
  <2>3. PICK u : u.at \in {"contact", "convo"} /\ tasks' \subseteq tasks \cup {u}
    BY <2>2 DEF Begins
  <2> QED
    BY <2>1, <2>3 DEF LogStays, Logging, LogChanges
<1>5. ASSUME NEW r \in pending, Lands(r) PROVE  LogChanges
  <2>1. disk'.log = disk.log /\ made'.events = made.events
    BY <1>5, LandsSets DEF DiskIs
  <2>2. tasks' \subseteq tasks
    BY <1>5, LandsSets
  <2> QED
    BY <2>1, <2>2 DEF LogStays, LogChanges
<1>6. ASSUME NEW f \in files, inAppImport(f) PROVE  LogChanges
  <2>1. disk'.log = disk.log /\ made'.events = made.events
    BY <1>0, <1>6, ImportSets DEF MadeIs
  <2>3. PICK u : u.at = "open" /\ tasks' \subseteq tasks \cup {u}
    BY <1>6, ImportSets DEF Begins
  <2> QED
    BY <2>1, <2>3 DEF LogStays, Logging, LogChanges
<1>7. CASE exportBackup
  <2>1. disk'.log = disk.log /\ made'.events = made.events
    BY <1>0, <1>7, ExportSets DEF MadeIs
  <2>3. PICK u : u.at = "contacts" /\ tasks' \subseteq tasks \cup {u}
    BY <1>7, ExportSets DEF Begins
  <2> QED
    BY <2>1, <2>3 DEF LogStays, Logging, LogChanges
<1>8. CASE appendSecurityEvent
  <2>1. disk'.log = disk.log /\ made'.events = made.events + 1
    BY <1>8, AppendSets DEF MadeIs
  <2>3. PICK u : u.at = "log" /\ u.number = made.events + 1 /\ tasks' \subseteq tasks \cup {u}
    BY <1>8, AppendSets DEF Begins
  <2> QED
    BY <2>1, <2>3 DEF LogStays, LogChanges
<1>9. CASE OpenChat
  <2>1. disk'.log = disk.log /\ made'.events = made.events
    BY <1>0, <1>9, OpenSets DEF MadeIs
  <2>3. \A u \in tasks' : u \notin tasks => u.at = "read"
    BY <1>9, OpenSets DEF Asks
  <2> QED
    BY <2>1, <2>3 DEF LogStays, Logging, LogChanges
<1>10. CASE CloseChat
  <2>1. disk'.log = disk.log /\ made'.events = made.events
    BY <1>10, CloseSets
  <2>2. tasks' \subseteq tasks
    BY <1>10, CloseSets
  <2> QED
    BY <2>1, <2>2 DEF LogStays, LogChanges
<1>11. CASE lockVault
  <2>1. disk'.log = disk.log /\ made'.events = made.events + 1
    BY <1>11, LockSets DEF MadeIs
  <2>3. PICK u : u.at = "log" /\ u.number = made.events + 1 /\ tasks' \subseteq tasks \cup {u}
    BY <1>11, LockSets DEF Begins
  <2> QED
    BY <2>1, <2>3 DEF LogStays, LogChanges
<1>12. CASE unlockVault
  <2>1. disk'.log = disk.log /\ made'.events = made.events + 1
    BY <1>12, UnlockSets DEF MadeIs
  <2>3. PICK u : u.at = "log" /\ u.number = made.events + 1 /\ tasks' \subseteq tasks \cup {u}
    BY <1>12, UnlockSets DEF Begins
  <2> QED
    BY <2>1, <2>3 DEF LogStays, LogChanges
<1>13. CASE Reload
  <2>1. disk'.log = disk.log /\ made'.events = made.events
    BY <1>0, <1>13, ReloadSets DEF MadeIs
  <2>2. tasks' \subseteq tasks
    BY <1>13, ReloadSets
  <2> QED
    BY <2>1, <2>2 DEF LogStays, LogChanges
<1>14. ASSUME NEW t \in tasks, putEvent(t) PROVE  LogChanges
  BY <1>14 DEF LogChanges
<1>15. ASSUME NEW t \in tasks, ListLog(t) PROVE  LogChanges
  BY <1>15 DEF LogChanges
<1>16. ASSUME NEW t \in tasks, TrimLog(t) PROVE  LogChanges
  BY <1>16 DEF LogChanges
<1>17. ASSUME NEW t \in tasks, ListKeys(t) PROVE  LogChanges
  <2>1. disk'.log = disk.log /\ made'.events = made.events
    BY <1>17, ListKeysSets
  <2>2. After(t.at) \in {"conversations", "messages", "seal"}
    BY <1>17, ListKeysSets DEF After, Stores
  <2>3. PICK u : u.at \in {"conversations", "messages", "seal", "get"} /\ tasks' \subseteq tasks \cup {u}
    BY <2>2, <1>17, ListKeysSets DEF Turns
  <2> QED
    BY <2>1, <2>3 DEF LogStays, Logging, LogChanges
<1>18. ASSUME NEW t \in tasks, createBackupFile(t) PROVE  LogChanges
  <2>1. disk'.log = disk.log /\ made'.events = made.events + 1
    BY <1>18, SealSets DEF MadeIs
  <2>3. PICK u : u.at = "log" /\ u.number = made.events + 1 /\ tasks' \subseteq tasks \cup {u}
    BY <1>18, SealSets DEF Turns
  <2> QED
    BY <2>1, <2>3 DEF LogStays, LogChanges
<1>19. ASSUME NEW t \in tasks, openBackupFile(t) PROVE  LogChanges
  <2>1. disk'.log = disk.log /\ made'.events = made.events
    BY <1>19, OpenFileSets
  <2>3. tasks' \subseteq tasks \/ \E u : u.at = "null" /\ tasks' \subseteq tasks \cup {u}
    BY <1>19, OpenFileSets DEF Turns, Drop
  <2> QED
    BY <2>1, <2>3 DEF LogStays, Logging, LogChanges
<1>20. ASSUME NEW t \in tasks, dropStorage(t) PROVE  LogChanges
  <2>1. disk'.log = disk.log /\ made'.events = made.events
    BY <1>20, DropStorageSets
  <2>3. PICK u : u.at = "wipe" /\ tasks' \subseteq tasks \cup {u}
    BY <1>20, DropStorageSets DEF Turns
  <2> QED
    BY <2>1, <2>3 DEF LogStays, Logging, LogChanges
<1>21. ASSUME NEW t \in tasks, deleteDatabase(t) PROVE  LogChanges
  BY <1>21 DEF LogChanges
<1>22. ASSUME NEW t \in tasks, initStorage(t) PROVE  LogChanges
  <2>1. disk'.log = disk.log /\ made'.events = made.events
    <3>1. disk' = [records |-> disk.records, blobs |-> disk.blobs, log |-> disk.log, vault |-> TRUE]
      BY <1>22, InitSets
    <3>2. UNCHANGED made
      BY <1>22, InitSets
    <3> QED BY <3>1, <3>2
  <2>3. PICK u : u.at = "restore" /\ tasks' \subseteq tasks \cup {u}
    BY <1>22, InitSets DEF Turns
  <2> QED
    BY <2>1, <2>3 DEF LogStays, Logging, LogChanges
<1>23. ASSUME NEW t \in tasks, RestoreFails(t) PROVE  LogChanges
  <2>1. disk'.log = disk.log /\ made'.events = made.events
    BY <1>23, RestoreFailsSets
  <2>2. tasks' \subseteq tasks
    BY <1>23, RestoreFailsSets DEF Drop
  <2> QED
    BY <2>1, <2>2 DEF LogStays, LogChanges
<1>24. ASSUME NEW t \in tasks, Restored(t) PROVE  LogChanges
  <2>1. disk'.log = disk.log /\ made'.events = made.events + 1
    BY <1>24, RestoredSets DEF MadeIs
  <2>3. PICK u : u.at = "log" /\ u.number = made.events + 1 /\ tasks' \subseteq tasks \cup {u}
    BY <1>24, RestoredSets DEF Turns
  <2> QED
    BY <2>1, <2>3 DEF LogStays, LogChanges
<1>25. ASSUME NEW t \in tasks, deleteRecord(t) PROVE  LogChanges
  <2>1. disk'.log = disk.log /\ made'.events = made.events
    BY <1>25, DeleteRecordSets DEF DiskIs
  <2>2. \/ Turns(t, "identity", t.keys, t.got, t.number, t.ints)
        \/ Turns(t, "list", t.keys, t.got, t.number, t.ints)
    BY <1>25, DeleteRecordSets
  <2>3. PICK u : u.at \in {"identity", "list"} /\ tasks' \subseteq tasks \cup {u}
    BY <2>2 DEF Turns
  <2> QED
    BY <2>1, <2>3 DEF LogStays, Logging, LogChanges
<1>26. ASSUME NEW t \in tasks, listMessageKeys(t) PROVE  LogChanges
  <2>1. disk'.log = disk.log /\ made'.events = made.events
    BY <1>26, DoomSets
  <2>3. PICK u : u.at = "doomed" /\ tasks' \subseteq tasks \cup {u}
    BY <1>26, DoomSets DEF Turns
  <2> QED
    BY <2>1, <2>3 DEF LogStays, Logging, LogChanges
<1>27. ASSUME NEW t \in tasks, Deleted(t) PROVE  LogChanges
  <2>1. disk'.log = disk.log /\ made'.events = made.events + 1
    BY <1>27, DeletedSets DEF MadeIs
  <2>3. PICK u : u.at = "log" /\ u.number = made.events + 1 /\ tasks' \subseteq tasks \cup {u}
    BY <1>27, DeletedSets DEF Turns
  <2> QED
    BY <2>1, <2>3 DEF LogStays, LogChanges
<1>28. ASSUME NEW t \in tasks, getAttachmentBlob(t) PROVE  LogChanges
  <2>1. disk'.log = disk.log /\ made'.events = made.events
    BY <1>28, BlobSets
  <2>3. tasks' \subseteq tasks \/ \E u : u.at = "decrypt" /\ tasks' \subseteq tasks \cup {u}
    BY <1>28, BlobSets DEF Turns, Drop
  <2> QED
    BY <2>1, <2>3 DEF LogStays, Logging, LogChanges
<1>29. ASSUME NEW t \in tasks, Decrypted(t) PROVE  LogChanges
  <2>1. disk'.log = disk.log /\ made'.events = made.events
    BY <1>29, DecryptedSets
  <2>2. tasks' \subseteq tasks
    BY <1>29, DecryptedSets DEF Drop
  <2> QED
    BY <2>1, <2>2 DEF LogStays, LogChanges
<1>30. ASSUME NEW t \in tasks, loadAllData(t) PROVE  LogChanges
  <2>1. disk'.log = disk.log /\ made'.events = made.events
    BY <1>30, LoadSets
  <2>3. \A u \in tasks' : u \notin tasks => u.at = "read"
    BY <1>30, LoadSets DEF Drop, Asks
  <2> QED
    BY <2>1, <2>3 DEF LogStays, Logging, LogChanges
<1>31. ASSUME NEW t \in tasks, Throws(t) PROVE  LogChanges
  <2>1. disk'.log = disk.log /\ made'.events = made.events
    BY <1>31, ThrowsSets
  <2>2. tasks' \subseteq tasks
    BY <1>31, ThrowsSets DEF Drop
  <2> QED
    BY <2>1, <2>2 DEF LogStays, LogChanges
<1>32. ASSUME NEW t \in tasks, NEW r \in t.keys, GetRecord(t, r) PROVE  LogChanges
  <2>1. disk'.log = disk.log /\ made'.events = made.events
    BY <1>32, GetSets
  <2>2. r \in Record /\ After(r[1]) \in {"conversations", "messages", "seal"}
    BY <1>32, GetSets, RecordFacts DEF After, Stores
  <2>4. (IF t.keys = {r} THEN After(r[1]) ELSE "get") \in {"conversations", "messages", "seal", "get"}
    BY <2>2
  <2>3. PICK u : u.at = (IF t.keys = {r} THEN After(r[1]) ELSE "get") /\ tasks' \subseteq tasks \cup {u}
    <3> DEFINE at == IF t.keys = {r} THEN After(r[1]) ELSE "get"
    <3>1. Turns(t, at, t.keys \ {r}, t.got \cup ({r} \cap disk.records), t.number, t.ints)
      BY <1>32, GetSets
    <3> HIDE DEF at
    <3>2. \E u : u.at = at /\ tasks' \subseteq tasks \cup {u}
      BY <3>1 DEF Turns
    <3> QED BY <3>2 DEF at
  <2> QED
    BY <2>1, <2>3, <2>4 DEF LogStays, Logging, LogChanges
<1>33. ASSUME NEW t \in tasks, NEW r \in t.keys, Restore(t, r) PROVE  LogChanges
  <2>1. disk'.log = disk.log /\ made'.events = made.events
    BY <1>33, RestoreSets DEF DiskIs
  <2>3. PICK u : u.at = "restore" /\ tasks' \subseteq tasks \cup {u}
    BY <1>33, RestoreSets DEF Turns
  <2> QED
    BY <2>1, <2>3 DEF LogStays, Logging, LogChanges
<1>34. ASSUME NEW t \in tasks, NEW r \in t.keys, deleteMessage(t, r) PROVE  LogChanges
  <2>1. disk'.log = disk.log /\ made'.events = made.events
    BY <1>34, DeleteMessageSets DEF DiskIs
  <2>3. PICK u : u.at = "doomed" /\ tasks' \subseteq tasks \cup {u}
    BY <1>34, DeleteMessageSets DEF Turns
  <2> QED
    BY <2>1, <2>3 DEF LogStays, Logging, LogChanges
<1>35. ASSUME NEW t \in tasks, findConvo(t) PROVE  LogChanges
  <2>1. disk'.log = disk.log /\ made'.events = made.events
    BY <1>35, FindConvoSets
  <2>2. Turns(t, "convo", t.keys, t.got, t.number, t.ints) \/ Drop(t)
    BY <1>35, FindConvoSets
  <2>3. \A u \in tasks' : u \in tasks \/ u.at = "convo"
    BY <2>2 DEF Turns, Drop
  <2> QED
    BY <2>1, <2>3 DEF LogStays, Logging, LogChanges
<1>36. ASSUME NEW t \in tasks, Finish(t) PROVE  LogChanges
  <2>1. disk'.log = disk.log /\ made'.events = made.events
    BY <1>36, FinishSets
  <2>2. tasks' \subseteq tasks
    BY <1>36, FinishSets DEF Drop
  <2> QED
    BY <2>1, <2>2 DEF LogStays, LogChanges
<1> QED
  BY <1>1, <1>2, <1>3, <1>5, <1>6, <1>7, <1>8, <1>9, <1>10, <1>11, <1>12, <1>13, <1>14, <1>15, <1>16, <1>17, <1>18, <1>19, <1>20, <1>21, <1>22, <1>23, <1>24, <1>25, <1>26, <1>27, <1>28, <1>29, <1>30, <1>31, <1>32, <1>33, <1>34, <1>35, <1>36 DEF Next, Step

(* An event is put into the log.                                            *)
LEMMA LogKeptPut ==
    ASSUME StoredTyped, TasksTyped, AllStaged, LogKept, NEW t \in tasks, putEvent(t)
    PROVE  LogKept'
<1>1. /\ t.at = "log" /\ disk'.log = disk.log \cup {t.number} /\ made' = made
      /\ Turns(t, "logged", t.keys, t.got, t.number, t.ints)
  BY PutSets DEF DiskIs
<1>2. PICK u : u.at = "logged" /\ u.number = t.number /\ tasks' = (tasks \ {t}) \cup {u}
  BY <1>1 DEF Turns
<1>3. /\ disk.log \in SUBSET Nat /\ IsFiniteSet(disk.log) /\ t.number \in Nat /\ LogLimit \in Nat
      /\ 0 < t.number /\ t.number <= made.events
  BY <1>1, LogIsFinite, TaskTyped DEF Typed, LogKept, Logging
<1>4. \A x \in tasks' : x # u => x \in tasks /\ x # t
  BY <1>2
<1>5. \A e \in disk'.log : e \in Nat /\ 0 < e /\ e <= made'.events
  BY <1>1, <1>3 DEF LogKept
<1>6. \A x \in tasks' : Logging(x) => 0 < x.number /\ x.number <= made'.events
  BY <1>1, <1>2, <1>3, <1>4 DEF LogKept
<1>7. \A x \in tasks : Logging(x) /\ x.number = t.number => x = t
  BY <1>1 DEF LogKept, Logging
<1>8. ASSUME NEW x \in tasks', NEW y \in tasks', Logging(x), Logging(y), x.number = y.number
      PROVE  x = y
  BY <1>2, <1>4, <1>7, <1>8 DEF LogKept
<1>9. ASSUME NEW x \in tasks', x.at = "log"
      PROVE  /\ x.number \notin disk'.log
             /\ \A y \in tasks' : y.at = "trim" => x.number \notin y.ints
  <2>1. x \in tasks /\ x # t
    BY <1>2, <1>4, <1>9
  <2>2. x.number # t.number
    BY <1>7, <1>9, <2>1 DEF Logging
  <2>3. \A y \in tasks' : y.at = "trim" => y \in tasks
    BY <1>2, <1>4
  <2> QED BY <1>1, <1>9, <2>1, <2>2, <2>3 DEF LogKept
<1>10. ASSUME NEW x \in tasks', x.at = "trim"
       PROVE  /\ \A e \in x.ints : e \in Nat /\ 0 < e /\ e <= made'.events
              /\ \A e \in x.ints \cap disk'.log :
                    Cardinality({f \in disk'.log : f > e}) >= LogLimit
  <2>1. x \in tasks
    BY <1>2, <1>4, <1>10
  <2>2. \A e \in x.ints : e \in Nat /\ 0 < e /\ e <= made'.events
    BY <1>1, <1>10, <2>1 DEF LogKept
  <2>3. t.number \notin x.ints
    BY <1>1, <1>10, <2>1 DEF LogKept
  <2>4. ASSUME NEW e \in x.ints \cap disk'.log
        PROVE  Cardinality({f \in disk'.log : f > e}) >= LogLimit
    <3>1. e \in disk.log
      BY <1>1, <2>3
    <3>2. Cardinality({f \in disk.log : f > e}) >= LogLimit
      BY <1>10, <2>1, <3>1 DEF LogKept
    <3>3. Cardinality({f \in disk.log \cup {t.number} : f > e}) >= LogLimit
      BY <1>3, <3>2, NewerGrow
    <3> QED BY <1>1, <3>3
  <2> QED BY <2>2, <2>4
<1> QED BY <1>5, <1>6, <1>8, <1>9, <1>10 DEF LogKept

(* The log is listed: what is over its limit is to be trimmed.              *)
LEMMA LogKeptListed ==
    ASSUME StoredTyped, TasksTyped, AllStaged, LogKept, NEW t \in tasks, ListLog(t)
    PROVE  LogKept'
<1>1. /\ t.at = "logged" /\ disk' = disk /\ made' = made
      /\ \/ LogOver(t)
         \/ Turns(t, "trim", t.keys, t.got, t.number, Surplus(disk.log))
  BY ListLogSets
<1>3. disk.log \in SUBSET Nat /\ IsFiniteSet(disk.log) /\ LogLimit \in Nat
  BY LogIsFinite DEF Typed
<1>4. /\ Surplus(disk.log) \subseteq disk.log
      /\ \A e \in Surplus(disk.log) : Cardinality({f \in disk.log : f > e}) >= LogLimit
  BY <1>3, SurplusIs
<1> DEFINE New(x) == x.at = "trim" /\ x.number = t.number /\ x.ints = Surplus(disk.log)
<1>5. /\ \A x \in tasks' : Logging(x) => New(x) \/ (x \in tasks /\ x # t)
      /\ \A x, y \in tasks' : New(x) /\ New(y) => x = y
  <2>0. Logging(t) /\ \A x \in tasks : Logging(x) /\ x.number = t.number => x = t
    BY <1>1 DEF LogKept, Logging
  <2>1. CASE LogOver(t)
    <3>1. \A x \in tasks' : Logging(x) => x \in tasks /\ x # t
      BY <1>1, <2>1 DEF LogOver, Turns, Drop, Logging
    <3> QED BY <2>0, <3>1 DEF Logging
  <2>2. CASE Turns(t, "trim", t.keys, t.got, t.number, Surplus(disk.log))
    <3>1. PICK u : /\ tasks' = (tasks \ {t}) \cup {u}
                  /\ u.at = "trim" /\ u.number = t.number /\ u.ints = Surplus(disk.log)
      BY <2>2 DEF Turns
    <3>2. \A x \in tasks' : New(x) => x = u
      BY <2>0, <3>1 DEF Logging
    <3>3. New(u)
      BY <3>1
    <3>4. \A x \in tasks' : x = u \/ (x \in tasks /\ x # t)
      BY <3>1
    <3> HIDE DEF New
    <3> QED BY <3>2, <3>3, <3>4
  <2> QED BY <1>1, <2>1, <2>2
<1>6. Logging(t) /\ \A x \in tasks : Logging(x) /\ x.number = t.number => x = t
  BY <1>1 DEF LogKept, Logging
<1> HIDE DEF New
<1>8. \A x \in tasks' : New(x) => x.at = "trim" /\ x.number = t.number /\ x.ints = Surplus(disk.log)
                                  /\ Logging(x)
  BY DEF New, Logging
<1>9. \A x \in tasks' : Logging(x) => 0 < x.number /\ x.number <= made'.events
  BY <1>1, <1>5, <1>6, <1>8 DEF LogKept
<1>10. ASSUME NEW x \in tasks', NEW y \in tasks', Logging(x), Logging(y), x.number = y.number
       PROVE  x = y
  BY <1>5, <1>6, <1>8, <1>10 DEF LogKept
<1>11. ASSUME NEW x \in tasks', x.at = "log"
       PROVE  /\ x.number \notin disk'.log
              /\ \A y \in tasks' : y.at = "trim" => x.number \notin y.ints
  <2>1. x \in tasks
    BY <1>5, <1>8, <1>11 DEF Logging
  <2>2. x.number \notin disk.log /\ \A y \in tasks : y.at = "trim" => x.number \notin y.ints
    BY <1>11, <2>1 DEF LogKept
  <2>3. ASSUME NEW y \in tasks', y.at = "trim" PROVE x.number \notin y.ints
    <3>1. New(y) \/ y \in tasks
      BY <1>5, <2>3 DEF Logging
    <3> QED BY <1>4, <1>8, <2>2, <2>3, <3>1
  <2> QED BY <1>1, <2>2, <2>3
<1>12. ASSUME NEW x \in tasks', x.at = "trim"
       PROVE  /\ \A e \in x.ints : e \in Nat /\ 0 < e /\ e <= made'.events
              /\ \A e \in x.ints \cap disk'.log :
                    Cardinality({f \in disk'.log : f > e}) >= LogLimit
  <2>1. New(x) \/ x \in tasks
    BY <1>5, <1>12 DEF Logging
  <2>2. CASE x \in tasks
    BY <1>1, <1>12, <2>2 DEF LogKept
  <2>3. CASE New(x)
    BY <1>1, <1>4, <1>8, <2>3 DEF LogKept
  <2> QED BY <2>1, <2>2, <2>3
<1> QED BY <1>1, <1>9, <1>10, <1>11, <1>12 DEF LogKept

(* One event is deleted, the oldest of those to be.                         *)
LEMMA LogKeptTrimmed ==
    ASSUME StoredTyped, TasksTyped, AllStaged, LogKept, NEW t \in tasks, TrimLog(t)
    PROVE  LogKept'
<1>1. PICK d \in t.ints :
        /\ disk'.log = disk.log \ {d}
        /\ \/ t.ints = {d} /\ LogOver(t)
           \/ t.ints # {d} /\ Turns(t, "trim", t.keys, t.got, t.number, t.ints \ {d})
  BY TrimSets DEF DiskIs
<1>2. t.at = "trim" /\ made' = made
  BY TrimSets
<1>3. disk.log \in SUBSET Nat /\ IsFiniteSet(disk.log) /\ LogLimit \in Nat
  BY LogIsFinite DEF Typed
<1> DEFINE New(x) == x.at = "trim" /\ x.number = t.number /\ x.ints \subseteq t.ints
<1>5. /\ \A x \in tasks' : Logging(x) => New(x) \/ (x \in tasks /\ x # t)
      /\ \A x, y \in tasks' : New(x) /\ New(y) => x = y
  <2>0. Logging(t) /\ \A x \in tasks : Logging(x) /\ x.number = t.number => x = t
    BY <1>2 DEF LogKept, Logging
  <2>1. CASE t.ints = {d} /\ LogOver(t)
    <3>1. \A x \in tasks' : Logging(x) => x \in tasks /\ x # t
      BY <1>2, <2>1 DEF LogOver, Turns, Drop, Logging
    <3> QED BY <2>0, <3>1 DEF Logging
  <2>2. CASE t.ints # {d} /\ Turns(t, "trim", t.keys, t.got, t.number, t.ints \ {d})
    <3>1. PICK u : /\ tasks' = (tasks \ {t}) \cup {u}
                  /\ u.at = "trim" /\ u.number = t.number /\ u.ints = t.ints \ {d}
      BY <2>2 DEF Turns
    <3>2. \A x \in tasks' : New(x) => x = u
      BY <2>0, <3>1 DEF Logging
    <3>3. New(u)
      BY <3>1
    <3>4. \A x \in tasks' : x = u \/ (x \in tasks /\ x # t)
      BY <3>1
    <3> HIDE DEF New
    <3> QED BY <3>2, <3>3, <3>4
  <2> QED BY <1>1, <2>1, <2>2
<1> HIDE DEF New
<1>6. Logging(t) /\ \A x \in tasks : Logging(x) /\ x.number = t.number => x = t
  BY <1>2 DEF LogKept, Logging
<1>8. \A x \in tasks' : New(x) => x.at = "trim" /\ x.number = t.number /\ x.ints \subseteq t.ints
                                  /\ Logging(x)
  BY DEF New, Logging
<1>9. \A x \in tasks' : Logging(x) => 0 < x.number /\ x.number <= made'.events
  BY <1>2, <1>5, <1>6, <1>8 DEF LogKept
<1>10. ASSUME NEW x \in tasks', NEW y \in tasks', Logging(x), Logging(y), x.number = y.number
       PROVE  x = y
  BY <1>5, <1>6, <1>8, <1>10 DEF LogKept
<1>11. ASSUME NEW x \in tasks', x.at = "log"
       PROVE  /\ x.number \notin disk'.log
              /\ \A y \in tasks' : y.at = "trim" => x.number \notin y.ints
  <2>1. x \in tasks
    BY <1>5, <1>8, <1>11 DEF Logging
  <2>2. x.number \notin disk.log /\ \A y \in tasks : y.at = "trim" => x.number \notin y.ints
    BY <1>11, <2>1 DEF LogKept
  <2>3. ASSUME NEW y \in tasks', y.at = "trim" PROVE x.number \notin y.ints
    <3>1. New(y) \/ y \in tasks
      BY <1>5, <2>3 DEF Logging
    <3> QED BY <1>2, <1>8, <2>2, <2>3, <3>1
  <2> QED BY <1>1, <2>2, <2>3
<1>12. ASSUME NEW x \in tasks', x.at = "trim"
       PROVE  /\ \A e \in x.ints : e \in Nat /\ 0 < e /\ e <= made'.events
              /\ \A e \in x.ints \cap disk'.log :
                    Cardinality({f \in disk'.log : f > e}) >= LogLimit
  <2>1. PICK y \in tasks : y.at = "trim" /\ x.ints \subseteq y.ints
    BY <1>2, <1>5, <1>8, <1>12 DEF Logging
  <2>2. \A e \in x.ints : e \in Nat /\ 0 < e /\ e <= made'.events
    BY <1>2, <2>1 DEF LogKept
  <2>3. ASSUME NEW e \in x.ints \cap disk'.log
        PROVE  Cardinality({f \in disk'.log : f > e}) >= LogLimit
    <3>1. e \in disk.log /\ e # d /\ Cardinality({f \in disk.log : f > e}) >= LogLimit
      BY <1>1, <2>1, <2>3 DEF LogKept
    <3>2. d \in disk.log => Cardinality({f \in disk.log : f > d}) >= LogLimit
      BY <1>1, <1>2 DEF LogKept
    <3>3. Cardinality({f \in disk.log \ {d} : f > e}) >= LogLimit
      BY <1>3, <3>1, <3>2, NewerStay
    <3> QED BY <1>1, <3>3
  <2> QED BY <2>2, <2>3
<1>13. \A e \in disk'.log : e \in Nat /\ 0 < e /\ e <= made'.events
  BY <1>1, <1>2 DEF LogKept
<1> QED BY <1>9, <1>10, <1>11, <1>12, <1>13 DEF LogKept

(* The wipe leaves no log.                                                  *)
LEMMA LogKeptWiped ==
    ASSUME StoredTyped, TasksTyped, AllStaged, LogKept, NEW t \in tasks, deleteDatabase(t)
    PROVE  LogKept'
<1>1. /\ disk' = [records |-> {}, blobs |-> {}, log |-> {}, vault |-> FALSE] /\ made' = made
      /\ Turns(t, "init", t.keys, t.got, t.number, t.ints)
  BY WipeSets
<1>2. disk'.log = {}
  BY <1>1
<1>3. \A x \in tasks' : Logging(x) => x \in tasks
  BY <1>1 DEF Turns, Logging
<1>4. /\ \A x \in tasks' : x.at = "log" => x \in tasks
      /\ \A x \in tasks' : x.at = "trim" => x \in tasks
  BY <1>3 DEF Logging
<1> QED BY <1>1, <1>2, <1>3, <1>4 DEF LogKept

(* Every step keeps it.                                                     *)
LEMMA LogKeptKept ==
    ASSUME StoredTyped, TasksTyped, AllStaged, LogKept, [Next]_vars
    PROVE  LogKept'
<1>1. CASE LogStays
  BY <1>1, LogKeptStays DEF Typed
<1>2. CASE \E t \in tasks : putEvent(t) \/ ListLog(t) \/ TrimLog(t) \/ deleteDatabase(t)
  BY <1>2, LogKeptPut, LogKeptListed, LogKeptTrimmed, LogKeptWiped
<1> QED BY <1>1, <1>2, LogStaysOrChanges DEF LogChanges

(* An event that a step deletes has LogLimit newer ones, or an import wipes. *)
LEMMA EventsDeleted ==
    ASSUME StoredTyped, TasksTyped, AllStaged, LogKept, [Next]_vars, NEW e \in disk.log,
           e \notin disk'.log
    PROVE  Running("import") \/ Cardinality({f \in disk.log : f > e}) >= LogLimit
<1>1. CASE LogStays
  BY <1>1 DEF LogStays
<1>2. ASSUME NEW t \in tasks, putEvent(t) PROVE FALSE
  BY <1>2, PutSets DEF DiskIs
<1>3. ASSUME NEW t \in tasks, ListLog(t) PROVE FALSE
  BY <1>3, ListLogSets
<1>4. ASSUME NEW t \in tasks, TrimLog(t) PROVE Cardinality({f \in disk.log : f > e}) >= LogLimit
  <2>1. t.at = "trim" /\ e \in t.ints
    BY <1>4, TrimSets DEF DiskIs
  <2> QED BY <2>1 DEF LogKept
<1>5. ASSUME NEW t \in tasks, deleteDatabase(t) PROVE Running("import")
  <2>1. t.at = "wipe" /\ t.op \in Operation /\ Staged(t)
    BY <1>5, WipeSets DEF TasksTyped, TaskType, AllStaged
  <2>2. t.op = "import"
    BY <2>1 DEF Staged, Logging, Operation
  <2> QED BY <2>2 DEF Running
<1> QED BY <1>1, <1>2, <1>3, <1>4, <1>5, LogStaysOrChanges DEF LogChanges

(* The reasons why a record may be deleted.                                 *)
ForAReason(q) ==
    \E t \in tasks :
        \/ t.op = "import" /\ t.at = "wipe"
        \/ t.op = "delete" /\ t.who = {Owner(q)}
        \/ t.op = "clear" /\ t.who = {Owner(q)} /\ q[1] # "contacts"

(* A record that a step deletes is deleted with its contact, or with its    *)
(* conversation, or in a wipe.                                              *)
LEMMA RecordsDeleted ==
    ASSUME StoredTyped, TasksTyped, AllStaged, [Next]_vars, NEW q \in disk.records,
           q \notin disk'.records
    PROVE  ForAReason(q)
<1> DEFINE Goal == ForAReason(q)
<1>1. CASE UNCHANGED vars
  BY <1>1 DEF vars
<1>2. ASSUME NEW m \in Message, onSecure(m) \/ onIncoming(m) PROVE  Goal
  BY <1>2, MessageSets
<1>3. ASSUME NEW c \in Contact, deleteContact(c) \/ clearConversation(c) PROVE  Goal
  BY <1>3, DeleteSets
<1>5. ASSUME NEW r \in pending, Lands(r) PROVE  Goal
  BY <1>5, LandsSets DEF DiskIs
<1>6. ASSUME NEW f \in files, inAppImport(f) PROVE  Goal
  BY <1>6, ImportSets
<1>7. CASE exportBackup
  BY <1>7, ExportSets
<1>8. CASE appendSecurityEvent
  BY <1>8, AppendSets
<1>9. CASE OpenChat
  BY <1>9, OpenSets
<1>10. CASE CloseChat
  BY <1>10, CloseSets
<1>11. CASE lockVault
  BY <1>11, LockSets
<1>12. CASE unlockVault
  BY <1>12, UnlockSets
<1>13. CASE Reload
  BY <1>13, ReloadSets
<1>14. ASSUME NEW t \in tasks, putEvent(t) PROVE  Goal
  BY <1>14, PutSets DEF DiskIs
<1>15. ASSUME NEW t \in tasks, ListLog(t) PROVE  Goal
  BY <1>15, ListLogSets
<1>16. ASSUME NEW t \in tasks, TrimLog(t) PROVE  Goal
  BY <1>16, TrimSets DEF DiskIs
<1>17. ASSUME NEW t \in tasks, ListKeys(t) PROVE  Goal
  BY <1>17, ListKeysSets
<1>18. ASSUME NEW t \in tasks, createBackupFile(t) PROVE  Goal
  BY <1>18, SealSets
<1>19. ASSUME NEW t \in tasks, openBackupFile(t) PROVE  Goal
  BY <1>19, OpenFileSets
<1>20. ASSUME NEW t \in tasks, dropStorage(t) PROVE  Goal
  BY <1>20, DropStorageSets
<1>21. ASSUME NEW t \in tasks, deleteDatabase(t) PROVE  Goal
  <2>1. t.at = "wipe" /\ t.op \in Operation /\ Staged(t)
    BY <1>21, WipeSets DEF TasksTyped, TaskType, AllStaged
  <2>2. t.op = "import"
    BY <2>1 DEF Staged, Logging, Operation
  <2> QED BY <2>1, <2>2 DEF ForAReason
<1>22. ASSUME NEW t \in tasks, initStorage(t) PROVE  Goal
  <2>1. disk' = [records |-> disk.records, blobs |-> disk.blobs, log |-> disk.log, vault |-> TRUE]
    BY <1>22, InitSets
  <2> QED BY <2>1
<1>23. ASSUME NEW t \in tasks, RestoreFails(t) PROVE  Goal
  BY <1>23, RestoreFailsSets
<1>24. ASSUME NEW t \in tasks, Restored(t) PROVE  Goal
  BY <1>24, RestoredSets
<1>25. ASSUME NEW t \in tasks, deleteRecord(t) PROVE  Goal
  <2>1. PICK c \in t.who, s \in {"contacts", "conversations"} :
          /\ t.at = (IF s = "contacts" THEN "contact" ELSE "convo")
          /\ disk'.records = disk.records \ {<<s, c>>}
    BY <1>25, DeleteRecordSets DEF DiskIs
  <2>2. t.op \in Operation /\ Staged(t) /\ c \in Contact
    BY <2>1 DEF TasksTyped, TaskType, AllStaged
  <2>3. \/ s = "contacts" /\ t.at = "contact"
        \/ s = "conversations" /\ t.at = "convo"
    BY <2>1
  <2>4. t.op \in {"delete", "clear"} /\ (t.op = "delete" \/ s = "conversations")
    BY <2>2, <2>3 DEF Staged, Logging, Operation
  <2>5. t.who = {c}
    BY <2>1, <2>2, <2>4 DEF Staged
  <2>6. q = <<s, c>>
    BY <2>1
  <2>7. Owner(<<s, c>>) = c
    BY <2>1, <2>2, RecordsOf
  <2>8. q[1] = s /\ Owner(q) = c
    BY <2>6, <2>7
  <2> QED BY <2>3, <2>4, <2>5, <2>8 DEF ForAReason
<1>26. ASSUME NEW t \in tasks, listMessageKeys(t) PROVE  Goal
  BY <1>26, DoomSets
<1>27. ASSUME NEW t \in tasks, Deleted(t) PROVE  Goal
  BY <1>27, DeletedSets
<1>28. ASSUME NEW t \in tasks, getAttachmentBlob(t) PROVE  Goal
  BY <1>28, BlobSets
<1>29. ASSUME NEW t \in tasks, Decrypted(t) PROVE  Goal
  BY <1>29, DecryptedSets
<1>30. ASSUME NEW t \in tasks, loadAllData(t) PROVE  Goal
  BY <1>30, LoadSets
<1>31. ASSUME NEW t \in tasks, Throws(t) PROVE  Goal
  BY <1>31, ThrowsSets
<1>32. ASSUME NEW t \in tasks, NEW r \in t.keys, GetRecord(t, r) PROVE  Goal
  BY <1>32, GetSets
<1>33. ASSUME NEW t \in tasks, NEW r \in t.keys, Restore(t, r) PROVE  Goal
  BY <1>33, RestoreSets DEF DiskIs
<1>34. ASSUME NEW t \in tasks, NEW r \in t.keys, deleteMessage(t, r) PROVE  Goal
  <2>1. t.at = "doomed" /\ disk'.records = disk.records \ {r}
    BY <1>34, DeleteMessageSets DEF DiskIs
  <2>2. t.op \in Operation /\ Staged(t)
    BY DEF TasksTyped, TaskType, AllStaged
  <2>3. t.op \in {"delete", "clear"} /\ Owner(r) \in t.who /\ r[1] = "messages"
    BY <2>1, <2>2 DEF Staged, Logging, Operation
  <2>4. PICK c \in Contact : t.who = {c}
    BY <2>2, <2>3 DEF Staged
  <2>5. t.who = {Owner(r)}
    BY <2>3, <2>4
  <2> QED BY <2>1, <2>3, <2>5 DEF ForAReason
<1>35. ASSUME NEW t \in tasks, findConvo(t) PROVE  Goal
  BY <1>35, FindConvoSets
<1>36. ASSUME NEW t \in tasks, Finish(t) PROVE  Goal
  BY <1>36, FinishSets
<1> QED
  BY <1>1, <1>2, <1>3, <1>5, <1>6, <1>7, <1>8, <1>9, <1>10, <1>11, <1>12, <1>13, <1>14, <1>15, <1>16, <1>17, <1>18, <1>19, <1>20, <1>21, <1>22, <1>23, <1>24, <1>25, <1>26, <1>27, <1>28, <1>29, <1>30, <1>31, <1>32, <1>33, <1>34, <1>35, <1>36 DEF Next, Step

(* The operations whose event is in the log and not yet trimmed for.  Let   *)
(* some of those that trim have done so: the log is then within its limit   *)
(* plus the others, or one of those has yet to delete what makes it so.     *)
Untrimmed == {t \in tasks : t.at \in {"logged", "trim"}}
Trims == {t \in tasks : t.at = "trim"}
Within(log, rest) == Cardinality(log) <= LogLimit + Cardinality(rest)
LogWithin ==
    \A T \in SUBSET Trims :
        \/ Within(disk.log, Untrimmed \ T)
        \/ \E t \in T : Within(disk.log \ t.ints, Untrimmed \ T)

(* Less of a log is within the same limit, and one more within one more.    *)
LEMMA WithinLess ==
    ASSUME NEW L, IsFiniteSet(L), NEW M \in SUBSET L, NEW R, IsFiniteSet(R), LogLimit \in Nat,
           Within(L, R)
    PROVE  Within(M, R)
<1>1. /\ IsFiniteSet(M) /\ Cardinality(M) <= Cardinality(L)
      /\ Cardinality(L) \in Nat /\ Cardinality(R) \in Nat
  BY FS_Subset, FS_CardinalityType
<1>2. Cardinality(M) \in Nat
  BY <1>1, FS_CardinalityType
<1> QED BY <1>1, <1>2 DEF Within

(* One more in the log is within the limit of one more.                     *)
LEMMA WithinMore ==
    ASSUME NEW L, IsFiniteSet(L), NEW n, NEW R, IsFiniteSet(R), NEW u, u \notin R,
           LogLimit \in Nat, Within(L, R)
    PROVE  Within(L \cup {n}, R \cup {u})
<1>1. /\ Cardinality(L \cup {n}) = (IF n \in L THEN Cardinality(L) ELSE Cardinality(L) + 1)
      /\ Cardinality(R \cup {u}) = Cardinality(R) + 1
      /\ Cardinality(L) \in Nat /\ Cardinality(R) \in Nat
  BY FS_AddElement, FS_CardinalityType
<1> QED BY <1>1 DEF Within

(* One operation in the place of another leaves as many.                    *)
LEMMA SameMany ==
    ASSUME NEW R, IsFiniteSet(R), NEW t \in R, NEW u, u \notin R \ {t}
    PROVE  Cardinality((R \ {t}) \cup {u}) = Cardinality(R)
<1>1. /\ IsFiniteSet(R \ {t}) /\ Cardinality(R \ {t}) = Cardinality(R) - 1
      /\ Cardinality(R) \in Nat
  BY FS_RemoveElement, FS_CardinalityType
<1>2. Cardinality((R \ {t}) \cup {u}) = Cardinality(R \ {t}) + 1
  BY <1>1, FS_AddElement
<1> QED BY <1>1, <1>2

(* The operations that are counted are finitely many.                       *)
LEMMA UntrimmedFinite ==
    ASSUME TasksTyped
    PROVE  IsFiniteSet(Untrimmed) /\ \A T : IsFiniteSet(Untrimmed \ T)
<1>1. IsFiniteSet(Untrimmed)
  BY FS_Subset DEF Untrimmed, TasksTyped
<1>2. ASSUME NEW T PROVE IsFiniteSet(Untrimmed \ T)
  BY <1>1, FS_Subset
<1> QED BY <1>1, <1>2

(* Where the log and the operations counted stay, so does the bound.        *)
LEMMA WithinStays ==
    ASSUME LogWithin, disk'.log = disk.log, Untrimmed' = Untrimmed, Trims' = Trims
    PROVE  LogWithin'
<1>1. ASSUME NEW T \in SUBSET Trims'
      PROVE  \/ Within(disk'.log, Untrimmed' \ T)
             \/ \E t \in T : Within(disk'.log \ t.ints, Untrimmed' \ T)
  <2>1. T \in SUBSET Trims
    BY <1>1
  <2>2. Within(disk.log, Untrimmed \ T) \/ \E t \in T : Within(disk.log \ t.ints, Untrimmed \ T)
    BY <2>1 DEF LogWithin
  <2> QED BY <2>2
<1> QED BY <1>1 DEF LogWithin, Within

(* An operation whose event is logged ends or goes on to load: a task.      *)
LEMMA LogOverTyped ==
    ASSUME StoredTyped, TasksTyped, NEW t \in tasks, LogOver(t)
    PROVE  TasksTyped'
<1>1. /\ "load" \in Place /\ "set" \in Place /\ t.keys \in SUBSET Record /\ t.got \in SUBSET Record
      /\ t.number \in Nat /\ {} \in SUBSET Nat
  BY DEF TasksTyped, TaskType, Place
<1>2. Turns(t, "load", t.keys, t.got, t.number, {}) => TasksTyped'
  BY <1>1, TasksTurn
<1>3. Turns(t, "set", t.keys, t.got, t.number, {}) => TasksTyped'
  BY <1>1, TasksTurn
<1> QED BY <1>2, <1>3, Tasking DEF LogOver

(* The operations that are to trim the log stay, but for those that throw   *)
(* or are cut off, and those that trim it.                                  *)
LEMMA TrimmersStay ==
    ASSUME StoredTyped, TasksTyped, AllStaged, [Next]_vars
    PROVE  \/ \A x \in tasks : x.at \in {"logged", "trim"} => x \in tasks'
           \/ "thrown" \in amiss' \/ "cut" \in amiss'
           \/ \E t \in tasks : putEvent(t) \/ ListLog(t) \/ TrimLog(t) \/ deleteDatabase(t)
<1> DEFINE Goal ==
           \/ \A x \in tasks : x.at \in {"logged", "trim"} => x \in tasks'
           \/ "thrown" \in amiss' \/ "cut" \in amiss'
           \/ \E t \in tasks : putEvent(t) \/ ListLog(t) \/ TrimLog(t) \/ deleteDatabase(t)
<1>1. CASE UNCHANGED vars
  BY <1>1 DEF vars
<1>2. ASSUME NEW m \in Message, onSecure(m) \/ onIncoming(m) PROVE  Goal
  BY <1>2, MessageSets
<1>3. ASSUME NEW c \in Contact, deleteContact(c) \/ clearConversation(c) PROVE  Goal
  <2>1. \/ Begins("delete", "contact", mem.records, made.ops, {}, {c})
        \/ Begins("clear", "convo", mem.records, made.ops, {}, {c})
    BY <1>3, DeleteSets
  <2> QED BY <2>1 DEF Begins
<1>5. ASSUME NEW r \in pending, Lands(r) PROVE  Goal
  BY <1>5, LandsSets
<1>6. ASSUME NEW f \in files, inAppImport(f) PROVE  Goal
  BY <1>6, ImportSets DEF Begins
<1>7. CASE exportBackup
  BY <1>7, ExportSets DEF Begins
<1>8. CASE appendSecurityEvent
  BY <1>8, AppendSets DEF Begins
<1>9. CASE OpenChat
  BY <1>9, OpenSets DEF Asks
<1>10. CASE CloseChat
  BY <1>10, CloseSets
<1>11. CASE lockVault
  BY <1>11, LockSets DEF Begins
<1>12. CASE unlockVault
  BY <1>12, UnlockSets DEF Begins
<1>13. CASE Reload
  <2>1. CASE \E t \in tasks : t.op # "open"
    BY <1>13, <2>1, ReloadSets
  <2>2. CASE \A t \in tasks : t.op = "open"
    BY <2>2 DEF AllStaged, Staged
  <2> QED BY <2>1, <2>2
<1>14. ASSUME NEW t \in tasks, putEvent(t) PROVE  Goal
  BY <1>14
<1>15. ASSUME NEW t \in tasks, ListLog(t) PROVE  Goal
  BY <1>15
<1>16. ASSUME NEW t \in tasks, TrimLog(t) PROVE  Goal
  BY <1>16
<1>17. ASSUME NEW t \in tasks, ListKeys(t) PROVE  Goal
  <2>1. t.at \in Stores /\ tasks \ {t} \subseteq tasks'
    BY <1>17, ListKeysSets DEF Turns
  <2> QED BY <2>1 DEF Stores
<1>18. ASSUME NEW t \in tasks, createBackupFile(t) PROVE  Goal
  <2>1. t.at = "seal" /\ tasks \ {t} \subseteq tasks'
    BY <1>18, SealSets DEF Turns
  <2> QED BY <2>1
<1>19. ASSUME NEW t \in tasks, openBackupFile(t) PROVE  Goal
  <2>1. t.at = "open" /\ tasks \ {t} \subseteq tasks'
    BY <1>19, OpenFileSets DEF Turns, Drop
  <2> QED BY <2>1
<1>20. ASSUME NEW t \in tasks, dropStorage(t) PROVE  Goal
  <2>1. t.at = "null" /\ tasks \ {t} \subseteq tasks'
    BY <1>20, DropStorageSets DEF Turns
  <2> QED BY <2>1
<1>21. ASSUME NEW t \in tasks, deleteDatabase(t) PROVE  Goal
  BY <1>21
<1>22. ASSUME NEW t \in tasks, initStorage(t) PROVE  Goal
  <2>1. t.at = "init" /\ tasks \ {t} \subseteq tasks'
    BY <1>22, InitSets DEF Turns
  <2> QED BY <2>1
<1>23. ASSUME NEW t \in tasks, RestoreFails(t) PROVE  Goal
  <2>1. t.at = "restore" /\ tasks \ {t} \subseteq tasks'
    BY <1>23, RestoreFailsSets DEF Drop
  <2> QED BY <2>1
<1>24. ASSUME NEW t \in tasks, Restored(t) PROVE  Goal
  <2>1. t.at = "restore" /\ tasks \ {t} \subseteq tasks'
    BY <1>24, RestoredSets DEF Turns
  <2> QED BY <2>1
<1>25. ASSUME NEW t \in tasks, deleteRecord(t) PROVE  Goal
  <2>1. t.at \in {"contact", "convo"}
    BY <1>25, DeleteRecordSets
  <2>2. \/ Turns(t, "identity", t.keys, t.got, t.number, t.ints)
        \/ Turns(t, "list", t.keys, t.got, t.number, t.ints)
    BY <1>25, DeleteRecordSets
  <2>3. tasks \ {t} \subseteq tasks'
    BY <2>2 DEF Turns
  <2> QED BY <2>1, <2>3
<1>26. ASSUME NEW t \in tasks, listMessageKeys(t) PROVE  Goal
  <2>1. t.at = "list" /\ tasks \ {t} \subseteq tasks'
    BY <1>26, DoomSets DEF Turns
  <2> QED BY <2>1
<1>27. ASSUME NEW t \in tasks, Deleted(t) PROVE  Goal
  <2>1. t.at = "doomed" /\ tasks \ {t} \subseteq tasks'
    BY <1>27, DeletedSets DEF Turns
  <2> QED BY <2>1
<1>28. ASSUME NEW t \in tasks, getAttachmentBlob(t) PROVE  Goal
  <2>1. t.at = "read" /\ tasks \ {t} \subseteq tasks'
    BY <1>28, BlobSets DEF Turns, Drop
  <2> QED BY <2>1
<1>29. ASSUME NEW t \in tasks, Decrypted(t) PROVE  Goal
  <2>1. t.at = "decrypt" /\ tasks \ {t} \subseteq tasks'
    BY <1>29, DecryptedSets DEF Drop
  <2> QED BY <2>1
<1>30. ASSUME NEW t \in tasks, loadAllData(t) PROVE  Goal
  <2>1. t.at = "load" /\ tasks \ {t} \subseteq tasks'
    BY <1>30, LoadSets DEF Drop, Asks
  <2> QED BY <2>1
<1>31. ASSUME NEW t \in tasks, Throws(t) PROVE  Goal
  BY <1>31, ThrowsSets
<1>32. ASSUME NEW t \in tasks, NEW r \in t.keys, GetRecord(t, r) PROVE  Goal
  <2>1. t.at = "get" /\ tasks \ {t} \subseteq tasks'
    BY <1>32, GetSets DEF Turns
  <2> QED BY <2>1
<1>33. ASSUME NEW t \in tasks, NEW r \in t.keys, Restore(t, r) PROVE  Goal
  <2>1. t.at = "restore" /\ tasks \ {t} \subseteq tasks'
    BY <1>33, RestoreSets DEF Turns
  <2> QED BY <2>1
<1>34. ASSUME NEW t \in tasks, NEW r \in t.keys, deleteMessage(t, r) PROVE  Goal
  <2>1. t.at = "doomed" /\ tasks \ {t} \subseteq tasks'
    BY <1>34, DeleteMessageSets DEF Turns
  <2> QED BY <2>1
<1>35. ASSUME NEW t \in tasks, findConvo(t) PROVE  Goal
  <2>1. t.at = "identity" /\ (Turns(t, "convo", t.keys, t.got, t.number, t.ints) \/ Drop(t))
    BY <1>35, FindConvoSets
  <2> QED BY <2>1 DEF Turns, Drop
<1>36. ASSUME NEW t \in tasks, Finish(t) PROVE  Goal
  BY <1>36, FinishSets DEF Drop
<1> QED
  BY <1>1, <1>2, <1>3, <1>5, <1>6, <1>7, <1>8, <1>9, <1>10, <1>11, <1>12, <1>13, <1>14, <1>15, <1>16, <1>17, <1>18, <1>19, <1>20, <1>21, <1>22, <1>23, <1>24, <1>25, <1>26, <1>27, <1>28, <1>29, <1>30, <1>31, <1>32, <1>33, <1>34, <1>35, <1>36 DEF Next, Step

(* The bound, with what a step does to the operations counted.              *)
LogBound == "cut" \notin amiss /\ "thrown" \notin amiss => LogWithin

(* An event is put into the log by one more to trim for.                    *)
LEMMA WithinPut ==
    ASSUME StoredTyped, TasksTyped, AllStaged, LogKept, LogWithin, NEW t \in tasks, putEvent(t)
    PROVE  LogWithin'
<1>1. /\ t.at = "log" /\ disk'.log = disk.log \cup {t.number}
      /\ Turns(t, "logged", t.keys, t.got, t.number, t.ints)
  BY PutSets DEF DiskIs
<1>2. PICK u : u.at = "logged" /\ u.number = t.number /\ tasks' = (tasks \ {t}) \cup {u}
  BY <1>1 DEF Turns
<1>3. u \notin Untrimmed
  BY <1>1, <1>2 DEF LogKept, Logging, Untrimmed
<1>4. Untrimmed' = Untrimmed \cup {u} /\ Trims' = Trims /\ u \notin Trims
  BY <1>1, <1>2 DEF Untrimmed, Trims
<1>5. IsFiniteSet(disk.log) /\ LogLimit \in Nat
  BY LogIsFinite DEF Typed
<1>6. ASSUME NEW T \in SUBSET Trims'
      PROVE  \/ Within(disk'.log, Untrimmed' \ T)
             \/ \E x \in T : Within(disk'.log \ x.ints, Untrimmed' \ T)
  <2> DEFINE R == Untrimmed \ T
  <2>1. T \in SUBSET Trims /\ Untrimmed' \ T = R \cup {u} /\ u \notin R /\ IsFiniteSet(R)
    BY <1>3, <1>4, <1>6, UntrimmedFinite
  <2>2. Within(disk.log, R) \/ \E x \in T : Within(disk.log \ x.ints, R)
    BY <2>1 DEF LogWithin
  <2> HIDE DEF R
  <2>3. CASE Within(disk.log, R)
    <3>1. Within(disk.log \cup {t.number}, R \cup {u})
      BY <1>5, <2>1, <2>3, WithinMore
    <3> QED BY <1>1, <2>1, <3>1
  <2>4. ASSUME NEW x \in T, Within(disk.log \ x.ints, R)
        PROVE  Within(disk'.log \ x.ints, R \cup {u})
    <3>1. IsFiniteSet(disk.log \ x.ints)
      BY <1>5, FS_Subset
    <3>2. Within((disk.log \ x.ints) \cup {t.number}, R \cup {u})
      BY <1>5, <2>1, <2>4, <3>1, WithinMore
    <3>3. /\ IsFiniteSet((disk.log \ x.ints) \cup {t.number}) /\ IsFiniteSet(R \cup {u})
          /\ disk'.log \ x.ints \in SUBSET ((disk.log \ x.ints) \cup {t.number})
      BY <1>1, <2>1, <3>1, FS_AddElement
    <3> QED BY <1>5, <3>2, <3>3, WithinLess
  <2> QED BY <2>1, <2>2, <2>3, <2>4
<1> QED BY <1>6 DEF LogWithin, Within

(* The log is listed: it is within its limit without the operation, or will *)
(* be once that has trimmed.                                                *)
LEMMA WithinListed ==
    ASSUME StoredTyped, TasksTyped, AllStaged, LogKept, LogWithin, NEW t \in tasks, ListLog(t)
    PROVE  LogWithin'
<1>1. /\ t.at = "logged" /\ disk' = disk
      /\ \/ Surplus(disk.log) = {} /\ LogOver(t)
         \/ Turns(t, "trim", t.keys, t.got, t.number, Surplus(disk.log))
  BY ListLogSets
<1>2. /\ IsFiniteSet(disk.log) /\ disk.log \in SUBSET Nat /\ LogLimit \in Nat
      /\ \A T : IsFiniteSet(Untrimmed \ T)
  BY LogIsFinite, UntrimmedFinite DEF Typed
<1>3. \A R : IsFiniteSet(R) => Cardinality(R) \in Nat
  BY FS_CardinalityType
<1>4. Cardinality(disk.log) \in Nat /\ Cardinality(disk.log \ Surplus(disk.log)) \in Nat
  BY <1>2, <1>3, FS_Subset
<1>5. CASE Surplus(disk.log) = {} /\ LogOver(t)
  <2>1. Cardinality(disk.log) <= LogLimit
    BY <1>2, <1>5, SurplusIs
  <2>2. TasksTyped'
    BY <1>5, LogOverTyped
  <2>3. ASSUME NEW T \in SUBSET Trims' PROVE Within(disk'.log, Untrimmed' \ T)
    <3>1. IsFiniteSet(Untrimmed' \ T)
      <4>1. IsFiniteSet(Untrimmed')
        BY <2>2, FS_Subset DEF TasksTyped, Untrimmed
      <4> QED BY <4>1, FS_Subset
    <3>2. Cardinality(Untrimmed' \ T) \in Nat
      BY <1>3, <3>1
    <3>3. Cardinality(disk'.log) <= LogLimit /\ Cardinality(disk'.log) \in Nat
      BY <1>1, <1>4, <2>1
    <3> QED BY <1>2, <3>2, <3>3 DEF Within
  <2> QED BY <2>3 DEF LogWithin, Within
<1>6. CASE Turns(t, "trim", t.keys, t.got, t.number, Surplus(disk.log))
  <2>1. PICK u : /\ tasks' = (tasks \ {t}) \cup {u}
                /\ u.at = "trim" /\ u.number = t.number /\ u.ints = Surplus(disk.log)
    BY <1>6 DEF Turns
  <2>2. u \notin tasks
    BY <1>1, <2>1 DEF LogKept, Logging
  <2>3. /\ Untrimmed' = (Untrimmed \ {t}) \cup {u} /\ Trims' = Trims \cup {u}
        /\ t \in Untrimmed /\ t \notin Trims /\ u \notin Untrimmed
    BY <1>1, <2>1, <2>2 DEF Untrimmed, Trims
  <2>4. ASSUME NEW T \in SUBSET Trims', u \notin T
        PROVE  \/ Within(disk'.log, Untrimmed' \ T)
               \/ \E x \in T : Within(disk'.log \ x.ints, Untrimmed' \ T)
    <3> DEFINE R == Untrimmed \ T
    <3>1. T \in SUBSET Trims /\ Untrimmed' \ T = (R \ {t}) \cup {u} /\ t \in R /\ u \notin R
      BY <2>3, <2>4
    <3>2. Within(disk.log, R) \/ \E x \in T : Within(disk.log \ x.ints, R)
      BY <3>1 DEF LogWithin
    <3>3. IsFiniteSet(R)
      BY <1>2
    <3> HIDE DEF R
    <3>4. Cardinality((R \ {t}) \cup {u}) = Cardinality(R)
      BY <3>1, <3>3, SameMany
    <3> QED BY <1>1, <3>1, <3>2, <3>4 DEF Within
  <2>5. ASSUME NEW T \in SUBSET Trims', u \in T
        PROVE  Within(disk'.log \ u.ints, Untrimmed' \ T)
    <3>1. Untrimmed' \ T = Untrimmed \ (T \cup {t})
      BY <2>3, <2>5
    <3>2. Cardinality(Untrimmed' \ T) \in Nat
      BY <1>2, <1>3, <3>1
    <3>3. Cardinality(disk.log \ Surplus(disk.log)) <= LogLimit
      BY <1>2, SurplusIs
    <3> QED BY <1>1, <1>2, <1>4, <2>1, <3>2, <3>3 DEF Within
  <2> QED BY <2>4, <2>5 DEF LogWithin, Within
<1> QED BY <1>1, <1>5, <1>6

(* An event is deleted, the last of those of the operation or not.          *)
LEMMA WithinTrimmed ==
    ASSUME StoredTyped, TasksTyped, AllStaged, LogKept, LogWithin, NEW t \in tasks, TrimLog(t)
    PROVE  LogWithin'
<1>1. PICK d \in t.ints :
        /\ disk'.log = disk.log \ {d}
        /\ \/ t.ints = {d} /\ LogOver(t)
           \/ t.ints # {d} /\ Turns(t, "trim", t.keys, t.got, t.number, t.ints \ {d})
  BY TrimSets DEF DiskIs
<1>2. /\ t.at = "trim" /\ IsFiniteSet(disk.log) /\ LogLimit \in Nat
      /\ \A T : IsFiniteSet(Untrimmed \ T)
  BY TrimSets, LogIsFinite, UntrimmedFinite DEF Typed
<1>3. \A S : IsFiniteSet(disk.log \ S) /\ disk'.log \ S \in SUBSET (disk.log \ S)
             /\ disk'.log \in SUBSET disk.log
  BY <1>1, <1>2, FS_Subset
<1>4. CASE t.ints = {d} /\ LogOver(t)
  <2>1. Untrimmed' = Untrimmed \ {t} /\ Trims' = Trims \ {t} /\ t \in Trims
    BY <1>2, <1>4 DEF LogOver, Turns, Drop, Untrimmed, Trims
  <2>2. ASSUME NEW T \in SUBSET Trims'
        PROVE  \/ Within(disk'.log, Untrimmed' \ T)
               \/ \E x \in T : Within(disk'.log \ x.ints, Untrimmed' \ T)
    <3> DEFINE R == Untrimmed \ (T \cup {t})
    <3>1. T \cup {t} \in SUBSET Trims /\ Untrimmed' \ T = R /\ IsFiniteSet(R)
      BY <1>2, <2>1, <2>2
    <3>2. Within(disk.log, R) \/ \E x \in T \cup {t} : Within(disk.log \ x.ints, R)
      BY <3>1 DEF LogWithin
    <3> HIDE DEF R
    <3>3. CASE Within(disk.log, R)
      BY <1>2, <1>3, <3>1, <3>3, WithinLess
    <3>4. CASE Within(disk.log \ t.ints, R)
      BY <1>1, <1>4, <3>1, <3>4
    <3>5. ASSUME NEW x \in T, Within(disk.log \ x.ints, R)
          PROVE  Within(disk'.log \ x.ints, R)
      BY <1>2, <1>3, <3>1, <3>5, WithinLess
    <3> QED BY <3>1, <3>2, <3>3, <3>4, <3>5
  <2> QED BY <2>2 DEF LogWithin, Within
<1>5. CASE t.ints # {d} /\ Turns(t, "trim", t.keys, t.got, t.number, t.ints \ {d})
  <2>1. PICK u : /\ tasks' = (tasks \ {t}) \cup {u}
                /\ u.at = "trim" /\ u.number = t.number /\ u.ints = t.ints \ {d}
    BY <1>5 DEF Turns
  <2>2. \A x \in tasks : Logging(x) /\ x.number = t.number => x = t
    BY <1>2 DEF LogKept, Logging
  <2>3. u # t
    BY <1>1, <2>1
  <2>4. u \notin tasks
    BY <2>1, <2>2, <2>3 DEF Logging
  <2>5. /\ Untrimmed' = (Untrimmed \ {t}) \cup {u} /\ Trims' = (Trims \ {t}) \cup {u}
        /\ t \in Untrimmed /\ t \in Trims /\ u \notin Untrimmed /\ u \notin Trims
    BY <1>2, <2>1, <2>4 DEF Untrimmed, Trims
  <2>6. ASSUME NEW T \in SUBSET Trims', u \notin T
        PROVE  \/ Within(disk'.log, Untrimmed' \ T)
               \/ \E x \in T : Within(disk'.log \ x.ints, Untrimmed' \ T)
    <3> DEFINE R == Untrimmed \ T
    <3>1. T \in SUBSET Trims /\ Untrimmed' \ T = (R \ {t}) \cup {u} /\ t \in R /\ u \notin R
      BY <2>5, <2>6
    <3>2. Within(disk.log, R) \/ \E x \in T : Within(disk.log \ x.ints, R)
      BY <3>1 DEF LogWithin
    <3>3. IsFiniteSet(R)
      BY <1>2
    <3> HIDE DEF R
    <3>4. Cardinality((R \ {t}) \cup {u}) = Cardinality(R)
      BY <3>1, <3>3, SameMany
    <3>5. CASE Within(disk.log, R)
      <4>1. Within(disk'.log, R)
        BY <1>2, <1>3, <3>3, <3>5, WithinLess
      <4> QED BY <3>1, <3>4, <4>1 DEF Within
    <3>6. ASSUME NEW x \in T, Within(disk.log \ x.ints, R)
          PROVE  Within(disk'.log \ x.ints, Untrimmed' \ T)
      <4>1. Within(disk'.log \ x.ints, R)
        BY <1>2, <1>3, <3>3, <3>6, WithinLess
      <4> QED BY <3>1, <3>4, <4>1 DEF Within
    <3> QED BY <3>2, <3>5, <3>6
  <2>7. ASSUME NEW T \in SUBSET Trims', u \in T
        PROVE  \/ Within(disk'.log, Untrimmed' \ T)
               \/ \E x \in T : Within(disk'.log \ x.ints, Untrimmed' \ T)
    <3> DEFINE U == (T \ {u}) \cup {t}
               R == Untrimmed \ U
    <3>1. U \in SUBSET Trims /\ Untrimmed' \ T = R /\ IsFiniteSet(R)
      BY <1>2, <2>5, <2>7
    <3>2. Within(disk.log, R) \/ \E x \in U : Within(disk.log \ x.ints, R)
      BY <3>1 DEF LogWithin
    <3> HIDE DEF R
    <3>3. CASE Within(disk.log, R)
      BY <1>2, <1>3, <3>1, <3>3, WithinLess
    <3>4. CASE Within(disk.log \ t.ints, R)
      <4>1. disk'.log \ u.ints = disk.log \ t.ints
        BY <1>1, <2>1
      <4> QED BY <2>7, <3>1, <3>4, <4>1
    <3>5. ASSUME NEW x \in T, Within(disk.log \ x.ints, R)
          PROVE  Within(disk'.log \ x.ints, R)
      BY <1>2, <1>3, <3>1, <3>5, WithinLess
    <3> QED BY <3>1, <3>2, <3>3, <3>4, <3>5
  <2> QED BY <2>6, <2>7 DEF LogWithin, Within
<1> QED BY <1>1, <1>4, <1>5

(* A wiped log is within any limit.                                         *)
LEMMA WithinWiped ==
    ASSUME StoredTyped, TasksTyped, TasksTyped', NEW t \in tasks, deleteDatabase(t)
    PROVE  LogWithin'
<1>1. disk' = [records |-> {}, blobs |-> {}, log |-> {}, vault |-> FALSE]
  BY WipeSets
<1>2. disk'.log = {} /\ Cardinality({}) = 0 /\ LogLimit \in Nat
  BY <1>1, FS_EmptySet, BackupsAssumption
<1>3. ASSUME NEW T \in SUBSET Trims' PROVE Within(disk'.log, Untrimmed' \ T)
  <2>1. IsFiniteSet(Untrimmed')
    BY FS_Subset DEF TasksTyped, Untrimmed
  <2>2. Cardinality(Untrimmed' \ T) \in Nat
    BY <2>1, FS_Subset, FS_CardinalityType
  <2>3. Cardinality(disk'.log) = 0
    BY <1>2
  <2> QED BY <1>2, <2>2, <2>3 DEF Within
<1> QED BY <1>3 DEF LogWithin, Within

(* Every step keeps the bound.                                              *)
LEMMA LogBoundKept ==
    ASSUME StoredTyped, TasksTyped, TasksTyped', AllStaged, LogKept, LogBound,
           amiss \subseteq amiss', [Next]_vars
    PROVE  LogBound'
<1> SUFFICES ASSUME "cut" \notin amiss', "thrown" \notin amiss' PROVE LogWithin'
  BY DEF LogBound
<1>1. LogWithin
  BY DEF LogBound
<1>2. CASE \E t \in tasks : putEvent(t) \/ ListLog(t) \/ TrimLog(t) \/ deleteDatabase(t)
  BY <1>1, <1>2, WithinPut, WithinListed, WithinTrimmed, WithinWiped
<1>3. CASE /\ LogStays
           /\ \A x \in tasks : x.at \in {"logged", "trim"} => x \in tasks'
  <2>1. \A x \in tasks' : x.at \in {"logged", "trim"} => x \in tasks
    BY <1>3 DEF LogStays, Logging
  <2>2. Untrimmed' = Untrimmed /\ Trims' = Trims
    BY <1>3, <2>1 DEF Untrimmed, Trims
  <2> QED BY <1>1, <1>3, <2>2, WithinStays DEF LogStays
<1> QED BY <1>2, <1>3, TrimmersStay, LogStaysOrChanges DEF LogChanges

(* What it says of the log's length.                                        *)
LEMMA LogIsBounded ==
    ASSUME LogBound
    PROVE  LogBounded
<1> SUFFICES ASSUME Only(Ways \ {"cut", "thrown"})
             PROVE  Cardinality(disk.log) <= LogLimit + Cardinality(Untrimmed)
  BY DEF LogBounded, Untrimmed
<1>1. LogWithin
  BY DEF LogBound, Only
<1>2. Within(disk.log, Untrimmed \ {})
  BY <1>1 DEF LogWithin
<1>3. Untrimmed \ {} = Untrimmed
  OBVIOUS
<1> QED BY <1>2, <1>3 DEF Within

(* An operation that has yet to log what it did: an export, an import or a  *)
(* deletion.                                                                *)
Due(t) ==
    t.op \in {"export", "import", "delete", "clear"} /\ ~Logging(t) /\ t.at \notin {"load", "set"}
Dues == {t \in tasks : Due(t)}

(* Of the operations made, enough are left for the events that are due.     *)
Budget == made.ops <= MaxOps /\ made.events + Cardinality(Dues) <= LogLimit + made.ops

(* What a step does to the operations due, and what it makes.               *)
DuesStay == \A x \in tasks' : Due(x) => x \in tasks
DueTurns == \E t \in tasks : Due(t) /\ \E u : tasks' \subseteq (tasks \ {t}) \cup {u}
DueStarts == \E u : tasks' \subseteq tasks \cup {u}
DueLogs == \E t \in tasks : Due(t) /\ \A x \in tasks' : Due(x) => x \in tasks /\ x # t
Spent(events, ops) ==
    /\ made'.events = made.events + events /\ made'.ops = made.ops + ops
    /\ ops = 1 => made.ops < MaxOps
Spending ==
    \/ (DuesStay \/ DueTurns) /\ (Spent(0, 0) \/ Spent(0, 1) \/ Spent(1, 1))
    \/ DueStarts /\ Spent(0, 1)
    \/ DueLogs /\ Spent(1, 0)

(* An operation started, or one event logged, pays for itself.              *)
LEMMA BudgetKept ==
    ASSUME StoredTyped, TasksTyped, TasksTyped', Budget, Spending
    PROVE  Budget'
<1>1. /\ made.events \in Nat /\ made.ops \in Nat /\ MaxOps \in Nat /\ LogLimit \in Nat
      /\ IsFiniteSet(Dues) /\ IsFiniteSet(Dues')
  BY BackupsAssumption, FS_Subset DEF StoredTyped, TasksTyped, Dues
<1>2. Cardinality(Dues) \in Nat /\ Cardinality(Dues') \in Nat
  BY <1>1, FS_CardinalityType
<1>4. ASSUME DuesStay \/ DueTurns PROVE Cardinality(Dues') <= Cardinality(Dues)
  <2>1. CASE DuesStay
    <3>1. Dues' \subseteq Dues
      BY <2>1 DEF DuesStay, Dues
    <3> QED BY <1>1, <3>1, FS_Subset
  <2>2. CASE DueTurns
    <3>1. PICK t \in tasks : Due(t) /\ \E u : tasks' \subseteq (tasks \ {t}) \cup {u}
      BY <2>2 DEF DueTurns
    <3>0. PICK u : tasks' \subseteq (tasks \ {t}) \cup {u}
      BY <3>1
    <3>2. t \in Dues /\ Dues' \subseteq (Dues \ {t}) \cup {u}
      BY <3>0, <3>1 DEF Dues
    <3>3. IsFiniteSet(Dues \ {t}) /\ Cardinality(Dues \ {t}) = Cardinality(Dues) - 1
      BY <1>1, <3>2, FS_RemoveElement
    <3>4. /\ IsFiniteSet((Dues \ {t}) \cup {u})
          /\ Cardinality((Dues \ {t}) \cup {u}) <= Cardinality(Dues)
      BY <1>2, <3>3, FS_AddElement
    <3>5. Cardinality(Dues') <= Cardinality((Dues \ {t}) \cup {u})
      BY <3>2, <3>4, FS_Subset
    <3>6. Cardinality((Dues \ {t}) \cup {u}) \in Nat
      BY <3>4, FS_CardinalityType
    <3> QED BY <1>2, <3>4, <3>5, <3>6
  <2> QED BY <1>4, <2>1, <2>2
<1>5. ASSUME DueStarts PROVE Cardinality(Dues') <= Cardinality(Dues) + 1
  <2>1. PICK u : tasks' \subseteq tasks \cup {u}
    BY <1>5 DEF DueStarts
  <2>2. Dues' \subseteq Dues \cup {u}
    BY <2>1 DEF Dues
  <2>3. IsFiniteSet(Dues \cup {u}) /\ Cardinality(Dues \cup {u}) <= Cardinality(Dues) + 1
    BY <1>1, <1>2, FS_AddElement
  <2>4. Cardinality(Dues') <= Cardinality(Dues \cup {u}) /\ Cardinality(Dues \cup {u}) \in Nat
    BY <2>2, <2>3, FS_Subset, FS_CardinalityType
  <2> QED BY <1>2, <2>3, <2>4
<1>6. ASSUME DueLogs PROVE Cardinality(Dues') <= Cardinality(Dues) - 1
  <2>1. PICK t \in tasks : Due(t) /\ \A x \in tasks' : Due(x) => x \in tasks /\ x # t
    BY <1>6 DEF DueLogs
  <2>2. t \in Dues /\ Dues' \subseteq Dues \ {t}
    BY <2>1 DEF Dues
  <2>3. IsFiniteSet(Dues \ {t}) /\ Cardinality(Dues \ {t}) = Cardinality(Dues) - 1
    BY <1>1, <2>2, FS_RemoveElement
  <2>4. Cardinality(Dues') <= Cardinality(Dues \ {t})
    BY <2>2, <2>3, FS_Subset
  <2> QED BY <2>3, <2>4
<1> DEFINE n == Cardinality(Dues)
           m == Cardinality(Dues')
<1>7. n \in Nat /\ m \in Nat /\ made.ops <= MaxOps /\ made.events + n <= LogLimit + made.ops
  BY <1>2 DEF Budget
<1>8. \/ m <= n /\ (Spent(0, 0) \/ Spent(0, 1) \/ Spent(1, 1))
      \/ m <= n + 1 /\ Spent(0, 1)
      \/ m <= n - 1 /\ Spent(1, 0)
  BY <1>4, <1>5, <1>6 DEF Spending
<1> HIDE DEF n, m
<1>9. made'.ops <= MaxOps /\ made'.events + m <= LogLimit + made'.ops
  BY <1>1, <1>7, <1>8 DEF Spent
<1> QED BY <1>9 DEF Budget, m

(* What each step spends.                                                   *)
LEMMA StepSpends ==
    ASSUME StoredTyped, TasksTyped, AllStaged, [Next]_vars
    PROVE  Spending
<1>0. /\ UNCHANGED made => Spent(0, 0)
      /\ \A ms : /\ MadeIs(ms, 0, 0) => Spent(0, 0)
                 /\ MadeIs(ms, 0, 1) => Spent(0, 1)
                 /\ MadeIs(ms, 1, 0) => Spent(1, 0)
                 /\ MadeIs(ms, 1, 1) => Spent(1, 1)
  <2>1. made.events + 0 = made.events /\ made.ops + 0 = made.ops
    BY DEF StoredTyped
  <2> QED BY <2>1 DEF Spent, MadeIs
<1>1. CASE UNCHANGED vars
  BY <1>0, <1>1 DEF vars, Spending, DuesStay
<1>2. ASSUME NEW m \in Message, onSecure(m) \/ onIncoming(m) PROVE  Spending
  <2>0. MadeIs(made.messages \cup {m}, 0, 0)
    BY <1>2, MessageSets
  <2>1. Spent(0, 0)
    BY <1>0, <2>0
  <2>2. DuesStay
    BY <1>2, MessageSets DEF DuesStay, Due, Logging
  <2> QED
    BY <2>1, <2>2 DEF Spending
<1>3. ASSUME NEW c \in Contact, deleteContact(c) \/ clearConversation(c) PROVE  Spending
  <2>0. MadeIs(made.messages, 0, 1)
    BY <1>3, DeleteSets
  <2>1. Spent(0, 1)
    BY <1>0, <2>0
  <2>2. \/ Begins("delete", "contact", mem.records, made.ops, {}, {c})
        \/ Begins("clear", "convo", mem.records, made.ops, {}, {c})
    BY <1>3, DeleteSets
  <2>3. DueStarts
    BY <2>2 DEF Begins, DueStarts
  <2> QED
    BY <2>1, <2>3 DEF Spending
<1>5. ASSUME NEW r \in pending, Lands(r) PROVE  Spending
  <2>0. UNCHANGED made
    BY <1>5, LandsSets
  <2>1. Spent(0, 0)
    BY <1>0, <2>0
  <2>2. DuesStay
    BY <1>5, LandsSets DEF DuesStay, Due, Logging
  <2> QED
    BY <2>1, <2>2 DEF Spending
<1>6. ASSUME NEW f \in files, inAppImport(f) PROVE  Spending
  <2>0. MadeIs(made.messages, 0, 1)
    BY <1>6, ImportSets
  <2>1. Spent(0, 1)
    BY <1>0, <2>0
  <2>2. DueStarts
    BY <1>6, ImportSets DEF Begins, DueStarts
  <2> QED
    BY <2>1, <2>2 DEF Spending
<1>7. CASE exportBackup
  <2>0. MadeIs(made.messages, 0, 1)
    BY <1>7, ExportSets
  <2>1. Spent(0, 1)
    BY <1>0, <2>0
  <2>2. DueStarts
    BY <1>7, ExportSets DEF Begins, DueStarts
  <2> QED
    BY <2>1, <2>2 DEF Spending
<1>8. CASE appendSecurityEvent
  <2>0. MadeIs(made.messages, 1, 1)
    BY <1>8, AppendSets
  <2>1. Spent(1, 1)
    BY <1>0, <2>0
  <2>2. DuesStay
    BY <1>8, AppendSets DEF DuesStay, Due, Logging, Begins
  <2> QED
    BY <2>1, <2>2 DEF Spending
<1>9. CASE OpenChat
  <2>0. MadeIs(made.messages, 0, 1)
    BY <1>9, OpenSets
  <2>1. Spent(0, 1)
    BY <1>0, <2>0
  <2>2. DuesStay
    BY <1>9, OpenSets DEF DuesStay, Due, Logging, Asks
  <2> QED
    BY <2>1, <2>2 DEF Spending
<1>10. CASE CloseChat
  <2>0. UNCHANGED made
    BY <1>10, CloseSets
  <2>1. Spent(0, 0)
    BY <1>0, <2>0
  <2>2. DuesStay
    BY <1>10, CloseSets DEF DuesStay, Due, Logging
  <2> QED
    BY <2>1, <2>2 DEF Spending
<1>11. CASE lockVault
  <2>0. MadeIs(made.messages, 1, 1)
    BY <1>11, LockSets
  <2>1. Spent(1, 1)
    BY <1>0, <2>0
  <2>2. DuesStay
    BY <1>11, LockSets DEF DuesStay, Due, Logging, Begins
  <2> QED
    BY <2>1, <2>2 DEF Spending
<1>12. CASE unlockVault
  <2>0. MadeIs(made.messages, 1, 1)
    BY <1>12, UnlockSets
  <2>1. Spent(1, 1)
    BY <1>0, <2>0
  <2>2. DuesStay
    BY <1>12, UnlockSets DEF DuesStay, Due, Logging, Begins
  <2> QED
    BY <2>1, <2>2 DEF Spending
<1>13. CASE Reload
  <2>0. MadeIs(made.messages, 0, 1)
    BY <1>13, ReloadSets
  <2>1. Spent(0, 1)
    BY <1>0, <2>0
  <2>2. DuesStay
    BY <1>13, ReloadSets DEF DuesStay, Due, Logging
  <2> QED
    BY <2>1, <2>2 DEF Spending
<1>14. ASSUME NEW t \in tasks, putEvent(t) PROVE  Spending
  <2>0. UNCHANGED made
    BY <1>14, PutSets
  <2>1. Spent(0, 0)
    BY <1>0, <2>0
  <2>2. DuesStay
    BY <1>14, PutSets DEF DuesStay, Due, Logging, Turns
  <2> QED
    BY <2>1, <2>2 DEF Spending
<1>15. ASSUME NEW t \in tasks, ListLog(t) PROVE  Spending
  <2>0. UNCHANGED made
    BY <1>15, ListLogSets
  <2>1. Spent(0, 0)
    BY <1>0, <2>0
  <2>2. DuesStay
    BY <1>15, ListLogSets DEF DuesStay, Due, Logging, LogOver, Turns, Drop
  <2> QED
    BY <2>1, <2>2 DEF Spending
<1>16. ASSUME NEW t \in tasks, TrimLog(t) PROVE  Spending
  <2>0. UNCHANGED made
    BY <1>16, TrimSets
  <2>1. Spent(0, 0)
    BY <1>0, <2>0
  <2>2. DuesStay
    BY <1>16, TrimSets DEF DuesStay, Due, Logging, LogOver, Turns, Drop
  <2> QED
    BY <2>1, <2>2 DEF Spending
<1>17. ASSUME NEW t \in tasks, ListKeys(t) PROVE  Spending
  <2>0. UNCHANGED made
    BY <1>17, ListKeysSets
  <2>1. Spent(0, 0)
    BY <1>0, <2>0
  <2>2. t.at \in Stores /\ t.op \in Operation /\ Staged(t)
    BY <1>17, ListKeysSets DEF TasksTyped, TaskType, AllStaged
  <2>3. Due(t)
    BY <2>2 DEF Staged, Logging, Operation, Due, Stores
  <2>4. \E u : tasks' \subseteq (tasks \ {t}) \cup {u}
    BY <1>17, ListKeysSets DEF Turns
  <2> QED
    BY <2>1, <2>3, <2>4 DEF Spending, DueTurns
<1>18. ASSUME NEW t \in tasks, createBackupFile(t) PROVE  Spending
  <2>0. MadeIs(made.messages, 1, 0)
    BY <1>18, SealSets
  <2>1. Spent(1, 0)
    BY <1>0, <2>0
  <2>2. t.at = "seal" /\ t.op \in Operation /\ Staged(t)
    BY <1>18, SealSets DEF TasksTyped, TaskType, AllStaged
  <2>3. Due(t)
    BY <2>2 DEF Staged, Logging, Operation, Due
  <2>4. PICK u : u.at = "log" /\ tasks' = (tasks \ {t}) \cup {u}
    BY <1>18, SealSets DEF Turns
  <2>5. \A x \in tasks' : Due(x) => x \in tasks /\ x # t
    BY <2>4 DEF Due, Logging
  <2> QED
    BY <2>1, <2>3, <2>5 DEF Spending, DueLogs
<1>19. ASSUME NEW t \in tasks, openBackupFile(t) PROVE  Spending
  <2>0. UNCHANGED made
    BY <1>19, OpenFileSets
  <2>1. Spent(0, 0)
    BY <1>0, <2>0
  <2>2. t.at = "open" /\ t.op \in Operation /\ Staged(t)
    BY <1>19, OpenFileSets DEF TasksTyped, TaskType, AllStaged
  <2>3. Due(t)
    BY <2>2 DEF Staged, Logging, Operation, Due
  <2>4. \E u : tasks' \subseteq (tasks \ {t}) \cup {u}
    BY <1>19, OpenFileSets DEF Turns, Drop
  <2> QED
    BY <2>1, <2>3, <2>4 DEF Spending, DueTurns
<1>20. ASSUME NEW t \in tasks, dropStorage(t) PROVE  Spending
  <2>0. UNCHANGED made
    BY <1>20, DropStorageSets
  <2>1. Spent(0, 0)
    BY <1>0, <2>0
  <2>2. t.at = "null" /\ t.op \in Operation /\ Staged(t)
    BY <1>20, DropStorageSets DEF TasksTyped, TaskType, AllStaged
  <2>3. Due(t)
    BY <2>2 DEF Staged, Logging, Operation, Due
  <2>4. \E u : tasks' \subseteq (tasks \ {t}) \cup {u}
    BY <1>20, DropStorageSets DEF Turns
  <2> QED
    BY <2>1, <2>3, <2>4 DEF Spending, DueTurns
<1>21. ASSUME NEW t \in tasks, deleteDatabase(t) PROVE  Spending
  <2>0. UNCHANGED made
    BY <1>21, WipeSets
  <2>1. Spent(0, 0)
    BY <1>0, <2>0
  <2>2. t.at = "wipe" /\ t.op \in Operation /\ Staged(t)
    BY <1>21, WipeSets DEF TasksTyped, TaskType, AllStaged
  <2>3. Due(t)
    BY <2>2 DEF Staged, Logging, Operation, Due
  <2>4. \E u : tasks' \subseteq (tasks \ {t}) \cup {u}
    BY <1>21, WipeSets DEF Turns
  <2> QED
    BY <2>1, <2>3, <2>4 DEF Spending, DueTurns
<1>22. ASSUME NEW t \in tasks, initStorage(t) PROVE  Spending
  <2>0. UNCHANGED made
    BY <1>22, InitSets
  <2>1. Spent(0, 0)
    BY <1>0, <2>0
  <2>2. t.at = "init" /\ t.op \in Operation /\ Staged(t)
    BY <1>22, InitSets DEF TasksTyped, TaskType, AllStaged
  <2>3. Due(t)
    BY <2>2 DEF Staged, Logging, Operation, Due
  <2>4. \E u : tasks' \subseteq (tasks \ {t}) \cup {u}
    BY <1>22, InitSets DEF Turns
  <2> QED
    BY <2>1, <2>3, <2>4 DEF Spending, DueTurns
<1>23. ASSUME NEW t \in tasks, RestoreFails(t) PROVE  Spending
  <2>0. UNCHANGED made
    BY <1>23, RestoreFailsSets
  <2>1. Spent(0, 0)
    BY <1>0, <2>0
  <2>2. DuesStay
    BY <1>23, RestoreFailsSets DEF DuesStay, Due, Logging, Drop
  <2> QED
    BY <2>1, <2>2 DEF Spending
<1>24. ASSUME NEW t \in tasks, Restored(t) PROVE  Spending
  <2>0. MadeIs(made.messages, 1, 0)
    BY <1>24, RestoredSets
  <2>1. Spent(1, 0)
    BY <1>0, <2>0
  <2>2. t.at = "restore" /\ t.op \in Operation /\ Staged(t)
    BY <1>24, RestoredSets DEF TasksTyped, TaskType, AllStaged
  <2>3. Due(t)
    BY <2>2 DEF Staged, Logging, Operation, Due
  <2>4. PICK u : u.at = "log" /\ tasks' = (tasks \ {t}) \cup {u}
    BY <1>24, RestoredSets DEF Turns
  <2>5. \A x \in tasks' : Due(x) => x \in tasks /\ x # t
    BY <2>4 DEF Due, Logging
  <2> QED
    BY <2>1, <2>3, <2>5 DEF Spending, DueLogs
<1>25. ASSUME NEW t \in tasks, deleteRecord(t) PROVE  Spending
  <2>0. UNCHANGED made
    BY <1>25, DeleteRecordSets
  <2>1. Spent(0, 0)
    BY <1>0, <2>0
  <2>2. t.at \in {"contact", "convo"} /\ t.op \in Operation /\ Staged(t)
    BY <1>25, DeleteRecordSets DEF TasksTyped, TaskType, AllStaged
  <2>3. Due(t)
    BY <2>2 DEF Staged, Logging, Operation, Due
  <2>4. \E u : tasks' \subseteq (tasks \ {t}) \cup {u}
    <3>1. \/ Turns(t, "identity", t.keys, t.got, t.number, t.ints)
          \/ Turns(t, "list", t.keys, t.got, t.number, t.ints)
      BY <1>25, DeleteRecordSets
    <3> QED BY <3>1 DEF Turns
  <2> QED
    BY <2>1, <2>3, <2>4 DEF Spending, DueTurns
<1>26. ASSUME NEW t \in tasks, listMessageKeys(t) PROVE  Spending
  <2>0. UNCHANGED made
    BY <1>26, DoomSets
  <2>1. Spent(0, 0)
    BY <1>0, <2>0
  <2>2. t.at = "list" /\ t.op \in Operation /\ Staged(t)
    BY <1>26, DoomSets DEF TasksTyped, TaskType, AllStaged
  <2>3. Due(t)
    BY <2>2 DEF Staged, Logging, Operation, Due
  <2>4. \E u : tasks' \subseteq (tasks \ {t}) \cup {u}
    BY <1>26, DoomSets DEF Turns
  <2> QED
    BY <2>1, <2>3, <2>4 DEF Spending, DueTurns
<1>27. ASSUME NEW t \in tasks, Deleted(t) PROVE  Spending
  <2>0. MadeIs(made.messages, 1, 0)
    BY <1>27, DeletedSets
  <2>1. Spent(1, 0)
    BY <1>0, <2>0
  <2>2. t.at = "doomed" /\ t.op \in Operation /\ Staged(t)
    BY <1>27, DeletedSets DEF TasksTyped, TaskType, AllStaged
  <2>3. Due(t)
    BY <2>2 DEF Staged, Logging, Operation, Due
  <2>4. PICK u : u.at = "log" /\ tasks' = (tasks \ {t}) \cup {u}
    BY <1>27, DeletedSets DEF Turns
  <2>5. \A x \in tasks' : Due(x) => x \in tasks /\ x # t
    BY <2>4 DEF Due, Logging
  <2> QED
    BY <2>1, <2>3, <2>5 DEF Spending, DueLogs
<1>28. ASSUME NEW t \in tasks, getAttachmentBlob(t) PROVE  Spending
  <2>0. UNCHANGED made
    BY <1>28, BlobSets
  <2>1. Spent(0, 0)
    BY <1>0, <2>0
  <2>2. t.at = "read" /\ t.op \in Operation /\ Staged(t)
    BY <1>28, BlobSets DEF TasksTyped, TaskType, AllStaged
  <2>3. t.op = "open"
    BY <2>2 DEF Staged, Logging, Operation
  <2>4. DuesStay
    BY <1>28, <2>3, BlobSets DEF Turns, Drop, DuesStay, Due
  <2> QED
    BY <2>1, <2>4 DEF Spending
<1>29. ASSUME NEW t \in tasks, Decrypted(t) PROVE  Spending
  <2>0. UNCHANGED made
    BY <1>29, DecryptedSets
  <2>1. Spent(0, 0)
    BY <1>0, <2>0
  <2>2. DuesStay
    BY <1>29, DecryptedSets DEF DuesStay, Due, Logging, Drop
  <2> QED
    BY <2>1, <2>2 DEF Spending
<1>30. ASSUME NEW t \in tasks, loadAllData(t) PROVE  Spending
  <2>0. UNCHANGED made
    BY <1>30, LoadSets
  <2>1. Spent(0, 0)
    BY <1>0, <2>0
  <2>2. DuesStay
    BY <1>30, LoadSets DEF DuesStay, Due, Logging, Drop, Asks
  <2> QED
    BY <2>1, <2>2 DEF Spending
<1>31. ASSUME NEW t \in tasks, Throws(t) PROVE  Spending
  <2>0. UNCHANGED made
    BY <1>31, ThrowsSets
  <2>1. Spent(0, 0)
    BY <1>0, <2>0
  <2>2. DuesStay
    BY <1>31, ThrowsSets DEF DuesStay, Due, Logging, Drop
  <2> QED
    BY <2>1, <2>2 DEF Spending
<1>32. ASSUME NEW t \in tasks, NEW r \in t.keys, GetRecord(t, r) PROVE  Spending
  <2>0. UNCHANGED made
    BY <1>32, GetSets
  <2>1. Spent(0, 0)
    BY <1>0, <2>0
  <2>2. t.at = "get" /\ t.op \in Operation /\ Staged(t)
    BY <1>32, GetSets DEF TasksTyped, TaskType, AllStaged
  <2>3. Due(t)
    BY <2>2 DEF Staged, Logging, Operation, Due
  <2>4. \E u : tasks' \subseteq (tasks \ {t}) \cup {u}
    <3>1. \A at, keys, got, number, ints : Turns(t, at, keys, got, number, ints)
            => \E u : tasks' \subseteq (tasks \ {t}) \cup {u}
      BY DEF Turns
    <3> QED BY <1>32, <3>1, GetSets
  <2> QED
    BY <2>1, <2>3, <2>4 DEF Spending, DueTurns
<1>33. ASSUME NEW t \in tasks, NEW r \in t.keys, Restore(t, r) PROVE  Spending
  <2>0. UNCHANGED made
    BY <1>33, RestoreSets
  <2>1. Spent(0, 0)
    BY <1>0, <2>0
  <2>2. t.at = "restore" /\ t.op \in Operation /\ Staged(t)
    BY <1>33, RestoreSets DEF TasksTyped, TaskType, AllStaged
  <2>3. Due(t)
    BY <2>2 DEF Staged, Logging, Operation, Due
  <2>4. \E u : tasks' \subseteq (tasks \ {t}) \cup {u}
    BY <1>33, RestoreSets DEF Turns
  <2> QED
    BY <2>1, <2>3, <2>4 DEF Spending, DueTurns
<1>34. ASSUME NEW t \in tasks, NEW r \in t.keys, deleteMessage(t, r) PROVE  Spending
  <2>0. UNCHANGED made
    BY <1>34, DeleteMessageSets
  <2>1. Spent(0, 0)
    BY <1>0, <2>0
  <2>2. t.at = "doomed" /\ t.op \in Operation /\ Staged(t)
    BY <1>34, DeleteMessageSets DEF TasksTyped, TaskType, AllStaged
  <2>3. Due(t)
    BY <2>2 DEF Staged, Logging, Operation, Due
  <2>4. \E u : tasks' \subseteq (tasks \ {t}) \cup {u}
    BY <1>34, DeleteMessageSets DEF Turns
  <2> QED
    BY <2>1, <2>3, <2>4 DEF Spending, DueTurns
<1>35. ASSUME NEW t \in tasks, findConvo(t) PROVE  Spending
  <2>0. UNCHANGED made
    BY <1>35, FindConvoSets
  <2>1. Spent(0, 0)
    BY <1>0, <2>0
  <2>2. t.at = "identity" /\ t.op \in Operation /\ Staged(t)
    BY <1>35, FindConvoSets DEF TasksTyped, TaskType, AllStaged
  <2>3. Due(t)
    BY <2>2 DEF Staged, Logging, Operation, Due
  <2>4. CASE Turns(t, "convo", t.keys, t.got, t.number, t.ints)
    BY <2>1, <2>3, <2>4 DEF Turns, Spending, DueTurns
  <2>5. CASE Drop(t)
    BY <2>1, <2>5 DEF DuesStay, Drop, Spending
  <2> QED
    BY <1>35, <2>4, <2>5, FindConvoSets
<1>36. ASSUME NEW t \in tasks, Finish(t) PROVE  Spending
  <2>0. UNCHANGED made
    BY <1>36, FinishSets
  <2>1. Spent(0, 0)
    BY <1>0, <2>0
  <2>2. DuesStay
    BY <1>36, FinishSets DEF DuesStay, Due, Logging, Drop
  <2> QED
    BY <2>1, <2>2 DEF Spending
<1> QED
  BY <1>1, <1>2, <1>3, <1>5, <1>6, <1>7, <1>8, <1>9, <1>10, <1>11, <1>12, <1>13, <1>14, <1>15, <1>16, <1>17, <1>18, <1>19, <1>20, <1>21, <1>22, <1>23, <1>24, <1>25, <1>26, <1>27, <1>28, <1>29, <1>30, <1>31, <1>32, <1>33, <1>34, <1>35, <1>36 DEF Next, Step

(* An export under way: what it has yet to list or read.                    *)
Exporting(t) == t.op = "export" /\ ~Logging(t)
From(place) ==
    CASE place = "contacts" -> Stores
      [] place = "conversations" -> {"conversations", "messages"}
      [] place = "messages" -> {"messages"}
      [] OTHER -> {}
Ahead(t, q) ==
    \/ t.at \in Stores /\ q[1] \in From(t.at)
    \/ t.at = "get" /\ \A k \in t.keys : q[1] \in From(After(k[1]))

(* Whatever was there all along is read, being read or ahead; and what was  *)
(* read was there at some time.                                             *)
Exported(t) ==
    /\ \A q \in during.always : q \in t.got \cup t.keys \/ Ahead(t, q)
    /\ t.at = "get" => t.keys # {} /\ \E s \in Stores : \A k \in t.keys : k[1] = s
    /\ t.at # "get" => t.keys = {}
    /\ t.got \subseteq during.ever
    /\ during.always \subseteq disk.records /\ disk.records \subseteq during.ever
ExportKept == \A t \in tasks : Exporting(t) => Exported(t)

(* How a step that is not the export's changes its history.                 *)
HistoryKeeps ==
    /\ during'.always \subseteq during.always /\ during.ever \subseteq during'.ever
    /\ during.always \subseteq disk.records => during'.always \subseteq disk'.records
    /\ disk.records \subseteq during.ever => disk'.records \subseteq during'.ever
ExportStays ==
    /\ \A u \in tasks' : Exporting(u) => u \in tasks
    /\ (\E u \in tasks' : Exporting(u)) => HistoryKeeps
ExportChanges ==
    \/ ExportStays \/ exportBackup
    \/ \E t \in tasks : ListKeys(t) \/ \E r \in t.keys : GetRecord(t, r)

(* Three actions go on with an export, all the others leave it alone.       *)
LEMMA ExportStaysOrChanges ==
    ASSUME StoredTyped, TasksTyped, AllStaged, OnlyOne, [Next]_vars
    PROVE  ExportChanges
<1>1. CASE UNCHANGED vars
  BY <1>1 DEF vars, HistoryKeeps, ExportStays, ExportChanges
<1>2. ASSUME NEW m \in Message, onSecure(m) \/ onIncoming(m) PROVE  ExportChanges
  <2>1. \A u \in tasks' : Exporting(u) => u \in tasks
    BY <1>2, MessageSets
  <2>2. HistoryKeeps
    BY <1>2, MessageSets DEF HistoryKeeps
  <2> QED
    BY <2>1, <2>2 DEF ExportStays, ExportChanges
<1>3. ASSUME NEW c \in Contact, deleteContact(c) \/ clearConversation(c) PROVE  ExportChanges
  <2>1. \A u \in tasks' : Exporting(u) => u \in tasks
    <3> SUFFICES ASSUME NEW u \in tasks', u \notin tasks, Exporting(u) PROVE FALSE
      OBVIOUS
    <3>0. \/ Begins("delete", "contact", mem.records, made.ops, {}, {c})
          \/ Begins("clear", "convo", mem.records, made.ops, {}, {c})
      BY <1>3, DeleteSets
    <3>1. u.op \in {"delete", "clear"}
      BY <3>0 DEF Begins
    <3> QED
      BY <3>1 DEF Exporting, Staged, Logging, Stores, Operation
  <2>2. HistoryKeeps
    BY <1>3, DeleteSets DEF HistoryKeeps
  <2> QED
    BY <2>1, <2>2 DEF ExportStays, ExportChanges
<1>5. ASSUME NEW r \in pending, Lands(r) PROVE  ExportChanges
  <2>1. \A u \in tasks' : Exporting(u) => u \in tasks
    BY <1>5, LandsSets
  <2>3. ASSUME NEW u \in tasks', Exporting(u) PROVE HistoryKeeps
    <3>1. Running("export")
      BY <2>1, <2>3 DEF Exporting, Running
    <3> QED BY <3>1, <1>5, LandsSets DEF HistoryKeeps, Remembers, DiskIs, DuringIs
  <2> QED
    BY <2>1, <2>3 DEF ExportStays, ExportChanges
<1>6. ASSUME NEW f \in files, inAppImport(f) PROVE  ExportChanges
  <2>1. \A u \in tasks' : Exporting(u) => u \in tasks
    <3> SUFFICES ASSUME NEW u \in tasks', u \notin tasks, Exporting(u) PROVE FALSE
      OBVIOUS
    <3>0. Begins("import", "open", f, 0, {}, {})
      BY <1>6, ImportSets
    <3>1. /\ u.op = "import" /\ u.at = "open" /\ u.keys = {} /\ u.got = f /\ u.number = 0
          /\ u.ints = {} /\ u.who = {}
      BY <3>0 DEF Begins
    <3> QED
      BY <3>1 DEF Exporting, Staged, Logging, Stores, Operation
  <2>2. HistoryKeeps
    BY <1>6, ImportSets DEF HistoryKeeps
  <2> QED
    BY <2>1, <2>2 DEF ExportStays, ExportChanges
<1>7. CASE exportBackup
  BY <1>7 DEF ExportChanges
<1>8. CASE appendSecurityEvent
  <2>1. \A u \in tasks' : Exporting(u) => u \in tasks
    <3> SUFFICES ASSUME NEW u \in tasks', u \notin tasks, Exporting(u) PROVE FALSE
      OBVIOUS
    <3>0. Begins("log", "log", {}, made.events + 1, {}, {})
      BY <1>8, AppendSets
    <3>1. /\ u.op = "log" /\ u.at = "log" /\ u.keys = {} /\ u.got = {} /\ u.number = made.events + 1
          /\ u.ints = {} /\ u.who = {}
      BY <3>0 DEF Begins
    <3> QED
      BY <3>1 DEF Exporting, Staged, Logging, Stores, Operation
  <2>2. HistoryKeeps
    BY <1>8, AppendSets DEF HistoryKeeps
  <2> QED
    BY <2>1, <2>2 DEF ExportStays, ExportChanges
<1>9. CASE OpenChat
  <2>1. \A u \in tasks' : Exporting(u) => u \in tasks
    <3> SUFFICES ASSUME NEW u \in tasks', u \notin tasks, Exporting(u) PROVE FALSE
      OBVIOUS
    <3>1. /\ u.op = "open" /\ u.at = "read" /\ u.keys = {} /\ u.got = {} /\ u.who = {}
          /\ u.number = chat.round + 1 /\ \E a \in Attachment : u.ints = {a}
      BY <1>9, OpenSets DEF Asks
    <3> QED
      BY <3>1 DEF Exporting, Staged, Logging, Stores, Operation
  <2>2. HistoryKeeps
    BY <1>9, OpenSets DEF HistoryKeeps
  <2> QED
    BY <2>1, <2>2 DEF ExportStays, ExportChanges
<1>10. CASE CloseChat
  <2>1. \A u \in tasks' : Exporting(u) => u \in tasks
    BY <1>10, CloseSets
  <2>2. HistoryKeeps
    BY <1>10, CloseSets DEF HistoryKeeps
  <2> QED
    BY <2>1, <2>2 DEF ExportStays, ExportChanges
<1>11. CASE lockVault
  <2>1. \A u \in tasks' : Exporting(u) => u \in tasks
    <3> SUFFICES ASSUME NEW u \in tasks', u \notin tasks, Exporting(u) PROVE FALSE
      OBVIOUS
    <3>0. Begins("log", "log", {}, made.events + 1, {}, {})
      BY <1>11, LockSets
    <3>1. /\ u.op = "log" /\ u.at = "log" /\ u.keys = {} /\ u.got = {} /\ u.number = made.events + 1
          /\ u.ints = {} /\ u.who = {}
      BY <3>0 DEF Begins
    <3> QED
      BY <3>1 DEF Exporting, Staged, Logging, Stores, Operation
  <2>2. HistoryKeeps
    BY <1>11, LockSets DEF HistoryKeeps
  <2> QED
    BY <2>1, <2>2 DEF ExportStays, ExportChanges
<1>12. CASE unlockVault
  <2>1. \A u \in tasks' : Exporting(u) => u \in tasks
    <3> SUFFICES ASSUME NEW u \in tasks', u \notin tasks, Exporting(u) PROVE FALSE
      OBVIOUS
    <3>0. Begins("unlock", "log", {}, made.events + 1, {}, {})
      BY <1>12, UnlockSets
    <3>1. /\ u.op = "unlock" /\ u.at = "log" /\ u.keys = {} /\ u.got = {} /\ u.number = made.events + 1
          /\ u.ints = {} /\ u.who = {}
      BY <3>0 DEF Begins
    <3> QED
      BY <3>1 DEF Exporting, Staged, Logging, Stores, Operation
  <2>2. HistoryKeeps
    BY <1>12, UnlockSets DEF HistoryKeeps
  <2> QED
    BY <2>1, <2>2 DEF ExportStays, ExportChanges
<1>13. CASE Reload
  <2>1. \A u \in tasks' : Exporting(u) => u \in tasks
    BY <1>13, ReloadSets
  <2> QED
    BY <1>13, <2>1, ReloadSets DEF ExportStays, ExportChanges
<1>14. ASSUME NEW t \in tasks, putEvent(t) PROVE  ExportChanges
  <2>1. \A u \in tasks' : Exporting(u) => u \in tasks
    <3> SUFFICES ASSUME NEW u \in tasks', u \notin tasks, Exporting(u) PROVE FALSE
      OBVIOUS
    <3>0. Turns(t, "logged", t.keys, t.got, t.number, t.ints)
      BY <1>14, PutSets
    <3>1. /\ u.op = t.op /\ u.who = t.who /\ u.at = ("logged") /\ u.keys = t.keys
          /\ u.got = t.got /\ u.number = t.number /\ u.ints = t.ints
      BY <3>0 DEF Turns
    <3>2. t.at = "log" /\ t.op \in Operation /\ Staged(t)
      BY <1>14, PutSets DEF AllStaged, TasksTyped, TaskType
    <3> QED
      BY <3>1, <3>2 DEF Exporting, Staged, Logging, Stores, Operation
  <2>2. HistoryKeeps
    BY <1>14, PutSets DEF HistoryKeeps, DiskIs
  <2> QED
    BY <2>1, <2>2 DEF ExportStays, ExportChanges
<1>15. ASSUME NEW t \in tasks, ListLog(t) PROVE  ExportChanges
  <2>1. \A u \in tasks' : Exporting(u) => u \in tasks
    <3> SUFFICES ASSUME NEW u \in tasks', u \notin tasks, Exporting(u) PROVE FALSE
      OBVIOUS
    <3>1. /\ u.op = t.op /\ u.who = t.who /\ u.got = t.got /\ u.number = t.number
          /\ \/ u.at = "load" /\ u.ints = {} /\ t.op \in {"import", "unlock"} /\ u.keys = t.keys
             \/ u.at = "set" /\ u.ints = {} /\ t.op \in {"delete", "clear"} /\ u.keys = t.keys
             \/ u.at = "trim" /\ u.ints = Surplus(disk.log) /\ u.ints # {} /\ u.keys = t.keys
      BY <1>15, ListLogSets DEF LogOver, Turns, Drop
    <3>2. t.at = "logged" /\ t.op \in Operation /\ Staged(t)
      BY <1>15, ListLogSets DEF AllStaged, TasksTyped, TaskType
    <3> QED
      BY <3>1, <3>2 DEF Exporting, Staged, Logging, Stores, Operation
  <2>2. HistoryKeeps
    BY <1>15, ListLogSets DEF HistoryKeeps
  <2> QED
    BY <2>1, <2>2 DEF ExportStays, ExportChanges
<1>16. ASSUME NEW t \in tasks, TrimLog(t) PROVE  ExportChanges
  <2>1. \A u \in tasks' : Exporting(u) => u \in tasks
    <3> SUFFICES ASSUME NEW u \in tasks', u \notin tasks, Exporting(u) PROVE FALSE
      OBVIOUS
    <3>1. /\ u.op = t.op /\ u.who = t.who /\ u.got = t.got /\ u.number = t.number
          /\ \/ u.at = "load" /\ u.ints = {} /\ t.op \in {"import", "unlock"} /\ u.keys = t.keys
             \/ u.at = "set" /\ u.ints = {} /\ t.op \in {"delete", "clear"} /\ u.keys = t.keys
             \/ u.at = "trim" /\ u.ints # {} /\ u.ints \subseteq t.ints /\ u.keys = t.keys
      BY <1>16, TrimTurns
    <3>2. t.at = "trim" /\ t.op \in Operation /\ Staged(t)
      BY <1>16, TrimSets DEF AllStaged, TasksTyped, TaskType
    <3> QED
      BY <3>1, <3>2 DEF Exporting, Staged, Logging, Stores, Operation
  <2>2. HistoryKeeps
    BY <1>16, TrimSets DEF HistoryKeeps, DiskIs
  <2> QED
    BY <2>1, <2>2 DEF ExportStays, ExportChanges
<1>17. ASSUME NEW t \in tasks, ListKeys(t) PROVE  ExportChanges
  BY <1>17 DEF ExportChanges
<1>18. ASSUME NEW t \in tasks, createBackupFile(t) PROVE  ExportChanges
  <2>1. \A u \in tasks' : Exporting(u) => u \in tasks
    <3> SUFFICES ASSUME NEW u \in tasks', u \notin tasks, Exporting(u) PROVE FALSE
      OBVIOUS
    <3>0. Turns(t, "log", t.keys, t.got, made.events + 1, t.ints)
      BY <1>18, SealSets
    <3>1. /\ u.op = t.op /\ u.who = t.who /\ u.at = ("log") /\ u.keys = t.keys
          /\ u.got = t.got /\ u.number = made.events + 1 /\ u.ints = t.ints
      BY <3>0 DEF Turns
    <3>2. t.at = "seal" /\ t.op \in Operation /\ Staged(t)
      BY <1>18, SealSets DEF AllStaged, TasksTyped, TaskType
    <3> QED
      BY <3>1, <3>2 DEF Exporting, Staged, Logging, Stores, Operation
  <2>2. t.at = "seal" /\ t.op \in Operation /\ Staged(t)
    BY <1>18, SealSets DEF AllStaged, TasksTyped, TaskType
  <2>3. t.op = "export"
    BY <2>2 DEF Staged, Logging, Operation
  <2>4. t \notin tasks'
    BY <1>18, <2>2, SealSets DEF Turns
  <2>5. \A u \in tasks' : ~Exporting(u)
    BY <2>1, <2>3, <2>4 DEF OnlyOne, Exporting
  <2> QED
    BY <2>1, <2>5 DEF ExportStays, ExportChanges
<1>19. ASSUME NEW t \in tasks, openBackupFile(t) PROVE  ExportChanges
  <2>1. \A u \in tasks' : Exporting(u) => u \in tasks
    <3> SUFFICES ASSUME NEW u \in tasks', u \notin tasks, Exporting(u) PROVE FALSE
      OBVIOUS
    <3>0. Drop(t) \/ Turns(t, "null", t.keys, t.got, t.number, t.ints)
      BY <1>19, OpenFileSets
    <3>1. /\ u.op = t.op /\ u.who = t.who /\ u.at = ("null") /\ u.keys = t.keys
          /\ u.got = t.got /\ u.number = t.number /\ u.ints = t.ints
      BY <3>0 DEF Turns, Drop
    <3>2. t.at = "open" /\ t.op \in Operation /\ Staged(t)
      BY <1>19, OpenFileSets DEF AllStaged, TasksTyped, TaskType
    <3> QED
      BY <3>1, <3>2 DEF Exporting, Staged, Logging, Stores, Operation
  <2>2. HistoryKeeps
    BY <1>19, OpenFileSets DEF HistoryKeeps
  <2> QED
    BY <2>1, <2>2 DEF ExportStays, ExportChanges
<1>20. ASSUME NEW t \in tasks, dropStorage(t) PROVE  ExportChanges
  <2>1. \A u \in tasks' : Exporting(u) => u \in tasks
    <3> SUFFICES ASSUME NEW u \in tasks', u \notin tasks, Exporting(u) PROVE FALSE
      OBVIOUS
    <3>0. Turns(t, "wipe", t.keys, t.got, t.number, t.ints)
      BY <1>20, DropStorageSets
    <3>1. /\ u.op = t.op /\ u.who = t.who /\ u.at = ("wipe") /\ u.keys = t.keys
          /\ u.got = t.got /\ u.number = t.number /\ u.ints = t.ints
      BY <3>0 DEF Turns
    <3>2. t.at = "null" /\ t.op \in Operation /\ Staged(t)
      BY <1>20, DropStorageSets DEF AllStaged, TasksTyped, TaskType
    <3> QED
      BY <3>1, <3>2 DEF Exporting, Staged, Logging, Stores, Operation
  <2>2. HistoryKeeps
    BY <1>20, DropStorageSets DEF HistoryKeeps
  <2> QED
    BY <2>1, <2>2 DEF ExportStays, ExportChanges
<1>21. ASSUME NEW t \in tasks, deleteDatabase(t) PROVE  ExportChanges
  <2>1. \A u \in tasks' : Exporting(u) => u \in tasks
    <3> SUFFICES ASSUME NEW u \in tasks', u \notin tasks, Exporting(u) PROVE FALSE
      OBVIOUS
    <3>0. Turns(t, "init", t.keys, t.got, t.number, t.ints)
      BY <1>21, WipeSets
    <3>1. /\ u.op = t.op /\ u.who = t.who /\ u.at = ("init") /\ u.keys = t.keys
          /\ u.got = t.got /\ u.number = t.number /\ u.ints = t.ints
      BY <3>0 DEF Turns
    <3>2. t.at = "wipe" /\ t.op \in Operation /\ Staged(t)
      BY <1>21, WipeSets DEF AllStaged, TasksTyped, TaskType
    <3> QED
      BY <3>1, <3>2 DEF Exporting, Staged, Logging, Stores, Operation
  <2>2. HistoryKeeps
    BY <1>21, WipeSets DEF HistoryKeeps, DuringIs
  <2> QED
    BY <2>1, <2>2 DEF ExportStays, ExportChanges
<1>22. ASSUME NEW t \in tasks, initStorage(t) PROVE  ExportChanges
  <2>1. \A u \in tasks' : Exporting(u) => u \in tasks
    <3> SUFFICES ASSUME NEW u \in tasks', u \notin tasks, Exporting(u) PROVE FALSE
      OBVIOUS
    <3>0. Turns(t, "restore", t.got, t.got, t.number, t.ints)
      BY <1>22, InitSets
    <3>1. /\ u.op = t.op /\ u.who = t.who /\ u.at = ("restore") /\ u.keys = t.got
          /\ u.got = t.got /\ u.number = t.number /\ u.ints = t.ints
      BY <3>0 DEF Turns
    <3>2. t.at = "init" /\ t.op \in Operation /\ Staged(t)
      BY <1>22, InitSets DEF AllStaged, TasksTyped, TaskType
    <3> QED
      BY <3>1, <3>2 DEF Exporting, Staged, Logging, Stores, Operation
  <2>2. HistoryKeeps
    <3>1. disk' = [records |-> disk.records, blobs |-> disk.blobs, log |-> disk.log, vault |-> TRUE]
      BY <1>22, InitSets
    <3>2. UNCHANGED during
      BY <1>22, InitSets
    <3> QED BY <3>1, <3>2 DEF HistoryKeeps
  <2> QED
    BY <2>1, <2>2 DEF ExportStays, ExportChanges
<1>23. ASSUME NEW t \in tasks, RestoreFails(t) PROVE  ExportChanges
  <2>1. \A u \in tasks' : Exporting(u) => u \in tasks
    BY <1>23, RestoreFailsSets DEF Drop
  <2>2. HistoryKeeps
    BY <1>23, RestoreFailsSets DEF HistoryKeeps
  <2> QED
    BY <2>1, <2>2 DEF ExportStays, ExportChanges
<1>24. ASSUME NEW t \in tasks, Restored(t) PROVE  ExportChanges
  <2>1. \A u \in tasks' : Exporting(u) => u \in tasks
    <3> SUFFICES ASSUME NEW u \in tasks', u \notin tasks, Exporting(u) PROVE FALSE
      OBVIOUS
    <3>0. Turns(t, "log", t.keys, t.got, made.events + 1, t.ints)
      BY <1>24, RestoredSets
    <3>1. /\ u.op = t.op /\ u.who = t.who /\ u.at = ("log") /\ u.keys = t.keys
          /\ u.got = t.got /\ u.number = made.events + 1 /\ u.ints = t.ints
      BY <3>0 DEF Turns
    <3>2. t.at = "restore" /\ t.op \in Operation /\ Staged(t)
      BY <1>24, RestoredSets DEF AllStaged, TasksTyped, TaskType
    <3> QED
      BY <3>1, <3>2 DEF Exporting, Staged, Logging, Stores, Operation
  <2>2. HistoryKeeps
    BY <1>24, RestoredSets DEF HistoryKeeps
  <2> QED
    BY <2>1, <2>2 DEF ExportStays, ExportChanges
<1>25. ASSUME NEW t \in tasks, deleteRecord(t) PROVE  ExportChanges
  <2>1. \A u \in tasks' : Exporting(u) => u \in tasks
    <3> SUFFICES ASSUME NEW u \in tasks', u \notin tasks, Exporting(u) PROVE FALSE
      OBVIOUS
    <3>1. /\ u.op = t.op /\ u.who = t.who /\ u.got = t.got /\ u.number = t.number
          /\ \/ u.at = "identity" /\ t.at = "contact" /\ u.keys = t.keys /\ u.ints = t.ints
             \/ u.at = "list" /\ t.at = "convo" /\ u.keys = t.keys /\ u.ints = t.ints
      BY <1>25, DeleteRecordTurns
    <3>2. t.at \in {"contact", "convo"} /\ t.op \in Operation /\ Staged(t)
      BY <1>25, DeleteRecordSets DEF AllStaged, TasksTyped, TaskType
    <3> QED
      BY <3>1, <3>2 DEF Exporting, Staged, Logging, Stores, Operation
  <2>2. PICK r : DiskIs(disk.records \ {r}, disk.log) /\ Remembers(disk.records \ {r})
    BY <1>25, DeleteRecordSets
  <2>3. ASSUME NEW u \in tasks', Exporting(u) PROVE HistoryKeeps
    <3>1. Running("export")
      BY <2>1, <2>3 DEF Exporting, Running
    <3> QED BY <3>1, <2>2 DEF HistoryKeeps, Remembers, DiskIs, DuringIs
  <2> QED
    BY <2>1, <2>3 DEF ExportStays, ExportChanges
<1>26. ASSUME NEW t \in tasks, listMessageKeys(t) PROVE  ExportChanges
  <2>1. \A u \in tasks' : Exporting(u) => u \in tasks
    <3> SUFFICES ASSUME NEW u \in tasks', u \notin tasks, Exporting(u) PROVE FALSE
      OBVIOUS
    <3>0. Turns(t, "doomed", Of("messages", UNION {About(c, disk.records) : c \in t.who}), t.got, t.number, t.ints)
      BY <1>26, DoomSets
    <3>1. /\ u.op = t.op /\ u.who = t.who /\ u.at = ("doomed") /\ u.keys = Of("messages", UNION {About(c, disk.records) : c \in t.who})
          /\ u.got = t.got /\ u.number = t.number /\ u.ints = t.ints
      BY <3>0 DEF Turns
    <3>2. t.at = "list" /\ t.op \in Operation /\ Staged(t)
      BY <1>26, DoomSets DEF AllStaged, TasksTyped, TaskType
    <3> QED
      BY <3>1, <3>2 DEF Exporting, Staged, Logging, Stores, Operation
  <2>2. HistoryKeeps
    BY <1>26, DoomSets DEF HistoryKeeps
  <2> QED
    BY <2>1, <2>2 DEF ExportStays, ExportChanges
<1>27. ASSUME NEW t \in tasks, Deleted(t) PROVE  ExportChanges
  <2>1. \A u \in tasks' : Exporting(u) => u \in tasks
    <3> SUFFICES ASSUME NEW u \in tasks', u \notin tasks, Exporting(u) PROVE FALSE
      OBVIOUS
    <3>0. Turns(t, "log", t.keys, t.got, made.events + 1, t.ints)
      BY <1>27, DeletedSets
    <3>1. /\ u.op = t.op /\ u.who = t.who /\ u.at = ("log") /\ u.keys = t.keys
          /\ u.got = t.got /\ u.number = made.events + 1 /\ u.ints = t.ints
      BY <3>0 DEF Turns
    <3>2. t.at = "doomed" /\ t.op \in Operation /\ Staged(t)
      BY <1>27, DeletedSets DEF AllStaged, TasksTyped, TaskType
    <3> QED
      BY <3>1, <3>2 DEF Exporting, Staged, Logging, Stores, Operation
  <2>2. HistoryKeeps
    BY <1>27, DeletedSets DEF HistoryKeeps
  <2> QED
    BY <2>1, <2>2 DEF ExportStays, ExportChanges
<1>28. ASSUME NEW t \in tasks, getAttachmentBlob(t) PROVE  ExportChanges
  <2>1. \A u \in tasks' : Exporting(u) => u \in tasks
    <3> SUFFICES ASSUME NEW u \in tasks', u \notin tasks, Exporting(u) PROVE FALSE
      OBVIOUS
    <3>0. Drop(t) \/ Turns(t, "decrypt", t.keys, t.got, t.number, t.ints)
      BY <1>28, BlobSets
    <3>1. /\ u.op = t.op /\ u.who = t.who /\ u.at = ("decrypt") /\ u.keys = t.keys
          /\ u.got = t.got /\ u.number = t.number /\ u.ints = t.ints
      BY <3>0 DEF Turns, Drop
    <3>2. t.at = "read" /\ t.op \in Operation /\ Staged(t)
      BY <1>28, BlobSets DEF AllStaged, TasksTyped, TaskType
    <3> QED
      BY <3>1, <3>2 DEF Exporting, Staged, Logging, Stores, Operation
  <2>2. HistoryKeeps
    BY <1>28, BlobSets DEF HistoryKeeps
  <2> QED
    BY <2>1, <2>2 DEF ExportStays, ExportChanges
<1>29. ASSUME NEW t \in tasks, Decrypted(t) PROVE  ExportChanges
  <2>1. \A u \in tasks' : Exporting(u) => u \in tasks
    BY <1>29, DecryptedSets DEF Drop
  <2>2. HistoryKeeps
    BY <1>29, DecryptedSets DEF HistoryKeeps
  <2> QED
    BY <2>1, <2>2 DEF ExportStays, ExportChanges
<1>30. ASSUME NEW t \in tasks, loadAllData(t) PROVE  ExportChanges
  <2>1. \A u \in tasks' : Exporting(u) => u \in tasks
    <3> SUFFICES ASSUME NEW u \in tasks', u \notin tasks, Exporting(u) PROVE FALSE
      OBVIOUS
    <3>1. /\ u.op = "open" /\ u.at = "read" /\ u.keys = {} /\ u.got = {} /\ u.who = {}
          /\ u.number = chat.round + 1 /\ \E a \in Attachment : u.ints = {a}
      BY <1>30, LoadSets DEF Drop, Asks
    <3> QED
      BY <3>1 DEF Exporting, Staged, Logging, Stores, Operation
  <2>2. HistoryKeeps
    BY <1>30, LoadSets DEF HistoryKeeps
  <2> QED
    BY <2>1, <2>2 DEF ExportStays, ExportChanges
<1>31. ASSUME NEW t \in tasks, Throws(t) PROVE  ExportChanges
  <2>1. \A u \in tasks' : Exporting(u) => u \in tasks
    BY <1>31, ThrowsSets DEF Drop
  <2>2. HistoryKeeps
    BY <1>31, ThrowsSets DEF HistoryKeeps
  <2> QED
    BY <2>1, <2>2 DEF ExportStays, ExportChanges
<1>32. ASSUME NEW t \in tasks, NEW r \in t.keys, GetRecord(t, r) PROVE  ExportChanges
  BY <1>32 DEF ExportChanges
<1>33. ASSUME NEW t \in tasks, NEW r \in t.keys, Restore(t, r) PROVE  ExportChanges
  <2>1. \A u \in tasks' : Exporting(u) => u \in tasks
    <3> SUFFICES ASSUME NEW u \in tasks', u \notin tasks, Exporting(u) PROVE FALSE
      OBVIOUS
    <3>0. Turns(t, "restore", t.keys \ {r}, t.got, t.number, t.ints)
      BY <1>33, RestoreSets
    <3>1. /\ u.op = t.op /\ u.who = t.who /\ u.at = ("restore") /\ u.keys = t.keys \ {r}
          /\ u.got = t.got /\ u.number = t.number /\ u.ints = t.ints
      BY <3>0 DEF Turns
    <3>2. t.at = "restore" /\ t.op \in Operation /\ Staged(t)
      BY <1>33, RestoreSets DEF AllStaged, TasksTyped, TaskType
    <3> QED
      BY <3>1, <3>2 DEF Exporting, Staged, Logging, Stores, Operation
  <2>3. ASSUME NEW u \in tasks', Exporting(u) PROVE HistoryKeeps
    <3>1. Running("export")
      BY <2>1, <2>3 DEF Exporting, Running
    <3> QED BY <3>1, <1>33, RestoreSets DEF HistoryKeeps, Remembers, DiskIs, DuringIs
  <2> QED
    BY <2>1, <2>3 DEF ExportStays, ExportChanges
<1>34. ASSUME NEW t \in tasks, NEW r \in t.keys, deleteMessage(t, r) PROVE  ExportChanges
  <2>1. \A u \in tasks' : Exporting(u) => u \in tasks
    <3> SUFFICES ASSUME NEW u \in tasks', u \notin tasks, Exporting(u) PROVE FALSE
      OBVIOUS
    <3>0. Turns(t, "doomed", t.keys \ {r}, t.got, t.number, t.ints)
      BY <1>34, DeleteMessageSets
    <3>1. /\ u.op = t.op /\ u.who = t.who /\ u.at = ("doomed") /\ u.keys = t.keys \ {r}
          /\ u.got = t.got /\ u.number = t.number /\ u.ints = t.ints
      BY <3>0 DEF Turns
    <3>2. t.at = "doomed" /\ t.op \in Operation /\ Staged(t)
      BY <1>34, DeleteMessageSets DEF AllStaged, TasksTyped, TaskType
    <3> QED
      BY <3>1, <3>2 DEF Exporting, Staged, Logging, Stores, Operation
  <2>3. ASSUME NEW u \in tasks', Exporting(u) PROVE HistoryKeeps
    <3>1. Running("export")
      BY <2>1, <2>3 DEF Exporting, Running
    <3> QED BY <3>1, <1>34, DeleteMessageSets DEF HistoryKeeps, Remembers, DiskIs, DuringIs
  <2> QED
    BY <2>1, <2>3 DEF ExportStays, ExportChanges
<1>35. ASSUME NEW t \in tasks, findConvo(t) PROVE  ExportChanges
  <2>1. \A u \in tasks' : Exporting(u) => u \in tasks
    <3> SUFFICES ASSUME NEW u \in tasks', u \notin tasks, Exporting(u) PROVE FALSE
      OBVIOUS
    <3>1. t.at = "identity" /\ (Turns(t, "convo", t.keys, t.got, t.number, t.ints) \/ Drop(t))
      BY <1>35, FindConvoSets
    <3>2. u.op = t.op
      BY <3>1 DEF Turns, Drop
    <3>3. t.op \in Operation /\ Staged(t)
      BY DEF AllStaged, TasksTyped, TaskType
    <3> QED
      BY <3>1, <3>2, <3>3 DEF Exporting, Staged, Logging, Stores, Operation
  <2>2. HistoryKeeps
    BY <1>35, FindConvoSets DEF HistoryKeeps
  <2> QED
    BY <2>1, <2>2 DEF ExportStays, ExportChanges
<1>36. ASSUME NEW t \in tasks, Finish(t) PROVE  ExportChanges
  <2>1. \A u \in tasks' : Exporting(u) => u \in tasks
    BY <1>36, FinishSets DEF Drop
  <2>2. HistoryKeeps
    BY <1>36, FinishSets DEF HistoryKeeps
  <2> QED
    BY <2>1, <2>2 DEF ExportStays, ExportChanges
<1> QED
  BY <1>1, <1>2, <1>3, <1>5, <1>6, <1>7, <1>8, <1>9, <1>10, <1>11, <1>12, <1>13, <1>14, <1>15, <1>16, <1>17, <1>18, <1>19, <1>20, <1>21, <1>22, <1>23, <1>24, <1>25, <1>26, <1>27, <1>28, <1>29, <1>30, <1>31, <1>32, <1>33, <1>34, <1>35, <1>36 DEF Next, Step

(* What is ahead of the next store is ahead of this one, or in it.          *)
LEMMA Stations ==
    /\ \A s \in Stores : From(s) = {s} \cup From(After(s))
    /\ \A s \in Stores : After(s) \in Stores \/ (After(s) = "seal" /\ From(After(s)) = {})
    /\ "get" \notin Stores /\ "seal" \notin Stores /\ From("seal") = {} /\ From("contacts") = Stores
  BY DEF Stores, From, After

(* An export lists the next store.                                          *)
LEMMA ExportLists ==
    ASSUME StoredTyped, TasksTyped, AllStaged, OnlyOne, ExportKept, NEW t \in tasks, ListKeys(t)
    PROVE  ExportKept'
<1>1. t.op = "export" /\ t.at \in Stores /\ t.keys = {} /\ UNCHANGED <<disk, during>>
  BY ListKeysSets
<1>2. Exported(t)
  BY <1>1 DEF ExportKept, Exporting, Logging, Stores
<1>3. PICK u : /\ tasks' = (tasks \ {t}) \cup {u} /\ u.op = t.op /\ u.got = t.got
               /\ \/ u.at = After(t.at) /\ u.keys = {} /\ Of(t.at, disk.records) = {}
                  \/ /\ u.at = "get" /\ u.keys = Of(t.at, disk.records)
                     /\ Of(t.at, disk.records) # {}
  BY ListKeysSets DEF Turns
<1>4. \A x \in tasks' : Exporting(x) => x = u
  BY <1>1, <1>3 DEF OnlyOne, Exporting
<1>5. \A q \in during.always : q \in Record /\ q[1] \in Stores /\ q \in disk.records
  BY <1>2, RecordFacts DEF Exported, StoredTyped
<1>6. \A k \in Of(t.at, disk.records) : k[1] = t.at
  BY DEF Of
<1>7. \A q \in during.always : q[1] = t.at => q \in Of(t.at, disk.records)
  BY <1>5 DEF Of
<1>8. \A q \in during.always : q \in t.got \/ q[1] = t.at \/ q[1] \in From(After(t.at))
  BY <1>1, <1>2, <1>5, Stations DEF Exported, Ahead
<1>9. CASE u.at = After(t.at) /\ u.keys = {} /\ Of(t.at, disk.records) = {}
  <2>1. \A q \in during.always : q \in u.got \/ Ahead(u, q)
    BY <1>1, <1>3, <1>7, <1>8, <1>9, Stations DEF Ahead
  <2>2. u.at # "get"
    BY <1>1, <1>9, Stations
  <2>3. Exported(u)
    BY <1>2, <1>3, <1>9, <2>1, <2>2 DEF Exported
  <2> QED BY <1>1, <1>4, <2>3 DEF ExportKept, Exported, Ahead
<1>10. CASE u.at = "get" /\ u.keys = Of(t.at, disk.records) /\ Of(t.at, disk.records) # {}
  <2>1. \A q \in during.always : q \in u.got \cup u.keys \/ Ahead(u, q)
    BY <1>3, <1>6, <1>7, <1>8, <1>10 DEF Ahead
  <2>2. Exported(u)
    BY <1>1, <1>2, <1>3, <1>6, <1>10, <2>1 DEF Exported
  <2> QED BY <1>1, <1>4, <2>2 DEF ExportKept, Exported, Ahead
<1> QED BY <1>3, <1>9, <1>10

(* An export reads a record.                                                *)
LEMMA ExportReads ==
    ASSUME StoredTyped, TasksTyped, AllStaged, OnlyOne, ExportKept, NEW t \in tasks,
           NEW r \in t.keys, GetRecord(t, r)
    PROVE  ExportKept'
<1>1. t.op = "export" /\ t.at = "get" /\ r \in Record /\ UNCHANGED <<disk, during>>
  BY GetSets
<1>2. Exported(t)
  BY <1>1 DEF ExportKept, Exporting, Logging
<1>3. PICK u : /\ tasks' = (tasks \ {t}) \cup {u} /\ u.op = t.op /\ u.keys = t.keys \ {r}
               /\ u.got = t.got \cup ({r} \cap disk.records)
               /\ u.at = IF t.keys = {r} THEN After(r[1]) ELSE "get"
  <2> DEFINE at == IF t.keys = {r} THEN After(r[1]) ELSE "get"
             got == t.got \cup ({r} \cap disk.records)
             keys == t.keys \ {r}
  <2>1. Turns(t, at, keys, got, t.number, t.ints)
    BY GetSets
  <2> HIDE DEF at, got, keys
  <2>2. PICK u : tasks' = (tasks \ {t}) \cup {u} /\ u.op = t.op /\ u.keys = keys /\ u.got = got /\ u.at = at
    BY <2>1 DEF Turns
  <2> QED BY <2>2 DEF at, got, keys
<1>4. \A x \in tasks' : Exporting(x) => x = u
  BY <1>1, <1>3 DEF OnlyOne, Exporting
<1>5. \A q \in during.always : q \in disk.records
  BY <1>2 DEF Exported
<1>6. PICK s \in Stores : \A k \in t.keys : k[1] = s
  BY <1>1, <1>2 DEF Exported
<1>7. r[1] = s
  BY <1>6
<1>8. \A q \in during.always : q \in t.got \/ q \in t.keys \/ q[1] \in From(After(s))
  BY <1>1, <1>2, <1>6, <1>7, Stations DEF Exported, Ahead
<1>9. u.got \subseteq during.ever
  BY <1>2, <1>3 DEF Exported
<1>10. CASE t.keys = {r}
  <2>1. u.at = After(s) /\ u.keys = {} /\ u.at # "get"
    BY <1>3, <1>6, <1>7, <1>10, Stations
  <2>2. \A q \in during.always : q \in u.got \/ Ahead(u, q)
    BY <1>3, <1>5, <1>6, <1>8, <1>10, <2>1, Stations DEF Ahead
  <2>3. Exported(u)
    BY <1>2, <1>9, <2>1, <2>2 DEF Exported
  <2> QED BY <1>1, <1>4, <2>3 DEF ExportKept, Exported, Ahead
<1>11. CASE t.keys # {r}
  <2>1. u.at = "get" /\ u.keys # {} /\ \A k \in u.keys : k[1] = s
    BY <1>3, <1>6, <1>11
  <2>2. \A q \in during.always : q \in u.got \cup u.keys \/ Ahead(u, q)
    BY <1>3, <1>5, <1>8, <2>1 DEF Ahead
  <2>3. Exported(u)
    BY <1>2, <1>6, <1>9, <2>1, <2>2 DEF Exported
  <2> QED BY <1>1, <1>4, <2>3 DEF ExportKept, Exported, Ahead
<1> QED BY <1>10, <1>11

(* Every step keeps it so.                                                  *)
LEMMA ExportKeptKept ==
    ASSUME StoredTyped, TasksTyped, AllStaged, OnlyOne, ExportKept, [Next]_vars
    PROVE  ExportKept'
<1>1. CASE ExportStays
  <2> SUFFICES ASSUME NEW u \in tasks', Exporting(u) PROVE Exported(u)'
    BY DEF ExportKept, Exporting, Logging
  <2>1. HistoryKeeps /\ u \in tasks
    BY <1>1 DEF ExportStays
  <2>2. Exported(u)
    BY <2>1 DEF ExportKept
  <2> QED BY <2>1, <2>2 DEF Exported, HistoryKeeps, Ahead
<1>2. CASE exportBackup
  <2>1. ~Running("export") /\ during'.always = disk.records /\ during'.ever = disk.records
        /\ UNCHANGED disk
    BY <1>2, ExportSets DEF DuringIs
  <2>2. PICK u : tasks' = tasks \cup {u} /\ u.op = "export" /\ u.at = "contacts" /\ u.keys = {} /\ u.got = {}
    BY <1>2, ExportSets DEF Begins
  <2>3. \A x \in tasks' : Exporting(x) => x = u
    BY <2>1, <2>2 DEF Running, Exporting
  <2>4. \A q \in disk.records : q[1] \in Stores
    BY RecordFacts DEF StoredTyped
  <2>5. \A q \in disk.records : Ahead(u, q)
    BY <2>2, <2>4, Stations DEF Ahead, Stores
  <2>6. Exported(u)'
    BY <2>1, <2>2, <2>5 DEF Exported, Ahead
  <2> QED BY <2>3, <2>6 DEF ExportKept, Exporting, Logging
<1>3. CASE \E t \in tasks : ListKeys(t) \/ \E r \in t.keys : GetRecord(t, r)
  BY <1>3, ExportLists, ExportReads
<1> QED BY <1>1, <1>2, <1>3, ExportStaysOrChanges DEF ExportChanges

(* What it says of an export that is to be sealed.                          *)
LEMMA ExportsAreWhole ==
    ASSUME ExportKept
    PROVE  ExportsAll
<1> SUFFICES ASSUME NEW t \in tasks, t.op = "export", t.at = "seal"
             PROVE  during.always \subseteq t.got /\ t.got \subseteq during.ever
  BY DEF ExportsAll
<1>1. Exported(t)
  BY DEF ExportKept, Exporting, Logging
<1> QED BY <1>1, Stations DEF Exported, Ahead

(* Who deletes after a step did so before it, or has just begun to.         *)
Erasing == \E t \in tasks : t.op \in {"delete", "clear"}
DeletersStay ==
    \A x \in tasks' : x.op \in {"delete", "clear"} =>
        \/ \E y \in tasks : y.op = x.op /\ y.who = x.who
        \/ x.at \in {"contact", "convo"} /\ (Running("import") => "amid" \in amiss')

(* It is so of every step.                                                  *)
LEMMA DeletersAreOld ==
    ASSUME StoredTyped, TasksTyped, AllStaged, [Next]_vars
    PROVE  DeletersStay
<1>1. CASE UNCHANGED vars
  BY <1>1 DEF vars, DeletersStay
<1>2. ASSUME NEW m \in Message, onSecure(m) \/ onIncoming(m) PROVE  DeletersStay
  BY <1>2, MessageSets DEF DeletersStay
<1>3. ASSUME NEW c \in Contact, deleteContact(c) \/ clearConversation(c) PROVE  DeletersStay
  <2>1. \/ Begins("delete", "contact", mem.records, made.ops, {}, {c})
        \/ Begins("clear", "convo", mem.records, made.ops, {}, {c})
    BY <1>3, DeleteSets
  <2>2. PICK u : tasks' = tasks \cup {u} /\ u.at \in {"contact", "convo"}
    BY <2>1 DEF Begins
  <2>3. Running("import") => "amid" \in amiss'
    BY <1>3, DeleteSets
  <2> QED BY <2>2, <2>3 DEF DeletersStay
<1>5. ASSUME NEW r \in pending, Lands(r) PROVE  DeletersStay
  BY <1>5, LandsSets DEF DeletersStay
<1>6. ASSUME NEW f \in files, inAppImport(f) PROVE  DeletersStay
  <2>1. \A x \in tasks' : x \in tasks \/ x.op = "import"
    BY <1>6, ImportSets DEF Begins
  <2> QED BY <2>1 DEF DeletersStay
<1>7. CASE exportBackup
  <2>1. \A x \in tasks' : x \in tasks \/ x.op = "export"
    BY <1>7, ExportSets DEF Begins
  <2> QED BY <2>1 DEF DeletersStay
<1>8. CASE appendSecurityEvent
  <2>1. \A x \in tasks' : x \in tasks \/ x.op = "log"
    BY <1>8, AppendSets DEF Begins
  <2> QED BY <2>1 DEF DeletersStay
<1>9. CASE OpenChat
  <2>1. \A x \in tasks' : x \in tasks \/ x.op = "open"
    BY <1>9, OpenSets DEF Asks
  <2> QED BY <2>1 DEF DeletersStay
<1>10. CASE CloseChat
  BY <1>10, CloseSets DEF DeletersStay
<1>11. CASE lockVault
  <2>1. \A x \in tasks' : x \in tasks \/ x.op = "log"
    BY <1>11, LockSets DEF Begins
  <2> QED BY <2>1 DEF DeletersStay
<1>12. CASE unlockVault
  <2>1. \A x \in tasks' : x \in tasks \/ x.op = "unlock"
    BY <1>12, UnlockSets DEF Begins
  <2> QED BY <2>1 DEF DeletersStay
<1>13. CASE Reload
  BY <1>13, ReloadSets DEF DeletersStay
<1>14. ASSUME NEW t \in tasks, putEvent(t) PROVE  DeletersStay
  <2>1. \A x \in tasks' : x \in tasks \/ (x.op = t.op /\ x.who = t.who)
    BY <1>14, PutSets DEF Turns
  <2> QED BY <2>1 DEF DeletersStay
<1>15. ASSUME NEW t \in tasks, ListLog(t) PROVE  DeletersStay
  <2>1. \A x \in tasks' : x \in tasks \/ (x.op = t.op /\ x.who = t.who)
    BY <1>15, ListLogSets DEF LogOver, Turns, Drop
  <2> QED BY <2>1 DEF DeletersStay
<1>16. ASSUME NEW t \in tasks, TrimLog(t) PROVE  DeletersStay
  <2>1. \A x \in tasks' : x \in tasks \/ (x.op = t.op /\ x.who = t.who)
    BY <1>16, TrimTurns
  <2> QED BY <2>1 DEF DeletersStay
<1>17. ASSUME NEW t \in tasks, ListKeys(t) PROVE  DeletersStay
  <2>1. \A x \in tasks' : x \in tasks \/ (x.op = t.op /\ x.who = t.who)
    BY <1>17, ListKeysSets DEF Turns
  <2> QED BY <2>1 DEF DeletersStay
<1>18. ASSUME NEW t \in tasks, createBackupFile(t) PROVE  DeletersStay
  <2>1. \A x \in tasks' : x \in tasks \/ (x.op = t.op /\ x.who = t.who)
    BY <1>18, SealSets DEF Turns
  <2> QED BY <2>1 DEF DeletersStay
<1>19. ASSUME NEW t \in tasks, openBackupFile(t) PROVE  DeletersStay
  <2>1. \A x \in tasks' : x \in tasks \/ (x.op = t.op /\ x.who = t.who)
    BY <1>19, OpenFileSets DEF Turns, Drop
  <2> QED BY <2>1 DEF DeletersStay
<1>20. ASSUME NEW t \in tasks, dropStorage(t) PROVE  DeletersStay
  <2>1. \A x \in tasks' : x \in tasks \/ (x.op = t.op /\ x.who = t.who)
    BY <1>20, DropStorageSets DEF Turns
  <2> QED BY <2>1 DEF DeletersStay
<1>21. ASSUME NEW t \in tasks, deleteDatabase(t) PROVE  DeletersStay
  <2>1. \A x \in tasks' : x \in tasks \/ (x.op = t.op /\ x.who = t.who)
    BY <1>21, WipeSets DEF Turns
  <2> QED BY <2>1 DEF DeletersStay
<1>22. ASSUME NEW t \in tasks, initStorage(t) PROVE  DeletersStay
  <2>1. \A x \in tasks' : x \in tasks \/ (x.op = t.op /\ x.who = t.who)
    BY <1>22, InitSets DEF Turns
  <2> QED BY <2>1 DEF DeletersStay
<1>23. ASSUME NEW t \in tasks, RestoreFails(t) PROVE  DeletersStay
  BY <1>23, RestoreFailsSets DEF DeletersStay, Drop
<1>24. ASSUME NEW t \in tasks, Restored(t) PROVE  DeletersStay
  <2>1. \A x \in tasks' : x \in tasks \/ (x.op = t.op /\ x.who = t.who)
    BY <1>24, RestoredSets DEF Turns
  <2> QED BY <2>1 DEF DeletersStay
<1>25. ASSUME NEW t \in tasks, deleteRecord(t) PROVE  DeletersStay
  <2>1. \A x \in tasks' : x \in tasks \/ (x.op = t.op /\ x.who = t.who)
    <3>1. \/ Turns(t, "identity", t.keys, t.got, t.number, t.ints)
          \/ Turns(t, "list", t.keys, t.got, t.number, t.ints)
      BY <1>25, DeleteRecordSets
    <3> QED BY <3>1 DEF Turns
  <2> QED BY <2>1 DEF DeletersStay
<1>26. ASSUME NEW t \in tasks, listMessageKeys(t) PROVE  DeletersStay
  <2>1. \A x \in tasks' : x \in tasks \/ (x.op = t.op /\ x.who = t.who)
    BY <1>26, DoomSets DEF Turns
  <2> QED BY <2>1 DEF DeletersStay
<1>27. ASSUME NEW t \in tasks, Deleted(t) PROVE  DeletersStay
  <2>1. \A x \in tasks' : x \in tasks \/ (x.op = t.op /\ x.who = t.who)
    BY <1>27, DeletedSets DEF Turns
  <2> QED BY <2>1 DEF DeletersStay
<1>28. ASSUME NEW t \in tasks, getAttachmentBlob(t) PROVE  DeletersStay
  <2>1. \A x \in tasks' : x \in tasks \/ (x.op = t.op /\ x.who = t.who)
    BY <1>28, BlobSets DEF Turns, Drop
  <2> QED BY <2>1 DEF DeletersStay
<1>29. ASSUME NEW t \in tasks, Decrypted(t) PROVE  DeletersStay
  BY <1>29, DecryptedSets DEF DeletersStay, Drop
<1>30. ASSUME NEW t \in tasks, loadAllData(t) PROVE  DeletersStay
  <2>1. \A x \in tasks' : x \in tasks \/ x.op = "open"
    BY <1>30, LoadSets DEF Asks, Drop
  <2> QED BY <2>1 DEF DeletersStay
<1>31. ASSUME NEW t \in tasks, Throws(t) PROVE  DeletersStay
  BY <1>31, ThrowsSets DEF DeletersStay, Drop
<1>32. ASSUME NEW t \in tasks, NEW r \in t.keys, GetRecord(t, r) PROVE  DeletersStay
  <2>1. \A x \in tasks' : x \in tasks \/ (x.op = t.op /\ x.who = t.who)
    <3>1. \A at, keys, got, number, ints : Turns(t, at, keys, got, number, ints)
            => \A x \in tasks' : x \in tasks \/ (x.op = t.op /\ x.who = t.who)
      BY DEF Turns
    <3> QED BY <1>32, <3>1, GetSets
  <2> QED BY <2>1 DEF DeletersStay
<1>33. ASSUME NEW t \in tasks, NEW r \in t.keys, Restore(t, r) PROVE  DeletersStay
  <2>1. \A x \in tasks' : x \in tasks \/ (x.op = t.op /\ x.who = t.who)
    <3>1. \A at, keys, got, number, ints : Turns(t, at, keys, got, number, ints)
            => \A x \in tasks' : x \in tasks \/ (x.op = t.op /\ x.who = t.who)
      BY DEF Turns
    <3> QED BY <1>33, <3>1, RestoreSets
  <2> QED BY <2>1 DEF DeletersStay
<1>34. ASSUME NEW t \in tasks, NEW r \in t.keys, deleteMessage(t, r) PROVE  DeletersStay
  <2>1. \A x \in tasks' : x \in tasks \/ (x.op = t.op /\ x.who = t.who)
    <3>1. \A at, keys, got, number, ints : Turns(t, at, keys, got, number, ints)
            => \A x \in tasks' : x \in tasks \/ (x.op = t.op /\ x.who = t.who)
      BY DEF Turns
    <3> QED BY <1>34, <3>1, DeleteMessageSets
  <2> QED BY <2>1 DEF DeletersStay
<1>35. ASSUME NEW t \in tasks, findConvo(t) PROVE  DeletersStay
  <2>1. \A x \in tasks' : x \in tasks \/ (x.op = t.op /\ x.who = t.who)
    BY <1>35, FindConvoSets DEF Turns, Drop
  <2> QED BY <2>1 DEF DeletersStay
<1>36. ASSUME NEW t \in tasks, Finish(t) PROVE  DeletersStay
  BY <1>36, FinishSets DEF DeletersStay, Drop
<1> QED
  BY <1>1, <1>2, <1>3, <1>5, <1>6, <1>7, <1>8, <1>9, <1>10, <1>11, <1>12, <1>13, <1>14, <1>15, <1>16, <1>17, <1>18, <1>19, <1>20, <1>21, <1>22, <1>23, <1>24, <1>25, <1>26, <1>27, <1>28, <1>29, <1>30, <1>31, <1>32, <1>33, <1>34, <1>35, <1>36 DEF Next, Step

(* An import that has wiped the disk, and has yet to fill it.               *)
Importing(t) == t.op = "import" /\ t.at \in {"init", "restore"}

(* What it finds there is its own, the ways amiss aside.                    *)
Imported(t) ==
    /\ t.at = "restore" => t.keys \subseteq t.got
    /\ "amid" \notin amiss /\ "straggler" \notin amiss =>
         pending = {} /\ disk.records \subseteq t.got
    /\ "amid" \notin amiss =>
         ~Erasing /\ (t.at = "restore" => t.got \ t.keys \subseteq disk.records)
ImportKept == \A t \in tasks : Importing(t) => Imported(t)

(* How a step that is not the import's changes what it finds.               *)
ImportStays ==
    /\ \A u \in tasks' : Importing(u) => u \in tasks
    /\ (\E u \in tasks' : Importing(u)) /\ "amid" \notin amiss' =>
         /\ pending = {} => pending' = {} /\ disk'.records \subseteq disk.records
         /\ ~Erasing => disk.records \subseteq disk'.records
ImportChanges ==
    \/ ImportStays
    \/ \E t \in tasks : \/ deleteDatabase(t) \/ initStorage(t)
                        \/ \E r \in t.keys : Restore(t, r)

(* Three actions go on with an import on an empty disk.                     *)
LEMMA ImportStaysOrChanges ==
    ASSUME StoredTyped, TasksTyped, AllStaged, [Next]_vars
    PROVE  ImportChanges
<1>1. CASE UNCHANGED vars
  BY <1>1 DEF vars, ImportStays, ImportChanges
<1>2. ASSUME NEW m \in Message, onSecure(m) \/ onIncoming(m) PROVE  ImportChanges
  <2>1. \A u \in tasks' : Importing(u) => u \in tasks
    BY <1>2, MessageSets
  <2>2. ASSUME NEW u \in tasks', Importing(u) PROVE Running("import")
    BY <2>1, <2>2 DEF Importing, Running
  <2> QED
    BY <1>2, <2>1, <2>2, MessageSets DEF ImportStays, ImportChanges
<1>3. ASSUME NEW c \in Contact, deleteContact(c) \/ clearConversation(c) PROVE  ImportChanges
  <2>1. \A u \in tasks' : Importing(u) => u \in tasks
    <3> SUFFICES ASSUME NEW u \in tasks', u \notin tasks, Importing(u) PROVE FALSE
      OBVIOUS
    <3>0. \/ Begins("delete", "contact", mem.records, made.ops, {}, {c})
          \/ Begins("clear", "convo", mem.records, made.ops, {}, {c})
      BY <1>3, DeleteSets
    <3>1. u.op \in {"delete", "clear"}
      BY <3>0 DEF Begins
    <3> QED
      BY <3>1 DEF Importing, Staged, Logging, Stores, Operation
  <2>2. ASSUME NEW u \in tasks', Importing(u) PROVE Running("import")
    BY <2>1, <2>2 DEF Importing, Running
  <2> QED
    BY <1>3, <2>1, <2>2, DeleteSets DEF ImportStays, ImportChanges
<1>5. ASSUME NEW r \in pending, Lands(r) PROVE  ImportChanges
  <2>1. \A u \in tasks' : Importing(u) => u \in tasks
    BY <1>5, LandsSets
  <2>2. pending # {} /\ disk.records \subseteq disk'.records
    BY <1>5, LandsSets DEF DiskIs
  <2> QED
    BY <2>1, <2>2 DEF ImportStays, ImportChanges
<1>6. ASSUME NEW f \in files, inAppImport(f) PROVE  ImportChanges
  <2>1. \A u \in tasks' : Importing(u) => u \in tasks
    <3> SUFFICES ASSUME NEW u \in tasks', u \notin tasks, Importing(u) PROVE FALSE
      OBVIOUS
    <3>0. Begins("import", "open", f, 0, {}, {})
      BY <1>6, ImportSets
    <3>1. /\ u.op = "import" /\ u.at = "open" /\ u.keys = {} /\ u.got = f /\ u.number = 0
          /\ u.ints = {} /\ u.who = {}
      BY <3>0 DEF Begins
    <3> QED
      BY <3>1 DEF Importing, Staged, Logging, Stores, Operation
  <2>2. pending' = pending /\ disk'.records = disk.records
    BY <1>6, ImportSets
  <2> QED
    BY <2>1, <2>2 DEF ImportStays, ImportChanges
<1>7. CASE exportBackup
  <2>1. \A u \in tasks' : Importing(u) => u \in tasks
    <3> SUFFICES ASSUME NEW u \in tasks', u \notin tasks, Importing(u) PROVE FALSE
      OBVIOUS
    <3>0. Begins("export", "contacts", {}, 0, {}, {})
      BY <1>7, ExportSets
    <3>1. /\ u.op = "export" /\ u.at = "contacts" /\ u.keys = {} /\ u.got = {} /\ u.number = 0
          /\ u.ints = {} /\ u.who = {}
      BY <3>0 DEF Begins
    <3> QED
      BY <3>1 DEF Importing, Staged, Logging, Stores, Operation
  <2>2. pending' = pending /\ disk'.records = disk.records
    BY <1>7, ExportSets
  <2> QED
    BY <2>1, <2>2 DEF ImportStays, ImportChanges
<1>8. CASE appendSecurityEvent
  <2>1. \A u \in tasks' : Importing(u) => u \in tasks
    <3> SUFFICES ASSUME NEW u \in tasks', u \notin tasks, Importing(u) PROVE FALSE
      OBVIOUS
    <3>0. Begins("log", "log", {}, made.events + 1, {}, {})
      BY <1>8, AppendSets
    <3>1. /\ u.op = "log" /\ u.at = "log" /\ u.keys = {} /\ u.got = {} /\ u.number = made.events + 1
          /\ u.ints = {} /\ u.who = {}
      BY <3>0 DEF Begins
    <3> QED
      BY <3>1 DEF Importing, Staged, Logging, Stores, Operation
  <2>2. pending' = pending /\ disk'.records = disk.records
    BY <1>8, AppendSets
  <2> QED
    BY <2>1, <2>2 DEF ImportStays, ImportChanges
<1>9. CASE OpenChat
  <2>1. \A u \in tasks' : Importing(u) => u \in tasks
    <3> SUFFICES ASSUME NEW u \in tasks', u \notin tasks, Importing(u) PROVE FALSE
      OBVIOUS
    <3>1. /\ u.op = "open" /\ u.at = "read" /\ u.keys = {} /\ u.got = {} /\ u.who = {}
          /\ u.number = chat.round + 1 /\ \E a \in Attachment : u.ints = {a}
      BY <1>9, OpenSets DEF Asks
    <3> QED
      BY <3>1 DEF Importing, Staged, Logging, Stores, Operation
  <2>2. pending' = pending /\ disk'.records = disk.records
    BY <1>9, OpenSets
  <2> QED
    BY <2>1, <2>2 DEF ImportStays, ImportChanges
<1>10. CASE CloseChat
  <2>1. \A u \in tasks' : Importing(u) => u \in tasks
    BY <1>10, CloseSets
  <2>2. pending' = pending /\ disk'.records = disk.records
    BY <1>10, CloseSets
  <2> QED
    BY <2>1, <2>2 DEF ImportStays, ImportChanges
<1>11. CASE lockVault
  <2>1. \A u \in tasks' : Importing(u) => u \in tasks
    <3> SUFFICES ASSUME NEW u \in tasks', u \notin tasks, Importing(u) PROVE FALSE
      OBVIOUS
    <3>0. Begins("log", "log", {}, made.events + 1, {}, {})
      BY <1>11, LockSets
    <3>1. /\ u.op = "log" /\ u.at = "log" /\ u.keys = {} /\ u.got = {} /\ u.number = made.events + 1
          /\ u.ints = {} /\ u.who = {}
      BY <3>0 DEF Begins
    <3> QED
      BY <3>1 DEF Importing, Staged, Logging, Stores, Operation
  <2>2. pending' = pending /\ disk'.records = disk.records
    BY <1>11, LockSets
  <2> QED
    BY <2>1, <2>2 DEF ImportStays, ImportChanges
<1>12. CASE unlockVault
  <2>1. \A u \in tasks' : Importing(u) => u \in tasks
    <3> SUFFICES ASSUME NEW u \in tasks', u \notin tasks, Importing(u) PROVE FALSE
      OBVIOUS
    <3>0. Begins("unlock", "log", {}, made.events + 1, {}, {})
      BY <1>12, UnlockSets
    <3>1. /\ u.op = "unlock" /\ u.at = "log" /\ u.keys = {} /\ u.got = {} /\ u.number = made.events + 1
          /\ u.ints = {} /\ u.who = {}
      BY <3>0 DEF Begins
    <3> QED
      BY <3>1 DEF Importing, Staged, Logging, Stores, Operation
  <2>2. pending' = pending /\ disk'.records = disk.records
    BY <1>12, UnlockSets
  <2> QED
    BY <2>1, <2>2 DEF ImportStays, ImportChanges
<1>13. CASE Reload
  <2>1. \A u \in tasks' : Importing(u) => u \in tasks
    BY <1>13, ReloadSets
  <2> QED
    BY <1>13, <2>1, ReloadSets DEF ImportStays, ImportChanges
<1>14. ASSUME NEW t \in tasks, putEvent(t) PROVE  ImportChanges
  <2>1. \A u \in tasks' : Importing(u) => u \in tasks
    <3> SUFFICES ASSUME NEW u \in tasks', u \notin tasks, Importing(u) PROVE FALSE
      OBVIOUS
    <3>0. Turns(t, "logged", t.keys, t.got, t.number, t.ints)
      BY <1>14, PutSets
    <3>1. /\ u.op = t.op /\ u.who = t.who /\ u.at = ("logged") /\ u.keys = t.keys
          /\ u.got = t.got /\ u.number = t.number /\ u.ints = t.ints
      BY <3>0 DEF Turns
    <3>2. t.at = "log" /\ t.op \in Operation /\ Staged(t)
      BY <1>14, PutSets DEF AllStaged, TasksTyped, TaskType
    <3> QED
      BY <3>1, <3>2 DEF Importing, Staged, Logging, Stores, Operation
  <2>2. pending' = pending /\ disk'.records = disk.records
    BY <1>14, PutSets DEF DiskIs
  <2> QED
    BY <2>1, <2>2 DEF ImportStays, ImportChanges
<1>15. ASSUME NEW t \in tasks, ListLog(t) PROVE  ImportChanges
  <2>1. \A u \in tasks' : Importing(u) => u \in tasks
    <3> SUFFICES ASSUME NEW u \in tasks', u \notin tasks, Importing(u) PROVE FALSE
      OBVIOUS
    <3>1. /\ u.op = t.op /\ u.who = t.who /\ u.got = t.got /\ u.number = t.number
          /\ \/ u.at = "load" /\ u.ints = {} /\ t.op \in {"import", "unlock"} /\ u.keys = t.keys
             \/ u.at = "set" /\ u.ints = {} /\ t.op \in {"delete", "clear"} /\ u.keys = t.keys
             \/ u.at = "trim" /\ u.ints = Surplus(disk.log) /\ u.ints # {} /\ u.keys = t.keys
      BY <1>15, ListLogSets DEF LogOver, Turns, Drop
    <3>2. t.at = "logged" /\ t.op \in Operation /\ Staged(t)
      BY <1>15, ListLogSets DEF AllStaged, TasksTyped, TaskType
    <3> QED
      BY <3>1, <3>2 DEF Importing, Staged, Logging, Stores, Operation
  <2>2. pending' = pending /\ disk'.records = disk.records
    BY <1>15, ListLogSets
  <2> QED
    BY <2>1, <2>2 DEF ImportStays, ImportChanges
<1>16. ASSUME NEW t \in tasks, TrimLog(t) PROVE  ImportChanges
  <2>1. \A u \in tasks' : Importing(u) => u \in tasks
    <3> SUFFICES ASSUME NEW u \in tasks', u \notin tasks, Importing(u) PROVE FALSE
      OBVIOUS
    <3>1. /\ u.op = t.op /\ u.who = t.who /\ u.got = t.got /\ u.number = t.number
          /\ \/ u.at = "load" /\ u.ints = {} /\ t.op \in {"import", "unlock"} /\ u.keys = t.keys
             \/ u.at = "set" /\ u.ints = {} /\ t.op \in {"delete", "clear"} /\ u.keys = t.keys
             \/ u.at = "trim" /\ u.ints # {} /\ u.ints \subseteq t.ints /\ u.keys = t.keys
      BY <1>16, TrimTurns
    <3>2. t.at = "trim" /\ t.op \in Operation /\ Staged(t)
      BY <1>16, TrimSets DEF AllStaged, TasksTyped, TaskType
    <3> QED
      BY <3>1, <3>2 DEF Importing, Staged, Logging, Stores, Operation
  <2>2. pending' = pending /\ disk'.records = disk.records
    BY <1>16, TrimSets DEF DiskIs
  <2> QED
    BY <2>1, <2>2 DEF ImportStays, ImportChanges
<1>17. ASSUME NEW t \in tasks, ListKeys(t) PROVE  ImportChanges
  <2>1. \A u \in tasks' : Importing(u) => u \in tasks
    <3> SUFFICES ASSUME NEW u \in tasks', u \notin tasks, Importing(u) PROVE FALSE
      OBVIOUS
    <3>1. /\ u.op = t.op /\ u.who = t.who /\ u.got = t.got /\ u.number = t.number
          /\ \/ u.at = After(t.at) /\ u.keys = {} /\ u.ints = t.ints
             \/ u.at = "get" /\ u.keys = Of(t.at, disk.records) /\ u.ints = t.ints
      BY <1>17, ListKeysSets DEF Turns
    <3>2. t.at \in Stores /\ t.op \in Operation /\ Staged(t)
      BY <1>17, ListKeysSets DEF AllStaged, TasksTyped, TaskType
    <3> QED
      BY <3>1, <3>2 DEF Importing, Staged, Logging, Stores, Operation
  <2>2. pending' = pending /\ disk'.records = disk.records
    BY <1>17, ListKeysSets
  <2> QED
    BY <2>1, <2>2 DEF ImportStays, ImportChanges
<1>18. ASSUME NEW t \in tasks, createBackupFile(t) PROVE  ImportChanges
  <2>1. \A u \in tasks' : Importing(u) => u \in tasks
    <3> SUFFICES ASSUME NEW u \in tasks', u \notin tasks, Importing(u) PROVE FALSE
      OBVIOUS
    <3>0. Turns(t, "log", t.keys, t.got, made.events + 1, t.ints)
      BY <1>18, SealSets
    <3>1. /\ u.op = t.op /\ u.who = t.who /\ u.at = ("log") /\ u.keys = t.keys
          /\ u.got = t.got /\ u.number = made.events + 1 /\ u.ints = t.ints
      BY <3>0 DEF Turns
    <3>2. t.at = "seal" /\ t.op \in Operation /\ Staged(t)
      BY <1>18, SealSets DEF AllStaged, TasksTyped, TaskType
    <3> QED
      BY <3>1, <3>2 DEF Importing, Staged, Logging, Stores, Operation
  <2>2. pending' = pending /\ disk'.records = disk.records
    BY <1>18, SealSets
  <2> QED
    BY <2>1, <2>2 DEF ImportStays, ImportChanges
<1>19. ASSUME NEW t \in tasks, openBackupFile(t) PROVE  ImportChanges
  <2>1. \A u \in tasks' : Importing(u) => u \in tasks
    <3> SUFFICES ASSUME NEW u \in tasks', u \notin tasks, Importing(u) PROVE FALSE
      OBVIOUS
    <3>0. Drop(t) \/ Turns(t, "null", t.keys, t.got, t.number, t.ints)
      BY <1>19, OpenFileSets
    <3>1. /\ u.op = t.op /\ u.who = t.who /\ u.at = ("null") /\ u.keys = t.keys
          /\ u.got = t.got /\ u.number = t.number /\ u.ints = t.ints
      BY <3>0 DEF Turns, Drop
    <3>2. t.at = "open" /\ t.op \in Operation /\ Staged(t)
      BY <1>19, OpenFileSets DEF AllStaged, TasksTyped, TaskType
    <3> QED
      BY <3>1, <3>2 DEF Importing, Staged, Logging, Stores, Operation
  <2>2. pending' = pending /\ disk'.records = disk.records
    BY <1>19, OpenFileSets
  <2> QED
    BY <2>1, <2>2 DEF ImportStays, ImportChanges
<1>20. ASSUME NEW t \in tasks, dropStorage(t) PROVE  ImportChanges
  <2>1. \A u \in tasks' : Importing(u) => u \in tasks
    <3> SUFFICES ASSUME NEW u \in tasks', u \notin tasks, Importing(u) PROVE FALSE
      OBVIOUS
    <3>0. Turns(t, "wipe", t.keys, t.got, t.number, t.ints)
      BY <1>20, DropStorageSets
    <3>1. /\ u.op = t.op /\ u.who = t.who /\ u.at = ("wipe") /\ u.keys = t.keys
          /\ u.got = t.got /\ u.number = t.number /\ u.ints = t.ints
      BY <3>0 DEF Turns
    <3>2. t.at = "null" /\ t.op \in Operation /\ Staged(t)
      BY <1>20, DropStorageSets DEF AllStaged, TasksTyped, TaskType
    <3> QED
      BY <3>1, <3>2 DEF Importing, Staged, Logging, Stores, Operation
  <2>2. pending' = pending /\ disk'.records = disk.records
    BY <1>20, DropStorageSets
  <2> QED
    BY <2>1, <2>2 DEF ImportStays, ImportChanges
<1>21. ASSUME NEW t \in tasks, deleteDatabase(t) PROVE  ImportChanges
  BY <1>21 DEF ImportChanges
<1>22. ASSUME NEW t \in tasks, initStorage(t) PROVE  ImportChanges
  BY <1>22 DEF ImportChanges
<1>23. ASSUME NEW t \in tasks, RestoreFails(t) PROVE  ImportChanges
  <2>1. \A u \in tasks' : Importing(u) => u \in tasks
    BY <1>23, RestoreFailsSets DEF Drop
  <2>2. pending' = pending /\ disk'.records = disk.records
    BY <1>23, RestoreFailsSets
  <2> QED
    BY <2>1, <2>2 DEF ImportStays, ImportChanges
<1>24. ASSUME NEW t \in tasks, Restored(t) PROVE  ImportChanges
  <2>1. \A u \in tasks' : Importing(u) => u \in tasks
    <3> SUFFICES ASSUME NEW u \in tasks', u \notin tasks, Importing(u) PROVE FALSE
      OBVIOUS
    <3>0. Turns(t, "log", t.keys, t.got, made.events + 1, t.ints)
      BY <1>24, RestoredSets
    <3>1. /\ u.op = t.op /\ u.who = t.who /\ u.at = ("log") /\ u.keys = t.keys
          /\ u.got = t.got /\ u.number = made.events + 1 /\ u.ints = t.ints
      BY <3>0 DEF Turns
    <3>2. t.at = "restore" /\ t.op \in Operation /\ Staged(t)
      BY <1>24, RestoredSets DEF AllStaged, TasksTyped, TaskType
    <3> QED
      BY <3>1, <3>2 DEF Importing, Staged, Logging, Stores, Operation
  <2>2. pending' = pending /\ disk'.records = disk.records
    BY <1>24, RestoredSets
  <2> QED
    BY <2>1, <2>2 DEF ImportStays, ImportChanges
<1>25. ASSUME NEW t \in tasks, deleteRecord(t) PROVE  ImportChanges
  <2>1. \A u \in tasks' : Importing(u) => u \in tasks
    <3> SUFFICES ASSUME NEW u \in tasks', u \notin tasks, Importing(u) PROVE FALSE
      OBVIOUS
    <3>1. /\ u.op = t.op /\ u.who = t.who /\ u.got = t.got /\ u.number = t.number
          /\ \/ u.at = "identity" /\ t.at = "contact" /\ u.keys = t.keys /\ u.ints = t.ints
             \/ u.at = "list" /\ t.at = "convo" /\ u.keys = t.keys /\ u.ints = t.ints
      BY <1>25, DeleteRecordTurns
    <3>2. t.at \in {"contact", "convo"} /\ t.op \in Operation /\ Staged(t)
      BY <1>25, DeleteRecordSets DEF AllStaged, TasksTyped, TaskType
    <3> QED
      BY <3>1, <3>2 DEF Importing, Staged, Logging, Stores, Operation
  <2>2. t.at \in {"contact", "convo"} /\ t.op \in Operation /\ Staged(t)
    BY <1>25, DeleteRecordSets DEF AllStaged, TasksTyped, TaskType
  <2>3. Erasing
    BY <2>2 DEF Staged, Logging, Operation, Erasing
  <2>4. pending' = pending /\ disk'.records \subseteq disk.records
    BY <1>25, DeleteRecordSets DEF DiskIs
  <2> QED
    BY <2>1, <2>3, <2>4 DEF ImportStays, ImportChanges
<1>26. ASSUME NEW t \in tasks, listMessageKeys(t) PROVE  ImportChanges
  <2>1. \A u \in tasks' : Importing(u) => u \in tasks
    <3> SUFFICES ASSUME NEW u \in tasks', u \notin tasks, Importing(u) PROVE FALSE
      OBVIOUS
    <3>0. Turns(t, "doomed", Of("messages", UNION {About(c, disk.records) : c \in t.who}), t.got, t.number, t.ints)
      BY <1>26, DoomSets
    <3>1. /\ u.op = t.op /\ u.who = t.who /\ u.at = ("doomed") /\ u.keys = Of("messages", UNION {About(c, disk.records) : c \in t.who})
          /\ u.got = t.got /\ u.number = t.number /\ u.ints = t.ints
      BY <3>0 DEF Turns
    <3>2. t.at = "list" /\ t.op \in Operation /\ Staged(t)
      BY <1>26, DoomSets DEF AllStaged, TasksTyped, TaskType
    <3> QED
      BY <3>1, <3>2 DEF Importing, Staged, Logging, Stores, Operation
  <2>2. pending' = pending /\ disk'.records = disk.records
    BY <1>26, DoomSets
  <2> QED
    BY <2>1, <2>2 DEF ImportStays, ImportChanges
<1>27. ASSUME NEW t \in tasks, Deleted(t) PROVE  ImportChanges
  <2>1. \A u \in tasks' : Importing(u) => u \in tasks
    <3> SUFFICES ASSUME NEW u \in tasks', u \notin tasks, Importing(u) PROVE FALSE
      OBVIOUS
    <3>0. Turns(t, "log", t.keys, t.got, made.events + 1, t.ints)
      BY <1>27, DeletedSets
    <3>1. /\ u.op = t.op /\ u.who = t.who /\ u.at = ("log") /\ u.keys = t.keys
          /\ u.got = t.got /\ u.number = made.events + 1 /\ u.ints = t.ints
      BY <3>0 DEF Turns
    <3>2. t.at = "doomed" /\ t.op \in Operation /\ Staged(t)
      BY <1>27, DeletedSets DEF AllStaged, TasksTyped, TaskType
    <3> QED
      BY <3>1, <3>2 DEF Importing, Staged, Logging, Stores, Operation
  <2>2. pending' = pending /\ disk'.records = disk.records
    BY <1>27, DeletedSets
  <2> QED
    BY <2>1, <2>2 DEF ImportStays, ImportChanges
<1>28. ASSUME NEW t \in tasks, getAttachmentBlob(t) PROVE  ImportChanges
  <2>1. \A u \in tasks' : Importing(u) => u \in tasks
    <3> SUFFICES ASSUME NEW u \in tasks', u \notin tasks, Importing(u) PROVE FALSE
      OBVIOUS
    <3>0. Drop(t) \/ Turns(t, "decrypt", t.keys, t.got, t.number, t.ints)
      BY <1>28, BlobSets
    <3>1. /\ u.op = t.op /\ u.who = t.who /\ u.at = ("decrypt") /\ u.keys = t.keys
          /\ u.got = t.got /\ u.number = t.number /\ u.ints = t.ints
      BY <3>0 DEF Turns, Drop
    <3>2. t.at = "read" /\ t.op \in Operation /\ Staged(t)
      BY <1>28, BlobSets DEF AllStaged, TasksTyped, TaskType
    <3> QED
      BY <3>1, <3>2 DEF Importing, Staged, Logging, Stores, Operation
  <2>2. pending' = pending /\ disk'.records = disk.records
    BY <1>28, BlobSets
  <2> QED
    BY <2>1, <2>2 DEF ImportStays, ImportChanges
<1>29. ASSUME NEW t \in tasks, Decrypted(t) PROVE  ImportChanges
  <2>1. \A u \in tasks' : Importing(u) => u \in tasks
    BY <1>29, DecryptedSets DEF Drop
  <2>2. pending' = pending /\ disk'.records = disk.records
    BY <1>29, DecryptedSets
  <2> QED
    BY <2>1, <2>2 DEF ImportStays, ImportChanges
<1>30. ASSUME NEW t \in tasks, loadAllData(t) PROVE  ImportChanges
  <2>1. \A u \in tasks' : Importing(u) => u \in tasks
    <3> SUFFICES ASSUME NEW u \in tasks', u \notin tasks, Importing(u) PROVE FALSE
      OBVIOUS
    <3>1. /\ u.op = "open" /\ u.at = "read" /\ u.keys = {} /\ u.got = {} /\ u.who = {}
          /\ u.number = chat.round + 1 /\ \E a \in Attachment : u.ints = {a}
      BY <1>30, LoadSets DEF Drop, Asks
    <3> QED
      BY <3>1 DEF Importing, Staged, Logging, Stores, Operation
  <2>2. pending' = pending /\ disk'.records = disk.records
    BY <1>30, LoadSets
  <2> QED
    BY <2>1, <2>2 DEF ImportStays, ImportChanges
<1>31. ASSUME NEW t \in tasks, Throws(t) PROVE  ImportChanges
  <2>1. \A u \in tasks' : Importing(u) => u \in tasks
    BY <1>31, ThrowsSets DEF Drop
  <2>2. pending' = pending /\ disk'.records = disk.records
    BY <1>31, ThrowsSets
  <2> QED
    BY <2>1, <2>2 DEF ImportStays, ImportChanges
<1>32. ASSUME NEW t \in tasks, NEW r \in t.keys, GetRecord(t, r) PROVE  ImportChanges
  <2>1. \A u \in tasks' : Importing(u) => u \in tasks
    <3>1. \A at, keys, got, number, ints : Turns(t, at, keys, got, number, ints)
            => \A u \in tasks' : u \in tasks \/ u.op = t.op
      BY DEF Turns
    <3> QED BY <1>32, <3>1, GetSets DEF Importing
  <2>2. pending' = pending /\ disk'.records = disk.records
    BY <1>32, GetSets
  <2> QED
    BY <2>1, <2>2 DEF ImportStays, ImportChanges
<1>33. ASSUME NEW t \in tasks, NEW r \in t.keys, Restore(t, r) PROVE  ImportChanges
  BY <1>33 DEF ImportChanges
<1>34. ASSUME NEW t \in tasks, NEW r \in t.keys, deleteMessage(t, r) PROVE  ImportChanges
  <2>1. \A u \in tasks' : Importing(u) => u \in tasks
    <3> SUFFICES ASSUME NEW u \in tasks', u \notin tasks, Importing(u) PROVE FALSE
      OBVIOUS
    <3>0. Turns(t, "doomed", t.keys \ {r}, t.got, t.number, t.ints)
      BY <1>34, DeleteMessageSets
    <3>1. /\ u.op = t.op /\ u.who = t.who /\ u.at = ("doomed") /\ u.keys = t.keys \ {r}
          /\ u.got = t.got /\ u.number = t.number /\ u.ints = t.ints
      BY <3>0 DEF Turns
    <3>2. t.at = "doomed" /\ t.op \in Operation /\ Staged(t)
      BY <1>34, DeleteMessageSets DEF AllStaged, TasksTyped, TaskType
    <3> QED
      BY <3>1, <3>2 DEF Importing, Staged, Logging, Stores, Operation
  <2>2. t.at = "doomed" /\ t.op \in Operation /\ Staged(t)
    BY <1>34, DeleteMessageSets DEF AllStaged, TasksTyped, TaskType
  <2>3. Erasing
    BY <2>2 DEF Staged, Logging, Operation, Erasing
  <2>4. pending' = pending /\ disk'.records \subseteq disk.records
    BY <1>34, DeleteMessageSets DEF DiskIs
  <2> QED
    BY <2>1, <2>3, <2>4 DEF ImportStays, ImportChanges
<1>35. ASSUME NEW t \in tasks, findConvo(t) PROVE  ImportChanges
  <2>1. \A u \in tasks' : Importing(u) => u \in tasks
    <3> SUFFICES ASSUME NEW u \in tasks', u \notin tasks, Importing(u) PROVE FALSE
      OBVIOUS
    <3>1. t.at = "identity" /\ (Turns(t, "convo", t.keys, t.got, t.number, t.ints) \/ Drop(t))
      BY <1>35, FindConvoSets
    <3>2. u.at = "convo"
      BY <3>1 DEF Turns, Drop
    <3> QED
      BY <3>2 DEF Importing, Staged, Logging, Stores, Operation
  <2>2. pending' = pending /\ disk'.records = disk.records
    BY <1>35, FindConvoSets
  <2> QED
    BY <2>1, <2>2 DEF ImportStays, ImportChanges
<1>36. ASSUME NEW t \in tasks, Finish(t) PROVE  ImportChanges
  <2>1. \A u \in tasks' : Importing(u) => u \in tasks
    BY <1>36, FinishSets DEF Drop
  <2>2. pending' = pending /\ disk'.records = disk.records
    BY <1>36, FinishSets
  <2> QED
    BY <2>1, <2>2 DEF ImportStays, ImportChanges
<1> QED
  BY <1>1, <1>2, <1>3, <1>5, <1>6, <1>7, <1>8, <1>9, <1>10, <1>11, <1>12, <1>13, <1>14, <1>15, <1>16, <1>17, <1>18, <1>19, <1>20, <1>21, <1>22, <1>23, <1>24, <1>25, <1>26, <1>27, <1>28, <1>29, <1>30, <1>31, <1>32, <1>33, <1>34, <1>35, <1>36 DEF Next, Step

(* Every step keeps what an import finds its own.                           *)
LEMMA ImportKeptKept ==
    ASSUME StoredTyped, TasksTyped, AllStaged, OnlyOne, amiss \subseteq amiss', ImportKept,
           [Next]_vars
    PROVE  ImportKept'
<1>0. Running("import") /\ "amid" \notin amiss' /\ ~Erasing => ~Erasing'
  BY DeletersAreOld DEF DeletersStay, Erasing
<1>1. CASE ImportStays
  <2> SUFFICES ASSUME NEW u \in tasks', Importing(u) PROVE Imported(u)'
    BY DEF ImportKept, Importing
  <2>1. u \in tasks /\ Imported(u) /\ Running("import")
    BY <1>1 DEF ImportStays, ImportKept, Running, Importing
  <2>2. ASSUME "amid" \notin amiss', "straggler" \notin amiss'
        PROVE  pending' = {} /\ disk'.records \subseteq u.got
    BY <1>1, <2>1, <2>2 DEF ImportStays, Imported
  <2>3. ASSUME "amid" \notin amiss'
        PROVE  ~Erasing' /\ (u.at = "restore" => u.got \ u.keys \subseteq disk'.records)
    BY <1>0, <1>1, <2>1, <2>3 DEF ImportStays, Imported
  <2> QED BY <2>1, <2>2, <2>3 DEF Imported
<1>2. ASSUME NEW t \in tasks, deleteDatabase(t) PROVE ImportKept'
  <2>1. t.at = "wipe" /\ t.op \in Operation /\ Staged(t)
    BY <1>2, WipeSets DEF AllStaged, TasksTyped, TaskType
  <2>2. t.op = "import"
    BY <2>1 DEF Staged, Logging, Operation
  <2>3. PICK u : tasks' = (tasks \ {t}) \cup {u} /\ u.op = t.op /\ u.at = "init"
    BY <1>2, WipeSets DEF Turns
  <2>4. \A x \in tasks' : Importing(x) => x = u
    BY <2>2, <2>3 DEF OnlyOne, Importing
  <2>5. /\ disk'.records = {} /\ pending' = pending
        /\ pending # {} => "straggler" \in amiss'
        /\ Erasing => "amid" \in amiss'
    BY <1>2, WipeSets DEF Erasing, Deletion
  <2>6. Running("import")
    BY <2>2 DEF Running
  <2>7. Imported(u)'
    BY <1>0, <2>3, <2>5, <2>6 DEF Imported
  <2> QED BY <2>4, <2>7 DEF ImportKept, Importing
<1>3. ASSUME NEW t \in tasks, initStorage(t) PROVE ImportKept'
  <2>1. t.at = "init" /\ t.op \in Operation /\ Staged(t)
    BY <1>3, InitSets DEF AllStaged, TasksTyped, TaskType
  <2>2. t.op = "import"
    BY <2>1 DEF Staged, Logging, Operation
  <2>3. PICK u : /\ tasks' = (tasks \ {t}) \cup {u} /\ u.op = t.op /\ u.at = "restore"
                 /\ u.keys = t.got /\ u.got = t.got
    BY <1>3, InitSets DEF Turns
  <2>4. \A x \in tasks' : Importing(x) => x = u
    BY <2>2, <2>3 DEF OnlyOne, Importing
  <2>5. disk' = [records |-> disk.records, blobs |-> disk.blobs, log |-> disk.log, vault |-> TRUE]
    BY <1>3, InitSets
  <2>6. disk'.records = disk.records /\ pending' = pending /\ amiss' = amiss
    BY <1>3, <2>5, InitSets
  <2>7. Imported(t) /\ Running("import")
    BY <2>1, <2>2 DEF ImportKept, Importing, Running
  <2>8. Imported(u)'
    BY <1>0, <2>3, <2>6, <2>7 DEF Imported
  <2> QED BY <2>4, <2>8 DEF ImportKept, Importing
<1>4. ASSUME NEW t \in tasks, NEW r \in t.keys, Restore(t, r) PROVE ImportKept'
  <2>1. t.at = "restore" /\ t.op \in Operation /\ Staged(t)
    BY <1>4, RestoreSets DEF AllStaged, TasksTyped, TaskType
  <2>2. t.op = "import"
    BY <2>1 DEF Staged, Logging, Operation
  <2>3. PICK u : /\ tasks' = (tasks \ {t}) \cup {u} /\ u.op = t.op /\ u.at = "restore"
                 /\ u.keys = t.keys \ {r} /\ u.got = t.got
    <3>1. Turns(t, "restore", t.keys \ {r}, t.got, t.number, t.ints)
      BY <1>4, RestoreSets
    <3> QED BY <3>1 DEF Turns
  <2>4. \A x \in tasks' : Importing(x) => x = u
    BY <2>2, <2>3 DEF OnlyOne, Importing
  <2>5. disk'.records = disk.records \cup {r} /\ pending' = pending
    BY <1>4, RestoreSets DEF DiskIs
  <2>6. Imported(t) /\ Running("import")
    BY <2>1, <2>2 DEF ImportKept, Importing, Running
  <2>7. r \in t.got
    BY <2>1, <2>6 DEF Imported
  <2>8. Imported(u)'
    BY <1>0, <2>1, <2>3, <2>5, <2>6, <2>7 DEF Imported
  <2> QED BY <2>4, <2>8 DEF ImportKept, Importing
<1> QED BY <1>1, <1>2, <1>3, <1>4, ImportStaysOrChanges DEF ImportChanges

(* What it says of an import whose last record is restored.                 *)
LEMMA ImportsReplace ==
    ASSUME ImportKept
    PROVE  ImportReplaces
<1> SUFFICES ASSUME NEW t \in tasks, t.op = "import", t.at = "restore", t.keys = {}
             PROVE  /\ Only(Ways \ {"amid", "resurrected"}) => t.got \subseteq disk.records
                    /\ Only(Ways \ {"amid", "straggler"}) => disk.records \subseteq t.got
  BY DEF ImportReplaces
<1>1. Imported(t)
  BY DEF ImportKept, Importing
<1>2. Only(Ways \ {"amid", "resurrected"}) => "amid" \notin amiss
  BY DEF Only
<1>3. Only(Ways \ {"amid", "straggler"}) => "amid" \notin amiss /\ "straggler" \notin amiss
  BY DEF Only
<1> QED BY <1>1, <1>2, <1>3 DEF Imported

(* What was not done to the records where they are whole, files included.   *)
Quietly ==
    /\ "amid" \notin amiss /\ "torn" \notin amiss /\ "straggler" \notin amiss
    /\ "resurrected" \notin amiss /\ "thrown" \notin amiss /\ "astray" \notin amiss
    /\ "cut" \notin amiss

(* A record on disk, or on its way, has what it needs there too, but for    *)
(* those of a contact that is being deleted.                                *)
Fits(r) == Needs(r) \subseteq disk.records \cup pending \/ Deleting(Owner(r))
RecordsFit == \A r \in disk.records \cup pending : Fits(r)

(* The files are whole, and so is what an import holds.                     *)
FilesWhole ==
    /\ \A f \in files : Whole(f)
    /\ \A t \in tasks : t.op = "import" => Whole(t.got)

(* What a deletion has deleted stays deleted; a cleared conversation's      *)
(* contact is not.                                                          *)
Finished(t) == Logging(t) \/ t.at = "set"
Cleared(t, c) ==
    /\ About(c, pending) = {}
    /\ t.op = "delete" /\ t.at # "contact" => <<"contacts", c>> \notin disk.records
    /\ t.at \notin {"contact", "identity", "convo"} => <<"conversations", c>> \notin disk.records
    /\ t.at = "doomed" => Of("messages", About(c, disk.records)) \subseteq t.keys
    /\ Finished(t) => Of("messages", About(c, disk.records)) = {}
DeletersClean ==
    \A t \in tasks : t.op \in {"delete", "clear"} => \A c \in t.who : Cleared(t, c)

(* How a step leaves the files, and what imports hold, as they are.         *)
FilesStay ==
    /\ files' = files
    /\ \A u \in tasks' : u.op = "import" =>
         u \in tasks \/ u.got = {} \/ \E t \in tasks : t.op = "import" /\ u.got = t.got
FilesChange ==
    \/ FilesStay \/ (\E f \in files : inAppImport(f)) \/ \E t \in tasks : createBackupFile(t)

(* Only an import that starts and an export that ends change them.          *)
LEMMA FilesStayOrChange ==
    ASSUME StoredTyped, TasksTyped, AllStaged, [Next]_vars
    PROVE  FilesChange
<1>1. CASE UNCHANGED vars
  BY <1>1 DEF vars, FilesStay, FilesChange
<1>2. ASSUME NEW m \in Message, onSecure(m) \/ onIncoming(m) PROVE  FilesChange
  BY <1>2, MessageSets DEF FilesStay, FilesChange
<1>3. ASSUME NEW c \in Contact, deleteContact(c) \/ clearConversation(c) PROVE  FilesChange
  <2>0. \/ Begins("delete", "contact", mem.records, made.ops, {}, {c})
        \/ Begins("clear", "convo", mem.records, made.ops, {}, {c})
    BY <1>3, DeleteSets
  <2>1. \A u \in tasks' : u \in tasks \/ u.op # "import"
    BY <2>0 DEF Begins
  <2>2. UNCHANGED files
    BY <1>3, DeleteSets
  <2> QED BY <2>1, <2>2 DEF FilesStay, FilesChange
<1>5. ASSUME NEW r \in pending, Lands(r) PROVE  FilesChange
  BY <1>5, LandsSets DEF FilesStay, FilesChange
<1>6. ASSUME NEW f \in files, inAppImport(f) PROVE  FilesChange
  BY <1>6 DEF FilesChange
<1>7. CASE exportBackup
  <2>1. \A u \in tasks' : u \in tasks \/ u.op # "import"
    BY <1>7, ExportSets DEF Begins
  <2>2. UNCHANGED files
    BY <1>7, ExportSets
  <2> QED BY <2>1, <2>2 DEF FilesStay, FilesChange
<1>8. CASE appendSecurityEvent
  <2>1. \A u \in tasks' : u \in tasks \/ u.op # "import"
    BY <1>8, AppendSets DEF Begins
  <2>2. UNCHANGED files
    BY <1>8, AppendSets
  <2> QED BY <2>1, <2>2 DEF FilesStay, FilesChange
<1>9. CASE OpenChat
  <2>1. \A u \in tasks' : u \in tasks \/ u.op # "import"
    BY <1>9, OpenSets DEF Asks
  <2>2. UNCHANGED files
    BY <1>9, OpenSets
  <2> QED BY <2>1, <2>2 DEF FilesStay, FilesChange
<1>10. CASE CloseChat
  BY <1>10, CloseSets DEF FilesStay, FilesChange
<1>11. CASE lockVault
  <2>1. \A u \in tasks' : u \in tasks \/ u.op # "import"
    BY <1>11, LockSets DEF Begins
  <2>2. UNCHANGED files
    BY <1>11, LockSets
  <2> QED BY <2>1, <2>2 DEF FilesStay, FilesChange
<1>12. CASE unlockVault
  <2>1. \A u \in tasks' : u \in tasks \/ u.op # "import"
    BY <1>12, UnlockSets DEF Begins
  <2>2. UNCHANGED files
    BY <1>12, UnlockSets
  <2> QED BY <2>1, <2>2 DEF FilesStay, FilesChange
<1>13. CASE Reload
  BY <1>13, ReloadSets DEF FilesStay, FilesChange
<1>14. ASSUME NEW t \in tasks, putEvent(t) PROVE  FilesChange
  <2>1. \A u \in tasks' : u \in tasks \/ (u.op = t.op /\ u.got = t.got)
    <3>1. \A at, keys, got, number, ints : Turns(t, at, keys, got, number, ints)
            => \A u \in tasks' : u \in tasks \/ (u.op = t.op /\ u.got = got)
      BY DEF Turns
    <3> QED BY <1>14, <3>1, PutSets
  <2>2. UNCHANGED files
    BY <1>14, PutSets
  <2> QED BY <2>1, <2>2 DEF FilesStay, FilesChange
<1>15. ASSUME NEW t \in tasks, ListLog(t) PROVE  FilesChange
  <2>1. \A u \in tasks' : u \in tasks \/ (u.op = t.op /\ u.got = t.got)
    <3>1. \A at, keys, got, number, ints : Turns(t, at, keys, got, number, ints)
            => \A u \in tasks' : u \in tasks \/ (u.op = t.op /\ u.got = got)
      BY DEF Turns
    <3> QED BY <1>15, <3>1, ListLogSets DEF LogOver, Drop
  <2>2. UNCHANGED files
    BY <1>15, ListLogSets
  <2> QED BY <2>1, <2>2 DEF FilesStay, FilesChange
<1>16. ASSUME NEW t \in tasks, TrimLog(t) PROVE  FilesChange
  <2>1. \A u \in tasks' : u \in tasks \/ (u.op = t.op /\ u.got = t.got)
    <3>1. \A at, keys, got, number, ints : Turns(t, at, keys, got, number, ints)
            => \A u \in tasks' : u \in tasks \/ (u.op = t.op /\ u.got = got)
      BY DEF Turns
    <3>2. LogOver(t) \/ \E ints : Turns(t, "trim", t.keys, t.got, t.number, ints)
      BY <1>16, TrimSets
    <3> QED BY <3>1, <3>2 DEF LogOver, Drop
  <2>2. UNCHANGED files
    BY <1>16, TrimSets
  <2> QED BY <2>1, <2>2 DEF FilesStay, FilesChange
<1>17. ASSUME NEW t \in tasks, ListKeys(t) PROVE  FilesChange
  <2>1. \A u \in tasks' : u \in tasks \/ (u.op = t.op /\ u.got = t.got)
    <3>1. \A at, keys, got, number, ints : Turns(t, at, keys, got, number, ints)
            => \A u \in tasks' : u \in tasks \/ (u.op = t.op /\ u.got = got)
      BY DEF Turns
    <3> QED BY <1>17, <3>1, ListKeysSets
  <2>2. UNCHANGED files
    BY <1>17, ListKeysSets
  <2> QED BY <2>1, <2>2 DEF FilesStay, FilesChange
<1>18. ASSUME NEW t \in tasks, createBackupFile(t) PROVE  FilesChange
  BY <1>18 DEF FilesChange
<1>19. ASSUME NEW t \in tasks, openBackupFile(t) PROVE  FilesChange
  <2>1. \A u \in tasks' : u \in tasks \/ (u.op = t.op /\ u.got = t.got)
    <3>1. \A at, keys, got, number, ints : Turns(t, at, keys, got, number, ints)
            => \A u \in tasks' : u \in tasks \/ (u.op = t.op /\ u.got = got)
      BY DEF Turns
    <3> QED BY <1>19, <3>1, OpenFileSets DEF Drop
  <2>2. UNCHANGED files
    BY <1>19, OpenFileSets
  <2> QED BY <2>1, <2>2 DEF FilesStay, FilesChange
<1>20. ASSUME NEW t \in tasks, dropStorage(t) PROVE  FilesChange
  <2>1. \A u \in tasks' : u \in tasks \/ (u.op = t.op /\ u.got = t.got)
    <3>1. \A at, keys, got, number, ints : Turns(t, at, keys, got, number, ints)
            => \A u \in tasks' : u \in tasks \/ (u.op = t.op /\ u.got = got)
      BY DEF Turns
    <3> QED BY <1>20, <3>1, DropStorageSets
  <2>2. UNCHANGED files
    BY <1>20, DropStorageSets
  <2> QED BY <2>1, <2>2 DEF FilesStay, FilesChange
<1>21. ASSUME NEW t \in tasks, deleteDatabase(t) PROVE  FilesChange
  <2>1. \A u \in tasks' : u \in tasks \/ (u.op = t.op /\ u.got = t.got)
    <3>1. \A at, keys, got, number, ints : Turns(t, at, keys, got, number, ints)
            => \A u \in tasks' : u \in tasks \/ (u.op = t.op /\ u.got = got)
      BY DEF Turns
    <3> QED BY <1>21, <3>1, WipeSets
  <2>2. UNCHANGED files
    BY <1>21, WipeSets
  <2> QED BY <2>1, <2>2 DEF FilesStay, FilesChange
<1>22. ASSUME NEW t \in tasks, initStorage(t) PROVE  FilesChange
  <2>1. \A u \in tasks' : u \in tasks \/ (u.op = t.op /\ u.got = t.got)
    <3>1. \A at, keys, got, number, ints : Turns(t, at, keys, got, number, ints)
            => \A u \in tasks' : u \in tasks \/ (u.op = t.op /\ u.got = got)
      BY DEF Turns
    <3> QED BY <1>22, <3>1, InitSets
  <2>2. UNCHANGED files
    BY <1>22, InitSets
  <2> QED BY <2>1, <2>2 DEF FilesStay, FilesChange
<1>23. ASSUME NEW t \in tasks, RestoreFails(t) PROVE  FilesChange
  BY <1>23, RestoreFailsSets DEF FilesStay, FilesChange, Drop
<1>24. ASSUME NEW t \in tasks, Restored(t) PROVE  FilesChange
  <2>1. \A u \in tasks' : u \in tasks \/ (u.op = t.op /\ u.got = t.got)
    BY <1>24, RestoredSets DEF Turns
  <2>2. UNCHANGED files
    BY <1>24, RestoredSets
  <2> QED BY <2>1, <2>2 DEF FilesStay, FilesChange
<1>25. ASSUME NEW t \in tasks, deleteRecord(t) PROVE  FilesChange
  <2>1. \A u \in tasks' : u \in tasks \/ (u.op = t.op /\ u.got = t.got)
    <3>1. \A at, keys, got, number, ints : Turns(t, at, keys, got, number, ints)
            => \A u \in tasks' : u \in tasks \/ (u.op = t.op /\ u.got = got)
      BY DEF Turns
    <3>2. \/ Turns(t, "identity", t.keys, t.got, t.number, t.ints)
          \/ Turns(t, "list", t.keys, t.got, t.number, t.ints)
      BY <1>25, DeleteRecordSets
    <3> QED BY <3>1, <3>2
  <2>2. UNCHANGED files
    BY <1>25, DeleteRecordSets
  <2> QED BY <2>1, <2>2 DEF FilesStay, FilesChange
<1>26. ASSUME NEW t \in tasks, listMessageKeys(t) PROVE  FilesChange
  <2>1. \A u \in tasks' : u \in tasks \/ (u.op = t.op /\ u.got = t.got)
    <3>1. \A at, keys, got, number, ints : Turns(t, at, keys, got, number, ints)
            => \A u \in tasks' : u \in tasks \/ (u.op = t.op /\ u.got = got)
      BY DEF Turns
    <3> QED BY <1>26, <3>1, DoomSets
  <2>2. UNCHANGED files
    BY <1>26, DoomSets
  <2> QED BY <2>1, <2>2 DEF FilesStay, FilesChange
<1>27. ASSUME NEW t \in tasks, Deleted(t) PROVE  FilesChange
  <2>1. \A u \in tasks' : u \in tasks \/ (u.op = t.op /\ u.got = t.got)
    BY <1>27, DeletedSets DEF Turns
  <2>2. UNCHANGED files
    BY <1>27, DeletedSets
  <2> QED BY <2>1, <2>2 DEF FilesStay, FilesChange
<1>28. ASSUME NEW t \in tasks, getAttachmentBlob(t) PROVE  FilesChange
  <2>1. \A u \in tasks' : u \in tasks \/ (u.op = t.op /\ u.got = t.got)
    <3>1. \A at, keys, got, number, ints : Turns(t, at, keys, got, number, ints)
            => \A u \in tasks' : u \in tasks \/ (u.op = t.op /\ u.got = got)
      BY DEF Turns
    <3> QED BY <1>28, <3>1, BlobSets DEF Drop
  <2>2. UNCHANGED files
    BY <1>28, BlobSets
  <2> QED BY <2>1, <2>2 DEF FilesStay, FilesChange
<1>29. ASSUME NEW t \in tasks, Decrypted(t) PROVE  FilesChange
  BY <1>29, DecryptedSets DEF FilesStay, FilesChange, Drop
<1>30. ASSUME NEW t \in tasks, loadAllData(t) PROVE  FilesChange
  <2>1. \A u \in tasks' : u \in tasks \/ u.op # "import"
    BY <1>30, LoadSets DEF Asks, Drop
  <2>2. UNCHANGED files
    BY <1>30, LoadSets
  <2> QED BY <2>1, <2>2 DEF FilesStay, FilesChange
<1>31. ASSUME NEW t \in tasks, Throws(t) PROVE  FilesChange
  BY <1>31, ThrowsSets DEF FilesStay, FilesChange, Drop
<1>32. ASSUME NEW t \in tasks, NEW r \in t.keys, GetRecord(t, r) PROVE  FilesChange
  <2>1. \A u \in tasks' : u \in tasks \/ u.op = t.op
    <3>1. \A at, keys, got, number, ints : Turns(t, at, keys, got, number, ints)
            => \A u \in tasks' : u \in tasks \/ u.op = t.op
      BY DEF Turns
    <3> QED BY <1>32, <3>1, GetSets
  <2>2. t.op # "import"
    BY <1>32, GetSets
  <2>3. UNCHANGED files
    BY <1>32, GetSets
  <2> QED BY <2>1, <2>2, <2>3 DEF FilesStay, FilesChange
<1>33. ASSUME NEW t \in tasks, NEW r \in t.keys, Restore(t, r) PROVE  FilesChange
  <2>1. \A u \in tasks' : u \in tasks \/ (u.op = t.op /\ u.got = t.got)
    <3>1. \A at, keys, got, number, ints : Turns(t, at, keys, got, number, ints)
            => \A u \in tasks' : u \in tasks \/ (u.op = t.op /\ u.got = got)
      BY DEF Turns
    <3> QED BY <1>33, <3>1, RestoreSets
  <2>2. UNCHANGED files
    BY <1>33, RestoreSets
  <2> QED BY <2>1, <2>2 DEF FilesStay, FilesChange
<1>34. ASSUME NEW t \in tasks, NEW r \in t.keys, deleteMessage(t, r) PROVE  FilesChange
  <2>1. \A u \in tasks' : u \in tasks \/ (u.op = t.op /\ u.got = t.got)
    <3>1. \A at, keys, got, number, ints : Turns(t, at, keys, got, number, ints)
            => \A u \in tasks' : u \in tasks \/ (u.op = t.op /\ u.got = got)
      BY DEF Turns
    <3> QED BY <1>34, <3>1, DeleteMessageSets
  <2>2. UNCHANGED files
    BY <1>34, DeleteMessageSets
  <2> QED BY <2>1, <2>2 DEF FilesStay, FilesChange
<1>35. ASSUME NEW t \in tasks, findConvo(t) PROVE  FilesChange
  <2>1. \A u \in tasks' : u \in tasks \/ (u.op = t.op /\ u.got = t.got)
    BY <1>35, FindConvoSets DEF Turns, Drop
  <2>2. UNCHANGED files
    BY <1>35, FindConvoSets
  <2> QED BY <2>1, <2>2 DEF FilesStay, FilesChange
<1>36. ASSUME NEW t \in tasks, Finish(t) PROVE  FilesChange
  BY <1>36, FinishSets DEF FilesStay, FilesChange, Drop
<1> QED
  BY <1>1, <1>2, <1>3, <1>5, <1>6, <1>7, <1>8, <1>9, <1>10, <1>11, <1>12, <1>13, <1>14, <1>15, <1>16, <1>17, <1>18, <1>19, <1>20, <1>21, <1>22, <1>23, <1>24, <1>25, <1>26, <1>27, <1>28, <1>29, <1>30, <1>31, <1>32, <1>33, <1>34, <1>35, <1>36 DEF Next, Step

(* No record comes to be, on disk or on its way, of a contact that is being *)
(* deleted.                                                                 *)
NothingReturns ==
    \A q : Deleting(Owner(q)) =>
        /\ q \in pending' => q \in pending
        /\ q \in disk'.records => q \in disk.records

(* It is so of every step where nothing is resurrected.                     *)
LEMMA NothingDeletedReturns ==
    ASSUME StoredTyped, TasksTyped, AllStaged, Quietly', [Next]_vars
    PROVE  NothingReturns
<1>1. CASE UNCHANGED vars
  BY <1>1 DEF vars, NothingReturns
<1>2. ASSUME NEW m \in Message, onSecure(m) \/ onIncoming(m) PROVE  NothingReturns
  <2>1. PICK ws \in SUBSET Record :
          /\ \A r \in ws : Owner(r) = ContactOf(m)
          /\ pending' = IF ready THEN pending \cup ws ELSE pending
    BY <1>2, MessageSets
  <2>2. ~Deleting(ContactOf(m)) /\ disk' = disk
    BY <1>2, MessageSets DEF Quietly
  <2> QED BY <2>1, <2>2 DEF NothingReturns
<1>3. ASSUME NEW c \in Contact, deleteContact(c) \/ clearConversation(c) PROVE  NothingReturns
  <2>1. disk'.records \subseteq disk.records /\ pending' \subseteq pending
    BY <1>3, DeleteSets
  <2> QED BY <2>1 DEF NothingReturns
<1>5. ASSUME NEW r \in pending, Lands(r) PROVE  NothingReturns
  <2>1. ~Deleting(Owner(r)) /\ disk'.records = disk.records \cup {r} /\ pending' \subseteq pending
    BY <1>5, LandsSets DEF Quietly, DiskIs
  <2> QED BY <2>1 DEF NothingReturns
<1>6. ASSUME NEW f \in files, inAppImport(f) PROVE  NothingReturns
  <2>1. disk'.records \subseteq disk.records /\ pending' \subseteq pending
    BY <1>6, ImportSets
  <2> QED BY <2>1 DEF NothingReturns
<1>7. CASE exportBackup
  <2>1. disk'.records \subseteq disk.records /\ pending' \subseteq pending
    BY <1>7, ExportSets
  <2> QED BY <2>1 DEF NothingReturns
<1>8. CASE appendSecurityEvent
  <2>1. disk'.records \subseteq disk.records /\ pending' \subseteq pending
    BY <1>8, AppendSets
  <2> QED BY <2>1 DEF NothingReturns
<1>9. CASE OpenChat
  <2>1. disk'.records \subseteq disk.records /\ pending' \subseteq pending
    BY <1>9, OpenSets
  <2> QED BY <2>1 DEF NothingReturns
<1>10. CASE CloseChat
  <2>1. disk'.records \subseteq disk.records /\ pending' \subseteq pending
    BY <1>10, CloseSets
  <2> QED BY <2>1 DEF NothingReturns
<1>11. CASE lockVault
  <2>1. disk'.records \subseteq disk.records /\ pending' \subseteq pending
    BY <1>11, LockSets
  <2> QED BY <2>1 DEF NothingReturns
<1>12. CASE unlockVault
  <2>1. disk'.records \subseteq disk.records /\ pending' \subseteq pending
    BY <1>12, UnlockSets
  <2> QED BY <2>1 DEF NothingReturns
<1>13. CASE Reload
  <2>1. disk'.records \subseteq disk.records /\ pending' \subseteq pending
    BY <1>13, ReloadSets
  <2> QED BY <2>1 DEF NothingReturns
<1>14. ASSUME NEW t \in tasks, putEvent(t) PROVE  NothingReturns
  <2>1. disk'.records \subseteq disk.records /\ pending' \subseteq pending
    BY <1>14, PutSets DEF DiskIs
  <2> QED BY <2>1 DEF NothingReturns
<1>15. ASSUME NEW t \in tasks, ListLog(t) PROVE  NothingReturns
  <2>1. disk'.records \subseteq disk.records /\ pending' \subseteq pending
    BY <1>15, ListLogSets
  <2> QED BY <2>1 DEF NothingReturns
<1>16. ASSUME NEW t \in tasks, TrimLog(t) PROVE  NothingReturns
  <2>1. disk'.records \subseteq disk.records /\ pending' \subseteq pending
    BY <1>16, TrimSets DEF DiskIs
  <2> QED BY <2>1 DEF NothingReturns
<1>17. ASSUME NEW t \in tasks, ListKeys(t) PROVE  NothingReturns
  <2>1. disk'.records \subseteq disk.records /\ pending' \subseteq pending
    BY <1>17, ListKeysSets
  <2> QED BY <2>1 DEF NothingReturns
<1>18. ASSUME NEW t \in tasks, createBackupFile(t) PROVE  NothingReturns
  <2>1. disk'.records \subseteq disk.records /\ pending' \subseteq pending
    BY <1>18, SealSets
  <2> QED BY <2>1 DEF NothingReturns
<1>19. ASSUME NEW t \in tasks, openBackupFile(t) PROVE  NothingReturns
  <2>1. disk'.records \subseteq disk.records /\ pending' \subseteq pending
    BY <1>19, OpenFileSets
  <2> QED BY <2>1 DEF NothingReturns
<1>20. ASSUME NEW t \in tasks, dropStorage(t) PROVE  NothingReturns
  <2>1. disk'.records \subseteq disk.records /\ pending' \subseteq pending
    BY <1>20, DropStorageSets
  <2> QED BY <2>1 DEF NothingReturns
<1>21. ASSUME NEW t \in tasks, deleteDatabase(t) PROVE  NothingReturns
  <2>1. disk'.records \subseteq disk.records /\ pending' \subseteq pending
    BY <1>21, WipeSets
  <2> QED BY <2>1 DEF NothingReturns
<1>22. ASSUME NEW t \in tasks, initStorage(t) PROVE  NothingReturns
  <2>1. disk' = [records |-> disk.records, blobs |-> disk.blobs, log |-> disk.log, vault |-> TRUE]
    BY <1>22, InitSets
  <2>2. disk'.records = disk.records /\ pending' = pending
    BY <1>22, <2>1, InitSets
  <2> QED BY <2>2 DEF NothingReturns
<1>23. ASSUME NEW t \in tasks, RestoreFails(t) PROVE  NothingReturns
  <2>1. disk'.records \subseteq disk.records /\ pending' \subseteq pending
    BY <1>23, RestoreFailsSets
  <2> QED BY <2>1 DEF NothingReturns
<1>24. ASSUME NEW t \in tasks, Restored(t) PROVE  NothingReturns
  <2>1. disk'.records \subseteq disk.records /\ pending' \subseteq pending
    BY <1>24, RestoredSets
  <2> QED BY <2>1 DEF NothingReturns
<1>25. ASSUME NEW t \in tasks, deleteRecord(t) PROVE  NothingReturns
  <2>1. disk'.records \subseteq disk.records /\ pending' \subseteq pending
    BY <1>25, DeleteRecordSets DEF DiskIs
  <2> QED BY <2>1 DEF NothingReturns
<1>26. ASSUME NEW t \in tasks, listMessageKeys(t) PROVE  NothingReturns
  <2>1. disk'.records \subseteq disk.records /\ pending' \subseteq pending
    BY <1>26, DoomSets
  <2> QED BY <2>1 DEF NothingReturns
<1>27. ASSUME NEW t \in tasks, Deleted(t) PROVE  NothingReturns
  <2>1. disk'.records \subseteq disk.records /\ pending' \subseteq pending
    BY <1>27, DeletedSets
  <2> QED BY <2>1 DEF NothingReturns
<1>28. ASSUME NEW t \in tasks, getAttachmentBlob(t) PROVE  NothingReturns
  <2>1. disk'.records \subseteq disk.records /\ pending' \subseteq pending
    BY <1>28, BlobSets
  <2> QED BY <2>1 DEF NothingReturns
<1>29. ASSUME NEW t \in tasks, Decrypted(t) PROVE  NothingReturns
  <2>1. disk'.records \subseteq disk.records /\ pending' \subseteq pending
    BY <1>29, DecryptedSets
  <2> QED BY <2>1 DEF NothingReturns
<1>30. ASSUME NEW t \in tasks, loadAllData(t) PROVE  NothingReturns
  <2>1. disk'.records \subseteq disk.records /\ pending' \subseteq pending
    BY <1>30, LoadSets
  <2> QED BY <2>1 DEF NothingReturns
<1>31. ASSUME NEW t \in tasks, Throws(t) PROVE  NothingReturns
  <2>1. disk'.records \subseteq disk.records /\ pending' \subseteq pending
    BY <1>31, ThrowsSets
  <2> QED BY <2>1 DEF NothingReturns
<1>32. ASSUME NEW t \in tasks, NEW r \in t.keys, GetRecord(t, r) PROVE  NothingReturns
  <2>1. disk'.records \subseteq disk.records /\ pending' \subseteq pending
    BY <1>32, GetSets
  <2> QED BY <2>1 DEF NothingReturns
<1>33. ASSUME NEW t \in tasks, NEW r \in t.keys, Restore(t, r) PROVE  NothingReturns
  <2>1. ~Deleting(Owner(r)) /\ disk'.records = disk.records \cup {r} /\ pending' \subseteq pending
    BY <1>33, RestoreSets DEF Quietly, DiskIs
  <2> QED BY <2>1 DEF NothingReturns
<1>34. ASSUME NEW t \in tasks, NEW r \in t.keys, deleteMessage(t, r) PROVE  NothingReturns
  <2>1. disk'.records \subseteq disk.records /\ pending' \subseteq pending
    BY <1>34, DeleteMessageSets DEF DiskIs
  <2> QED BY <2>1 DEF NothingReturns
<1>35. ASSUME NEW t \in tasks, findConvo(t) PROVE  NothingReturns
  <2>1. disk'.records \subseteq disk.records /\ pending' \subseteq pending
    BY <1>35, FindConvoSets
  <2> QED BY <2>1 DEF NothingReturns
<1>36. ASSUME NEW t \in tasks, Finish(t) PROVE  NothingReturns
  <2>1. disk'.records \subseteq disk.records /\ pending' \subseteq pending
    BY <1>36, FinishSets
  <2> QED BY <2>1 DEF NothingReturns
<1> QED
  BY <1>1, <1>2, <1>3, <1>5, <1>6, <1>7, <1>8, <1>9, <1>10, <1>11, <1>12, <1>13, <1>14, <1>15, <1>16, <1>17, <1>18, <1>19, <1>20, <1>21, <1>22, <1>23, <1>24, <1>25, <1>26, <1>27, <1>28, <1>29, <1>30, <1>31, <1>32, <1>33, <1>34, <1>35, <1>36 DEF Next, Step

(* How a step leaves the deletions where they are, or at their logging.     *)
DeletersGo ==
    \A u \in tasks' : u.op \in {"delete", "clear"} =>
        \/ u \in tasks
        \/ Finished(u) /\ \E t \in tasks : t.op = u.op /\ t.who = u.who /\ Finished(t)
DeletersChange ==
    \/ DeletersGo
    \/ \E c \in Contact : deleteContact(c) \/ clearConversation(c)
    \/ \E t \in tasks : \/ deleteRecord(t) \/ findConvo(t) \/ listMessageKeys(t) \/ Deleted(t)
                        \/ \E r \in t.keys : deleteMessage(t, r)

(* Seven actions move a deletion.                                           *)
LEMMA DeletersGoOrChange ==
    ASSUME StoredTyped, TasksTyped, AllStaged, [Next]_vars
    PROVE  DeletersChange
<1>1. CASE UNCHANGED vars
  BY <1>1 DEF vars, DeletersGo, DeletersChange
<1>2. ASSUME NEW m \in Message, onSecure(m) \/ onIncoming(m) PROVE  DeletersChange
  BY <1>2, MessageSets DEF DeletersGo, DeletersChange
<1>3. ASSUME NEW c \in Contact, deleteContact(c) \/ clearConversation(c) PROVE  DeletersChange
  BY <1>3 DEF DeletersChange
<1>5. ASSUME NEW r \in pending, Lands(r) PROVE  DeletersChange
  BY <1>5, LandsSets DEF DeletersGo, DeletersChange
<1>6. ASSUME NEW f \in files, inAppImport(f) PROVE  DeletersChange
  <2>1. \A u \in tasks' : u \in tasks \/ u.op \notin {"delete", "clear"}
    BY <1>6, ImportSets DEF Begins
  <2> QED BY <2>1 DEF DeletersGo, DeletersChange
<1>7. CASE exportBackup
  <2>1. \A u \in tasks' : u \in tasks \/ u.op \notin {"delete", "clear"}
    BY <1>7, ExportSets DEF Begins
  <2> QED BY <2>1 DEF DeletersGo, DeletersChange
<1>8. CASE appendSecurityEvent
  <2>1. \A u \in tasks' : u \in tasks \/ u.op \notin {"delete", "clear"}
    BY <1>8, AppendSets DEF Begins
  <2> QED BY <2>1 DEF DeletersGo, DeletersChange
<1>9. CASE OpenChat
  <2>1. \A u \in tasks' : u \in tasks \/ u.op \notin {"delete", "clear"}
    BY <1>9, OpenSets DEF Asks
  <2> QED BY <2>1 DEF DeletersGo, DeletersChange
<1>10. CASE CloseChat
  BY <1>10, CloseSets DEF DeletersGo, DeletersChange
<1>11. CASE lockVault
  <2>1. \A u \in tasks' : u \in tasks \/ u.op \notin {"delete", "clear"}
    BY <1>11, LockSets DEF Begins
  <2> QED BY <2>1 DEF DeletersGo, DeletersChange
<1>12. CASE unlockVault
  <2>1. \A u \in tasks' : u \in tasks \/ u.op \notin {"delete", "clear"}
    BY <1>12, UnlockSets DEF Begins
  <2> QED BY <2>1 DEF DeletersGo, DeletersChange
<1>13. CASE Reload
  BY <1>13, ReloadSets DEF DeletersGo, DeletersChange
<1>14. ASSUME NEW t \in tasks, putEvent(t) PROVE  DeletersChange
  <2>1. Finished(t) /\ \A u \in tasks' : u \in tasks \/ u.op = "import" \/ u.op = "unlock" \/ (u.op = t.op /\ u.who = t.who /\ Finished(u))
    <3> SUFFICES ASSUME NEW u \in tasks', u \notin tasks
                 PROVE  u.op = "import" \/ u.op = "unlock" \/ (u.op = t.op /\ u.who = t.who /\ Finished(u))
      BY <1>14, PutSets DEF Finished, Logging
    <3>0. Turns(t, "logged", t.keys, t.got, t.number, t.ints)
      BY <1>14, PutSets
    <3>1. /\ u.op = t.op /\ u.who = t.who /\ u.at = ("logged") /\ u.keys = t.keys
          /\ u.got = t.got /\ u.number = t.number /\ u.ints = t.ints
      BY <3>0 DEF Turns
    <3> QED BY <3>1 DEF Finished, Logging
  <2> QED BY <2>1 DEF DeletersGo, DeletersChange
<1>15. ASSUME NEW t \in tasks, ListLog(t) PROVE  DeletersChange
  <2>1. Finished(t) /\ \A u \in tasks' : u \in tasks \/ u.op = "import" \/ u.op = "unlock" \/ (u.op = t.op /\ u.who = t.who /\ Finished(u))
    <3> SUFFICES ASSUME NEW u \in tasks', u \notin tasks
                 PROVE  u.op = "import" \/ u.op = "unlock" \/ (u.op = t.op /\ u.who = t.who /\ Finished(u))
      BY <1>15, ListLogSets DEF Finished, Logging
    <3>1. /\ u.op = t.op /\ u.who = t.who /\ u.got = t.got /\ u.number = t.number
          /\ \/ u.at = "load" /\ u.ints = {} /\ t.op \in {"import", "unlock"} /\ u.keys = t.keys
             \/ u.at = "set" /\ u.ints = {} /\ t.op \in {"delete", "clear"} /\ u.keys = t.keys
             \/ u.at = "trim" /\ u.ints = Surplus(disk.log) /\ u.ints # {} /\ u.keys = t.keys
      BY <1>15, ListLogSets DEF LogOver, Turns, Drop
    <3> QED BY <3>1 DEF Finished, Logging
  <2> QED BY <2>1 DEF DeletersGo, DeletersChange
<1>16. ASSUME NEW t \in tasks, TrimLog(t) PROVE  DeletersChange
  <2>1. Finished(t) /\ \A u \in tasks' : u \in tasks \/ u.op = "import" \/ u.op = "unlock" \/ (u.op = t.op /\ u.who = t.who /\ Finished(u))
    <3> SUFFICES ASSUME NEW u \in tasks', u \notin tasks
                 PROVE  u.op = "import" \/ u.op = "unlock" \/ (u.op = t.op /\ u.who = t.who /\ Finished(u))
      BY <1>16, TrimSets DEF Finished, Logging
    <3>1. /\ u.op = t.op /\ u.who = t.who /\ u.got = t.got /\ u.number = t.number
          /\ \/ u.at = "load" /\ u.ints = {} /\ t.op \in {"import", "unlock"} /\ u.keys = t.keys
             \/ u.at = "set" /\ u.ints = {} /\ t.op \in {"delete", "clear"} /\ u.keys = t.keys
             \/ u.at = "trim" /\ u.ints # {} /\ u.ints \subseteq t.ints /\ u.keys = t.keys
      BY <1>16, TrimTurns
    <3> QED BY <3>1 DEF Finished, Logging
  <2> QED BY <2>1 DEF DeletersGo, DeletersChange
<1>17. ASSUME NEW t \in tasks, ListKeys(t) PROVE  DeletersChange
  <2>1. \A u \in tasks' : u \in tasks \/ u.op = t.op
    <3>1. \A at, keys, got, number, ints : Turns(t, at, keys, got, number, ints)
            => \A u \in tasks' : u \in tasks \/ u.op = t.op
      BY DEF Turns
    <3> QED BY <1>17, <3>1, ListKeysSets
  <2>2. t.op \notin {"delete", "clear"}
    BY <1>17, ListKeysSets
  <2> QED BY <2>1, <2>2 DEF DeletersGo, DeletersChange
<1>18. ASSUME NEW t \in tasks, createBackupFile(t) PROVE  DeletersChange
  <2>1. \A u \in tasks' : u \in tasks \/ u.op = t.op
    <3>1. \A at, keys, got, number, ints : Turns(t, at, keys, got, number, ints)
            => \A u \in tasks' : u \in tasks \/ u.op = t.op
      BY DEF Turns
    <3> QED BY <1>18, <3>1, SealSets
  <2>2. t.at = "seal" /\ t.op \in Operation /\ Staged(t)
    BY <1>18, SealSets DEF AllStaged, TasksTyped, TaskType
  <2>3. t.op \notin {"delete", "clear"}
    BY <2>2 DEF Staged, Logging, Operation
  <2> QED BY <2>1, <2>3 DEF DeletersGo, DeletersChange
<1>19. ASSUME NEW t \in tasks, openBackupFile(t) PROVE  DeletersChange
  <2>1. \A u \in tasks' : u \in tasks \/ u.op = t.op
    <3>1. \A at, keys, got, number, ints : Turns(t, at, keys, got, number, ints)
            => \A u \in tasks' : u \in tasks \/ u.op = t.op
      BY DEF Turns
    <3> QED BY <1>19, <3>1, OpenFileSets DEF Drop
  <2>2. t.at = "open" /\ t.op \in Operation /\ Staged(t)
    BY <1>19, OpenFileSets DEF AllStaged, TasksTyped, TaskType
  <2>3. t.op \notin {"delete", "clear"}
    BY <2>2 DEF Staged, Logging, Operation
  <2> QED BY <2>1, <2>3 DEF DeletersGo, DeletersChange
<1>20. ASSUME NEW t \in tasks, dropStorage(t) PROVE  DeletersChange
  <2>1. \A u \in tasks' : u \in tasks \/ u.op = t.op
    <3>1. \A at, keys, got, number, ints : Turns(t, at, keys, got, number, ints)
            => \A u \in tasks' : u \in tasks \/ u.op = t.op
      BY DEF Turns
    <3> QED BY <1>20, <3>1, DropStorageSets
  <2>2. t.at = "null" /\ t.op \in Operation /\ Staged(t)
    BY <1>20, DropStorageSets DEF AllStaged, TasksTyped, TaskType
  <2>3. t.op \notin {"delete", "clear"}
    BY <2>2 DEF Staged, Logging, Operation
  <2> QED BY <2>1, <2>3 DEF DeletersGo, DeletersChange
<1>21. ASSUME NEW t \in tasks, deleteDatabase(t) PROVE  DeletersChange
  <2>1. \A u \in tasks' : u \in tasks \/ u.op = t.op
    <3>1. \A at, keys, got, number, ints : Turns(t, at, keys, got, number, ints)
            => \A u \in tasks' : u \in tasks \/ u.op = t.op
      BY DEF Turns
    <3> QED BY <1>21, <3>1, WipeSets
  <2>2. t.at = "wipe" /\ t.op \in Operation /\ Staged(t)
    BY <1>21, WipeSets DEF AllStaged, TasksTyped, TaskType
  <2>3. t.op \notin {"delete", "clear"}
    BY <2>2 DEF Staged, Logging, Operation
  <2> QED BY <2>1, <2>3 DEF DeletersGo, DeletersChange
<1>22. ASSUME NEW t \in tasks, initStorage(t) PROVE  DeletersChange
  <2>1. \A u \in tasks' : u \in tasks \/ u.op = t.op
    <3>1. \A at, keys, got, number, ints : Turns(t, at, keys, got, number, ints)
            => \A u \in tasks' : u \in tasks \/ u.op = t.op
      BY DEF Turns
    <3> QED BY <1>22, <3>1, InitSets
  <2>2. t.at = "init" /\ t.op \in Operation /\ Staged(t)
    BY <1>22, InitSets DEF AllStaged, TasksTyped, TaskType
  <2>3. t.op \notin {"delete", "clear"}
    BY <2>2 DEF Staged, Logging, Operation
  <2> QED BY <2>1, <2>3 DEF DeletersGo, DeletersChange
<1>23. ASSUME NEW t \in tasks, RestoreFails(t) PROVE  DeletersChange
  BY <1>23, RestoreFailsSets DEF DeletersGo, DeletersChange, Drop
<1>24. ASSUME NEW t \in tasks, Restored(t) PROVE  DeletersChange
  <2>1. \A u \in tasks' : u \in tasks \/ u.op = t.op
    <3>1. \A at, keys, got, number, ints : Turns(t, at, keys, got, number, ints)
            => \A u \in tasks' : u \in tasks \/ u.op = t.op
      BY DEF Turns
    <3> QED BY <1>24, <3>1, RestoredSets
  <2>2. t.at = "restore" /\ t.op \in Operation /\ Staged(t)
    BY <1>24, RestoredSets DEF AllStaged, TasksTyped, TaskType
  <2>3. t.op \notin {"delete", "clear"}
    BY <2>2 DEF Staged, Logging, Operation
  <2> QED BY <2>1, <2>3 DEF DeletersGo, DeletersChange
<1>25. ASSUME NEW t \in tasks, deleteRecord(t) PROVE  DeletersChange
  BY <1>25 DEF DeletersChange
<1>26. ASSUME NEW t \in tasks, listMessageKeys(t) PROVE  DeletersChange
  BY <1>26 DEF DeletersChange
<1>27. ASSUME NEW t \in tasks, Deleted(t) PROVE  DeletersChange
  BY <1>27 DEF DeletersChange
<1>28. ASSUME NEW t \in tasks, getAttachmentBlob(t) PROVE  DeletersChange
  <2>1. \A u \in tasks' : u \in tasks \/ u.op = t.op
    <3>1. \A at, keys, got, number, ints : Turns(t, at, keys, got, number, ints)
            => \A u \in tasks' : u \in tasks \/ u.op = t.op
      BY DEF Turns
    <3> QED BY <1>28, <3>1, BlobSets DEF Drop
  <2>2. t.at = "read" /\ t.op \in Operation /\ Staged(t)
    BY <1>28, BlobSets DEF AllStaged, TasksTyped, TaskType
  <2>3. t.op \notin {"delete", "clear"}
    BY <2>2 DEF Staged, Logging, Operation
  <2> QED BY <2>1, <2>3 DEF DeletersGo, DeletersChange
<1>29. ASSUME NEW t \in tasks, Decrypted(t) PROVE  DeletersChange
  BY <1>29, DecryptedSets DEF DeletersGo, DeletersChange, Drop
<1>30. ASSUME NEW t \in tasks, loadAllData(t) PROVE  DeletersChange
  <2>1. \A u \in tasks' : u \in tasks \/ u.op \notin {"delete", "clear"}
    BY <1>30, LoadSets DEF Drop, Asks
  <2> QED BY <2>1 DEF DeletersGo, DeletersChange
<1>31. ASSUME NEW t \in tasks, Throws(t) PROVE  DeletersChange
  BY <1>31, ThrowsSets DEF DeletersGo, DeletersChange, Drop
<1>32. ASSUME NEW t \in tasks, NEW r \in t.keys, GetRecord(t, r) PROVE  DeletersChange
  <2>1. \A u \in tasks' : u \in tasks \/ u.op = t.op
    <3>1. \A at, keys, got, number, ints : Turns(t, at, keys, got, number, ints)
            => \A u \in tasks' : u \in tasks \/ u.op = t.op
      BY DEF Turns
    <3> QED BY <1>32, <3>1, GetSets
  <2>2. t.op \notin {"delete", "clear"}
    BY <1>32, GetSets
  <2> QED BY <2>1, <2>2 DEF DeletersGo, DeletersChange
<1>33. ASSUME NEW t \in tasks, NEW r \in t.keys, Restore(t, r) PROVE  DeletersChange
  <2>1. \A u \in tasks' : u \in tasks \/ u.op = t.op
    <3>1. \A at, keys, got, number, ints : Turns(t, at, keys, got, number, ints)
            => \A u \in tasks' : u \in tasks \/ u.op = t.op
      BY DEF Turns
    <3> QED BY <1>33, <3>1, RestoreSets
  <2>2. t.at = "restore" /\ t.op \in Operation /\ Staged(t)
    BY <1>33, RestoreSets DEF AllStaged, TasksTyped, TaskType
  <2>3. t.op \notin {"delete", "clear"}
    BY <2>2 DEF Staged, Logging, Operation
  <2> QED BY <2>1, <2>3 DEF DeletersGo, DeletersChange
<1>34. ASSUME NEW t \in tasks, NEW r \in t.keys, deleteMessage(t, r) PROVE  DeletersChange
  BY <1>34 DEF DeletersChange
<1>35. ASSUME NEW t \in tasks, findConvo(t) PROVE  DeletersChange
  BY <1>35 DEF DeletersChange
<1>36. ASSUME NEW t \in tasks, Finish(t) PROVE  DeletersChange
  BY <1>36, FinishSets DEF DeletersGo, DeletersChange, Drop
<1> QED
  BY <1>1, <1>2, <1>3, <1>5, <1>6, <1>7, <1>8, <1>9, <1>10, <1>11, <1>12, <1>13, <1>14, <1>15, <1>16, <1>17, <1>18, <1>19, <1>20, <1>21, <1>22, <1>23, <1>24, <1>25, <1>26, <1>27, <1>28, <1>29, <1>30, <1>31, <1>32, <1>33, <1>34, <1>35, <1>36 DEF Next, Step

(* A deletion goes on until it is logged.                                   *)
DeletingStays ==
    \A c : Deleting(c) =>
        \/ Deleting(c)'
        \/ \E t \in tasks : t.op \in {"delete", "clear"} /\ t.who = {c} /\ Finished(t)

(* It is so of every step where nothing is thrown or cut.                   *)
LEMMA DeletingGoesOn ==
    ASSUME StoredTyped, TasksTyped, AllStaged, Quietly', [Next]_vars
    PROVE  DeletingStays
<1>1. CASE UNCHANGED vars
  BY <1>1 DEF vars, Deleting, DeletingStays
<1>2. ASSUME NEW m \in Message, onSecure(m) \/ onIncoming(m) PROVE  DeletingStays
  BY <1>2, MessageSets DEF Deleting, Deletion, Finished, DeletingStays
<1>3. ASSUME NEW c \in Contact, deleteContact(c) \/ clearConversation(c) PROVE  DeletingStays
  <2>0. \/ Begins("delete", "contact", mem.records, made.ops, {}, {c})
        \/ Begins("clear", "convo", mem.records, made.ops, {}, {c})
    BY <1>3, DeleteSets
  <2>1. tasks \subseteq tasks'
    BY <2>0 DEF Begins
  <2> QED BY <2>1 DEF Deleting, Deletion, Finished, DeletingStays
<1>5. ASSUME NEW r \in pending, Lands(r) PROVE  DeletingStays
  BY <1>5, LandsSets DEF Deleting, Deletion, Finished, DeletingStays
<1>6. ASSUME NEW f \in files, inAppImport(f) PROVE  DeletingStays
  <2>1. tasks \subseteq tasks'
    BY <1>6, ImportSets DEF Begins
  <2> QED BY <2>1 DEF Deleting, Deletion, Finished, DeletingStays
<1>7. CASE exportBackup
  <2>1. tasks \subseteq tasks'
    BY <1>7, ExportSets DEF Begins
  <2> QED BY <2>1 DEF Deleting, Deletion, Finished, DeletingStays
<1>8. CASE appendSecurityEvent
  <2>1. tasks \subseteq tasks'
    BY <1>8, AppendSets DEF Begins
  <2> QED BY <2>1 DEF Deleting, Deletion, Finished, DeletingStays
<1>9. CASE OpenChat
  <2>1. tasks \subseteq tasks'
    BY <1>9, OpenSets DEF Asks
  <2> QED BY <2>1 DEF Deleting, Deletion, Finished, DeletingStays
<1>10. CASE CloseChat
  BY <1>10, CloseSets DEF Deleting, Deletion, Finished, DeletingStays
<1>11. CASE lockVault
  <2>1. tasks \subseteq tasks'
    BY <1>11, LockSets DEF Begins
  <2> QED BY <2>1 DEF Deleting, Deletion, Finished, DeletingStays
<1>12. CASE unlockVault
  <2>1. tasks \subseteq tasks'
    BY <1>12, UnlockSets DEF Begins
  <2> QED BY <2>1 DEF Deleting, Deletion, Finished, DeletingStays
<1>13. CASE Reload
  <2>1. \A t \in tasks : t.op = "open"
    BY <1>13, ReloadSets DEF Quietly
  <2> QED BY <2>1 DEF Deleting, Deletion, Finished, DeletingStays
<1>14. ASSUME NEW t \in tasks, putEvent(t) PROVE  DeletingStays
  <2>1. Logging(t)
    BY <1>14, PutSets DEF Logging
  <2>2. tasks \ {t} \subseteq tasks'
    <3>1. \A at, keys, got, number, ints : Turns(t, at, keys, got, number, ints)
            => tasks \ {t} \subseteq tasks'
      BY DEF Turns
    <3> QED BY <1>14, <3>1, PutSets
  <2> QED BY <2>1, <2>2 DEF Deleting, Deletion, Finished, DeletingStays
<1>15. ASSUME NEW t \in tasks, ListLog(t) PROVE  DeletingStays
  <2>1. Logging(t)
    BY <1>15, ListLogSets DEF Logging
  <2>2. tasks \ {t} \subseteq tasks'
    <3>1. \A at, keys, got, number, ints : Turns(t, at, keys, got, number, ints)
            => tasks \ {t} \subseteq tasks'
      BY DEF Turns
    <3> QED BY <1>15, <3>1, ListLogSets DEF LogOver, Drop
  <2> QED BY <2>1, <2>2 DEF Deleting, Deletion, Finished, DeletingStays
<1>16. ASSUME NEW t \in tasks, TrimLog(t) PROVE  DeletingStays
  <2>1. Logging(t)
    BY <1>16, TrimSets DEF Logging
  <2>2. tasks \ {t} \subseteq tasks'
    <3>1. \A at, keys, got, number, ints : Turns(t, at, keys, got, number, ints)
            => tasks \ {t} \subseteq tasks'
      BY DEF Turns
    <3>2. LogOver(t) \/ \E ints : Turns(t, "trim", t.keys, t.got, t.number, ints)
      BY <1>16, TrimSets
    <3> QED BY <3>1, <3>2 DEF LogOver, Drop
  <2> QED BY <2>1, <2>2 DEF Deleting, Deletion, Finished, DeletingStays
<1>17. ASSUME NEW t \in tasks, ListKeys(t) PROVE  DeletingStays
  <2>1. tasks \ {t} \subseteq tasks'
    <3>1. \A at, keys, got, number, ints : Turns(t, at, keys, got, number, ints)
            => tasks \ {t} \subseteq tasks'
      BY DEF Turns
    <3> QED BY <1>17, <3>1, ListKeysSets
  <2>3. t.op \notin {"delete", "clear"}
    BY <1>17, ListKeysSets
  <2> QED BY <2>1, <2>3 DEF Deleting, Deletion, Finished, DeletingStays
<1>18. ASSUME NEW t \in tasks, createBackupFile(t) PROVE  DeletingStays
  <2>1. tasks \ {t} \subseteq tasks'
    <3>1. \A at, keys, got, number, ints : Turns(t, at, keys, got, number, ints)
            => tasks \ {t} \subseteq tasks'
      BY DEF Turns
    <3> QED BY <1>18, <3>1, SealSets
  <2>2. t.at = "seal" /\ t.op \in Operation /\ Staged(t)
    BY <1>18, SealSets DEF AllStaged, TasksTyped, TaskType
  <2>3. t.op \notin {"delete", "clear"}
    BY <2>2 DEF Staged, Logging, Operation
  <2> QED BY <2>1, <2>3 DEF Deleting, Deletion, Finished, DeletingStays
<1>19. ASSUME NEW t \in tasks, openBackupFile(t) PROVE  DeletingStays
  <2>1. tasks \ {t} \subseteq tasks'
    <3>1. \A at, keys, got, number, ints : Turns(t, at, keys, got, number, ints)
            => tasks \ {t} \subseteq tasks'
      BY DEF Turns
    <3> QED BY <1>19, <3>1, OpenFileSets DEF Drop
  <2>2. t.at = "open" /\ t.op \in Operation /\ Staged(t)
    BY <1>19, OpenFileSets DEF AllStaged, TasksTyped, TaskType
  <2>3. t.op \notin {"delete", "clear"}
    BY <2>2 DEF Staged, Logging, Operation
  <2> QED BY <2>1, <2>3 DEF Deleting, Deletion, Finished, DeletingStays
<1>20. ASSUME NEW t \in tasks, dropStorage(t) PROVE  DeletingStays
  <2>1. tasks \ {t} \subseteq tasks'
    <3>1. \A at, keys, got, number, ints : Turns(t, at, keys, got, number, ints)
            => tasks \ {t} \subseteq tasks'
      BY DEF Turns
    <3> QED BY <1>20, <3>1, DropStorageSets
  <2>2. t.at = "null" /\ t.op \in Operation /\ Staged(t)
    BY <1>20, DropStorageSets DEF AllStaged, TasksTyped, TaskType
  <2>3. t.op \notin {"delete", "clear"}
    BY <2>2 DEF Staged, Logging, Operation
  <2> QED BY <2>1, <2>3 DEF Deleting, Deletion, Finished, DeletingStays
<1>21. ASSUME NEW t \in tasks, deleteDatabase(t) PROVE  DeletingStays
  <2>1. tasks \ {t} \subseteq tasks'
    <3>1. \A at, keys, got, number, ints : Turns(t, at, keys, got, number, ints)
            => tasks \ {t} \subseteq tasks'
      BY DEF Turns
    <3> QED BY <1>21, <3>1, WipeSets
  <2>2. t.at = "wipe" /\ t.op \in Operation /\ Staged(t)
    BY <1>21, WipeSets DEF AllStaged, TasksTyped, TaskType
  <2>3. t.op \notin {"delete", "clear"}
    BY <2>2 DEF Staged, Logging, Operation
  <2> QED BY <2>1, <2>3 DEF Deleting, Deletion, Finished, DeletingStays
<1>22. ASSUME NEW t \in tasks, initStorage(t) PROVE  DeletingStays
  <2>1. tasks \ {t} \subseteq tasks'
    <3>1. \A at, keys, got, number, ints : Turns(t, at, keys, got, number, ints)
            => tasks \ {t} \subseteq tasks'
      BY DEF Turns
    <3> QED BY <1>22, <3>1, InitSets
  <2>2. t.at = "init" /\ t.op \in Operation /\ Staged(t)
    BY <1>22, InitSets DEF AllStaged, TasksTyped, TaskType
  <2>3. t.op \notin {"delete", "clear"}
    BY <2>2 DEF Staged, Logging, Operation
  <2> QED BY <2>1, <2>3 DEF Deleting, Deletion, Finished, DeletingStays
<1>23. ASSUME NEW t \in tasks, RestoreFails(t) PROVE  DeletingStays
  <2>1. tasks \ {t} \subseteq tasks'
    BY <1>23, RestoreFailsSets DEF Drop
  <2>2. t.at = "restore" /\ t.op \in Operation /\ Staged(t)
    BY <1>23, RestoreFailsSets DEF AllStaged, TasksTyped, TaskType
  <2>3. t.op \notin {"delete", "clear"}
    BY <2>2 DEF Staged, Logging, Operation
  <2> QED BY <2>1, <2>3 DEF Deleting, Deletion, Finished, DeletingStays
<1>24. ASSUME NEW t \in tasks, Restored(t) PROVE  DeletingStays
  <2>1. tasks \ {t} \subseteq tasks'
    <3>1. \A at, keys, got, number, ints : Turns(t, at, keys, got, number, ints)
            => tasks \ {t} \subseteq tasks'
      BY DEF Turns
    <3> QED BY <1>24, <3>1, RestoredSets
  <2>2. t.at = "restore" /\ t.op \in Operation /\ Staged(t)
    BY <1>24, RestoredSets DEF AllStaged, TasksTyped, TaskType
  <2>3. t.op \notin {"delete", "clear"}
    BY <2>2 DEF Staged, Logging, Operation
  <2> QED BY <2>1, <2>3 DEF Deleting, Deletion, Finished, DeletingStays
<1>25. ASSUME NEW t \in tasks, deleteRecord(t) PROVE  DeletingStays
  <2>1. (\E u \in tasks' : u.op = t.op /\ u.who = t.who) /\ tasks \ {t} \subseteq tasks'
    <3>1. \A at, keys, got, number, ints : Turns(t, at, keys, got, number, ints)
            => (\E u \in tasks' : u.op = t.op /\ u.who = t.who) /\ tasks \ {t} \subseteq tasks'
      BY DEF Turns
    <3>2. \/ Turns(t, "identity", t.keys, t.got, t.number, t.ints)
          \/ Turns(t, "list", t.keys, t.got, t.number, t.ints)
      BY <1>25, DeleteRecordSets
    <3> QED BY <3>1, <3>2
  <2> QED BY <2>1 DEF Deleting, Deletion, Finished, DeletingStays
<1>26. ASSUME NEW t \in tasks, listMessageKeys(t) PROVE  DeletingStays
  <2>1. (\E u \in tasks' : u.op = t.op /\ u.who = t.who) /\ tasks \ {t} \subseteq tasks'
    <3>1. \A at, keys, got, number, ints : Turns(t, at, keys, got, number, ints)
            => (\E u \in tasks' : u.op = t.op /\ u.who = t.who) /\ tasks \ {t} \subseteq tasks'
      BY DEF Turns
    <3> QED BY <1>26, <3>1, DoomSets
  <2> QED BY <2>1 DEF Deleting, Deletion, Finished, DeletingStays
<1>27. ASSUME NEW t \in tasks, Deleted(t) PROVE  DeletingStays
  <2>1. (\E u \in tasks' : u.op = t.op /\ u.who = t.who) /\ tasks \ {t} \subseteq tasks'
    <3>1. \A at, keys, got, number, ints : Turns(t, at, keys, got, number, ints)
            => (\E u \in tasks' : u.op = t.op /\ u.who = t.who) /\ tasks \ {t} \subseteq tasks'
      BY DEF Turns
    <3> QED BY <1>27, <3>1, DeletedSets
  <2> QED BY <2>1 DEF Deleting, Deletion, Finished, DeletingStays
<1>28. ASSUME NEW t \in tasks, getAttachmentBlob(t) PROVE  DeletingStays
  <2>1. tasks \ {t} \subseteq tasks'
    <3>1. \A at, keys, got, number, ints : Turns(t, at, keys, got, number, ints)
            => tasks \ {t} \subseteq tasks'
      BY DEF Turns
    <3> QED BY <1>28, <3>1, BlobSets DEF Drop
  <2>2. t.at = "read" /\ t.op \in Operation /\ Staged(t)
    BY <1>28, BlobSets DEF AllStaged, TasksTyped, TaskType
  <2>3. t.op \notin {"delete", "clear"}
    BY <2>2 DEF Staged, Logging, Operation
  <2> QED BY <2>1, <2>3 DEF Deleting, Deletion, Finished, DeletingStays
<1>29. ASSUME NEW t \in tasks, Decrypted(t) PROVE  DeletingStays
  <2>1. tasks \ {t} \subseteq tasks'
    BY <1>29, DecryptedSets DEF Drop
  <2>2. t.at = "decrypt" /\ t.op \in Operation /\ Staged(t)
    BY <1>29, DecryptedSets DEF AllStaged, TasksTyped, TaskType
  <2>3. t.op \notin {"delete", "clear"}
    BY <2>2 DEF Staged, Logging, Operation
  <2> QED BY <2>1, <2>3 DEF Deleting, Deletion, Finished, DeletingStays
<1>30. ASSUME NEW t \in tasks, loadAllData(t) PROVE  DeletingStays
  <2>1. tasks \ {t} \subseteq tasks'
    BY <1>30, LoadSets DEF Drop, Asks
  <2>2. t.at = "load" /\ t.op \in Operation /\ Staged(t)
    BY <1>30, LoadSets DEF AllStaged, TasksTyped, TaskType
  <2>3. t.op \notin {"delete", "clear"}
    BY <2>2 DEF Staged, Logging, Operation
  <2> QED BY <2>1, <2>3 DEF Deleting, Deletion, Finished, DeletingStays
<1>31. ASSUME NEW t \in tasks, Throws(t) PROVE  DeletingStays
  BY <1>31, ThrowsSets DEF Quietly
<1>32. ASSUME NEW t \in tasks, NEW r \in t.keys, GetRecord(t, r) PROVE  DeletingStays
  <2>1. tasks \ {t} \subseteq tasks'
    <3>1. \A at, keys, got, number, ints : Turns(t, at, keys, got, number, ints)
            => tasks \ {t} \subseteq tasks'
      BY DEF Turns
    <3> QED BY <1>32, <3>1, GetSets
  <2>3. t.op \notin {"delete", "clear"}
    BY <1>32, GetSets
  <2> QED BY <2>1, <2>3 DEF Deleting, Deletion, Finished, DeletingStays
<1>33. ASSUME NEW t \in tasks, NEW r \in t.keys, Restore(t, r) PROVE  DeletingStays
  <2>1. tasks \ {t} \subseteq tasks'
    <3>1. \A at, keys, got, number, ints : Turns(t, at, keys, got, number, ints)
            => tasks \ {t} \subseteq tasks'
      BY DEF Turns
    <3> QED BY <1>33, <3>1, RestoreSets
  <2>2. t.at = "restore" /\ t.op \in Operation /\ Staged(t)
    BY <1>33, RestoreSets DEF AllStaged, TasksTyped, TaskType
  <2>3. t.op \notin {"delete", "clear"}
    BY <2>2 DEF Staged, Logging, Operation
  <2> QED BY <2>1, <2>3 DEF Deleting, Deletion, Finished, DeletingStays
<1>34. ASSUME NEW t \in tasks, NEW r \in t.keys, deleteMessage(t, r) PROVE  DeletingStays
  <2>1. (\E u \in tasks' : u.op = t.op /\ u.who = t.who) /\ tasks \ {t} \subseteq tasks'
    <3>1. \A at, keys, got, number, ints : Turns(t, at, keys, got, number, ints)
            => (\E u \in tasks' : u.op = t.op /\ u.who = t.who) /\ tasks \ {t} \subseteq tasks'
      BY DEF Turns
    <3> QED BY <1>34, <3>1, DeleteMessageSets
  <2> QED BY <2>1 DEF Deleting, Deletion, Finished, DeletingStays
<1>35. ASSUME NEW t \in tasks, findConvo(t) PROVE  DeletingStays
  <2>1. (\E u \in tasks' : u.op = t.op /\ u.who = t.who) /\ tasks \ {t} \subseteq tasks'
    BY <1>35, FindConvoSets DEF Turns, Quietly
  <2> QED BY <2>1 DEF Deleting, Deletion, Finished, DeletingStays
<1>36. ASSUME NEW t \in tasks, Finish(t) PROVE  DeletingStays
  <2>1. t.at = "set" /\ tasks \ {t} \subseteq tasks'
    BY <1>36, FinishSets DEF Drop
  <2> QED BY <2>1 DEF Deleting, Deletion, Finished, DeletingStays
<1> QED
  BY <1>1, <1>2, <1>3, <1>5, <1>6, <1>7, <1>8, <1>9, <1>10, <1>11, <1>12, <1>13, <1>14, <1>15, <1>16, <1>17, <1>18, <1>19, <1>20, <1>21, <1>22, <1>23, <1>24, <1>25, <1>26, <1>27, <1>28, <1>29, <1>30, <1>31, <1>32, <1>33, <1>34, <1>35, <1>36 DEF Next, Step

(* A record that comes to be has what it needs, and one that goes is of a   *)
(* contact that is being deleted; or all are gone.                          *)
RecordsMove ==
    /\ \A r \in disk'.records \cup pending' :
         r \in disk.records \cup pending \/ Needs(r) \subseteq disk'.records \cup pending'
    /\ \/ disk'.records \cup pending' = {}
       \/ \A q \in disk.records \cup pending :
             q \in disk'.records \cup pending' \/ Deleting(Owner(q))'

(* It is so of every step where nothing is amiss with that.                 *)
LEMMA RecordsMoveSo ==
    ASSUME StoredTyped, TasksTyped, AllStaged, ImportKept, FilesWhole, Quietly, Quietly',
           [Next]_vars
    PROVE  RecordsMove
<1>1. CASE UNCHANGED vars
  BY <1>1 DEF vars, RecordsMove
<1>2. ASSUME NEW m \in Message, onSecure(m) \/ onIncoming(m) PROVE  RecordsMove
  <2>1. PICK ws \in SUBSET Record :
          /\ \A r \in ws : Owner(r) = ContactOf(m) /\ (Stray(r, ws) => "astray" \in amiss')
          /\ pending' = IF ready THEN pending \cup ws ELSE pending
    BY <1>2, MessageSets
  <2>2. disk' = disk /\ pending' = pending \cup ws /\ ~Deleting(ContactOf(m))
    BY <1>2, <2>1, MessageSets DEF Quietly
  <2>3. \A r \in ws : Needs(r) \subseteq disk.records \cup pending \cup ws
    BY <2>1, <2>2 DEF Stray, Quietly
  <2> QED BY <2>2, <2>3 DEF RecordsMove
<1>3. ASSUME NEW c \in Contact, deleteContact(c) \/ clearConversation(c) PROVE  RecordsMove
  <2>1. disk'.records = disk.records /\ pending' = pending
    BY <1>3, DeleteSets
  <2> QED BY <2>1 DEF RecordsMove
<1>5. ASSUME NEW r \in pending, Lands(r) PROVE  RecordsMove
  <2>1. disk'.records \cup pending' = disk.records \cup pending
    BY <1>5, LandsSets DEF DiskIs
  <2> QED BY <2>1 DEF RecordsMove
<1>6. ASSUME NEW f \in files, inAppImport(f) PROVE  RecordsMove
  <2>1. disk'.records = disk.records /\ pending' = pending
    BY <1>6, ImportSets
  <2> QED BY <2>1 DEF RecordsMove
<1>7. CASE exportBackup
  <2>1. disk'.records = disk.records /\ pending' = pending
    BY <1>7, ExportSets
  <2> QED BY <2>1 DEF RecordsMove
<1>8. CASE appendSecurityEvent
  <2>1. disk'.records = disk.records /\ pending' = pending
    BY <1>8, AppendSets
  <2> QED BY <2>1 DEF RecordsMove
<1>9. CASE OpenChat
  <2>1. disk'.records = disk.records /\ pending' = pending
    BY <1>9, OpenSets
  <2> QED BY <2>1 DEF RecordsMove
<1>10. CASE CloseChat
  <2>1. disk'.records = disk.records /\ pending' = pending
    BY <1>10, CloseSets
  <2> QED BY <2>1 DEF RecordsMove
<1>11. CASE lockVault
  <2>1. disk'.records = disk.records /\ pending' = pending
    BY <1>11, LockSets
  <2> QED BY <2>1 DEF RecordsMove
<1>12. CASE unlockVault
  <2>1. disk'.records = disk.records /\ pending' = pending
    BY <1>12, UnlockSets
  <2> QED BY <2>1 DEF RecordsMove
<1>13. CASE Reload
  <2>1. pending = {} /\ pending' = {} /\ disk' = disk
    BY <1>13, ReloadSets DEF Quietly
  <2> QED BY <2>1 DEF RecordsMove
<1>14. ASSUME NEW t \in tasks, putEvent(t) PROVE  RecordsMove
  <2>1. disk'.records = disk.records /\ pending' = pending
    BY <1>14, PutSets DEF DiskIs
  <2> QED BY <2>1 DEF RecordsMove
<1>15. ASSUME NEW t \in tasks, ListLog(t) PROVE  RecordsMove
  <2>1. disk'.records = disk.records /\ pending' = pending
    BY <1>15, ListLogSets
  <2> QED BY <2>1 DEF RecordsMove
<1>16. ASSUME NEW t \in tasks, TrimLog(t) PROVE  RecordsMove
  <2>1. disk'.records = disk.records /\ pending' = pending
    BY <1>16, TrimSets DEF DiskIs
  <2> QED BY <2>1 DEF RecordsMove
<1>17. ASSUME NEW t \in tasks, ListKeys(t) PROVE  RecordsMove
  <2>1. disk'.records = disk.records /\ pending' = pending
    BY <1>17, ListKeysSets
  <2> QED BY <2>1 DEF RecordsMove
<1>18. ASSUME NEW t \in tasks, createBackupFile(t) PROVE  RecordsMove
  <2>1. disk'.records = disk.records /\ pending' = pending
    BY <1>18, SealSets
  <2> QED BY <2>1 DEF RecordsMove
<1>19. ASSUME NEW t \in tasks, openBackupFile(t) PROVE  RecordsMove
  <2>1. disk'.records = disk.records /\ pending' = pending
    BY <1>19, OpenFileSets
  <2> QED BY <2>1 DEF RecordsMove
<1>20. ASSUME NEW t \in tasks, dropStorage(t) PROVE  RecordsMove
  <2>1. disk'.records = disk.records /\ pending' = pending
    BY <1>20, DropStorageSets
  <2> QED BY <2>1 DEF RecordsMove
<1>21. ASSUME NEW t \in tasks, deleteDatabase(t) PROVE  RecordsMove
  <2>1. pending = {} /\ pending' = {} /\ disk'.records = {}
    BY <1>21, WipeSets DEF Quietly
  <2> QED BY <2>1 DEF RecordsMove
<1>22. ASSUME NEW t \in tasks, initStorage(t) PROVE  RecordsMove
  <2>1. disk' = [records |-> disk.records, blobs |-> disk.blobs, log |-> disk.log, vault |-> TRUE]
    BY <1>22, InitSets
  <2>2. disk'.records = disk.records /\ pending' = pending
    BY <1>22, <2>1, InitSets
  <2> QED BY <2>2 DEF RecordsMove
<1>23. ASSUME NEW t \in tasks, RestoreFails(t) PROVE  RecordsMove
  <2>1. disk'.records = disk.records /\ pending' = pending
    BY <1>23, RestoreFailsSets
  <2> QED BY <2>1 DEF RecordsMove
<1>24. ASSUME NEW t \in tasks, Restored(t) PROVE  RecordsMove
  <2>1. disk'.records = disk.records /\ pending' = pending
    BY <1>24, RestoredSets
  <2> QED BY <2>1 DEF RecordsMove
<1>25. ASSUME NEW t \in tasks, deleteRecord(t) PROVE  RecordsMove
  <2>1. PICK c \in t.who, s \in {"contacts", "conversations"} :
          disk'.records = disk.records \ {<<s, c>>} /\ t.at \in {"contact", "convo"}
    BY <1>25, DeleteRecordSets DEF DiskIs
  <2>2. t.op \in Operation /\ Staged(t) /\ c \in Contact
    BY <2>1 DEF TasksTyped, TaskType, AllStaged
  <2>0. t.op \in {"delete", "clear"}
    BY <2>1, <2>2 DEF Staged, Logging, Operation
  <2>3. t.who = {c}
    BY <2>0, <2>1, <2>2 DEF Staged
  <2>4. \E u \in tasks' : u.op = t.op /\ u.who = t.who
    <3>1. \A at, keys, got, number, ints : Turns(t, at, keys, got, number, ints)
            => \E u \in tasks' : u.op = t.op /\ u.who = t.who
      BY DEF Turns
    <3>2. \/ Turns(t, "identity", t.keys, t.got, t.number, t.ints)
          \/ Turns(t, "list", t.keys, t.got, t.number, t.ints)
      BY <1>25, DeleteRecordSets
    <3> QED BY <3>1, <3>2
  <2>5. Deleting(c)' /\ Owner(<<s, c>>) = c
    BY <2>0, <2>2, <2>3, <2>4, RecordsOf DEF Deleting, Deletion
  <2>6. pending' = pending
    BY <1>25, DeleteRecordSets
  <2> QED BY <2>1, <2>5, <2>6 DEF RecordsMove
<1>26. ASSUME NEW t \in tasks, listMessageKeys(t) PROVE  RecordsMove
  <2>1. disk'.records = disk.records /\ pending' = pending
    BY <1>26, DoomSets
  <2> QED BY <2>1 DEF RecordsMove
<1>27. ASSUME NEW t \in tasks, Deleted(t) PROVE  RecordsMove
  <2>1. disk'.records = disk.records /\ pending' = pending
    BY <1>27, DeletedSets
  <2> QED BY <2>1 DEF RecordsMove
<1>28. ASSUME NEW t \in tasks, getAttachmentBlob(t) PROVE  RecordsMove
  <2>1. disk'.records = disk.records /\ pending' = pending
    BY <1>28, BlobSets
  <2> QED BY <2>1 DEF RecordsMove
<1>29. ASSUME NEW t \in tasks, Decrypted(t) PROVE  RecordsMove
  <2>1. disk'.records = disk.records /\ pending' = pending
    BY <1>29, DecryptedSets
  <2> QED BY <2>1 DEF RecordsMove
<1>30. ASSUME NEW t \in tasks, loadAllData(t) PROVE  RecordsMove
  <2>1. disk'.records = disk.records /\ pending' = pending
    BY <1>30, LoadSets
  <2> QED BY <2>1 DEF RecordsMove
<1>31. ASSUME NEW t \in tasks, Throws(t) PROVE  RecordsMove
  <2>1. disk'.records = disk.records /\ pending' = pending
    BY <1>31, ThrowsSets
  <2> QED BY <2>1 DEF RecordsMove
<1>32. ASSUME NEW t \in tasks, NEW r \in t.keys, GetRecord(t, r) PROVE  RecordsMove
  <2>1. disk'.records = disk.records /\ pending' = pending
    BY <1>32, GetSets
  <2> QED BY <2>1 DEF RecordsMove
<1>33. ASSUME NEW t \in tasks, NEW r \in t.keys, Restore(t, r) PROVE  RecordsMove
  <2>1. t.at = "restore" /\ Needs(r) \cap t.keys = {} /\ disk'.records = disk.records \cup {r}
        /\ pending' = pending /\ r \in t.keys
    BY <1>33, RestoreSets DEF DiskIs
  <2>2. t.op \in Operation /\ Staged(t)
    BY DEF TasksTyped, TaskType, AllStaged
  <2>3. t.op = "import"
    BY <2>1, <2>2 DEF Staged, Logging, Operation
  <2>4. Imported(t) /\ "amid" \notin amiss
    BY <2>1, <2>3 DEF ImportKept, Importing, Quietly
  <2>5. t.keys \subseteq t.got /\ t.got \ t.keys \subseteq disk.records
    BY <2>1, <2>4 DEF Imported
  <2>6. Needs(r) \subseteq t.got
    BY <2>1, <2>3, <2>5 DEF FilesWhole, Whole
  <2>7. Needs(r) \subseteq disk.records
    BY <2>1, <2>5, <2>6
  <2> QED BY <2>1, <2>7 DEF RecordsMove
<1>34. ASSUME NEW t \in tasks, NEW r \in t.keys, deleteMessage(t, r) PROVE  RecordsMove
  <2>1. t.at = "doomed" /\ disk'.records = disk.records \ {r} /\ pending' = pending
    BY <1>34, DeleteMessageSets DEF DiskIs
  <2>2. t.op \in Operation /\ Staged(t)
    BY DEF TasksTyped, TaskType, AllStaged
  <2>3. t.op \in {"delete", "clear"} /\ Owner(r) \in t.who
    BY <2>1, <2>2 DEF Staged, Logging, Operation
  <2>4. PICK c \in Contact : t.who = {c}
    BY <2>2, <2>3 DEF Staged
  <2>5. \E u \in tasks' : u.op = t.op /\ u.who = t.who
    <3>1. \A at, keys, got, number, ints : Turns(t, at, keys, got, number, ints)
            => \E u \in tasks' : u.op = t.op /\ u.who = t.who
      BY DEF Turns
    <3> QED BY <1>34, <3>1, DeleteMessageSets
  <2>6. Deleting(Owner(r))'
    <3>1. \E u \in tasks' : u.op \in {"delete", "clear"} /\ u.who = {Owner(r)}
      BY <2>3, <2>4, <2>5
    <3> QED BY <3>1 DEF Deleting, Deletion
  <2> QED BY <2>1, <2>6 DEF RecordsMove
<1>35. ASSUME NEW t \in tasks, findConvo(t) PROVE  RecordsMove
  <2>1. disk'.records = disk.records /\ pending' = pending
    BY <1>35, FindConvoSets
  <2> QED BY <2>1 DEF RecordsMove
<1>36. ASSUME NEW t \in tasks, Finish(t) PROVE  RecordsMove
  <2>1. disk'.records = disk.records /\ pending' = pending
    BY <1>36, FinishSets
  <2> QED BY <2>1 DEF RecordsMove
<1> QED
  BY <1>1, <1>2, <1>3, <1>5, <1>6, <1>7, <1>8, <1>9, <1>10, <1>11, <1>12, <1>13, <1>14, <1>15, <1>16, <1>17, <1>18, <1>19, <1>20, <1>21, <1>22, <1>23, <1>24, <1>25, <1>26, <1>27, <1>28, <1>29, <1>30, <1>31, <1>32, <1>33, <1>34, <1>35, <1>36 DEF Next, Step

(* What a record needs is a record of the same contact.                     *)
LEMMA NeedsOwn ==
    ASSUME NEW r \in Record, NEW q \in Needs(r)
    PROVE  q \in Record /\ Owner(q) = Owner(r)
<1>1. Owner(r) \in Contact
  BY RecordFacts
<1>2. q = <<"contacts", Owner(r)>> \/ q = <<"conversations", Owner(r)>>
  BY RecordFacts DEF Needs, Stores
<1> QED BY <1>1, <1>2, RecordsOf

(* The records stay fit.                                                    *)
LEMMA RecordsFitKept ==
    ASSUME StoredTyped, TasksTyped, AllStaged, RecordsFit, DeletersClean, RecordsMove,
           DeletingStays
    PROVE  RecordsFit'
<1> SUFFICES ASSUME NEW r \in disk'.records \cup pending',
                    ~ Needs(r) \subseteq disk'.records \cup pending'
             PROVE  Deleting(Owner(r))'
  BY DEF RecordsFit, Fits
<1>1. r \in disk.records \cup pending
  BY DEF RecordsMove
<1>2. r \in Record
  BY <1>1 DEF StoredTyped
<1>3. CASE Deleting(Owner(r))
  <2>1. ASSUME NEW t \in tasks, t.op \in {"delete", "clear"}, t.who = {Owner(r)}, Finished(t)
        PROVE  FALSE
    <3>1. Cleared(t, Owner(r))
      BY <2>1 DEF DeletersClean
    <3>2. r \notin pending /\ r[1] # "messages"
      BY <1>1, <2>1, <3>1 DEF Cleared, About, Of
    <3>3. r # <<"conversations", Owner(r)>>
      BY <1>1, <2>1, <3>1, <3>2 DEF Cleared, Finished, Logging
    <3>4. r[1] = "contacts"
      BY <1>2, <3>2, <3>3, RecordFacts DEF Stores
    <3>5. Needs(r) = {}
      BY <3>4 DEF Needs
    <3> QED BY <3>5
  <2> QED BY <1>3, <2>1 DEF DeletingStays
<1>4. CASE ~Deleting(Owner(r))
  <2>1. Needs(r) \subseteq disk.records \cup pending
    BY <1>1, <1>4 DEF RecordsFit, Fits
  <2>2. PICK q \in Needs(r) : q \notin disk'.records \cup pending'
    OBVIOUS
  <2>3. Deleting(Owner(q))' /\ Owner(q) = Owner(r)
    BY <1>2, <2>1, <2>2, NeedsOwn DEF RecordsMove
  <2> QED BY <2>3
<1> QED BY <1>3, <1>4

(* The files stay whole: an export that is not torn holds what is on disk.  *)
LEMMA FilesWholeKept ==
    ASSUME StoredTyped, TasksTyped, AllStaged, ExportKept, RecordsFit, FilesWhole, Quietly',
           FilesChange
    PROVE  FilesWhole'
<1>1. Whole({})
  BY DEF Whole
<1>2. CASE FilesStay
  BY <1>1, <1>2 DEF FilesStay, FilesWhole
<1>3. ASSUME NEW f \in files, inAppImport(f) PROVE FilesWhole'
  <2>1. files' = files /\ \A u \in tasks' : u \in tasks \/ u.got = f
    BY <1>3, ImportSets DEF Begins
  <2> QED BY <2>1 DEF FilesWhole
<1>4. ASSUME NEW t \in tasks, createBackupFile(t) PROVE FilesWhole'
  <2>1. /\ t.at = "seal" /\ files' = files \cup {t.got}
        /\ during.always = during.ever /\ pending = {} /\ ~Erasing
        /\ \A u \in tasks' : u \in tasks \/ u.op = t.op
    <3>1. "torn" \notin amiss'
      BY DEF Quietly
    <3>2. during.always = during.ever /\ pending = {} /\ ~\E u \in tasks : u.op \in Deletion
      BY <1>4, <3>1, SealSets
    <3>3. Turns(t, "log", t.keys, t.got, made.events + 1, t.ints)
      BY <1>4, SealSets
    <3>4. \A u \in tasks' : u \in tasks \/ u.op = t.op
      BY <3>3 DEF Turns
    <3>5. t.at = "seal" /\ files' = files \cup {t.got}
      BY <1>4, SealSets
    <3> QED BY <3>2, <3>4, <3>5 DEF Erasing, Deletion
  <2>2. t.op \in Operation /\ Staged(t)
    BY DEF TasksTyped, TaskType, AllStaged
  <2>3. t.op = "export"
    BY <2>1, <2>2 DEF Staged, Logging, Operation
  <2>4. /\ during.always \subseteq t.got /\ t.got \subseteq during.ever
    BY <2>1, <2>3, ExportsAreWhole DEF ExportsAll
  <2>5. during.always \subseteq disk.records /\ disk.records \subseteq during.ever
    BY <2>1, <2>3 DEF ExportKept, Exporting, Exported, Logging
  <2>6. t.got = disk.records
    BY <2>1, <2>4, <2>5
  <2>7. \A c : ~Deleting(c)
    BY <2>1 DEF Erasing, Deleting, Deletion
  <2>8. Whole(t.got)
    BY <2>1, <2>6, <2>7 DEF RecordsFit, Fits, Whole
  <2> QED BY <2>1, <2>3, <2>8 DEF FilesWhole
<1> QED BY <1>2, <1>3, <1>4 DEF FilesChange

(* What one deletion has deleted is not there after another step.           *)
LEMMA ClearedStays ==
    ASSUME StoredTyped, TasksTyped, AllStaged, DeletersClean, NothingReturns,
           NEW u \in tasks, u.op \in {"delete", "clear"}, NEW c \in u.who
    PROVE  /\ Cleared(u, c)' /\ About(c, pending') = {}
           /\ About(c, disk'.records) \subseteq About(c, disk.records)
           /\ c \in Contact /\ u.who = {c}
<1>1. Cleared(u, c)
  BY DEF DeletersClean
<1>2. c \in Contact /\ u.who = {c} /\ Staged(u)
  BY DEF TasksTyped, TaskType, AllStaged, Staged
<1>3. Deleting(c)
  BY <1>2 DEF Deleting, Deletion
<1>4. About(c, disk'.records) \subseteq About(c, disk.records)
      /\ About(c, pending') \subseteq About(c, pending)
  BY <1>3 DEF NothingReturns, About
<1>5. /\ <<"contacts", c>> \in disk'.records => <<"contacts", c>> \in disk.records
      /\ <<"conversations", c>> \in disk'.records => <<"conversations", c>> \in disk.records
  BY <1>2, <1>3, RecordsOf DEF NothingReturns
<1>6. Of("messages", About(c, disk'.records)) \subseteq Of("messages", About(c, disk.records))
  BY <1>4 DEF Of
<1>7. About(c, pending') = {}
  BY <1>1, <1>4 DEF Cleared
<1>8. Cleared(u, c)'
  BY <1>1, <1>4, <1>5, <1>6, <1>7 DEF Cleared, Finished, Logging
<1> QED BY <1>2, <1>4, <1>7, <1>8

(* What a deletion has deleted stays deleted, and it deletes what is left.  *)
LEMMA DeletersCleanKept ==
    ASSUME StoredTyped, TasksTyped, AllStaged, DeletersClean, Quietly', NothingReturns,
           DeletersChange
    PROVE  DeletersClean'
<1> SUFFICES ASSUME NEW u \in tasks', u.op \in {"delete", "clear"}, NEW c \in u.who, u \notin tasks
             PROVE  Cleared(u, c)'
  BY ClearedStays DEF DeletersClean
<1>1. CASE DeletersGo
  <2>1. PICK t \in tasks : t.op = u.op /\ t.who = u.who /\ Finished(t) /\ Finished(u)
    BY <1>1 DEF DeletersGo
  <2>2. Cleared(t, c)' /\ About(c, pending') = {}
    BY <2>1, ClearedStays
  <2> QED BY <2>1, <2>2 DEF Cleared, Finished, Logging
<1>2. ASSUME NEW d \in Contact, deleteContact(d) \/ clearConversation(d) PROVE Cleared(u, c)'
  <2>1. \/ u.op = "delete" /\ u.at = "contact" /\ u.who = {d}
        \/ u.op = "clear" /\ u.at = "convo" /\ u.who = {d}
    <3>1. \/ Begins("delete", "contact", mem.records, made.ops, {}, {d})
          \/ Begins("clear", "convo", mem.records, made.ops, {}, {d})
      BY <1>2, DeleteSets
    <3> QED BY <3>1 DEF Begins
  <2>2. pending' = pending /\ About(d, pending) = {}
    BY <1>2, DeleteSets DEF Quietly
  <2> QED BY <2>1, <2>2 DEF Cleared, Finished, Logging
<1>3. ASSUME NEW t \in tasks, deleteRecord(t) PROVE Cleared(u, c)'
  <2>1. PICK d \in t.who, s \in {"contacts", "conversations"} :
                /\ t.at = (IF s = "contacts" THEN "contact" ELSE "convo")
                /\ disk'.records = disk.records \ {<<s, d>>}
    BY <1>3, DeleteRecordSets DEF DiskIs
  <2>2. u.op = t.op /\ u.who = t.who /\ ((u.at = "identity" /\ t.at = "contact") \/ (u.at = "list" /\ t.at = "convo"))
    <3>1. \A x \in tasks' :
            \/ x \in tasks
            \/ /\ x.op = t.op /\ x.who = t.who /\ x.got = t.got
               /\ x.number = t.number /\ x.keys = t.keys /\ x.ints = t.ints
               /\ \/ x.at = "identity" /\ t.at = "contact"
                  \/ x.at = "list" /\ t.at = "convo"
      BY <1>3, DeleteRecordTurns
    <3> QED BY <3>1
  <2>3. c = d /\ Cleared(t, c) /\ Cleared(t, c)' /\ About(c, pending') = {}
    BY <2>1, <2>2, ClearedStays DEF DeletersClean
  <2>4. CASE s = "contacts"
    <3>1. u.at = "identity" /\ <<"contacts", c>> \notin disk'.records
      BY <2>1, <2>2, <2>3, <2>4
    <3> QED BY <2>3, <3>1 DEF Cleared, Finished, Logging
  <2>5. CASE s = "conversations"
    <3>1. u.at = "list" /\ t.at = "convo" /\ <<"conversations", c>> \notin disk'.records
      BY <2>1, <2>2, <2>3, <2>5
    <3>2. u.op = "delete" => <<"contacts", c>> \notin disk'.records
      BY <2>2, <2>3, <3>1 DEF Cleared
    <3> QED BY <2>3, <3>1, <3>2 DEF Cleared, Finished, Logging
  <2> QED BY <2>4, <2>5
<1>4. ASSUME NEW t \in tasks, listMessageKeys(t) PROVE Cleared(u, c)'
  <2>1. /\ t.at = "list" /\ UNCHANGED disk
        /\ u.op = t.op /\ u.who = t.who /\ u.at = "doomed"
        /\ u.keys = Of("messages", UNION {About(x, disk.records) : x \in t.who})
    BY <1>4, DoomSets DEF Turns
  <2>2. Cleared(t, c) /\ About(c, pending') = {}
    BY <2>1, ClearedStays DEF DeletersClean
  <2>3. Of("messages", About(c, disk.records)) \subseteq u.keys
    BY <2>1 DEF Of
  <2> QED BY <2>1, <2>2, <2>3 DEF Cleared, Finished, Logging
<1>5. ASSUME NEW t \in tasks, Deleted(t) PROVE Cleared(u, c)'
  <2>1. /\ t.at = "doomed" /\ t.keys = {} /\ UNCHANGED disk
        /\ u.op = t.op /\ u.who = t.who /\ u.at = "log"
    BY <1>5, DeletedSets DEF Turns
  <2>2. Cleared(t, c) /\ About(c, pending') = {}
    BY <2>1, ClearedStays DEF DeletersClean
  <2>3. Of("messages", About(c, disk.records)) = {}
    BY <2>1, <2>2 DEF Cleared
  <2> QED BY <2>1, <2>2, <2>3 DEF Cleared, Finished, Logging
<1>6. ASSUME NEW t \in tasks, NEW r \in t.keys, deleteMessage(t, r) PROVE Cleared(u, c)'
  <2>1. t.at = "doomed" /\ disk'.records = disk.records \ {r}
    BY <1>6, DeleteMessageSets DEF DiskIs
  <2>2. u.op = t.op /\ u.who = t.who /\ u.at = "doomed" /\ u.keys = t.keys \ {r}
    <3>1. Turns(t, "doomed", t.keys \ {r}, t.got, t.number, t.ints)
      BY <1>6, DeleteMessageSets
    <3> QED BY <3>1 DEF Turns
  <2>3. Cleared(t, c) /\ About(c, pending') = {}
    BY <2>2, ClearedStays DEF DeletersClean
  <2>4. Of("messages", About(c, disk.records)) \subseteq t.keys
    BY <2>1, <2>3 DEF Cleared
  <2>5. Of("messages", About(c, disk'.records)) \subseteq u.keys
    BY <2>1, <2>2, <2>4 DEF Of, About
  <2> QED BY <2>1, <2>2, <2>3, <2>5 DEF Cleared, Finished, Logging
<1>7. ASSUME NEW t \in tasks, findConvo(t) PROVE Cleared(u, c)'
  <2>1. t.at = "identity" /\ u.op = t.op /\ u.who = t.who /\ u.at = "convo" /\ UNCHANGED disk
    BY <1>7, FindConvoSets DEF Turns, Drop
  <2>2. Cleared(t, c) /\ About(c, pending') = {}
    BY <2>1, ClearedStays DEF DeletersClean
  <2> QED BY <2>1, <2>2 DEF Cleared, Finished, Logging
<1> QED BY <1>1, <1>2, <1>3, <1>4, <1>5, <1>6, <1>7 DEF DeletersChange

(* As long as nothing is amiss with it, all of it stays so.                 *)
WholeKept == Quietly => RecordsFit /\ FilesWhole /\ DeletersClean

(* Every step keeps it so.                                                  *)
LEMMA WholeKeptKept ==
    ASSUME StoredTyped, TasksTyped, AllStaged, ExportKept, ImportKept, amiss \subseteq amiss',
           WholeKept, [Next]_vars
    PROVE  WholeKept'
<1> SUFFICES ASSUME Quietly' PROVE RecordsFit' /\ FilesWhole' /\ DeletersClean'
  BY DEF WholeKept
<1>1. Quietly /\ RecordsFit /\ FilesWhole /\ DeletersClean
  BY DEF Quietly, WholeKept
<1>2. NothingReturns /\ DeletingStays /\ DeletersChange /\ FilesChange
  BY NothingDeletedReturns, DeletingGoesOn, DeletersGoOrChange, FilesStayOrChange
<1>3. RecordsMove
  BY <1>1, RecordsMoveSo
<1>4. RecordsFit'
  BY <1>1, <1>2, <1>3, RecordsFitKept
<1>5. FilesWhole'
  BY <1>1, <1>2, FilesWholeKept
<1>6. DeletersClean'
  BY <1>1, <1>2, DeletersCleanKept
<1> QED BY <1>4, <1>5, <1>6

(* What it says of the records and of the files.                            *)
LEMMA ItIsWhole ==
    ASSUME WaysOK, WholeKept
    PROVE  RecordsWhole
<1>1. Only({"failed", "late", "twice"}) => Quietly
  BY DEF Only, Quietly
<1>2. Only(Ways \ {"torn", "resurrected", "cut", "thrown", "amid", "straggler", "astray"}) => Quietly
  BY DEF Only, Quietly
<1> QED BY <1>1, <1>2 DEF WholeKept, RecordsFit, Fits, FilesWhole, RecordsWhole

(* The messages in a set of records have been made.                         *)
Known(rs) == \A r \in rs : r[1] = "messages" => r[2] \in made.messages

(* So they have wherever records are stored, or kept to be.                 *)
AllKnown ==
    /\ Known(disk.records) /\ Known(pending)
    /\ \A f \in files : Known(f)
    /\ \A t \in tasks : t.op \notin {"delete", "clear"} => Known(t.got)

(* An import that is changing the records below what is shown.              *)
Filling(t) == t.op = "import" /\ (t.at \in {"restore", "load"} \/ Logging(t))
Plain ==
    /\ "failed" \notin amiss /\ "thrown" \notin amiss /\ "early" \notin amiss
    /\ "astray" \notin amiss /\ "stale" \notin amiss

(* Nothing that is on disk, or on its way, and newer than what is shown of  *)
(* a conversation is missing there.                                         *)
Newer(r, q) == q[1] = "messages" /\ r[1] = "messages" /\ Owner(r) = Owner(q) /\ r[2] > q[2]
NewestSeen == \A q \in mem.records, r \in disk.records \cup pending : Newer(r, q) => r \in mem.records
NewestKept == Plain /\ ~mem.locked /\ (\A t \in tasks : ~Filling(t)) => NewestSeen

(* How a step leaves the messages on disk and those shown as they are.      *)
SeenStays ==
    /\ made.messages \subseteq made'.messages
    /\ \A r \in disk'.records \cup pending' :
         r[1] = "messages" => r \in disk.records \cup pending
    /\ ~mem'.locked =>
         /\ ~mem.locked
         /\ \A q \in mem'.records : q[1] = "messages" =>
              /\ q \in mem.records
              /\ \A r \in mem.records :
                   r[1] = "messages" /\ Owner(r) = Owner(q) => r \in mem'.records
SeenChanges ==
    \/ SeenStays
    \/ \E t \in tasks : Finish(t) /\ "stale" \in amiss'
    \/ \E m \in Message : onSecure(m) \/ onIncoming(m)
    \/ \E t \in tasks : loadAllData(t) \/ \E r \in t.keys : Restore(t, r)

(* Five actions change them.                                                *)
LEMMA SeenStaysOrChanges ==
    ASSUME StoredTyped, TasksTyped, AllStaged, [Next]_vars
    PROVE  SeenChanges
<1>1. CASE UNCHANGED vars
  BY <1>1 DEF vars, SeenStays, SeenChanges
<1>2. ASSUME NEW m \in Message, onSecure(m) \/ onIncoming(m) PROVE  SeenChanges
  BY <1>2 DEF SeenChanges
<1>3. ASSUME NEW c \in Contact, deleteContact(c) \/ clearConversation(c) PROVE  SeenChanges
  BY <1>3, DeleteSets DEF SeenStays, SeenChanges, MadeIs
<1>5. ASSUME NEW r \in pending, Lands(r) PROVE  SeenChanges
  BY <1>5, LandsSets DEF SeenStays, SeenChanges, DiskIs
<1>6. ASSUME NEW f \in files, inAppImport(f) PROVE  SeenChanges
  BY <1>6, ImportSets DEF SeenStays, SeenChanges, MadeIs
<1>7. CASE exportBackup
  BY <1>7, ExportSets DEF SeenStays, SeenChanges, MadeIs
<1>8. CASE appendSecurityEvent
  BY <1>8, AppendSets DEF SeenStays, SeenChanges, MadeIs
<1>9. CASE OpenChat
  BY <1>9, OpenSets DEF SeenStays, SeenChanges, MadeIs
<1>10. CASE CloseChat
  BY <1>10, CloseSets DEF SeenStays, SeenChanges
<1>11. CASE lockVault
  BY <1>11, LockSets DEF SeenStays, SeenChanges, MadeIs, MemIs
<1>12. CASE unlockVault
  BY <1>12, UnlockSets DEF SeenStays, SeenChanges, MadeIs
<1>13. CASE Reload
  BY <1>13, ReloadSets DEF SeenStays, SeenChanges, MadeIs, MemIs
<1>14. ASSUME NEW t \in tasks, putEvent(t) PROVE  SeenChanges
  BY <1>14, PutSets DEF SeenStays, SeenChanges, DiskIs
<1>15. ASSUME NEW t \in tasks, ListLog(t) PROVE  SeenChanges
  BY <1>15, ListLogSets DEF SeenStays, SeenChanges
<1>16. ASSUME NEW t \in tasks, TrimLog(t) PROVE  SeenChanges
  BY <1>16, TrimSets DEF SeenStays, SeenChanges, DiskIs
<1>17. ASSUME NEW t \in tasks, ListKeys(t) PROVE  SeenChanges
  BY <1>17, ListKeysSets DEF SeenStays, SeenChanges
<1>18. ASSUME NEW t \in tasks, createBackupFile(t) PROVE  SeenChanges
  BY <1>18, SealSets DEF SeenStays, SeenChanges, MadeIs
<1>19. ASSUME NEW t \in tasks, openBackupFile(t) PROVE  SeenChanges
  BY <1>19, OpenFileSets DEF SeenStays, SeenChanges
<1>20. ASSUME NEW t \in tasks, dropStorage(t) PROVE  SeenChanges
  BY <1>20, DropStorageSets DEF SeenStays, SeenChanges
<1>21. ASSUME NEW t \in tasks, deleteDatabase(t) PROVE  SeenChanges
  BY <1>21, WipeSets DEF SeenStays, SeenChanges
<1>22. ASSUME NEW t \in tasks, initStorage(t) PROVE  SeenChanges
  <2>1. disk' = [records |-> disk.records, blobs |-> disk.blobs, log |-> disk.log, vault |-> TRUE]
    BY <1>22, InitSets
  <2>2. disk'.records = disk.records /\ UNCHANGED <<pending, made, mem>>
    BY <1>22, <2>1, InitSets
  <2> QED BY <2>2 DEF SeenStays, SeenChanges
<1>23. ASSUME NEW t \in tasks, RestoreFails(t) PROVE  SeenChanges
  BY <1>23, RestoreFailsSets DEF SeenStays, SeenChanges
<1>24. ASSUME NEW t \in tasks, Restored(t) PROVE  SeenChanges
  BY <1>24, RestoredSets DEF SeenStays, SeenChanges, MadeIs
<1>25. ASSUME NEW t \in tasks, deleteRecord(t) PROVE  SeenChanges
  <2>1. disk'.records \subseteq disk.records /\ UNCHANGED <<pending, made, mem>>
    BY <1>25, DeleteRecordSets DEF DiskIs
  <2> QED BY <2>1 DEF SeenStays, SeenChanges
<1>26. ASSUME NEW t \in tasks, listMessageKeys(t) PROVE  SeenChanges
  BY <1>26, DoomSets DEF SeenStays, SeenChanges
<1>27. ASSUME NEW t \in tasks, Deleted(t) PROVE  SeenChanges
  BY <1>27, DeletedSets DEF SeenStays, SeenChanges, MadeIs, MemIs
<1>28. ASSUME NEW t \in tasks, getAttachmentBlob(t) PROVE  SeenChanges
  BY <1>28, BlobSets DEF SeenStays, SeenChanges
<1>29. ASSUME NEW t \in tasks, Decrypted(t) PROVE  SeenChanges
  BY <1>29, DecryptedSets DEF SeenStays, SeenChanges
<1>30. ASSUME NEW t \in tasks, loadAllData(t) PROVE  SeenChanges
  BY <1>30 DEF SeenChanges
<1>31. ASSUME NEW t \in tasks, Throws(t) PROVE  SeenChanges
  BY <1>31, ThrowsSets DEF SeenStays, SeenChanges
<1>32. ASSUME NEW t \in tasks, NEW r \in t.keys, GetRecord(t, r) PROVE  SeenChanges
  BY <1>32, GetSets DEF SeenStays, SeenChanges
<1>33. ASSUME NEW t \in tasks, NEW r \in t.keys, Restore(t, r) PROVE  SeenChanges
  BY <1>33 DEF SeenChanges
<1>34. ASSUME NEW t \in tasks, NEW r \in t.keys, deleteMessage(t, r) PROVE  SeenChanges
  BY <1>34, DeleteMessageSets DEF SeenStays, SeenChanges, DiskIs
<1>35. ASSUME NEW t \in tasks, findConvo(t) PROVE  SeenChanges
  BY <1>35, FindConvoSets DEF SeenStays, SeenChanges
<1>36. ASSUME NEW t \in tasks, Finish(t) PROVE  SeenChanges
  <2>1. CASE "stale" \in amiss'
    BY <1>36, <2>1 DEF SeenChanges
  <2>2. CASE "stale" \notin amiss'
    <3>1. mem'.records = PutBack(t, mem.records) /\ mem'.locked = mem.locked
      BY <1>36, <2>2, FinishSets DEF MemIs
    <3>2. UNCHANGED <<disk, pending, made>>
      BY <1>36, FinishSets
    <3>3. ASSUME NEW q \in PutBack(t, mem.records), q[1] = "messages"
          PROVE  q \in mem.records /\ Owner(q) \notin t.who
      BY <3>3 DEF PutBack, Of
    <3>4. ASSUME NEW r \in mem.records, r[1] = "messages", Owner(r) \notin t.who
          PROVE  r \in PutBack(t, mem.records)
      BY <3>4 DEF PutBack, Of
    <3> QED BY <3>1, <3>2, <3>3, <3>4 DEF SeenStays, SeenChanges
  <2> QED BY <2>1, <2>2
<1> QED
  BY <1>1, <1>2, <1>3, <1>5, <1>6, <1>7, <1>8, <1>9, <1>10, <1>11, <1>12, <1>13, <1>14, <1>15, <1>16, <1>17, <1>18, <1>19, <1>20, <1>21, <1>22, <1>23, <1>24, <1>25, <1>26, <1>27, <1>28, <1>29, <1>30, <1>31, <1>32, <1>33, <1>34, <1>35, <1>36 DEF Next, Step

(* What operations hold comes from files and from the disk.                 *)
GotsMove ==
    \A u \in tasks' :
        \/ u \in tasks \/ u.op \in {"delete", "clear"} \/ u.got = {} \/ u.got \in files
        \/ \E t \in tasks : u.op = t.op /\ u.got \subseteq t.got \cup disk.records

(* It is so of every step.                                                  *)
LEMMA GotsMoveSo ==
    ASSUME StoredTyped, TasksTyped, AllStaged, [Next]_vars
    PROVE  GotsMove
<1>1. CASE UNCHANGED vars
  BY <1>1 DEF vars, GotsMove
<1>2. ASSUME NEW m \in Message, onSecure(m) \/ onIncoming(m) PROVE  GotsMove
  BY <1>2, MessageSets DEF GotsMove
<1>3. ASSUME NEW c \in Contact, deleteContact(c) \/ clearConversation(c) PROVE  GotsMove
  <2>1. \A op, at, got, number, ints, who :
          Begins(op, at, got, number, ints, who) /\ op \in {"delete", "clear"} => GotsMove
    BY DEF Begins, GotsMove
  <2> QED BY <1>3, <2>1, DeleteSets
<1>5. ASSUME NEW r \in pending, Lands(r) PROVE  GotsMove
  BY <1>5, LandsSets DEF GotsMove
<1>6. ASSUME NEW f \in files, inAppImport(f) PROVE  GotsMove
  <2>1. \A op, at, got, number, ints, who :
          Begins(op, at, got, number, ints, who) /\ got \in files \cup {{}} => GotsMove
    BY DEF Begins, GotsMove
  <2> QED BY <1>6, <2>1, ImportSets
<1>7. CASE exportBackup
  <2>1. \A op, at, got, number, ints, who :
          Begins(op, at, got, number, ints, who) /\ got \in files \cup {{}} => GotsMove
    BY DEF Begins, GotsMove
  <2> QED BY <1>7, <2>1, ExportSets
<1>8. CASE appendSecurityEvent
  <2>1. \A op, at, got, number, ints, who :
          Begins(op, at, got, number, ints, who) /\ got \in files \cup {{}} => GotsMove
    BY DEF Begins, GotsMove
  <2> QED BY <1>8, <2>1, AppendSets
<1>9. CASE OpenChat
  BY <1>9, OpenSets DEF GotsMove, Asks
<1>10. CASE CloseChat
  BY <1>10, CloseSets DEF GotsMove
<1>11. CASE lockVault
  <2>1. \A op, at, got, number, ints, who :
          Begins(op, at, got, number, ints, who) /\ got \in files \cup {{}} => GotsMove
    BY DEF Begins, GotsMove
  <2> QED BY <1>11, <2>1, LockSets
<1>12. CASE unlockVault
  <2>1. \A op, at, got, number, ints, who :
          Begins(op, at, got, number, ints, who) /\ got \in files \cup {{}} => GotsMove
    BY DEF Begins, GotsMove
  <2> QED BY <1>12, <2>1, UnlockSets
<1>13. CASE Reload
  BY <1>13, ReloadSets DEF GotsMove
<1>14. ASSUME NEW t \in tasks, putEvent(t) PROVE  GotsMove
  <2>1. \A at, keys, number, ints : Turns(t, at, keys, t.got, number, ints) => GotsMove
    BY DEF Turns, GotsMove
  <2> QED BY <1>14, <2>1, PutSets
<1>15. ASSUME NEW t \in tasks, ListLog(t) PROVE  GotsMove
  <2>1. \A at, keys, number, ints : Turns(t, at, keys, t.got, number, ints) => GotsMove
    BY DEF Turns, GotsMove
  <2>2. Drop(t) => GotsMove
    BY DEF Drop, GotsMove
  <2> QED BY <1>15, <2>1, <2>2, ListLogSets DEF LogOver
<1>16. ASSUME NEW t \in tasks, TrimLog(t) PROVE  GotsMove
  BY <1>16, TrimTurns DEF GotsMove
<1>17. ASSUME NEW t \in tasks, ListKeys(t) PROVE  GotsMove
  <2>1. \A at, keys, number, ints : Turns(t, at, keys, t.got, number, ints) => GotsMove
    BY DEF Turns, GotsMove
  <2> QED BY <1>17, <2>1, ListKeysSets
<1>18. ASSUME NEW t \in tasks, createBackupFile(t) PROVE  GotsMove
  <2>1. \A at, keys, number, ints : Turns(t, at, keys, t.got, number, ints) => GotsMove
    BY DEF Turns, GotsMove
  <2> QED BY <1>18, <2>1, SealSets
<1>19. ASSUME NEW t \in tasks, openBackupFile(t) PROVE  GotsMove
  <2>1. \A at, keys, number, ints : Turns(t, at, keys, t.got, number, ints) => GotsMove
    BY DEF Turns, GotsMove
  <2>2. Drop(t) => GotsMove
    BY DEF Drop, GotsMove
  <2> QED BY <1>19, <2>1, <2>2, OpenFileSets
<1>20. ASSUME NEW t \in tasks, dropStorage(t) PROVE  GotsMove
  <2>1. \A at, keys, number, ints : Turns(t, at, keys, t.got, number, ints) => GotsMove
    BY DEF Turns, GotsMove
  <2> QED BY <1>20, <2>1, DropStorageSets
<1>21. ASSUME NEW t \in tasks, deleteDatabase(t) PROVE  GotsMove
  <2>1. \A at, keys, number, ints : Turns(t, at, keys, t.got, number, ints) => GotsMove
    BY DEF Turns, GotsMove
  <2> QED BY <1>21, <2>1, WipeSets
<1>22. ASSUME NEW t \in tasks, initStorage(t) PROVE  GotsMove
  <2>1. \A at, keys, number, ints : Turns(t, at, keys, t.got, number, ints) => GotsMove
    BY DEF Turns, GotsMove
  <2> QED BY <1>22, <2>1, InitSets
<1>23. ASSUME NEW t \in tasks, RestoreFails(t) PROVE  GotsMove
  BY <1>23, RestoreFailsSets DEF GotsMove, Drop
<1>24. ASSUME NEW t \in tasks, Restored(t) PROVE  GotsMove
  <2>1. \A at, keys, number, ints : Turns(t, at, keys, t.got, number, ints) => GotsMove
    BY DEF Turns, GotsMove
  <2> QED BY <1>24, <2>1, RestoredSets
<1>25. ASSUME NEW t \in tasks, deleteRecord(t) PROVE  GotsMove
  BY <1>25, DeleteRecordTurns DEF GotsMove
<1>26. ASSUME NEW t \in tasks, listMessageKeys(t) PROVE  GotsMove
  <2>1. \A at, keys, number, ints : Turns(t, at, keys, t.got, number, ints) => GotsMove
    BY DEF Turns, GotsMove
  <2> QED BY <1>26, <2>1, DoomSets
<1>27. ASSUME NEW t \in tasks, Deleted(t) PROVE  GotsMove
  <2>1. \A at, keys, number, ints : Turns(t, at, keys, t.got, number, ints) => GotsMove
    BY DEF Turns, GotsMove
  <2> QED BY <1>27, <2>1, DeletedSets
<1>28. ASSUME NEW t \in tasks, getAttachmentBlob(t) PROVE  GotsMove
  <2>1. \A at, keys, number, ints : Turns(t, at, keys, t.got, number, ints) => GotsMove
    BY DEF Turns, GotsMove
  <2>2. Drop(t) => GotsMove
    BY DEF Drop, GotsMove
  <2> QED BY <1>28, <2>1, <2>2, BlobSets
<1>29. ASSUME NEW t \in tasks, Decrypted(t) PROVE  GotsMove
  BY <1>29, DecryptedSets DEF GotsMove, Drop
<1>30. ASSUME NEW t \in tasks, loadAllData(t) PROVE  GotsMove
  BY <1>30, LoadSets DEF GotsMove, Drop, Asks
<1>31. ASSUME NEW t \in tasks, Throws(t) PROVE  GotsMove
  BY <1>31, ThrowsSets DEF GotsMove, Drop
<1>32. ASSUME NEW t \in tasks, NEW r \in t.keys, GetRecord(t, r) PROVE  GotsMove
  <2>1. \A at, keys, number, ints : Turns(t, at, keys, t.got \cup ({r} \cap disk.records), number, ints) => GotsMove
    BY DEF Turns, GotsMove
  <2> QED BY <1>32, <2>1, GetSets
<1>33. ASSUME NEW t \in tasks, NEW r \in t.keys, Restore(t, r) PROVE  GotsMove
  <2>1. \A at, keys, number, ints : Turns(t, at, keys, t.got, number, ints) => GotsMove
    BY DEF Turns, GotsMove
  <2> QED BY <1>33, <2>1, RestoreSets
<1>34. ASSUME NEW t \in tasks, NEW r \in t.keys, deleteMessage(t, r) PROVE  GotsMove
  <2>1. \A at, keys, number, ints : Turns(t, at, keys, t.got, number, ints) => GotsMove
    BY DEF Turns, GotsMove
  <2> QED BY <1>34, <2>1, DeleteMessageSets
<1>35. ASSUME NEW t \in tasks, findConvo(t) PROVE  GotsMove
  <2>1. \A at, keys, number, ints : Turns(t, at, keys, t.got, number, ints) => GotsMove
    BY DEF Turns, GotsMove
  <2>2. Drop(t) => GotsMove
    BY DEF Drop, GotsMove
  <2> QED BY <1>35, <2>1, <2>2, FindConvoSets
<1>36. ASSUME NEW t \in tasks, Finish(t) PROVE  GotsMove
  BY <1>36, FinishSets DEF GotsMove, Drop
<1> QED
  BY <1>1, <1>2, <1>3, <1>5, <1>6, <1>7, <1>8, <1>9, <1>10, <1>11, <1>12, <1>13, <1>14, <1>15, <1>16, <1>17, <1>18, <1>19, <1>20, <1>21, <1>22, <1>23, <1>24, <1>25, <1>26, <1>27, <1>28, <1>29, <1>30, <1>31, <1>32, <1>33, <1>34, <1>35, <1>36 DEF Next, Step

(* An import that fills the disk goes on until the records are loaded.      *)
FillingGoes ==
    \A t \in tasks : Filling(t) =>
        (\E u \in tasks' : Filling(u)) \/ loadAllData(t) \/ mem'.locked \/ ~Plain'

(* It is so of every step.                                                  *)
LEMMA FillingGoesOn ==
    ASSUME StoredTyped, TasksTyped, AllStaged, [Next]_vars
    PROVE  FillingGoes
<1>1. CASE UNCHANGED vars
  BY <1>1 DEF vars, FillingGoes
<1>2. ASSUME NEW m \in Message, onSecure(m) \/ onIncoming(m) PROVE  FillingGoes
  BY <1>2, MessageSets DEF FillingGoes
<1>3. ASSUME NEW c \in Contact, deleteContact(c) \/ clearConversation(c) PROVE  FillingGoes
  <2>1. \A op, at, got, number, ints, who :
          Begins(op, at, got, number, ints, who) => FillingGoes
    BY DEF FillingGoes, Begins
  <2> QED BY <1>3, <2>1, DeleteSets
<1>5. ASSUME NEW r \in pending, Lands(r) PROVE  FillingGoes
  BY <1>5, LandsSets DEF FillingGoes
<1>6. ASSUME NEW f \in files, inAppImport(f) PROVE  FillingGoes
  BY <1>6, ImportSets DEF FillingGoes, Begins
<1>7. CASE exportBackup
  BY <1>7, ExportSets DEF FillingGoes, Begins
<1>8. CASE appendSecurityEvent
  BY <1>8, AppendSets DEF FillingGoes, Begins
<1>9. CASE OpenChat
  BY <1>9, OpenSets DEF FillingGoes, Asks
<1>10. CASE CloseChat
  BY <1>10, CloseSets DEF FillingGoes
<1>11. CASE lockVault
  BY <1>11, LockSets DEF FillingGoes, Begins
<1>12. CASE unlockVault
  BY <1>12, UnlockSets DEF FillingGoes, Begins
<1>13. CASE Reload
  BY <1>13, ReloadSets DEF FillingGoes, MemIs
<1>14. ASSUME NEW t \in tasks, putEvent(t) PROVE  FillingGoes
  <2>1. \A at, keys, got, number, ints : Turns(t, at, keys, got, number, ints)
            /\ at \in {"restore", "load", "log", "logged", "trim"} => FillingGoes
    BY DEF Turns, FillingGoes, Filling, Logging
  <2> QED BY <1>14, <2>1, PutSets
<1>15. ASSUME NEW t \in tasks, ListLog(t) PROVE  FillingGoes
  <2>1. \A at, keys, got, number, ints : Turns(t, at, keys, got, number, ints)
            /\ at \in {"restore", "load", "log", "logged", "trim"} => FillingGoes
    BY DEF Turns, FillingGoes, Filling, Logging
  <2>2. t.op # "import" /\ Drop(t) => FillingGoes
    BY DEF Drop, FillingGoes, Filling
  <2>3. \A at, keys, got, number, ints : Turns(t, at, keys, got, number, ints)
            /\ t.op # "import" => FillingGoes
    BY DEF Turns, FillingGoes, Filling
  <2>4. LogOver(t) => FillingGoes
    BY <2>1, <2>2, <2>3 DEF LogOver
  <2> QED BY <1>15, <2>1, <2>4, ListLogSets
<1>16. ASSUME NEW t \in tasks, TrimLog(t) PROVE  FillingGoes
  <2>1. \A at, keys, got, number, ints : Turns(t, at, keys, got, number, ints)
            /\ at \in {"restore", "load", "log", "logged", "trim"} => FillingGoes
    BY DEF Turns, FillingGoes, Filling, Logging
  <2>2. t.op # "import" /\ Drop(t) => FillingGoes
    BY DEF Drop, FillingGoes, Filling
  <2>3. \A at, keys, got, number, ints : Turns(t, at, keys, got, number, ints)
            /\ t.op # "import" => FillingGoes
    BY DEF Turns, FillingGoes, Filling
  <2>4. LogOver(t) => FillingGoes
    BY <2>1, <2>2, <2>3 DEF LogOver
  <2>5. LogOver(t) \/ \E ints : Turns(t, "trim", t.keys, t.got, t.number, ints)
    BY <1>16, TrimSets
  <2> QED BY <2>1, <2>4, <2>5
<1>17. ASSUME NEW t \in tasks, ListKeys(t) PROVE  FillingGoes
  <2>1. \A at, keys, got, number, ints : Turns(t, at, keys, got, number, ints)
            => tasks \ {t} \subseteq tasks'
    BY DEF Turns
  <2>3. tasks \ {t} \subseteq tasks'
    BY <1>17, <2>1, ListKeysSets
  <2>4. t.op # "import"
    BY <1>17, ListKeysSets
  <2> QED BY <2>3, <2>4 DEF FillingGoes, Filling, Logging
<1>18. ASSUME NEW t \in tasks, createBackupFile(t) PROVE  FillingGoes
  <2>1. \A at, keys, got, number, ints : Turns(t, at, keys, got, number, ints)
            => tasks \ {t} \subseteq tasks'
    BY DEF Turns
  <2>3. tasks \ {t} \subseteq tasks'
    BY <1>18, <2>1, SealSets
  <2>4. t.at = "seal"
    BY <1>18, SealSets
  <2> QED BY <2>3, <2>4 DEF FillingGoes, Filling, Logging
<1>19. ASSUME NEW t \in tasks, openBackupFile(t) PROVE  FillingGoes
  <2>1. \A at, keys, got, number, ints : Turns(t, at, keys, got, number, ints)
            => tasks \ {t} \subseteq tasks'
    BY DEF Turns
  <2>3. tasks \ {t} \subseteq tasks'
    BY <1>19, <2>1, OpenFileSets DEF Drop
  <2>4. t.at = "open"
    BY <1>19, OpenFileSets
  <2> QED BY <2>3, <2>4 DEF FillingGoes, Filling, Logging
<1>20. ASSUME NEW t \in tasks, dropStorage(t) PROVE  FillingGoes
  <2>1. \A at, keys, got, number, ints : Turns(t, at, keys, got, number, ints)
            => tasks \ {t} \subseteq tasks'
    BY DEF Turns
  <2>3. tasks \ {t} \subseteq tasks'
    BY <1>20, <2>1, DropStorageSets
  <2>4. t.at = "null"
    BY <1>20, DropStorageSets
  <2> QED BY <2>3, <2>4 DEF FillingGoes, Filling, Logging
<1>21. ASSUME NEW t \in tasks, deleteDatabase(t) PROVE  FillingGoes
  <2>1. \A at, keys, got, number, ints : Turns(t, at, keys, got, number, ints)
            => tasks \ {t} \subseteq tasks'
    BY DEF Turns
  <2>3. tasks \ {t} \subseteq tasks'
    BY <1>21, <2>1, WipeSets
  <2>4. t.at = "wipe"
    BY <1>21, WipeSets
  <2> QED BY <2>3, <2>4 DEF FillingGoes, Filling, Logging
<1>22. ASSUME NEW t \in tasks, initStorage(t) PROVE  FillingGoes
  <2>1. \A at, keys, got, number, ints : Turns(t, at, keys, got, number, ints)
            => tasks \ {t} \subseteq tasks'
    BY DEF Turns
  <2>3. tasks \ {t} \subseteq tasks'
    BY <1>22, <2>1, InitSets
  <2>4. t.at = "init"
    BY <1>22, InitSets
  <2> QED BY <2>3, <2>4 DEF FillingGoes, Filling, Logging
<1>23. ASSUME NEW t \in tasks, RestoreFails(t) PROVE  FillingGoes
  BY <1>23, RestoreFailsSets DEF FillingGoes, Drop, Plain, Filling, Logging
<1>24. ASSUME NEW t \in tasks, Restored(t) PROVE  FillingGoes
  <2>1. \A at, keys, got, number, ints : Turns(t, at, keys, got, number, ints)
            /\ at \in {"restore", "load", "log", "logged", "trim"} => FillingGoes
    BY DEF Turns, FillingGoes, Filling, Logging
  <2> QED BY <1>24, <2>1, RestoredSets
<1>25. ASSUME NEW t \in tasks, deleteRecord(t) PROVE  FillingGoes
  <2>1. \A at, keys, got, number, ints : Turns(t, at, keys, got, number, ints)
            => tasks \ {t} \subseteq tasks'
    BY DEF Turns
  <2>2. \/ Turns(t, "identity", t.keys, t.got, t.number, t.ints)
        \/ Turns(t, "list", t.keys, t.got, t.number, t.ints)
    BY <1>25, DeleteRecordSets
  <2>3. tasks \ {t} \subseteq tasks'
    BY <2>1, <2>2
  <2>4. t.at \in {"contact", "convo"}
    BY <1>25, DeleteRecordSets
  <2> QED BY <2>3, <2>4 DEF FillingGoes, Filling, Logging
<1>26. ASSUME NEW t \in tasks, listMessageKeys(t) PROVE  FillingGoes
  <2>1. \A at, keys, got, number, ints : Turns(t, at, keys, got, number, ints)
            => tasks \ {t} \subseteq tasks'
    BY DEF Turns
  <2>3. tasks \ {t} \subseteq tasks'
    BY <1>26, <2>1, DoomSets
  <2>4. t.at = "list"
    BY <1>26, DoomSets
  <2> QED BY <2>3, <2>4 DEF FillingGoes, Filling, Logging
<1>27. ASSUME NEW t \in tasks, Deleted(t) PROVE  FillingGoes
  <2>1. \A at, keys, got, number, ints : Turns(t, at, keys, got, number, ints)
            => tasks \ {t} \subseteq tasks'
    BY DEF Turns
  <2>3. tasks \ {t} \subseteq tasks'
    BY <1>27, <2>1, DeletedSets
  <2>4. t.at = "doomed"
    BY <1>27, DeletedSets
  <2> QED BY <2>3, <2>4 DEF FillingGoes, Filling, Logging
<1>28. ASSUME NEW t \in tasks, getAttachmentBlob(t) PROVE  FillingGoes
  <2>1. \A at, keys, got, number, ints : Turns(t, at, keys, got, number, ints)
            => tasks \ {t} \subseteq tasks'
    BY DEF Turns
  <2>3. tasks \ {t} \subseteq tasks'
    BY <1>28, <2>1, BlobSets DEF Drop
  <2>4. t.at = "read"
    BY <1>28, BlobSets
  <2> QED BY <2>3, <2>4 DEF FillingGoes, Filling, Logging
<1>29. ASSUME NEW t \in tasks, Decrypted(t) PROVE  FillingGoes
  BY <1>29, DecryptedSets DEF FillingGoes, Drop, Plain, Filling, Logging
<1>30. ASSUME NEW t \in tasks, loadAllData(t) PROVE  FillingGoes
  <2>1. tasks \ {t} \subseteq tasks'
    BY <1>30, LoadSets DEF Drop, Asks
  <2> QED BY <1>30, <2>1 DEF FillingGoes
<1>31. ASSUME NEW t \in tasks, Throws(t) PROVE  FillingGoes
  BY <1>31, ThrowsSets DEF FillingGoes, Drop, Plain, Filling, Logging
<1>32. ASSUME NEW t \in tasks, NEW r \in t.keys, GetRecord(t, r) PROVE  FillingGoes
  <2>1. \A at, keys, got, number, ints : Turns(t, at, keys, got, number, ints)
            => tasks \ {t} \subseteq tasks'
    BY DEF Turns
  <2>3. tasks \ {t} \subseteq tasks'
    BY <1>32, <2>1, GetSets
  <2>4. t.op # "import"
    BY <1>32, GetSets
  <2> QED BY <2>3, <2>4 DEF FillingGoes, Filling, Logging
<1>33. ASSUME NEW t \in tasks, NEW r \in t.keys, Restore(t, r) PROVE  FillingGoes
  <2>1. \A at, keys, got, number, ints : Turns(t, at, keys, got, number, ints)
            /\ at \in {"restore", "load", "log", "logged", "trim"} => FillingGoes
    BY DEF Turns, FillingGoes, Filling, Logging
  <2> QED BY <1>33, <2>1, RestoreSets
<1>34. ASSUME NEW t \in tasks, NEW r \in t.keys, deleteMessage(t, r) PROVE  FillingGoes
  <2>1. \A at, keys, got, number, ints : Turns(t, at, keys, got, number, ints)
            => tasks \ {t} \subseteq tasks'
    BY DEF Turns
  <2>3. tasks \ {t} \subseteq tasks'
    BY <1>34, <2>1, DeleteMessageSets
  <2>4. t.at = "doomed"
    BY <1>34, DeleteMessageSets
  <2> QED BY <2>3, <2>4 DEF FillingGoes, Filling, Logging
<1>35. ASSUME NEW t \in tasks, findConvo(t) PROVE  FillingGoes
  <2>1. \A at, keys, got, number, ints : Turns(t, at, keys, got, number, ints)
            => tasks \ {t} \subseteq tasks'
    BY DEF Turns
  <2>3. tasks \ {t} \subseteq tasks'
    BY <1>35, <2>1, FindConvoSets DEF Drop
  <2>4. t.at = "identity"
    BY <1>35, FindConvoSets
  <2> QED BY <2>3, <2>4 DEF FillingGoes, Filling, Logging
<1>36. ASSUME NEW t \in tasks, Finish(t) PROVE  FillingGoes
  BY <1>36, FinishSets DEF FillingGoes, Drop, Plain, Filling, Logging
<1> QED
  BY <1>1, <1>2, <1>3, <1>5, <1>6, <1>7, <1>8, <1>9, <1>10, <1>11, <1>12, <1>13, <1>14, <1>15, <1>16, <1>17, <1>18, <1>19, <1>20, <1>21, <1>22, <1>23, <1>24, <1>25, <1>26, <1>27, <1>28, <1>29, <1>30, <1>31, <1>32, <1>33, <1>34, <1>35, <1>36 DEF Next, Step

(* Every step keeps the messages of all records made.                       *)
LEMMA AllKnownKept ==
    ASSUME StoredTyped, TasksTyped, AllStaged, ImportKept, AllKnown, [Next]_vars
    PROVE  AllKnown'
<1>1. /\ made.messages \subseteq made'.messages
      /\ \A r \in disk'.records \cup pending' :
           r[1] = "messages" => r \in disk.records \cup pending \/ r[2] \in made'.messages
  <2>1. CASE SeenStays
    BY <2>1 DEF SeenStays
  <2>2. ASSUME NEW m \in Message, onSecure(m) \/ onIncoming(m)
        PROVE  /\ UNCHANGED disk /\ made'.messages = made.messages \cup {m}
               /\ \A q \in pending' : q \in pending \/ q = <<"messages", m>> \/ q[1] # "messages"
    <3>1. UNCHANGED disk /\ made'.messages = made.messages \cup {m}
      BY <2>2, MessageSets DEF MadeIs
    <3>2. PICK ws \in SUBSET Record :
            /\ \A r \in ws : r[1] = "messages" => r = <<"messages", m>>
            /\ pending' = IF ready THEN pending \cup ws ELSE pending
      BY <2>2, MessageSets
    <3> QED BY <3>1, <3>2
  <2>3. ASSUME NEW t \in tasks, loadAllData(t) PROVE UNCHANGED <<disk, pending, made>>
    BY <2>3, LoadSets
  <2>4. ASSUME NEW t \in tasks, NEW r \in t.keys, Restore(t, r)
        PROVE  /\ UNCHANGED <<pending, made>> /\ disk'.records = disk.records \cup {r}
               /\ r \in t.got
    <3>1. t.at = "restore" /\ UNCHANGED <<pending, made>> /\ disk'.records = disk.records \cup {r}
      BY <2>4, RestoreSets DEF DiskIs
    <3>2. t.op \in Operation /\ Staged(t)
      BY DEF TasksTyped, TaskType, AllStaged
    <3>3. t.op = "import"
      BY <3>1, <3>2 DEF Staged, Logging, Operation
    <3>4. Imported(t)
      BY <3>1, <3>3 DEF ImportKept, Importing
    <3> QED BY <3>1, <3>4 DEF Imported
  <2>5. ASSUME NEW t \in tasks, Finish(t) PROVE UNCHANGED <<disk, pending, made>>
    BY <2>5, FinishSets
  <2>6. ASSUME NEW m \in Message, onSecure(m) \/ onIncoming(m)
        PROVE  /\ made.messages \subseteq made'.messages
               /\ \A r \in disk'.records \cup pending' :
                    r[1] = "messages" => r \in disk.records \cup pending \/ r[2] \in made'.messages
    <3>1. <<"messages", m>>[2] = m
      OBVIOUS
    <3> QED BY <2>2, <2>6, <3>1
  <2>7. ASSUME NEW t \in tasks, NEW r \in t.keys, Restore(t, r)
        PROVE  /\ made.messages \subseteq made'.messages
               /\ \A q \in disk'.records \cup pending' :
                    q[1] = "messages" => q \in disk.records \cup pending \/ q[2] \in made'.messages
    <3>1. t.op = "import"
      <4>1. t.at = "restore"
        BY <2>7, RestoreSets
      <4>2. t.op \in Operation /\ Staged(t)
        BY DEF TasksTyped, TaskType, AllStaged
      <4> QED BY <4>1, <4>2 DEF Staged, Logging, Operation
    <3>2. Known(t.got)
      BY <3>1 DEF AllKnown
    <3> QED BY <2>4, <2>7, <3>2 DEF Known
  <2> QED BY <2>1, <2>3, <2>5, <2>6, <2>7, SeenStaysOrChanges DEF SeenChanges
<1>2. Known(disk.records)' /\ Known(pending)'
  BY <1>1 DEF AllKnown, Known
<1>3. \A rs : Known(rs) => Known(rs)'
  BY <1>1 DEF Known
<1>4. \A f \in files' : f \in files \/ \E t \in tasks : t.op = "export" /\ f = t.got
  <2>1. ASSUME NEW f \in files, inAppImport(f) PROVE files' = files
    BY <2>1, ImportSets
  <2>2. ASSUME NEW t \in tasks, createBackupFile(t)
        PROVE  files' = files \cup {t.got} /\ t.op = "export"
    <3>1. files' = files \cup {t.got} /\ t.at = "seal"
      BY <2>2, SealSets
    <3>2. t.op \in Operation /\ Staged(t)
      BY DEF TasksTyped, TaskType, AllStaged
    <3> QED BY <3>1, <3>2 DEF Staged, Logging, Operation
  <2> QED BY <2>1, <2>2, FilesStayOrChange DEF FilesChange, FilesStay
<1>5. \A f \in files' : Known(f)'
  BY <1>3, <1>4 DEF AllKnown
<1>6. \A u \in tasks' : u.op \notin {"delete", "clear"} => Known(u.got)
  BY GotsMoveSo DEF GotsMove, AllKnown, Known
<1>7. \A u \in tasks' : u.op \notin {"delete", "clear"} => Known(u.got)'
  BY <1>3, <1>6
<1> QED BY <1>2, <1>5, <1>7 DEF AllKnown, Known

(* What is loaded of a conversation is its newest part.                     *)
LEMMA LoadedIsNewest ==
    ASSUME StoredTyped, NEW s \in Loaded.records, NEW r \in disk.records, Newer(r, s)
    PROVE  r \in Loaded.records
<1> DEFINE stored(c) == Messages(About(c, disk.records))
           m == s[2]
<1>0. /\ m \in LoadedMessages /\ m \in Message
      /\ r[1] = "messages" /\ Owner(r) = ContactOf(m) /\ r[2] > m
      /\ r = <<"messages", r[2]>>
  <2>1. Loaded.records = Of("contacts", disk.records) \cup Of("conversations", disk.records)
                         \cup {<<"messages", x>> : x \in LoadedMessages}
    BY DEF Loaded
  <2>2. s[1] = "messages" /\ r[1] = "messages" /\ Owner(r) = Owner(s) /\ r[2] > s[2]
    BY DEF Newer
  <2>3. PICK x \in LoadedMessages : s = <<"messages", x>>
    BY <2>1, <2>2 DEF Of
  <2>4. m = x /\ x \in Message
    BY <2>3, LoadedTyped
  <2>5. Owner(s) = ContactOf(x)
    BY <2>3, <2>4, RecordsOf
  <2>6. r = <<"messages", r[2]>>
    BY <2>2, RecordFacts DEF StoredTyped
  <2> HIDE DEF m
  <2> QED BY <2>2, <2>4, <2>5, <2>6 DEF m
<1> HIDE DEF m
<1>1. LoadedMessages = UNION {Newest(stored(q[2]), Limit) : q \in Of("conversations", disk.records)}
  BY DEF LoadedMessages, ListByPrefix
<1>2. PICK q \in Of("conversations", disk.records) : m \in Newest(stored(q[2]), Limit)
  BY <1>0, <1>1
<1> DEFINE keys == stored(q[2])
<1>3. About(q[2], disk.records) \in SUBSET Record
  BY DEF StoredTyped, About
<1>4. keys \subseteq Message /\ m \in keys
  BY <1>2, <1>3, MessagesAre DEF Newest
<1>5. <<"messages", m>> \in About(q[2], disk.records)
  BY <1>3, <1>4, MessagesAre
<1>6. ContactOf(m) = q[2]
  BY <1>4, <1>5, RecordsOf DEF About
<1>7. r \in Of("messages", About(q[2], disk.records))
  BY <1>0, <1>6 DEF Of, About
<1>8. r[2] \in keys
  BY <1>7 DEF Messages
<1>9. IsFiniteSet(Message) /\ Message \subseteq Nat /\ Limit \in Nat
  BY BackupsAssumption
<1>10. Cardinality({l \in keys : l > r[2]}) < Limit
  <2>1. {l \in keys : l > r[2]} \subseteq {l \in keys : l > m}
    <3>1. keys \subseteq Nat /\ r[2] \in Nat /\ m \in Nat
      BY <1>4, <1>8, <1>9
    <3>2. ASSUME NEW l \in keys, l > r[2] PROVE l > m
      <4> HIDE DEF keys
      <4>1. l \in Nat
        BY <3>1
      <4> QED BY <1>0, <3>1, <3>2, <4>1
    <3> QED BY <3>2
  <2>2. IsFiniteSet({l \in keys : l > m}) /\ IsFiniteSet({l \in keys : l > r[2]})
    BY <1>4, <1>9, FS_Subset
  <2>3. Cardinality({l \in keys : l > r[2]}) <= Cardinality({l \in keys : l > m})
    BY <2>1, <2>2, FS_Subset
  <2>4. Cardinality({l \in keys : l > m}) < Limit
    BY <1>2 DEF Newest
  <2>5. Cardinality({l \in keys : l > m}) \in Nat /\ Cardinality({l \in keys : l > r[2]}) \in Nat
    BY <2>2, FS_CardinalityType
  <2> QED BY <1>9, <2>3, <2>4, <2>5
<1>11. r[2] \in Newest(keys, Limit)
  BY <1>8, <1>10 DEF Newest
<1> HIDE DEF keys
<1>12. r[2] \in LoadedMessages
  BY <1>1, <1>11 DEF keys
<1>13. <<"messages", r[2]>> \in Loaded.records
  <2>1. Loaded.records = Of("contacts", disk.records) \cup Of("conversations", disk.records)
                         \cup {<<"messages", x>> : x \in LoadedMessages}
    BY DEF Loaded
  <2> QED BY <1>12, <2>1
<1> QED BY <1>0, <1>13

(* Every step keeps the newest part of every conversation shown.            *)
LEMMA NewestKeptKept ==
    ASSUME StoredTyped, TasksTyped, AllStaged, AllKnown, amiss \subseteq amiss', NewestKept,
           [Next]_vars
    PROVE  NewestKept'
<1> SUFFICES ASSUME Plain', ~mem'.locked, \A t \in tasks' : ~Filling(t)
             PROVE  NewestSeen'
  BY DEF NewestKept, Filling, Logging
<1>1. Plain /\ \A t \in tasks : Filling(t) => loadAllData(t)
  BY FillingGoesOn DEF FillingGoes, Plain
<1>2. ASSUME NEW t \in tasks, loadAllData(t) PROVE NewestSeen'
  <2>1. pending = {} /\ mem' = Loaded /\ UNCHANGED <<disk, pending>>
    BY <1>2, LoadSets DEF Plain
  <2> QED BY <2>1, LoadedIsNewest DEF NewestSeen
<1>3. CASE \A t \in tasks : ~loadAllData(t)
  <2>1. \A t \in tasks : ~Filling(t)
    BY <1>1, <1>3
  <2>2. CASE SeenStays
    <3>1. NewestSeen
      BY <1>1, <2>1, <2>2 DEF SeenStays, NewestKept
    <3> SUFFICES ASSUME NEW q \in mem'.records, NEW r \in disk'.records \cup pending', Newer(r, q)
                 PROVE  r \in mem'.records
      BY DEF NewestSeen, Newer
    <3>2. q[1] = "messages" /\ r[1] = "messages" /\ Owner(r) = Owner(q)
      BY DEF Newer
    <3>3. q \in mem.records /\ r \in disk.records \cup pending
      BY <2>2, <3>2 DEF SeenStays
    <3>4. r \in mem.records
      BY <3>1, <3>3 DEF NewestSeen
    <3> QED BY <2>2, <3>2, <3>4 DEF SeenStays
  <2>3. ASSUME NEW n \in Message, onSecure(n) \/ onIncoming(n) PROVE NewestSeen'
    <3> DEFINE new == <<"messages", n>>
    <3>0. "astray" \notin amiss' /\ "thrown" \notin amiss'
      BY DEF Plain
    <3>1. PICK ws \in SUBSET Record :
            /\ new \in ws
            /\ \A r \in ws : Owner(r) = ContactOf(n) /\ (r[1] = "messages" => r = new)
            /\ MemIs(mem.records \cup ws, mem.locked)
            /\ pending' = IF ready THEN pending \cup ws ELSE pending
      BY <2>3, <3>0, MessageSets
    <3>2. n \notin made.messages /\ UNCHANGED disk
          /\ \A k \in made.messages : ContactOf(k) = ContactOf(n) => k < n
      BY <2>3, MessageSets
    <3>3. mem'.records = mem.records \cup ws /\ mem'.locked = mem.locked
      BY <3>1 DEF MemIs
    <3>4. NewestSeen
      BY <1>1, <2>1, <3>3 DEF NewestKept
    <3>5. Owner(new) = ContactOf(n) /\ new[2] = n
      BY <3>1
    <3> HIDE DEF new
    <3> SUFFICES ASSUME NEW q \in mem'.records, NEW r \in disk'.records \cup pending', Newer(r, q)
                 PROVE  r \in mem'.records
      BY DEF NewestSeen, Newer
    <3>6. q[1] = "messages" /\ r[1] = "messages" /\ Owner(r) = Owner(q) /\ r[2] > q[2]
      BY DEF Newer
    <3>7. q \in mem.records \/ q = new
      BY <3>1, <3>3, <3>6
    <3>8. r \in disk.records \cup pending \/ r = new
      BY <3>1, <3>2, <3>6
    <3>9. CASE r = new
      BY <3>1, <3>3, <3>9
    <3>10. CASE r \in disk.records \cup pending /\ q = new
      <4>1. r \in Record /\ r[2] \in made.messages /\ r[2] \in Message
        BY <3>6, <3>10, RecordFacts DEF AllKnown, Known, StoredTyped
      <4>2. ContactOf(r[2]) = ContactOf(n)
        BY <3>5, <3>6, <3>10, <4>1, RecordFacts
      <4>3. r[2] \in Nat /\ n \in Nat /\ r[2] < n /\ r[2] > n
        BY <3>2, <3>5, <3>6, <3>10, <4>1, <4>2, BackupsAssumption
      <4> QED BY <4>3
    <3>11. CASE r \in disk.records \cup pending /\ q \in mem.records
      BY <3>3, <3>4, <3>11 DEF NewestSeen
    <3> QED BY <3>7, <3>8, <3>9, <3>10, <3>11
  <2>4. ASSUME NEW t \in tasks, NEW r \in t.keys, Restore(t, r) PROVE FALSE
    <3>1. t.at = "restore"
      BY <2>4, RestoreSets
    <3>2. t.op \in Operation /\ Staged(t)
      BY DEF TasksTyped, TaskType, AllStaged
    <3>3. t.op = "import"
      BY <3>1, <3>2 DEF Staged, Logging, Operation
    <3> QED BY <2>1, <3>1, <3>3 DEF Filling
  <2>5. "stale" \notin amiss'
    BY DEF Plain
  <2> QED BY <1>3, <2>2, <2>3, <2>4, <2>5, SeenStaysOrChanges DEF SeenChanges
<1> QED BY <1>2, <1>3

(* What it says of what is shown.                                           *)
LEMMA NewestIsShown ==
    ASSUME StoredTyped, NewestKept
    PROVE  NewestShown
<1>1. Only({"torn", "late", "twice"}) => Plain
  BY DEF Only, Plain
<1>2. ~Running("import") => \A t \in tasks : ~Filling(t)
  BY DEF Running, Filling
<1> SUFFICES ASSUME NewestSeen, NEW m \in Messages(mem.records), NEW r \in disk.records,
                    r[1] = "messages", Owner(r) = ContactOf(m), r[2] > m
             PROVE  r \in mem.records
  BY <1>1, <1>2 DEF NewestKept, NewestShown
<1>3. <<"messages", m>> \in mem.records /\ m \in Message
  BY MessagesAre DEF StoredTyped
<1>4. Newer(r, <<"messages", m>>)
  <2>1. <<"messages", m>>[1] = "messages" /\ <<"messages", m>>[2] = m
    OBVIOUS
  <2> QED BY <1>3, <2>1, RecordsOf DEF Newer
<1> QED BY <1>3, <1>4 DEF NewestSeen

(* What is known of every state.                                            *)
Inv ==
    /\ StoredTyped /\ TasksTyped /\ AllStaged /\ WaysOK /\ OnlyOne
    /\ UrlsKept /\ LogKept /\ LogBound /\ Budget
    /\ ExportKept /\ ImportKept /\ WholeKept /\ AllKnown /\ NewestKept

(* It is so at the start.                                                   *)
LEMMA InvInitially ==
    ASSUME Init
    PROVE  Inv
<1>1. /\ disk = [records |-> Kept, blobs |-> Messages(Kept) \cap Attachment, log |-> 1..LogLimit,
                 vault |-> TRUE]
      /\ ready = TRUE /\ mem = Loaded /\ pending = {} /\ files = {Older} /\ tasks = {}
      /\ chat = [open |-> FALSE, round |-> 0, body |-> NoBody, registry |-> {}, live |-> NoUrls]
      /\ made = [messages |-> Messages(Kept \cup Older), events |-> LogLimit, ops |-> 0]
      /\ during = NoHistory /\ amiss = {}
  BY DEF Init
<1>2. /\ LogLimit \in Nat /\ MaxOps \in Nat /\ Kept \in SUBSET Record /\ Older \in SUBSET Record
      /\ Kept \cup Older \in SUBSET Record
  BY BackupsAssumption
<1>3. disk \in [records : SUBSET Record, blobs : SUBSET Attachment, log : SUBSET Nat,
                vault : BOOLEAN]
  <2>1. 1..LogLimit \in SUBSET Nat
    BY <1>2
  <2>2. Messages(Kept) \cap Attachment \in SUBSET Attachment
    OBVIOUS
  <2>3. \A a \in SUBSET Record, b \in SUBSET Attachment, c \in SUBSET Nat :
          [records |-> a, blobs |-> b, log |-> c, vault |-> TRUE]
             \in [records : SUBSET Record, blobs : SUBSET Attachment, log : SUBSET Nat,
                  vault : BOOLEAN]
    OBVIOUS
  <2> QED BY <1>1, <1>2, <2>1, <2>2, <2>3
<1>4. made \in [messages : SUBSET Message, events : Nat, ops : Nat]
  BY <1>1, <1>2, MessagesAre
<1>5. during \in [always : SUBSET Record, ever : SUBSET Record]
  BY <1>1 DEF NoHistory
<1>6. mem \in [records : SUBSET Record, locked : BOOLEAN]
  <2>1. /\ Of("contacts", disk.records) \cup Of("conversations", disk.records) \subseteq Record
        /\ Loaded = [records |-> Of("contacts", disk.records) \cup Of("conversations", disk.records)
                                 \cup {<<"messages", m>> : m \in LoadedMessages},
                     locked |-> FALSE]
    BY <1>3 DEF Of, Loaded
  <2>2. LoadedMessages \subseteq Message
    <3>1. ASSUME NEW c PROVE ListByPrefix(Messages(About(c, disk.records)), Limit) \subseteq Message
      BY <1>3, MessagesAre DEF ListByPrefix, Newest, About
    <3> QED BY <3>1 DEF LoadedMessages
  <2>3. {<<"messages", m>> : m \in LoadedMessages} \subseteq Record
    BY <2>2, RecordsOf
  <2> QED BY <1>1, <2>1, <2>3
<1>7. StoredTyped
  BY <1>1, <1>2, <1>3, <1>4, <1>5, <1>6 DEF StoredTyped
<1>8. TasksTyped /\ AllStaged /\ WaysOK /\ OnlyOne
  BY <1>1, FS_EmptySet DEF TasksTyped, AllStaged, WaysOK, OnlyOne
<1>9. UrlsKept
  <2>1. NoBody \in BodyType /\ \A a \in Attachment : NoBody[a] = "none"
    BY DEF NoBody, BodyType
  <2>2. NoUrls \in [Attachment -> Nat] /\ \A a \in Attachment : NoUrls[a] = 0
    BY DEF NoUrls
  <2>3. chat \in ChatType
    BY <1>1, <2>1, <2>2 DEF ChatType
  <2>4. chat.registry = {} /\ chat.body = NoBody /\ chat.live = NoUrls
    BY <1>1
  <2> QED BY <2>1, <2>2, <2>3, <2>4 DEF UrlsKept, ChatTyped, ChatType, BodyType
<1>10. disk.log = 1..LogLimit /\ made.events = LogLimit /\ made.ops = 0
  BY <1>1
<1>11. LogKept
  BY <1>1, <1>2, <1>10 DEF LogKept
<1>12. LogBound
  <2>1. Cardinality(1..LogLimit) = LogLimit
    BY <1>2, FS_Interval
  <2>2. Untrimmed = {} /\ Trims = {} /\ \A T : Untrimmed \ T = {}
    BY <1>1 DEF Untrimmed, Trims
  <2>3. Within(disk.log, {})
    BY <1>2, <1>10, <2>1, FS_EmptySet DEF Within
  <2> QED BY <2>2, <2>3 DEF LogBound, LogWithin
<1>13. Budget
  <2>1. Dues = {}
    BY <1>1 DEF Dues
  <2> QED BY <1>2, <1>10, <2>1, FS_EmptySet DEF Budget
<1>14. ExportKept /\ ImportKept
  BY <1>1 DEF ExportKept, ImportKept
<1>15. WholeKept
  <2>1. Whole(Kept) /\ Whole(Older)
    BY BackupsAssumption
  <2>2. disk.records = Kept
    BY <1>1
  <2>3. RecordsFit
    BY <1>1, <2>1, <2>2 DEF RecordsFit, Fits, Whole
  <2>4. FilesWhole /\ DeletersClean
    BY <1>1, <2>1 DEF FilesWhole, DeletersClean
  <2> QED BY <2>3, <2>4 DEF WholeKept
<1>16. AllKnown
  <2>1. disk.records = Kept /\ made.messages = Messages(Kept \cup Older)
    BY <1>1
  <2>2. Known(Kept \cup Older)
    BY <2>1 DEF Known, Messages, Of
  <2> QED BY <1>1, <2>1, <2>2 DEF AllKnown, Known
<1>17. NewestKept
  <2>1. pending = {} /\ mem = Loaded
    BY <1>1
  <2> QED BY <1>7, <2>1, LoadedIsNewest DEF NewestKept, NewestSeen
<1> QED BY <1>7, <1>8, <1>9, <1>11, <1>12, <1>13, <1>14, <1>15, <1>16, <1>17 DEF Inv

(* And every step keeps it.                                                 *)
LEMMA InvKept ==
    ASSUME Inv, [Next]_vars
    PROVE  Inv'
<1>0. /\ StoredTyped /\ TasksTyped /\ AllStaged /\ WaysOK /\ OnlyOne /\ UrlsKept /\ LogKept
      /\ LogBound /\ Budget /\ ChatTyped /\ ExportKept /\ ImportKept /\ WholeKept
      /\ AllKnown /\ NewestKept
  BY DEF Inv, UrlsKept
<1>1. StoredTyped'
  BY <1>0, StoredTypedKept
<1>2. TasksTyped'
  BY <1>0, TasksTypedKept
<1>3. AllStaged'
  BY <1>0, AllStagedKept
<1>4. WaysOK' /\ OnlyOne'
  BY <1>0, WaysKept, OnlyOneKept
<1>5. UrlsKept'
  BY <1>0, UrlsKeptKept
<1>6. LogKept'
  BY <1>0, LogKeptKept
<1>7. amiss \subseteq amiss'
  BY <1>0, UrlsChange
<1>8. LogBound'
  BY <1>0, <1>2, <1>7, LogBoundKept
<1>9. Spending
  BY <1>0, StepSpends
<1>10. Budget'
  BY <1>0, <1>2, <1>9, BudgetKept
<1>11. ExportKept' /\ ImportKept'
  BY <1>0, <1>7, ExportKeptKept, ImportKeptKept
<1>12. WholeKept'
  BY <1>0, <1>7, WholeKeptKept
<1>13. AllKnown'
  BY <1>0, AllKnownKept
<1>14. NewestKept'
  BY <1>0, <1>7, NewestKeptKept
<1> QED BY <1>1, <1>2, <1>3, <1>4, <1>5, <1>6, <1>8, <1>10, <1>11, <1>12, <1>13, <1>14 DEF Inv

(* What it says of the types.                                               *)
LEMMA InvTyped ==
    ASSUME Inv
    PROVE  TypeOK
<1>1. /\ disk.records \subseteq Record /\ disk.blobs \subseteq Attachment
      /\ disk.log \subseteq Nat
      /\ ready \in BOOLEAN /\ pending \subseteq Record /\ files \subseteq SUBSET Record
      /\ mem.records \subseteq Record /\ mem.locked \in BOOLEAN
      /\ made.messages \subseteq Message /\ made.events \in Nat /\ made.ops \in Nat
  BY DEF Inv, StoredTyped
<1>2. \A t \in tasks : t.number \in Nat /\ t.who \subseteq Contact /\ t.got \subseteq Record
  BY DEF Inv, TasksTyped, TaskType
<1>3. /\ chat.open \in BOOLEAN /\ chat.round \in Nat
      /\ chat.body \in [Attachment -> {"none", "loading", "url", "missing"}]
      /\ chat.registry \subseteq Attachment /\ chat.live \in [Attachment -> Nat]
  BY DEF Inv, UrlsKept, ChatTyped
<1>4. LogLimit \in Nat /\ MaxOps \in Nat
  BY BackupsAssumption
<1>5. made.ops <= MaxOps /\ made.events <= LogLimit + made.ops
  <2>1. Cardinality(Dues) \in Nat
    <3>1. IsFiniteSet(Dues)
      BY FS_Subset DEF Inv, TasksTyped, Dues
    <3> QED BY <3>1, FS_CardinalityType
  <2> QED BY <1>1, <1>4, <2>1 DEF Inv, Budget
<1>6. disk.log \subseteq Event
  <2>1. ASSUME NEW e \in disk.log PROVE e \in Event
    <3>1. e \in Nat /\ 0 < e /\ e <= made.events
      BY <2>1 DEF Inv, LogKept
    <3> QED BY <1>1, <1>4, <1>5, <3>1 DEF Event
  <2> QED BY <2>1
<1>7. made.ops \in 0..MaxOps /\ LogLimit + made.ops >= made.events
  BY <1>1, <1>4, <1>5
<1>8. amiss \subseteq Ways
  BY DEF Inv, WaysOK
<1> QED BY <1>1, <1>2, <1>3, <1>6, <1>7, <1>8 DEF TypeOK

(* It holds of every state.                                                 *)
LEMMA InvAlways == Spec => []Inv
<1> QED BY InvInitially, InvKept, PTL DEF Spec

(* What is shown of a conversation is its newest part, the URL of every     *)
(* decrypted attachment is one that a lock revokes, and the log is bounded  *)
(* by its limit and by the trimmings under way.                             *)
THEOREM RecordsAlwaysAgree == Spec => []RecordsAgree
<1>1. Inv => RecordsAgree
  <2> SUFFICES ASSUME Inv PROVE RecordsAgree
    OBVIOUS
  <2>1. TypeOK /\ NewestShown
    BY InvTyped, NewestIsShown DEF Inv
  <2>2. UrlsRevocable
    BY UrlsAreRevocable DEF Inv, WaysOK
  <2>3. LogBounded
    BY LogIsBounded DEF Inv
  <2> QED BY <2>1, <2>2, <2>3 DEF RecordsAgree
<1> QED BY <1>1, InvAlways, PTL

(* A backup holds every record that was there all through the export and    *)
(* none that never was; the records on disk and in a file have what they    *)
(* refer to; and a finished import leaves what the file holds, no more and  *)
(* no less.                                                                 *)
THEOREM AlwaysRoundTrip == Spec => []BackupsRoundTrip
<1>1. Inv => BackupsRoundTrip
  BY ExportsAreWhole, ImportsReplace, ItIsWhole DEF Inv, BackupsRoundTrip
<1> QED BY <1>1, InvAlways, PTL

(* However many trim the log at once, an event is deleted only while        *)
(* LogLimit newer ones are there, a wipe aside; and a record only by an     *)
(* import whose file was opened, while its own contact is being deleted,    *)
(* or, unless it is a contact, its own conversation cleared.                *)
THEOREM AlwaysDeletedForAReason == Spec => DeletedForAReason
<1> DEFINE Reasons ==
      /\ \A e \in disk.log \ disk'.log :
           Running("import") \/ Cardinality({f \in disk.log : f > e}) >= LogLimit
      /\ \A r \in disk.records \ disk'.records :
           \E t \in tasks :
               \/ t.op = "import" /\ t.at = "wipe"
               \/ t.op = "delete" /\ t.who = {Owner(r)}
               \/ t.op = "clear" /\ t.who = {Owner(r)} /\ r[1] # "contacts"
<1>1. Inv /\ [Next]_vars => [Reasons]_vars
  <2> SUFFICES ASSUME Inv, [Next]_vars PROVE Reasons
    OBVIOUS
  <2>1. StoredTyped /\ TasksTyped /\ AllStaged /\ LogKept
    BY DEF Inv
  <2>2. \A e \in disk.log \ disk'.log :
           Running("import") \/ Cardinality({f \in disk.log : f > e}) >= LogLimit
    BY <2>1, EventsDeleted
  <2>3. \A r \in disk.records \ disk'.records : ForAReason(r)
    BY <2>1, RecordsDeleted
  <2> QED BY <2>2, <2>3 DEF ForAReason
<1> QED BY <1>1, InvAlways, PTL DEF Spec, DeletedForAReason
=============================================================================

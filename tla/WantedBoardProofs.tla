------------------------- MODULE WantedBoardProofs --------------------------
(***************************************************************************)
(* BoardAgrees, MediaMatchPosters and DeletedStaysDeleted of WantedBoard,  *)
(* proved for any posters and media, any number of boards and taps, and    *)
(* any number of handlers under way at once.                               *)
(*                                                                         *)
(* None is inductive by itself: what disk and board show depends on the    *)
(* handlers that are still awaiting storage.  BoardInv says, for every one *)
(* of them, what it has done so far and what it is about to do.  Its core  *)
(* is Exclusive: unless a status was written for a poster being deleted,   *)
(* the list came late or the database was wiped, handlers of one poster    *)
(* that overlap do the same - a save ends before its poster can be tapped  *)
(* (SavesHidden), a deletion hides it from every board that could tap it   *)
(* (DeletesHere).                                                          *)
(***************************************************************************)
EXTENDS WantedBoard, TLAPS

(* The fields of a task,                                                    *)
Fields == {"op", "poster", "at", "board", "kind", "status", "list"}

(* and what they hold, operation by operation.                              *)
TaskOK(t) ==
    /\ DOMAIN t = Fields
    /\ t.op \in {"open", "list", "save", "cycle", "delete"}
    /\ t.board \in Nat
    /\ t.op # "list" => t.poster \in Poster
    /\ t.op = "open" => t.kind \in MediaOf(t.poster)
    /\ t.op = "list" => t.list \in Posters
    /\ t.op = "cycle" => t.status \in Status /\ t.at \in {"put", "set"}
    /\ t.op = "save" => t.at \in MediaOf(t.poster) \cup {"record", "created"}
    /\ t.op = "delete" => t.at \in {"record", "media", "set"}

(* The state of a mounted board.                                            *)
BoardRec == [number : 0..MaxBoards, listed : BOOLEAN, posters : Posters,
             confirm : SUBSET Poster, adding : {"closed", "open"} \cup Poster,
             cards : [Media -> {"sealed", "loading", "shown", "error"}]]

(* The types of all variables; what the registry holds is live.             *)
Shape ==
    /\ disk \in [posters : Posters, blobs : SUBSET Media]
    /\ board \in BoardRec /\ board.number <= made.boards
    /\ registry \subseteq Media /\ live \in [Media -> 0..MaxUrls]
    /\ \A k \in registry : live[k] > 0
    /\ made \in [posters : SUBSET Poster, boards : 0..MaxBoards, taps : 0..MaxTaps]
    /\ amiss \subseteq Ways
    /\ \A t \in tasks : TaskOK(t)

(* The handlers that write to disk.                                         *)
Mutates(t) == t.op \in {"save", "cycle", "delete"}

(* Posters that were never saved are neither on disk nor shown, listed or   *)
(* handled.                                                                 *)
Known ==
    /\ \A p \in Poster : disk.posters[p] # None \/ board.posters[p] # None => p \in made.posters
    /\ board.confirm \subseteq made.posters /\ (~Mounted => board.confirm = {})
    /\ \A t \in tasks : Mutates(t) => t.poster \in made.posters
    /\ \A t \in tasks : t.op = "list" => \A p \in Poster : t.list[p] # None => p \in made.posters

(* No status was written for a poster being deleted, no list arrived after  *)
(* a poster was made or changed, and the database was not wiped.            *)
Clean == "revived" \notin amiss /\ "overlaid" \notin amiss /\ "replaced" \notin amiss

(* Handlers of a poster that overlap are deletions, or status changes.      *)
Exclusive ==
    \A t, u \in tasks : Mutates(t) /\ Mutates(u) /\ t.poster = u.poster
        => \/ t = u \/ (t.op = "delete" /\ u.op = "delete")
           \/ (t.op = "cycle" /\ u.op = "cycle" /\ "overtaken" \in amiss)

(* A poster being saved is not shown yet;                                   *)
SavesHidden == \A t \in tasks : t.op = "save" => board.posters[t.poster] = None

(* one whose deletion is being asked for is shown;                          *)
ConfirmShown == \A p \in board.confirm : board.posters[p] # None

(* one that is shown is on disk, or a deletion has removed it;              *)
ShownOnDisk ==
    \A p \in Poster : board.posters[p] # None =>
        OnDisk(p) \/ \E t \in tasks : t.op = "delete" /\ t.poster = p /\ t.at # "record"

(* and a board shows only what is not being deleted from another.           *)
DeletesHere == \A t \in tasks : t.op = "delete" => Here(t) \/ board.posters[t.poster] = None

(* What a handler has done to the record of its poster.                     *)
TaskDisk ==
    \A t \in tasks :
        /\ t.op = "cycle" /\ t.at = "put" => OnDisk(t.poster)
        /\ t.op = "save" /\ t.at = "created" => disk.posters[t.poster] = 0
        /\ t.op = "delete" /\ t.at # "record" => ~OnDisk(t.poster)

(* The media of p are on disk.                                              *)
Sealed(p) == \A m \in MediaOf(p) : <<p, m>> \in disk.blobs

(* They are while the record is, and before it.                             *)
MediaThere ==
    /\ \A p \in Poster : OnDisk(p) => Sealed(p)
    /\ \A t \in tasks : t.op = "save" =>
          /\ t.at \in {"record", "created"} => Sealed(t.poster)
          /\ t.at = "video" /\ "image" \in MediaOf(t.poster) => <<t.poster, "image">> \in disk.blobs

(* All this as long as the history is clean.                                *)
CleanInv ==
    Clean => /\ Exclusive /\ SavesHidden /\ ConfirmShown /\ ShownOnDisk /\ DeletesHere
             /\ TaskDisk /\ MediaThere

(* A ciphertext belongs to a poster on disk, to a save that has not written *)
(* the record, or to a deletion that has removed it.                        *)
Owned == "failed" \notin amiss /\ "orphaned" \notin amiss => \A k \in disk.blobs :
    \/ OnDisk(k[1])
    \/ \E t \in tasks : t.poster = k[1] /\ t.op = "save" /\ t.at # "created"
    \/ \E t \in tasks : t.poster = k[1] /\ t.op = "delete" /\ t.at = "media"

(* A handler that has written to disk and not yet to the board.             *)
Pending(t) ==
    \/ t.op = "save" /\ t.at = "created"
    \/ t.op = "cycle" /\ t.at = "set"
    \/ t.op = "delete" /\ t.at # "record"

(* A listed board shows what is on disk, but for those handlers, all of     *)
(* them its own, and for posters that a partial list left out.              *)
Follows ==
    Clean /\ "overtaken" \notin amiss /\ board.listed =>
        /\ Mounted
        /\ \A t \in tasks : Mutates(t) => Here(t)
        /\ \A t \in tasks : t.op = "cycle" =>
              board.posters[t.poster] # None /\ (t.at = "set" => disk.posters[t.poster] = t.status)
        /\ \A p \in Poster :
              \/ board.posters[p] = disk.posters[p]
              \/ \E t \in tasks : t.poster = p /\ Pending(t)
              \/ board.posters[p] = None /\ amiss \cap Partial # {}

(* Object URLs; none is live for a poster whose deletion has begun.         *)
UrlsInv ==
    /\ UrlsRegistered /\ UrlsGoWithTheirCard
    /\ "late" \notin amiss /\ "twice" \notin amiss /\ "overlaid" \notin amiss =>
         \A t \in tasks : t.op = "delete" => \A k \in Media : k[1] = t.poster => live[k] = 0

(* The inductive invariant.                                                 *)
BoardInv == Shape /\ Known /\ CleanInv /\ Owned /\ Follows /\ UrlsInv

(* A medium is a pair of a poster and one of its kinds.                     *)
LEMMA MediaIs ==
    /\ \A p \in Poster : \A m : <<p, m>> \in Media <=> m \in MediaOf(p)
    /\ \A k \in Media : k[1] \in Poster /\ k[2] \in MediaOf(k[1]) /\ k = <<k[1], k[2]>>
    /\ \A p \in Poster : MediaOf(p) \subseteq {"image", "video"}
BY BoardAssumption DEF Media

(* A board is made of its fields,                                           *)
LEMMA BoardFields ==
    ASSUME NEW b \in BoardRec
    PROVE  /\ b.number \in 0..MaxBoards /\ b.listed \in BOOLEAN /\ b.posters \in Posters
           /\ b.confirm \subseteq Poster /\ b.adding \in {"closed", "open"} \cup Poster
           /\ b.cards \in [Media -> {"sealed", "loading", "shown", "error"}]
           /\ DOMAIN b = {"number", "listed", "posters", "confirm", "adding", "cards"}
BY DEF BoardRec

(* and an updated one is a board if every field is still of its type.       *)
LEMMA BoardUpdated ==
    ASSUME NEW b \in BoardRec, NEW c, c = [y \in DOMAIN b |-> c[y]],
           c.number \in 0..MaxBoards, c.listed \in BOOLEAN, c.posters \in Posters,
           c.confirm \subseteq Poster, c.adding \in {"closed", "open"} \cup Poster,
           c.cards \in [Media -> {"sealed", "loading", "shown", "error"}]
    PROVE  c \in BoardRec
<1>1. c = [y \in {"number", "listed", "posters", "confirm", "adding", "cards"} |-> c[y]]
    BY BoardFields
<1>2. c = [number |-> c.number, listed |-> c.listed, posters |-> c.posters,
           confirm |-> c.confirm, adding |-> c.adding, cards |-> c.cards]
    BY <1>1
<1>3. QED
    BY <1>2 DEF BoardRec

(* A handler that goes on keeps all but its place.                          *)
LEMMA Advanced ==
    ASSUME NEW t, DOMAIN t = Fields, NEW at, NEW t1, t1 = [t EXCEPT !.at = at]
    PROVE  /\ DOMAIN t1 = Fields /\ t1.op = t.op /\ t1.poster = t.poster /\ t1.at = at
           /\ t1.board = t.board /\ t1.kind = t.kind /\ t1.status = t.status /\ t1.list = t.list
BY DEF Fields

(* The parts of Shape that the steps use.                                   *)
LEMMA ShapeParts ==
    ASSUME Shape
    PROVE  /\ disk = [posters |-> disk.posters, blobs |-> disk.blobs]
           /\ disk.posters \in Posters /\ disk.blobs \subseteq Media
           /\ board \in BoardRec /\ board.posters \in Posters /\ board.number \in Nat
           /\ made.posters \subseteq Poster /\ made.boards \in Nat
BY BoardAssumption, BoardFields DEF Shape

(* Steps that touch neither disk, posters, dialogs nor the handlers that    *)
(* write keep everything but the types and the URLs.                        *)
LEMMA CoreKeeps ==
    ASSUME BoardInv, disk' = disk, made'.posters = made.posters, amiss \subseteq amiss',
           board'.number = board.number, board'.listed = board.listed,
           board'.posters = board.posters, board'.confirm = board.confirm,
           \A t \in tasks \cup tasks' : t.op # "open" => (t \in tasks' <=> t \in tasks)
    PROVE  Known' /\ CleanInv' /\ Owned' /\ Follows'
<1>1. /\ Shape /\ Known /\ CleanInv /\ Owned /\ Follows
    BY DEF BoardInv
<1>2. Known'
    BY <1>1 DEF Known, Mutates, Mounted
<1>3. CleanInv'
    <2> SUFFICES ASSUME Clean'
                 PROVE  (/\ Exclusive /\ SavesHidden /\ ConfirmShown /\ ShownOnDisk /\ DeletesHere
                         /\ TaskDisk /\ MediaThere)'
        BY DEF CleanInv
    <2>1. /\ Exclusive /\ SavesHidden /\ ConfirmShown /\ ShownOnDisk /\ DeletesHere
          /\ TaskDisk /\ MediaThere
        BY <1>1 DEF CleanInv, Clean
    <2>2. Exclusive'
        BY <2>1 DEF Exclusive, Mutates
    <2>3. SavesHidden' /\ ConfirmShown'
        BY <2>1 DEF SavesHidden, ConfirmShown
    <2>4. ShownOnDisk'
        BY <2>1 DEF ShownOnDisk, OnDisk
    <2>5. DeletesHere'
        BY <2>1 DEF DeletesHere, Here, Mounted
    <2>6. TaskDisk' /\ MediaThere'
        BY <2>1 DEF TaskDisk, OnDisk, MediaThere, Sealed
    <2>7. QED
        BY <2>2, <2>3, <2>4, <2>5, <2>6
<1>4. Owned'
    BY <1>1 DEF Owned, OnDisk
<1>5. Follows'
    BY <1>1 DEF Follows, Clean, Mutates, Here, Mounted, Pending
<1>6. QED
    BY <1>2, <1>3, <1>4, <1>5

(* The add overlay,                                                         *)
LEMMA AddingSet ==
    ASSUME Shape, NEW x \in {"closed", "open"} \cup Poster, board' = [board EXCEPT !.adding = x]
    PROVE  /\ board' \in BoardRec
           /\ board'.number = board.number /\ board'.listed = board.listed
           /\ board'.posters = board.posters /\ board'.confirm = board.confirm
           /\ board'.cards = board.cards
<1>1. board \in BoardRec
    BY DEF Shape
<1> HIDE DEF Shape
<1>2. /\ board'.number = board.number /\ board'.listed = board.listed
      /\ board'.posters = board.posters /\ board'.confirm = board.confirm
      /\ board'.cards = board.cards /\ board'.adding = x
      /\ board' = [y \in DOMAIN board |-> board'[y]]
    BY <1>1, BoardFields
<1>3. board' \in BoardRec
    BY <1>1, <1>2, BoardFields, BoardUpdated
<1>4. QED
    BY <1>2, <1>3

(* a card,                                                                  *)
LEMMA CardSet ==
    ASSUME Shape, NEW k \in Media, NEW state \in {"sealed", "loading", "shown", "error"},
           board' = [board EXCEPT !.cards[k] = state]
    PROVE  /\ board' \in BoardRec
           /\ board'.number = board.number /\ board'.listed = board.listed
           /\ board'.posters = board.posters /\ board'.confirm = board.confirm
<1>1. board \in BoardRec
    BY DEF Shape
<1>2. board.cards \in [Media -> {"sealed", "loading", "shown", "error"}]
    BY <1>1, BoardFields
<1> DEFINE cards == [board.cards EXCEPT ![k] = state]
<1>3. cards \in [Media -> {"sealed", "loading", "shown", "error"}]
    BY <1>2
<1>4. board' = [board EXCEPT !.cards = cards]
    BY <1>1, BoardFields
<1> HIDE DEF cards
<1>5. /\ board'.number = board.number /\ board'.listed = board.listed
      /\ board'.posters = board.posters /\ board'.confirm = board.confirm
      /\ board'.cards = cards /\ board'.adding = board.adding
      /\ board' = [y \in DOMAIN board |-> board'[y]]
    BY <1>1, <1>4, BoardFields
<1>6. board' \in BoardRec
    BY <1>1, <1>3, <1>5, BoardFields, BoardUpdated
<1>7. QED
    BY <1>5, <1>6

(* a new task,                                                              *)
LEMMA TaskIs ==
    ASSUME Shape, NEW op, NEW p, NEW at, NEW t, t = Task(op, p, at)
    PROVE  /\ DOMAIN t = Fields /\ t.op = op /\ t.poster = p /\ t.at = at
           /\ t.board = board.number /\ t.board \in Nat
           /\ t.kind = "none" /\ t.status = None /\ t.list = Blank
<1>1. board.number \in Nat
    BY ShapeParts
<1>2. QED
    BY <1>1 DEF Task, Fields

(* and a decryption: what they change.                                      *)
LEMMA OpenIs ==
    ASSUME Shape, NEW p \in Poster, NEW kind \in MediaOf(p), NEW t, t = Open(p, kind)
    PROVE  TaskOK(t) /\ t.op = "open"
<1> DEFINE u == Task("open", p, "read")
<1>1. /\ DOMAIN u = Fields /\ u.op = "open" /\ u.poster = p /\ u.at = "read"
      /\ u.board = board.number /\ u.board \in Nat
    BY TaskIs
<1>2. t = [u EXCEPT !.kind = kind]
    BY DEF Open
<1> HIDE DEF u
<1>3. DOMAIN t = Fields /\ t.op = "open" /\ t.poster = p /\ t.board \in Nat /\ t.kind = kind
    BY <1>1, <1>2 DEF Fields
<1>4. QED
    BY <1>3 DEF TaskOK

(* The steps of decryption.                                                 *)
LEMMA PlayKeeps ==
    ASSUME BoardInv, NEW p \in Poster, PlayVideo(p)
    PROVE  BoardInv'
<1> DEFINE k == <<p, "video">>
<1>1. Shape /\ UrlsInv
    BY DEF BoardInv
<1>2. /\ k \in Media /\ Mounted /\ UNCHANGED <<disk, registry, live, made, amiss>>
      /\ \E state \in {"loading", "shown"} : board' = [board EXCEPT !.cards[k] = state]
      /\ tasks' = tasks \/ tasks' = tasks \cup {Open(p, "video")}
    BY DEF PlayVideo, Add
<1>3. "video" \in MediaOf(p)
    BY <1>2, MediaIs
<1>4. PICK u : u = Open(p, "video")
    OBVIOUS
<1>5. TaskOK(u) /\ u.op = "open"
    BY <1>1, <1>3, <1>4, OpenIs
<1>6. /\ board' \in BoardRec
      /\ board'.number = board.number /\ board'.listed = board.listed
      /\ board'.posters = board.posters /\ board'.confirm = board.confirm
    BY <1>1, <1>2, CardSet
<1>7. Shape'
    BY <1>1, <1>2, <1>4, <1>5, <1>6 DEF Shape
<1>8. Known' /\ CleanInv' /\ Owned' /\ Follows'
    BY <1>2, <1>4, <1>5, <1>6, CoreKeeps
<1>9. UrlsInv'
    BY <1>1, <1>2, <1>4, <1>5
       DEF UrlsInv, UrlsRegistered, UrlsGoWithTheirCard, Only, Mounted
<1>10. QED
    BY <1>7, <1>8, <1>9 DEF BoardInv

(* A decryption changes its card only.                                      *)
LEMMA CardIs ==
    ASSUME Shape, NEW t, TaskOK(t), t.op = "open",
           NEW state \in {"shown", "error"}, board' = Card(t, state)
    PROVE  /\ board' \in BoardRec
           /\ board'.number = board.number /\ board'.listed = board.listed
           /\ board'.posters = board.posters /\ board'.confirm = board.confirm
<1>1. CASE Gone(t)
    BY <1>1 DEF Card, Shape
<1>2. CASE ~Gone(t)
    <2>1. <<t.poster, t.kind>> \in Media
        BY MediaIs DEF TaskOK
    <2>2. board' = [board EXCEPT !.cards[<<t.poster, t.kind>>] = state]
        BY <1>2 DEF Card
    <2>3. PICK k \in Media : k = <<t.poster, t.kind>>
        BY <2>1
    <2>4. QED
        BY <2>2, <2>3, CardSet
<1>3. QED
    BY <1>1, <1>2

(* The ciphertext is read.                                                  *)
LEMMA ReadMediaKeeps ==
    ASSUME BoardInv, NEW t \in tasks, ReadMedia(t)
    PROVE  BoardInv'
<1> DEFINE t1 == [t EXCEPT !.at = "decrypt"]
<1>1. Shape /\ UrlsInv /\ TaskOK(t)
    BY DEF BoardInv, Shape
<1>2. /\ t.op = "open" /\ UNCHANGED <<disk, registry, live, made, amiss>>
      /\ board' = board \/ board' = Card(t, "error")
      /\ tasks' = tasks \ {t} \/ tasks' = (tasks \ {t}) \cup {t1}
    BY DEF ReadMedia, Advance, Drop
<1>3. /\ DOMAIN t1 = Fields /\ t1.op = t.op /\ t1.poster = t.poster
      /\ t1.board = t.board /\ t1.kind = t.kind
    BY <1>1, Advanced DEF TaskOK
<1> HIDE DEF t1
<1>4. TaskOK(t1) /\ t1.op = "open"
    BY <1>1, <1>2, <1>3 DEF TaskOK
<1>5. /\ board' \in BoardRec
      /\ board'.number = board.number /\ board'.listed = board.listed
      /\ board'.posters = board.posters /\ board'.confirm = board.confirm
    BY <1>1, <1>2, CardIs DEF Shape
<1>6. Shape'
    BY <1>1, <1>2, <1>4, <1>5 DEF Shape
<1>7. Known' /\ CleanInv' /\ Owned' /\ Follows'
    BY <1>2, <1>4, <1>5, CoreKeeps
<1>8. UrlsInv'
    BY <1>1, <1>2, <1>4, <1>5
       DEF UrlsInv, UrlsRegistered, UrlsGoWithTheirCard, Only, Mounted
<1>9. QED
    BY <1>6, <1>7, <1>8 DEF BoardInv

(* The URL is made: the one step that can make it twice, or late.           *)
LEMMA DecryptedKeeps ==
    ASSUME BoardInv, NEW t \in tasks, Decrypted(t)
    PROVE  BoardInv'
<1>1. Shape /\ UrlsInv /\ TaskOK(t) /\ live \in [Media -> 0..MaxUrls] /\ registry \subseteq Media
      /\ amiss \subseteq Ways
    BY DEF BoardInv, Shape
<1>2. t.op = "open" /\ <<t.poster, t.kind>> \in Media
    BY <1>1, MediaIs DEF Decrypted, TaskOK
<1>3. PICK k \in Media : k = <<t.poster, t.kind>>
    BY <1>2
<1>4. /\ live[k] < MaxUrls /\ live' = [live EXCEPT ![k] = @ + 1]
      /\ registry' = registry \cup {k}
      /\ board' = Card(t, "shown") /\ tasks' = tasks \ {t}
      /\ amiss' = amiss \cup (IF Gone(t) \/ Busy("delete", t.poster) THEN {"late"} ELSE {})
                        \cup (IF k \in registry THEN {"twice"} ELSE {})
      /\ UNCHANGED <<disk, made>>
    BY <1>3 DEF Decrypted, Drop, Registers, Blame, If
<1>5. /\ board' \in BoardRec
      /\ board'.number = board.number /\ board'.listed = board.listed
      /\ board'.posters = board.posters /\ board'.confirm = board.confirm
    BY <1>1, <1>2, <1>4, CardIs
<1>6. MaxUrls \in Nat /\ live[k] \in 0..MaxUrls
    BY <1>1, BoardAssumption
<1>7. /\ live' \in [Media -> 0..MaxUrls] /\ live'[k] = live[k] + 1
      /\ \A j \in Media : j # k => live'[j] = live[j]
    BY <1>1, <1>4, <1>6
<1>8. amiss \subseteq amiss' /\ amiss' \subseteq Ways
    BY <1>1, <1>4 DEF Ways
<1>9. Shape'
    BY <1>1, <1>4, <1>5, <1>6, <1>8 DEF Shape
<1>10. Known' /\ CleanInv' /\ Owned' /\ Follows'
    BY <1>2, <1>4, <1>5, <1>8, CoreKeeps
<1>11. UrlsRegistered'
    BY <1>1, <1>4 DEF UrlsInv, UrlsRegistered, Only, Ways
<1>12. k[1] = t.poster
    BY <1>3
<1>13. UrlsGoWithTheirCard'
    <2> SUFFICES ASSUME Only(Ways \ {"late", "twice", "overlaid"})', NEW j \in Media, live'[j] > 0
                 PROVE  Mounted' /\ board'.posters[j[1]] # None
        BY DEF UrlsGoWithTheirCard
    <2>1. ~Gone(t) /\ Only(Ways \ {"late", "twice", "overlaid"})
        BY <1>4, <1>8 DEF Only
    <2>2. CASE j = k
        BY <2>1, <2>2, <1>5, <1>12 DEF Gone, Here, Mounted
    <2>3. CASE j # k
        BY <2>1, <2>3, <1>1, <1>5, <1>7 DEF UrlsInv, UrlsGoWithTheirCard, Mounted
    <2>4. QED
        BY <2>2, <2>3
<1>14. "late" \notin amiss' /\ "twice" \notin amiss' /\ "overlaid" \notin amiss' =>
         \A u \in tasks' : u.op = "delete" => \A j \in Media : j[1] = u.poster => live'[j] = 0
    <2> SUFFICES ASSUME "late" \notin amiss', "twice" \notin amiss', "overlaid" \notin amiss',
                        NEW u \in tasks', u.op = "delete", NEW j \in Media, j[1] = u.poster
                 PROVE  live'[j] = 0
        OBVIOUS
    <2>1. ~Busy("delete", t.poster) /\ u \in tasks
        BY <1>4
    <2>2. j # k
        BY <2>1, <1>12 DEF Busy
    <2>3. QED
        BY <2>1, <2>2, <1>1, <1>7, <1>8 DEF UrlsInv
<1>15. QED
    BY <1>9, <1>10, <1>11, <1>13, <1>14 DEF BoardInv, UrlsInv

(* The add overlay opens and closes.                                        *)
LEMMA OverlayKeeps ==
    ASSUME BoardInv, OpenOverlay \/ CloseOverlay
    PROVE  BoardInv'
<1>1. Shape /\ UrlsInv
    BY DEF BoardInv
<1>2. /\ UNCHANGED <<disk, registry, live, tasks, made, amiss>>
      /\ \E x \in {"closed", "open"} : board' = [board EXCEPT !.adding = x]
    BY DEF OpenOverlay, CloseOverlay
<1>3. /\ board' \in BoardRec
      /\ board'.number = board.number /\ board'.listed = board.listed
      /\ board'.posters = board.posters /\ board'.confirm = board.confirm
    BY <1>1, <1>2, AddingSet
<1>4. Shape'
    BY <1>1, <1>2, <1>3 DEF Shape
<1>5. Known' /\ CleanInv' /\ Owned' /\ Follows'
    BY <1>2, <1>3, CoreKeeps
<1>6. UrlsInv'
    BY <1>1, <1>2, <1>3
       DEF UrlsInv, UrlsRegistered, UrlsGoWithTheirCard, Only, Mounted
<1>7. QED
    BY <1>4, <1>5, <1>6 DEF BoardInv

(* The dialog that asks changes itself only.                                *)
LEMMA ConfirmSet ==
    ASSUME Shape, NEW x \in SUBSET Poster, board' = [board EXCEPT !.confirm = x]
    PROVE  /\ board' \in BoardRec
           /\ board'.number = board.number /\ board'.listed = board.listed
           /\ board'.posters = board.posters /\ board'.confirm = x
<1>1. board \in BoardRec
    BY DEF Shape
<1>2. /\ board'.number = board.number /\ board'.listed = board.listed
      /\ board'.posters = board.posters /\ board'.confirm = x
      /\ board'.cards = board.cards /\ board'.adding = board.adding
      /\ board' = [y \in DOMAIN board |-> board'[y]]
    BY <1>1, BoardFields
<1>3. board' \in BoardRec
    BY <1>1, <1>2, BoardFields, BoardUpdated
<1>4. QED
    BY <1>2, <1>3

(* Nothing is shown without a board,                                        *)
LEMMA NothingMounted ==
    /\ NoBoard \in BoardRec /\ NoBoard.number = 0 /\ ~NoBoard.listed
    /\ NoBoard.posters = Blank /\ NoBoard.confirm = {}
    /\ Blank \in Posters /\ \A p \in Poster : Blank[p] = None
<1>1. Blank \in Posters /\ \A p \in Poster : Blank[p] = None
    BY DEF Blank, Posters
<1>2. 0 \in 0..MaxBoards
    BY BoardAssumption
<1>3. QED
    BY <1>1, <1>2 DEF NoBoard, BoardRec

(* nor by one that has just been mounted.                                   *)
LEMMA MountedIs ==
    ASSUME NEW n \in 0..MaxBoards, NEW b, b = [NoBoard EXCEPT !.number = n]
    PROVE  /\ b \in BoardRec /\ b.number = n /\ ~b.listed /\ b.posters = Blank /\ b.confirm = {}
<1>1. NoBoard \in BoardRec
    BY NothingMounted
<1>2. /\ b.number = n /\ b.listed = NoBoard.listed /\ b.posters = NoBoard.posters
      /\ b.confirm = NoBoard.confirm /\ b.cards = NoBoard.cards /\ b.adding = NoBoard.adding
      /\ b = [y \in DOMAIN NoBoard |-> b[y]]
    BY <1>1, BoardFields
<1>3. b \in BoardRec
    BY <1>1, <1>2, BoardFields, BoardUpdated
<1>4. QED
    BY <1>2, <1>3, NothingMounted

(* Revoking takes media from the registry and their URLs from the live      *)
(* ones.                                                                    *)
LEMMA Revoked ==
    ASSUME Shape, NEW ks \in SUBSET Media, Revoke(ks)
    PROVE  /\ live' \in [Media -> 0..MaxUrls] /\ registry' = registry \ ks
           /\ \A k \in Media : live'[k] = IF k \in ks /\ k \in registry THEN live[k] - 1 ELSE live[k]
           /\ \A k \in registry' : live'[k] > 0
<1>1. /\ live \in [Media -> 0..MaxUrls] /\ registry \subseteq Media
      /\ \A k \in registry : live[k] > 0
      /\ MaxUrls \in Nat
    BY BoardAssumption DEF Shape
<1>2. /\ registry' = registry \ ks
      /\ \A k \in Media : live'[k] = IF k \in ks /\ k \in registry THEN live[k] - 1 ELSE live[k]
      /\ live' = [k \in Media |-> IF k \in ks /\ k \in registry THEN live[k] - 1 ELSE live[k]]
    BY DEF Revoke
<1>3. \A k \in Media : (IF k \in ks /\ k \in registry THEN live[k] - 1 ELSE live[k]) \in 0..MaxUrls
    BY <1>1
<1>4. live' \in [Media -> 0..MaxUrls]
    BY <1>2, <1>3
<1>5. QED
    BY <1>1, <1>2, <1>4

(* The board goes.                                                          *)
LEMMA UnmountKeeps ==
    ASSUME BoardInv, Unmount
    PROVE  BoardInv'
<1>1. /\ Shape /\ Known /\ CleanInv /\ Owned /\ Follows /\ UrlsInv
      /\ disk.posters \in Posters /\ disk.blobs \subseteq Media /\ board \in BoardRec
      /\ board.posters \in Posters /\ made.posters \subseteq Poster /\ MaxBoards \in Nat
    BY ShapeParts, BoardAssumption DEF BoardInv, Shape
<1>2. /\ Mounted /\ board' = NoBoard /\ UNCHANGED <<disk, tasks, made, amiss>>
    BY DEF Unmount
<1>3. /\ live' \in [Media -> 0..MaxUrls] /\ registry' = registry \ Media
      /\ \A k \in Media : live'[k] = IF k \in registry THEN live[k] - 1 ELSE live[k]
      /\ \A k \in registry' : live'[k] > 0
    BY <1>1, Revoked DEF Unmount
<1>4. /\ board' \in BoardRec /\ board'.number = 0 /\ ~board'.listed
      /\ board'.confirm = {} /\ \A p \in Poster : board'.posters[p] = None
      /\ made.boards \in Nat /\ registry \subseteq Media /\ live \in [Media -> 0..MaxUrls]
    BY <1>1, <1>2, NothingMounted, ShapeParts DEF Shape
<1>5. \A t \in tasks : Mutates(t) => t.poster \in Poster
    BY <1>1 DEF Shape, TaskOK, Mutates
<1>6. Shape'
    BY <1>1, <1>2, <1>3, <1>4 DEF Shape
<1>7. Known'
    BY <1>1, <1>2, <1>4 DEF Known, Mutates, Mounted
<1>8. CleanInv'
    <2> SUFFICES ASSUME Clean'
                 PROVE  (/\ Exclusive /\ SavesHidden /\ ConfirmShown /\ ShownOnDisk /\ DeletesHere
                         /\ TaskDisk /\ MediaThere)'
        BY DEF CleanInv
    <2>1. Clean /\ Exclusive /\ SavesHidden /\ ConfirmShown /\ ShownOnDisk /\ DeletesHere
          /\ TaskDisk /\ MediaThere
        BY <1>1, <1>2 DEF CleanInv, Clean
    <2>2. Exclusive'
        BY <2>1, <1>2 DEF Exclusive, Mutates
    <2>3. SavesHidden'
        BY <1>2, <1>4, <1>5 DEF SavesHidden, Mutates
    <2>4. ConfirmShown'
        BY <1>4 DEF ConfirmShown
    <2>5. ShownOnDisk'
        BY <1>4 DEF ShownOnDisk, OnDisk
    <2>6. DeletesHere'
        BY <1>2, <1>4, <1>5 DEF DeletesHere, Mutates
    <2>7. TaskDisk'
        BY <2>1, <1>2 DEF TaskDisk, OnDisk
    <2>8. MediaThere'
        BY <2>1, <1>2 DEF MediaThere, Sealed, OnDisk
    <2>9. QED
        BY <2>2, <2>3, <2>4, <2>5, <2>6, <2>7, <2>8
<1>9. Owned'
    BY <1>1, <1>2 DEF Owned, OnDisk
<1>10. Follows'
    BY <1>4 DEF Follows, Clean, CleanInv, Exclusive, Mutates, Here, Mounted, Pending
<1>11. UrlsInv'
    <2>1. Only(Ways \ {"twice"})' => \A k \in Media : live'[k] = 0 /\ k \notin registry'
        BY <1>1, <1>2, <1>3 DEF UrlsInv, UrlsRegistered, Only
    <2>2. UrlsRegistered'
        BY <2>1 DEF UrlsRegistered
    <2>3. UrlsGoWithTheirCard'
        BY <2>1 DEF UrlsGoWithTheirCard, Only
    <2>4. QED
        BY <1>1, <1>2, <1>3, <2>2, <2>3 DEF UrlsInv
<1>12. QED
    BY <1>6, <1>7, <1>8, <1>9, <1>10, <1>11 DEF BoardInv

(* The page goes.                                                           *)
LEMMA ReloadKeeps ==
    ASSUME BoardInv, Reload
    PROVE  BoardInv'
<1>1. /\ Shape /\ Known /\ CleanInv /\ Owned /\ Follows /\ UrlsInv
      /\ disk.posters \in Posters /\ disk.blobs \subseteq Media /\ board \in BoardRec
      /\ board.posters \in Posters /\ made.posters \subseteq Poster /\ MaxBoards \in Nat
    BY ShapeParts, BoardAssumption DEF BoardInv, Shape
<1>2. /\ board' = NoBoard /\ registry' = {} /\ live' = [k \in Media |-> 0] /\ tasks' = {}
      /\ UNCHANGED <<disk, made>>
      /\ amiss' = amiss \cup (IF \E t \in tasks : t.op \in {"save", "delete"} THEN {"failed"} ELSE {})
    BY DEF Reload, Blame, If
<1>3. /\ board' \in BoardRec /\ board'.number = 0 /\ ~board'.listed
      /\ board'.confirm = {} /\ \A p \in Poster : board'.posters[p] = None
      /\ made.boards \in Nat /\ MaxUrls \in Nat /\ amiss \subseteq Ways
    BY <1>1, <1>2, NothingMounted, ShapeParts, BoardAssumption DEF Shape
<1>4. /\ live' \in [Media -> 0..MaxUrls] /\ \A k \in Media : live'[k] = 0
      /\ amiss \subseteq amiss' /\ amiss' \subseteq Ways
    BY <1>2, <1>3 DEF Ways
<1>5. Shape'
    BY <1>1, <1>2, <1>3, <1>4 DEF Shape
<1>6. Known'
    BY <1>1, <1>2, <1>3 DEF Known, Mutates, Mounted
<1>7. CleanInv'
    <2> SUFFICES ASSUME Clean'
                 PROVE  (/\ Exclusive /\ SavesHidden /\ ConfirmShown /\ ShownOnDisk /\ DeletesHere
                         /\ TaskDisk /\ MediaThere)'
        BY DEF CleanInv
    <2>1. Clean /\ Exclusive /\ SavesHidden /\ ConfirmShown /\ ShownOnDisk /\ DeletesHere
          /\ TaskDisk /\ MediaThere
        BY <1>1, <1>2 DEF CleanInv, Clean
    <2>2. Exclusive'
        BY <1>2 DEF Exclusive, Mutates
    <2>3. SavesHidden'
        BY <1>2 DEF SavesHidden
    <2>4. ConfirmShown'
        BY <1>3 DEF ConfirmShown
    <2>5. ShownOnDisk'
        BY <1>3 DEF ShownOnDisk, OnDisk
    <2>6. DeletesHere'
        BY <1>2 DEF DeletesHere, Here, Mounted
    <2>7. TaskDisk'
        BY <1>2 DEF TaskDisk, OnDisk
    <2>8. MediaThere'
        BY <2>1, <1>2 DEF MediaThere, Sealed, OnDisk
    <2>9. QED
        BY <2>2, <2>3, <2>4, <2>5, <2>6, <2>7, <2>8
<1>8. Owned'
    BY <1>1, <1>2 DEF Owned, OnDisk
<1>9. Follows'
    BY <1>3 DEF Follows, Clean, CleanInv, Exclusive, Mutates, Here, Mounted, Pending
<1>10. UrlsInv'
    BY <1>2 DEF UrlsInv, UrlsRegistered, UrlsGoWithTheirCard, Only, Mounted
<1>11. QED
    BY <1>5, <1>6, <1>7, <1>8, <1>9, <1>10 DEF BoardInv

(* A board appears and asks for the list.                                   *)
LEMMA MountKeeps ==
    ASSUME BoardInv, Mount
    PROVE  BoardInv'
<1> DEFINE q == CHOOSE p \in Poster : TRUE
           u == Task("list", q, "read")
           t == [u EXCEPT !.board = made.boards + 1]
<1>1. /\ Shape /\ Known /\ CleanInv /\ Owned /\ Follows /\ UrlsInv
      /\ disk.posters \in Posters /\ disk.blobs \subseteq Media /\ board \in BoardRec
      /\ board.posters \in Posters /\ made.posters \subseteq Poster /\ MaxBoards \in Nat
    BY ShapeParts, BoardAssumption DEF BoardInv, Shape
<1>2. /\ ~Mounted /\ made.boards < MaxBoards /\ made' = [made EXCEPT !.boards = made.boards + 1]
      /\ board' = [NoBoard EXCEPT !.number = made.boards + 1]
      /\ tasks' = tasks \cup {t}
      /\ UNCHANGED <<disk, registry, live, amiss>>
    BY DEF Mount
<1>3. DOMAIN t = Fields /\ t.op = "list" /\ t.board = made.boards + 1 /\ t.list = Blank
    BY <1>1, TaskIs DEF Fields
<1> HIDE DEF t
<1>4. made.boards \in Nat /\ made.boards + 1 \in 0..MaxBoards
    BY <1>1, <1>2, ShapeParts
<1>5. /\ board' \in BoardRec /\ board'.number = made.boards + 1 /\ ~board'.listed
      /\ board'.confirm = {} /\ board'.posters = Blank
    BY <1>2, <1>4, MountedIs
<1>6. Blank \in Posters /\ \A p \in Poster : Blank[p] = None
    BY NothingMounted
<1>7. made' \in [posters : SUBSET Poster, boards : 0..MaxBoards, taps : 0..MaxTaps]
      /\ made'.boards = made.boards + 1 /\ made'.posters = made.posters
    BY <1>1, <1>2, <1>4 DEF Shape
<1>8. TaskOK(t)
    BY <1>3, <1>4, <1>6 DEF TaskOK
<1>9. \A v \in tasks : Mutates(v) => v.poster \in Poster
    BY <1>1 DEF Shape, TaskOK, Mutates
<1>10. Shape'
    BY <1>1, <1>2, <1>5, <1>8 DEF Shape
<1>11. Known'
    BY <1>1, <1>2, <1>3, <1>5, <1>6 DEF Known, Mutates, Mounted
<1>12. CleanInv'
    <2> SUFFICES ASSUME Clean'
                 PROVE  (/\ Exclusive /\ SavesHidden /\ ConfirmShown /\ ShownOnDisk /\ DeletesHere
                         /\ TaskDisk /\ MediaThere)'
        BY DEF CleanInv
    <2>1. Clean /\ Exclusive /\ SavesHidden /\ ConfirmShown /\ ShownOnDisk /\ DeletesHere
          /\ TaskDisk /\ MediaThere
        BY <1>1, <1>2 DEF CleanInv, Clean
    <2>2. Exclusive'
        BY <2>1, <1>2, <1>3 DEF Exclusive, Mutates
    <2>3. SavesHidden'
        BY <1>2, <1>3, <1>5, <1>6, <1>9 DEF SavesHidden, Mutates
    <2>4. ConfirmShown'
        BY <1>5 DEF ConfirmShown
    <2>5. ShownOnDisk'
        BY <1>5, <1>6 DEF ShownOnDisk, OnDisk
    <2>6. DeletesHere'
        BY <1>2, <1>3, <1>5, <1>6, <1>9 DEF DeletesHere, Mutates
    <2>7. TaskDisk'
        BY <2>1, <1>2, <1>3 DEF TaskDisk, OnDisk
    <2>8. MediaThere'
        BY <2>1, <1>2, <1>3 DEF MediaThere, Sealed, OnDisk
    <2>9. QED
        BY <2>2, <2>3, <2>4, <2>5, <2>6, <2>7, <2>8
<1>13. Owned'
    BY <1>1, <1>2 DEF Owned, OnDisk
<1>14. Follows'
    BY <1>5 DEF Follows, Clean, CleanInv, Exclusive, Mutates, Here, Mounted, Pending
<1>15. UrlsInv'
    BY <1>1, <1>2, <1>3
       DEF UrlsInv, UrlsRegistered, UrlsGoWithTheirCard, Only, Mounted
<1>16. QED
    BY <1>10, <1>11, <1>12, <1>13, <1>14, <1>15 DEF BoardInv

(* The list holds posters that are there, as they are.                      *)
LEMMA ListingIs ==
    ASSUME NEW posters \in Posters
    PROVE  /\ Listing(posters) \in Posters
           /\ \A p \in Poster : Listing(posters)[p] \in {posters[p], None}
BY DEF Listing, Posters

(* It is read.                                                              *)
LEMMA ReadListKeeps ==
    ASSUME BoardInv, NEW t \in tasks, ReadList(t)
    PROVE  BoardInv'
<1> DEFINE t1 == [t EXCEPT !.at = "set", !.list = Listing(disk.posters)]
<1>1. /\ Shape /\ Known /\ CleanInv /\ Owned /\ Follows /\ UrlsInv /\ TaskOK(t)
      /\ disk.posters \in Posters /\ disk.blobs \subseteq Media /\ board \in BoardRec
      /\ board.posters \in Posters /\ made.posters \subseteq Poster /\ MaxBoards \in Nat
    BY ShapeParts, BoardAssumption DEF BoardInv, Shape
<1>2. /\ t.op = "list" /\ tasks' = (tasks \ {t}) \cup {t1}
      /\ UNCHANGED <<disk, board, registry, live, made, amiss>>
    BY DEF ReadList
<1>3. /\ DOMAIN t1 = Fields /\ t1.op = t.op /\ t1.board = t.board
      /\ t1.list \in Posters /\ \A p \in Poster : t1.list[p] \in {disk.posters[p], None}
    BY <1>1, ListingIs DEF TaskOK, Fields
<1> HIDE DEF t1
<1>4. TaskOK(t1)
    BY <1>1, <1>2, <1>3 DEF TaskOK
<1>5. Shape'
    BY <1>1, <1>2, <1>4 DEF Shape
<1>6. Known'
    BY <1>1, <1>2, <1>3 DEF Known, Mutates, Mounted
<1>7. CleanInv'
    <2> SUFFICES ASSUME Clean'
                 PROVE  (/\ Exclusive /\ SavesHidden /\ ConfirmShown /\ ShownOnDisk /\ DeletesHere
                         /\ TaskDisk /\ MediaThere)'
        BY DEF CleanInv
    <2>1. Clean /\ Exclusive /\ SavesHidden /\ ConfirmShown /\ ShownOnDisk /\ DeletesHere
          /\ TaskDisk /\ MediaThere
        BY <1>1, <1>2 DEF CleanInv, Clean
    <2>2. Exclusive'
        BY <2>1, <1>2, <1>3 DEF Exclusive, Mutates
    <2>3. SavesHidden'
        BY <2>1, <1>2, <1>3 DEF SavesHidden
    <2>4. ConfirmShown'
        BY <2>1, <1>2 DEF ConfirmShown
    <2>5. ShownOnDisk'
        BY <2>1, <1>2 DEF ShownOnDisk, OnDisk
    <2>6. DeletesHere'
        BY <2>1, <1>2, <1>3 DEF DeletesHere, Here, Mounted
    <2>7. TaskDisk'
        BY <2>1, <1>2, <1>3 DEF TaskDisk, OnDisk
    <2>8. MediaThere'
        BY <2>1, <1>2, <1>3 DEF MediaThere, Sealed, OnDisk
    <2>9. QED
        BY <2>2, <2>3, <2>4, <2>5, <2>6, <2>7, <2>8
<1>8. Owned'
    BY <1>1, <1>2 DEF Owned, OnDisk
<1>9. Follows'
    BY <1>1, <1>2, <1>3
       DEF Follows, Clean, CleanInv, Exclusive, Mutates, Here, Mounted, Pending
<1>10. UrlsInv'
    BY <1>1, <1>2, <1>3
       DEF UrlsInv, UrlsRegistered, UrlsGoWithTheirCard, Only, Mounted
<1>11. QED
    BY <1>5, <1>6, <1>7, <1>8, <1>9, <1>10 DEF BoardInv

(* A save begins: its poster is new.                                        *)
LEMMA SaveKeeps ==
    ASSUME BoardInv, NEW p \in Poster, Save(p)
    PROVE  BoardInv'
<1> DEFINE at == FirstSeal(p)
           u == Task("save", p, at)
<1>1. /\ Shape /\ Known /\ CleanInv /\ Owned /\ Follows /\ UrlsInv
      /\ disk.posters \in Posters /\ disk.blobs \subseteq Media /\ board \in BoardRec
      /\ board.posters \in Posters /\ made.posters \subseteq Poster /\ MaxBoards \in Nat
    BY ShapeParts, BoardAssumption DEF BoardInv, Shape
<1>2. /\ Mounted /\ p \notin made.posters /\ board' = [board EXCEPT !.adding = p]
      /\ made' = [made EXCEPT !.posters = made.posters \cup {p}] /\ tasks' = tasks \cup {u}
      /\ UNCHANGED <<disk, registry, live, amiss>>
    BY DEF Save, Add
<1>3. /\ DOMAIN u = Fields /\ u.op = "save" /\ u.poster = p /\ u.at = at
      /\ u.board = board.number /\ u.board \in Nat
    BY <1>1, TaskIs
<1>4. /\ at \in MediaOf(p) \cup {"record"} /\ at \in {"image", "video", "record"}
      /\ at = "video" => "image" \notin MediaOf(p)
      /\ at = "record" => MediaOf(p) = {}
    BY MediaIs DEF FirstSeal
<1> HIDE DEF u, at
<1>5. /\ board' \in BoardRec
      /\ board'.number = board.number /\ board'.listed = board.listed
      /\ board'.posters = board.posters /\ board'.confirm = board.confirm
    BY <1>1, <1>2, AddingSet
<1>6. /\ made' \in [posters : SUBSET Poster, boards : 0..MaxBoards, taps : 0..MaxTaps]
      /\ made'.boards = made.boards /\ made'.posters = made.posters \cup {p}
    BY <1>1, <1>2 DEF Shape
<1>7. TaskOK(u)
    BY <1>3, <1>4 DEF TaskOK
<1>8. /\ disk.posters[p] = None /\ board.posters[p] = None
      /\ \A t \in tasks : Mutates(t) => t.poster # p
    BY <1>1, <1>2 DEF Known
<1>9. Shape'
    BY <1>1, <1>2, <1>5, <1>7 DEF Shape
<1>10. Known'
    BY <1>1, <1>2, <1>3 DEF Known, Mutates, Mounted
<1>11. CleanInv'
    <2> SUFFICES ASSUME Clean'
                 PROVE  (/\ Exclusive /\ SavesHidden /\ ConfirmShown /\ ShownOnDisk /\ DeletesHere
                         /\ TaskDisk /\ MediaThere)'
        BY DEF CleanInv
    <2>1. Clean /\ Exclusive /\ SavesHidden /\ ConfirmShown /\ ShownOnDisk /\ DeletesHere
          /\ TaskDisk /\ MediaThere
        BY <1>1, <1>2 DEF CleanInv, Clean
    <2>2. Exclusive'
        BY <2>1, <1>2, <1>3, <1>8 DEF Exclusive, Mutates
    <2>3. SavesHidden'
        BY <2>1, <1>2, <1>3, <1>8 DEF SavesHidden
    <2>4. ConfirmShown'
        BY <2>1, <1>2 DEF ConfirmShown
    <2>5. ShownOnDisk'
        BY <2>1, <1>2 DEF ShownOnDisk, OnDisk
    <2>6. DeletesHere'
        BY <2>1, <1>2, <1>3 DEF DeletesHere, Here, Mounted
    <2>7. TaskDisk'
        BY <2>1, <1>2, <1>3, <1>4 DEF TaskDisk, OnDisk
    <2>8. MediaThere'
        BY <2>1, <1>2, <1>3, <1>4 DEF MediaThere, Sealed, OnDisk
    <2>9. QED
        BY <2>2, <2>3, <2>4, <2>5, <2>6, <2>7, <2>8
<1>12. Owned'
    BY <1>1, <1>2 DEF Owned, OnDisk
<1>13. Follows'
    BY <1>1, <1>2, <1>3
       DEF Follows, Clean, CleanInv, Exclusive, Mutates, Here, Mounted, Pending
<1>14. UrlsInv'
    BY <1>1, <1>2, <1>3
       DEF UrlsInv, UrlsRegistered, UrlsGoWithTheirCard, Only, Mounted
<1>15. QED
    BY <1>9, <1>10, <1>11, <1>12, <1>13, <1>14 DEF BoardInv

(* A medium is sealed.                                                      *)
LEMMA SealKeeps ==
    ASSUME BoardInv, NEW t \in tasks, sealMedia(t)
    PROVE  BoardInv'
<1> DEFINE at == NextSeal(t.poster, t.at)
           k == <<t.poster, t.at>>
           t1 == [t EXCEPT !.at = at]
<1>1. /\ Shape /\ Known /\ CleanInv /\ Owned /\ Follows /\ UrlsInv /\ TaskOK(t)
      /\ disk.posters \in Posters /\ disk.blobs \subseteq Media /\ board \in BoardRec
      /\ board.posters \in Posters /\ made.posters \subseteq Poster /\ MaxBoards \in Nat
    BY ShapeParts, BoardAssumption DEF BoardInv, Shape
<1>2. /\ t.op = "save" /\ t.at \in {"image", "video"} /\ t.poster \in Poster
      /\ t.at \in MediaOf(t.poster)
      /\ disk' = [disk EXCEPT !.blobs = disk.blobs \cup {k}] /\ tasks' = (tasks \ {t}) \cup {t1}
      /\ UNCHANGED <<board, registry, live, made, amiss>>
    BY <1>1 DEF sealMedia, Advance, TaskOK
<1>3. /\ DOMAIN t1 = Fields /\ t1.op = t.op /\ t1.poster = t.poster /\ t1.at = at
      /\ t1.board = t.board /\ t1.kind = t.kind /\ t1.status = t.status /\ t1.list = t.list
    BY <1>1, Advanced DEF TaskOK
<1>4. /\ at \in MediaOf(t.poster) \cup {"record"} /\ at \in {"video", "record"}
      /\ at = "video" => t.at = "image"
      /\ at = "record" => t.at = "video" \/ "video" \notin MediaOf(t.poster)
    BY <1>2 DEF NextSeal
<1> HIDE DEF t1, at, k
<1>5. k \in Media /\ k = <<t.poster, t.at>> /\ k[1] = t.poster
    BY <1>2, MediaIs DEF k
<1>6. /\ disk' \in [posters : Posters, blobs : SUBSET Media]
      /\ disk'.posters = disk.posters /\ disk'.blobs = disk.blobs \cup {k}
    BY <1>1, <1>2, <1>5 DEF Shape
<1>7. TaskOK(t1)
    BY <1>1, <1>2, <1>3, <1>4 DEF TaskOK
<1>8. MediaOf(t.poster) \subseteq {"image", "video"}
    BY <1>2, MediaIs
<1>9. Shape'
    BY <1>1, <1>2, <1>6, <1>7 DEF Shape
<1>10. Known'
    BY <1>1, <1>2, <1>3 DEF Known, Mutates, Mounted
<1>11. CleanInv'
    <2> SUFFICES ASSUME Clean'
                 PROVE  (/\ Exclusive /\ SavesHidden /\ ConfirmShown /\ ShownOnDisk /\ DeletesHere
                         /\ TaskDisk /\ MediaThere)'
        BY DEF CleanInv
    <2>1. Clean /\ Exclusive /\ SavesHidden /\ ConfirmShown /\ ShownOnDisk /\ DeletesHere
          /\ TaskDisk /\ MediaThere
        BY <1>1, <1>2 DEF CleanInv, Clean
    <2>2. Exclusive'
        BY <2>1, <1>2, <1>3 DEF Exclusive, Mutates
    <2>3. SavesHidden'
        BY <2>1, <1>2, <1>3 DEF SavesHidden
    <2>4. ConfirmShown'
        BY <2>1, <1>2 DEF ConfirmShown
    <2>5. ShownOnDisk'
        BY <2>1, <1>2 DEF ShownOnDisk, OnDisk
    <2>6. DeletesHere'
        BY <2>1, <1>2, <1>3 DEF DeletesHere, Here, Mounted
    <2>7. TaskDisk'
        BY <2>1, <1>2, <1>3, <1>4 DEF TaskDisk, OnDisk
    <2>8. MediaThere'
        BY <2>1, <1>2, <1>3, <1>4, <1>5, <1>8 DEF MediaThere, Sealed, OnDisk
    <2>9. QED
        BY <2>2, <2>3, <2>4, <2>5, <2>6, <2>7, <2>8
<1>12. Owned'
    BY <1>1, <1>2, <1>3, <1>4, <1>5 DEF Owned, OnDisk
<1>13. Follows'
    BY <1>1, <1>2, <1>3
       DEF Follows, Clean, CleanInv, Exclusive, Mutates, Here, Mounted, Pending
<1>14. UrlsInv'
    BY <1>1, <1>2, <1>3
       DEF UrlsInv, UrlsRegistered, UrlsGoWithTheirCard, Only, Mounted
<1>15. QED
    BY <1>9, <1>10, <1>11, <1>12, <1>13, <1>14 DEF BoardInv

(* The record of a new poster is written.                                   *)
LEMMA PutPosterKeeps ==
    ASSUME BoardInv, NEW t \in tasks, putNewPoster(t)
    PROVE  BoardInv'
<1> DEFINE at == "created"
           t1 == [t EXCEPT !.at = at]
           ps == [disk.posters EXCEPT ![t.poster] = 0]
<1>1. /\ Shape /\ Known /\ CleanInv /\ Owned /\ Follows /\ UrlsInv /\ TaskOK(t)
      /\ disk.posters \in Posters /\ disk.blobs \subseteq Media /\ board \in BoardRec
      /\ board.posters \in Posters /\ made.posters \subseteq Poster /\ MaxBoards \in Nat
    BY ShapeParts, BoardAssumption DEF BoardInv, Shape
<1>2. /\ t.op = "save" /\ t.at = "record" /\ t.poster \in Poster /\ t.poster \in Poster
      /\ disk' = [disk EXCEPT !.posters = ps] /\ tasks' = (tasks \ {t}) \cup {t1}
      /\ UNCHANGED <<board, registry, live, made, amiss>>
    BY <1>1, ShapeParts DEF putNewPoster, Advance, TaskOK, Status, None
<1>3. /\ DOMAIN t1 = Fields /\ t1.op = t.op /\ t1.poster = t.poster /\ t1.at = at
      /\ t1.board = t.board /\ t1.kind = t.kind /\ t1.status = t.status /\ t1.list = t.list
    BY <1>1, Advanced DEF TaskOK
<1>4. /\ ps \in Posters /\ ps[t.poster] = 0
      /\ \A p \in Poster : p # t.poster => ps[p] = disk.posters[p]
    BY <1>1, <1>2 DEF Posters, Status, None
<1>5. at = "created" /\ 0 # None
    BY DEF None
<1> HIDE DEF t1, at, ps
<1>6. /\ disk' \in [posters : Posters, blobs : SUBSET Media]
      /\ disk'.posters = ps /\ disk'.blobs = disk.blobs
    BY <1>1, <1>2, <1>4 DEF Shape
<1>7. TaskOK(t1)
    BY <1>1, <1>2, <1>3, <1>5 DEF TaskOK
<1>8. \A u \in tasks : Mutates(u) => u.poster \in Poster
    BY <1>1 DEF Shape, TaskOK, Mutates
<1>9. Shape'
    BY <1>1, <1>2, <1>6, <1>7 DEF Shape
<1>10. Known'
    BY <1>1, <1>2, <1>3, <1>4 DEF Known, Mutates, Mounted
<1>11. CleanInv'
    <2> SUFFICES ASSUME Clean'
                 PROVE  (/\ Exclusive /\ SavesHidden /\ ConfirmShown /\ ShownOnDisk /\ DeletesHere
                         /\ TaskDisk /\ MediaThere)'
        BY DEF CleanInv
    <2>1. Clean /\ Exclusive /\ SavesHidden /\ ConfirmShown /\ ShownOnDisk /\ DeletesHere
          /\ TaskDisk /\ MediaThere
        BY <1>1, <1>2 DEF CleanInv, Clean
    <2>2. Exclusive'
        BY <2>1, <1>2, <1>3 DEF Exclusive, Mutates
    <2>3. SavesHidden'
        BY <2>1, <1>2, <1>3 DEF SavesHidden
    <2>4. ConfirmShown'
        BY <2>1, <1>2 DEF ConfirmShown
    <2>5. ShownOnDisk'
        BY <2>1, <1>2, <1>4, <1>5 DEF ShownOnDisk, OnDisk, Exclusive, Mutates
    <2>6. DeletesHere'
        BY <2>1, <1>2, <1>3 DEF DeletesHere, Here, Mounted
    <2>7. TaskDisk'
        BY <2>1, <1>2, <1>3, <1>4, <1>8 DEF TaskDisk, OnDisk, Exclusive, Mutates
    <2>8. MediaThere'
        BY <2>1, <1>2, <1>3, <1>4, <1>6
           DEF MediaThere, Sealed, OnDisk, Exclusive, Mutates, TaskDisk
    <2>9. QED
        BY <2>2, <2>3, <2>4, <2>5, <2>6, <2>7, <2>8
<1>12. Owned'
    BY <1>1, <1>2, <1>4, <1>5, MediaIs DEF Owned, OnDisk
<1>13. Follows'
    BY <1>1, <1>2, <1>3, <1>4, <1>5, <1>8
       DEF Follows, Clean, CleanInv, Exclusive, Mutates, Here, Mounted, Pending
<1>14. UrlsInv'
    BY <1>1, <1>2, <1>3
       DEF UrlsInv, UrlsRegistered, UrlsGoWithTheirCard, Only, Mounted
<1>15. QED
    BY <1>9, <1>10, <1>11, <1>12, <1>13, <1>14 DEF BoardInv

(* A status is written.                                                     *)
LEMMA PutStatusKeeps ==
    ASSUME BoardInv, NEW t \in tasks, putStatus(t)
    PROVE  BoardInv'
<1> DEFINE at == "set"
           t1 == [t EXCEPT !.at = at]
           ps == [disk.posters EXCEPT ![t.poster] = t.status]
<1>1. /\ Shape /\ Known /\ CleanInv /\ Owned /\ Follows /\ UrlsInv /\ TaskOK(t)
      /\ disk.posters \in Posters /\ disk.blobs \subseteq Media /\ board \in BoardRec
      /\ board.posters \in Posters /\ made.posters \subseteq Poster /\ MaxBoards \in Nat
    BY ShapeParts, BoardAssumption DEF BoardInv, Shape
<1>2. /\ t.op = "cycle" /\ t.at = "put" /\ t.poster \in Poster
      /\ t.status \in Status /\ t.status # None
      /\ disk' = [disk EXCEPT !.posters = ps] /\ tasks' = (tasks \ {t}) \cup {t1}
      /\ UNCHANGED <<board, registry, live, made, amiss>>
    BY <1>1, ShapeParts DEF putStatus, Advance, TaskOK, Status, None
<1>3. /\ DOMAIN t1 = Fields /\ t1.op = t.op /\ t1.poster = t.poster /\ t1.at = at
      /\ t1.board = t.board /\ t1.kind = t.kind /\ t1.status = t.status /\ t1.list = t.list
    BY <1>1, Advanced DEF TaskOK
<1>4. /\ ps \in Posters /\ ps[t.poster] = t.status
      /\ \A p \in Poster : p # t.poster => ps[p] = disk.posters[p]
    BY <1>1, <1>2 DEF Posters, Status, None
<1>5. at = "set"
    OBVIOUS
<1> HIDE DEF t1, at, ps
<1>6. /\ disk' \in [posters : Posters, blobs : SUBSET Media]
      /\ disk'.posters = ps /\ disk'.blobs = disk.blobs
    BY <1>1, <1>2, <1>4 DEF Shape
<1>7. TaskOK(t1)
    BY <1>1, <1>2, <1>3, <1>5 DEF TaskOK
<1>8. \A u \in tasks : Mutates(u) => u.poster \in Poster
    BY <1>1 DEF Shape, TaskOK, Mutates
<1>9. Shape'
    BY <1>1, <1>2, <1>6, <1>7 DEF Shape
<1>10. Known'
    BY <1>1, <1>2, <1>3, <1>4 DEF Known, Mutates, Mounted
<1>11. CleanInv'
    <2> SUFFICES ASSUME Clean'
                 PROVE  (/\ Exclusive /\ SavesHidden /\ ConfirmShown /\ ShownOnDisk /\ DeletesHere
                         /\ TaskDisk /\ MediaThere)'
        BY DEF CleanInv
    <2>1. Clean /\ Exclusive /\ SavesHidden /\ ConfirmShown /\ ShownOnDisk /\ DeletesHere
          /\ TaskDisk /\ MediaThere
        BY <1>1, <1>2 DEF CleanInv, Clean
    <2>2. Exclusive'
        BY <2>1, <1>2, <1>3 DEF Exclusive, Mutates
    <2>3. SavesHidden'
        BY <2>1, <1>2, <1>3 DEF SavesHidden
    <2>4. ConfirmShown'
        BY <2>1, <1>2 DEF ConfirmShown
    <2>5. ShownOnDisk'
        BY <2>1, <1>2, <1>4 DEF ShownOnDisk, OnDisk, Exclusive, Mutates
    <2>6. DeletesHere'
        BY <2>1, <1>2, <1>3 DEF DeletesHere, Here, Mounted
    <2>7. TaskDisk'
        BY <2>1, <1>2, <1>3, <1>4, <1>8 DEF TaskDisk, OnDisk, Exclusive, Mutates
    <2>8. MediaThere'
        BY <2>1, <1>2, <1>3, <1>4
           DEF MediaThere, Sealed, OnDisk, Exclusive, Mutates, TaskDisk
    <2>9. QED
        BY <2>2, <2>3, <2>4, <2>5, <2>6, <2>7, <2>8
<1>12. Owned'
    BY <1>1, <1>2, <1>4, MediaIs DEF Owned, OnDisk
<1>13. Follows'
    BY <1>1, <1>2, <1>3, <1>4, <1>5, <1>8
       DEF Follows, Clean, CleanInv, Exclusive, Mutates, Here, Mounted, Pending
<1>14. UrlsInv'
    BY <1>1, <1>2, <1>3
       DEF UrlsInv, UrlsRegistered, UrlsGoWithTheirCard, Only, Mounted
<1>15. QED
    BY <1>9, <1>10, <1>11, <1>12, <1>13, <1>14 DEF BoardInv

(* A record is deleted.                                                     *)
LEMMA DeleteRecordKeeps ==
    ASSUME BoardInv, NEW t \in tasks, deleteRecord(t)
    PROVE  BoardInv'
<1> DEFINE at == IF disk.posters[t.poster] = None THEN "set" ELSE "media"
           t1 == [t EXCEPT !.at = at]
           ps == [disk.posters EXCEPT ![t.poster] = None]
<1>1. /\ Shape /\ Known /\ CleanInv /\ Owned /\ Follows /\ UrlsInv /\ TaskOK(t)
      /\ disk.posters \in Posters /\ disk.blobs \subseteq Media /\ board \in BoardRec
      /\ board.posters \in Posters /\ made.posters \subseteq Poster /\ MaxBoards \in Nat
    BY ShapeParts, BoardAssumption DEF BoardInv, Shape
<1>2. /\ t.op = "delete" /\ t.at = "record" /\ t.poster \in Poster /\ t.poster \in Poster
      /\ disk' = [disk EXCEPT !.posters = ps] /\ tasks' = (tasks \ {t}) \cup {t1}
      /\ UNCHANGED <<board, registry, live, made, amiss>>
    BY <1>1, ShapeParts DEF deleteRecord, Advance, TaskOK, Status, None
<1>3. /\ DOMAIN t1 = Fields /\ t1.op = t.op /\ t1.poster = t.poster /\ t1.at = at
      /\ t1.board = t.board /\ t1.kind = t.kind /\ t1.status = t.status /\ t1.list = t.list
    BY <1>1, Advanced DEF TaskOK
<1>4. /\ ps \in Posters /\ ps[t.poster] = None
      /\ \A p \in Poster : p # t.poster => ps[p] = disk.posters[p]
    BY <1>1, <1>2 DEF Posters, Status, None
<1>5. at \in {"set", "media"} /\ (at = "set" => disk.posters[t.poster] = None)
    OBVIOUS
<1> HIDE DEF t1, at, ps
<1>6. /\ disk' \in [posters : Posters, blobs : SUBSET Media]
      /\ disk'.posters = ps /\ disk'.blobs = disk.blobs
    BY <1>1, <1>2, <1>4 DEF Shape
<1>7. TaskOK(t1)
    BY <1>1, <1>2, <1>3, <1>5 DEF TaskOK
<1>8. \A u \in tasks : Mutates(u) => u.poster \in Poster
    BY <1>1 DEF Shape, TaskOK, Mutates
<1>9. Shape'
    BY <1>1, <1>2, <1>6, <1>7 DEF Shape
<1>10. Known'
    BY <1>1, <1>2, <1>3, <1>4 DEF Known, Mutates, Mounted
<1>11. CleanInv'
    <2> SUFFICES ASSUME Clean'
                 PROVE  (/\ Exclusive /\ SavesHidden /\ ConfirmShown /\ ShownOnDisk /\ DeletesHere
                         /\ TaskDisk /\ MediaThere)'
        BY DEF CleanInv
    <2>1. Clean /\ Exclusive /\ SavesHidden /\ ConfirmShown /\ ShownOnDisk /\ DeletesHere
          /\ TaskDisk /\ MediaThere
        BY <1>1, <1>2 DEF CleanInv, Clean
    <2>2. Exclusive'
        BY <2>1, <1>2, <1>3 DEF Exclusive, Mutates
    <2>3. SavesHidden'
        BY <2>1, <1>2, <1>3 DEF SavesHidden
    <2>4. ConfirmShown'
        BY <2>1, <1>2 DEF ConfirmShown
    <2>5. ShownOnDisk'
        BY <2>1, <1>2, <1>3, <1>4, <1>5 DEF ShownOnDisk, OnDisk, Exclusive, Mutates
    <2>6. DeletesHere'
        BY <2>1, <1>2, <1>3 DEF DeletesHere, Here, Mounted
    <2>7. TaskDisk'
        BY <2>1, <1>2, <1>3, <1>4, <1>8 DEF TaskDisk, OnDisk, Exclusive, Mutates
    <2>8. MediaThere'
        BY <2>1, <1>2, <1>3, <1>4
           DEF MediaThere, Sealed, OnDisk, Exclusive, Mutates, TaskDisk
    <2>9. QED
        BY <2>2, <2>3, <2>4, <2>5, <2>6, <2>7, <2>8
<1>12. Owned'
    BY <1>1, <1>2, <1>3, <1>4, <1>5, MediaIs DEF Owned, OnDisk
<1>13. Follows'
    BY <1>1, <1>2, <1>3, <1>4, <1>5, <1>8
       DEF Follows, Clean, CleanInv, Exclusive, Mutates, Here, Mounted, Pending
<1>14. UrlsInv'
    BY <1>1, <1>2, <1>3
       DEF UrlsInv, UrlsRegistered, UrlsGoWithTheirCard, Only, Mounted
<1>15. QED
    BY <1>9, <1>10, <1>11, <1>12, <1>13, <1>14 DEF BoardInv

(* The media of a deleted poster are.                                       *)
LEMMA DeleteMediaKeeps ==
    ASSUME BoardInv, NEW t \in tasks, deleteMedia(t)
    PROVE  BoardInv'
<1> DEFINE at == "set"
           t1 == [t EXCEPT !.at = at]
<1>1. /\ Shape /\ Known /\ CleanInv /\ Owned /\ Follows /\ UrlsInv /\ TaskOK(t)
      /\ disk.posters \in Posters /\ disk.blobs \subseteq Media /\ board \in BoardRec
      /\ board.posters \in Posters /\ made.posters \subseteq Poster /\ MaxBoards \in Nat
    BY ShapeParts, BoardAssumption DEF BoardInv, Shape
<1>2. PICK left \in SUBSET (disk.blobs \cap ({t.poster} \X MediaOf(t.poster))) :
         /\ t.op = "delete" /\ t.at = "media" /\ t.poster \in Poster
         /\ disk' = [disk EXCEPT !.blobs = {k \in disk.blobs : k[1] # t.poster} \cup left]
         /\ tasks' = (tasks \ {t}) \cup {t1}
         /\ amiss' = amiss \cup (IF left # {} THEN {"orphaned"} ELSE {})
         /\ UNCHANGED <<board, registry, live, made>>
    BY <1>1 DEF deleteMedia, Advance, TaskOK, Blame, If
<1>3. /\ DOMAIN t1 = Fields /\ t1.op = t.op /\ t1.poster = t.poster /\ t1.at = at
      /\ t1.board = t.board /\ t1.kind = t.kind /\ t1.status = t.status /\ t1.list = t.list
    BY <1>1, Advanced DEF TaskOK
<1>4. at = "set"
    OBVIOUS
<1> HIDE DEF t1, at
<1>5. /\ disk' \in [posters : Posters, blobs : SUBSET Media] /\ disk'.posters = disk.posters
      /\ disk'.blobs = {k \in disk.blobs : k[1] # t.poster} \cup left
      /\ amiss \subseteq amiss' /\ amiss' \subseteq Ways
      /\ "orphaned" \notin amiss' => left = {}
    BY <1>1, <1>2 DEF Shape, Ways
<1>6. TaskOK(t1)
    BY <1>1, <1>2, <1>3, <1>4 DEF TaskOK
<1>7. \A u \in tasks : Mutates(u) => u.poster \in Poster
    BY <1>1 DEF Shape, TaskOK, Mutates
<1>8. \A p \in Poster : \A m : <<p, m>> \in disk.blobs /\ p # t.poster => <<p, m>> \in disk'.blobs
    BY <1>5
<1>9. Shape'
    BY <1>1, <1>2, <1>5, <1>6 DEF Shape
<1>10. Known'
    BY <1>1, <1>2, <1>3 DEF Known, Mutates, Mounted
<1>11. CleanInv'
    <2> SUFFICES ASSUME Clean'
                 PROVE  (/\ Exclusive /\ SavesHidden /\ ConfirmShown /\ ShownOnDisk /\ DeletesHere
                         /\ TaskDisk /\ MediaThere)'
        BY DEF CleanInv
    <2>1. Clean /\ Exclusive /\ SavesHidden /\ ConfirmShown /\ ShownOnDisk /\ DeletesHere
          /\ TaskDisk /\ MediaThere
        BY <1>1, <1>2, <1>5 DEF CleanInv, Clean
    <2>2. Exclusive'
        BY <2>1, <1>2, <1>3, <1>5 DEF Exclusive, Mutates
    <2>3. SavesHidden'
        BY <2>1, <1>2, <1>3 DEF SavesHidden
    <2>4. ConfirmShown'
        BY <2>1, <1>2 DEF ConfirmShown
    <2>5. ShownOnDisk'
        BY <2>1, <1>2, <1>3, <1>4, <1>5 DEF ShownOnDisk, OnDisk
    <2>6. DeletesHere'
        BY <2>1, <1>2, <1>3 DEF DeletesHere, Here, Mounted
    <2>7. TaskDisk'
        BY <2>1, <1>2, <1>3 DEF TaskDisk, OnDisk
    <2>8. MediaThere'
        BY <2>1, <1>2, <1>3, <1>5, <1>8
           DEF MediaThere, Sealed, OnDisk, Exclusive, Mutates, TaskDisk
    <2>9. QED
        BY <2>2, <2>3, <2>4, <2>5, <2>6, <2>7, <2>8
<1>12. Owned'
    BY <1>1, <1>2, <1>3, <1>5 DEF Owned, OnDisk
<1>13. Follows'
    BY <1>1, <1>2, <1>3, <1>4, <1>5
       DEF Follows, Clean, CleanInv, Exclusive, Mutates, Here, Mounted, Pending
<1>14. UrlsInv'
    BY <1>1, <1>2, <1>3, <1>5
       DEF UrlsInv, UrlsRegistered, UrlsGoWithTheirCard, Only, Mounted
<1>15. QED
    BY <1>9, <1>10, <1>11, <1>12, <1>13, <1>14 DEF BoardInv

(* A save fails.                                                            *)
LEMMA SaveFailsKeeps ==
    ASSUME BoardInv, NEW t \in tasks, SaveFails(t)
    PROVE  BoardInv'
<1>1. /\ Shape /\ Known /\ CleanInv /\ Owned /\ Follows /\ UrlsInv /\ TaskOK(t)
      /\ disk.posters \in Posters /\ disk.blobs \subseteq Media /\ board \in BoardRec
      /\ board.posters \in Posters /\ made.posters \subseteq Poster /\ MaxBoards \in Nat
    BY ShapeParts, BoardAssumption DEF BoardInv, Shape
<1>2. /\ t.op = "save" /\ t.at # "created" /\ tasks' = tasks \ {t}
      /\ board' = board \/ board' = [board EXCEPT !.adding = "open"]
      /\ amiss' = amiss \cup {"failed"}
      /\ UNCHANGED <<disk, registry, live, made>>
    BY DEF SaveFails, Drop, Blame
<1>3. /\ board' \in BoardRec
      /\ board'.number = board.number /\ board'.listed = board.listed
      /\ board'.posters = board.posters /\ board'.confirm = board.confirm
    BY <1>1, <1>2, AddingSet
<1>4. amiss' \subseteq Ways
    BY <1>1, <1>2 DEF Shape, Ways
<1>5. Shape'
    BY <1>1, <1>2, <1>3, <1>4 DEF Shape
<1>6. Known'
    BY <1>1, <1>2, <1>3 DEF Known, Mutates, Mounted
<1>7. CleanInv'
    <2> SUFFICES ASSUME Clean'
                 PROVE  (/\ Exclusive /\ SavesHidden /\ ConfirmShown /\ ShownOnDisk /\ DeletesHere
                         /\ TaskDisk /\ MediaThere)'
        BY DEF CleanInv
    <2>1. Clean /\ Exclusive /\ SavesHidden /\ ConfirmShown /\ ShownOnDisk /\ DeletesHere
          /\ TaskDisk /\ MediaThere
        BY <1>1, <1>2 DEF CleanInv, Clean
    <2>2. Exclusive'
        BY <2>1, <1>2 DEF Exclusive, Mutates
    <2>3. SavesHidden'
        BY <2>1, <1>2, <1>3 DEF SavesHidden
    <2>4. ConfirmShown'
        BY <2>1, <1>3 DEF ConfirmShown
    <2>5. ShownOnDisk'
        BY <2>1, <1>2, <1>3 DEF ShownOnDisk, OnDisk
    <2>6. DeletesHere'
        BY <2>1, <1>2, <1>3 DEF DeletesHere, Here, Mounted
    <2>7. TaskDisk'
        BY <2>1, <1>2 DEF TaskDisk, OnDisk
    <2>8. MediaThere'
        BY <2>1, <1>2 DEF MediaThere, Sealed, OnDisk
    <2>9. QED
        BY <2>2, <2>3, <2>4, <2>5, <2>6, <2>7, <2>8
<1>8. Owned'
    BY <1>2 DEF Owned, OnDisk
<1>9. Follows'
    BY <1>1, <1>2, <1>3
       DEF Follows, Clean, CleanInv, Exclusive, Mutates, Here, Mounted, Pending
<1>10. UrlsInv'
    BY <1>1, <1>2, <1>3
       DEF UrlsInv, UrlsRegistered, UrlsGoWithTheirCard, Only, Mounted
<1>11. QED
    BY <1>5, <1>6, <1>7, <1>8, <1>9, <1>10 DEF BoardInv

(* The stamp is tapped.                                                     *)
LEMMA CycleKeeps ==
    ASSUME BoardInv, NEW p \in Poster, cycleStatus(p)
    PROVE  BoardInv'
<1> DEFINE s == NextStatus(board.posters[p])
           u == Task("cycle", p, "put")
           t == [u EXCEPT !.status = s]
<1>1. /\ Shape /\ Known /\ CleanInv /\ Owned /\ Follows /\ UrlsInv
      /\ disk.posters \in Posters /\ disk.blobs \subseteq Media /\ board \in BoardRec
      /\ board.posters \in Posters /\ made.posters \subseteq Poster /\ MaxBoards \in Nat
    BY ShapeParts, BoardAssumption DEF BoardInv, Shape
<1>2. /\ Mounted /\ board.posters[p] # None /\ made.taps < MaxTaps
      /\ made' = [made EXCEPT !.taps = made.taps + 1] /\ tasks' = tasks \cup {t}
      /\ amiss' = amiss \cup (IF Busy("cycle", p) THEN {"overtaken"} ELSE {})
                        \cup (IF Busy("delete", p) THEN {"revived"} ELSE {})
      /\ UNCHANGED <<disk, board, registry, live>>
    BY DEF cycleStatus, Add, Blame, If
<1>3. /\ DOMAIN u = Fields /\ u.op = "cycle" /\ u.poster = p /\ u.at = "put"
      /\ u.board = board.number /\ u.board \in Nat
    BY <1>1, TaskIs
<1>4. board.posters[p] \in Status /\ s \in Status
    BY <1>1, <1>2 DEF Posters, NextStatus, Status
<1> HIDE DEF u, s
<1>5. /\ DOMAIN t = Fields /\ t.op = "cycle" /\ t.poster = p /\ t.at = "put"
      /\ t.board = board.number /\ t.board \in Nat /\ t.status = s
    BY <1>3 DEF Fields
<1> HIDE DEF t
<1>6. TaskOK(t)
    BY <1>4, <1>5 DEF TaskOK
<1>7. /\ made' \in [posters : SUBSET Poster, boards : 0..MaxBoards, taps : 0..MaxTaps]
      /\ made'.boards = made.boards /\ made'.posters = made.posters
    BY <1>1, <1>2, BoardAssumption DEF Shape
<1>8. /\ amiss \subseteq amiss' /\ amiss' \subseteq Ways
      /\ "overtaken" \notin amiss' => \A v \in tasks : ~(v.op = "cycle" /\ v.poster = p)
      /\ "revived" \notin amiss' => \A v \in tasks : ~(v.op = "delete" /\ v.poster = p)
    BY <1>1, <1>2 DEF Shape, Ways, Busy
<1>9. Clean => (\A v \in tasks : ~(v.op = "save" /\ v.poster = p)) /\ ShownOnDisk
    BY <1>1, <1>2 DEF CleanInv, SavesHidden
<1>10. p \in made.posters
    BY <1>1, <1>2 DEF Known
<1>11. Shape'
    BY <1>1, <1>2, <1>6, <1>7, <1>8 DEF Shape
<1>12. Known'
    BY <1>1, <1>2, <1>5 DEF Known, Mutates, Mounted
<1>13. CleanInv'
    <2> SUFFICES ASSUME Clean'
                 PROVE  (/\ Exclusive /\ SavesHidden /\ ConfirmShown /\ ShownOnDisk /\ DeletesHere
                         /\ TaskDisk /\ MediaThere)'
        BY DEF CleanInv
    <2>1. Clean /\ Exclusive /\ SavesHidden /\ ConfirmShown /\ ShownOnDisk /\ DeletesHere
          /\ TaskDisk /\ MediaThere
        BY <1>1, <1>2 DEF CleanInv, Clean
    <2>2. Exclusive'
        BY <2>1, <1>2, <1>5, <1>8, <1>9 DEF Exclusive, Mutates, Clean
    <2>3. SavesHidden'
        BY <2>1, <1>2, <1>5 DEF SavesHidden
    <2>4. ConfirmShown'
        BY <2>1, <1>2 DEF ConfirmShown
    <2>5. ShownOnDisk'
        BY <2>1, <1>2 DEF ShownOnDisk, OnDisk
    <2>6. DeletesHere'
        BY <2>1, <1>2, <1>5 DEF DeletesHere, Here, Mounted
    <2>7. TaskDisk'
        BY <2>1, <1>2, <1>5, <1>8 DEF TaskDisk, OnDisk, ShownOnDisk, Clean
    <2>8. MediaThere'
        BY <2>1, <1>2, <1>5 DEF MediaThere, Sealed, OnDisk
    <2>9. QED
        BY <2>2, <2>3, <2>4, <2>5, <2>6, <2>7, <2>8
<1>14. Owned'
    BY <1>1, <1>2 DEF Owned, OnDisk
<1>15. Follows'
    BY <1>1, <1>2, <1>5
       DEF Follows, Clean, CleanInv, Exclusive, Mutates, Here, Mounted, Pending
<1>16. UrlsInv'
    BY <1>1, <1>2, <1>5
       DEF UrlsInv, UrlsRegistered, UrlsGoWithTheirCard, Only, Mounted
<1>17. QED
    BY <1>11, <1>12, <1>13, <1>14, <1>15, <1>16 DEF BoardInv

(* A deletion is asked for,                                                 *)
LEMMA AskDeleteKeeps ==
    ASSUME BoardInv, NEW p \in Poster, AskDelete(p)
    PROVE  BoardInv'
<1>1. /\ Shape /\ Known /\ CleanInv /\ Owned /\ Follows /\ UrlsInv
      /\ disk.posters \in Posters /\ disk.blobs \subseteq Media /\ board \in BoardRec
      /\ board.posters \in Posters /\ made.posters \subseteq Poster /\ MaxBoards \in Nat
    BY ShapeParts, BoardAssumption DEF BoardInv, Shape
<1>2. /\ Mounted /\ board.posters[p] # None /\ board' = [board EXCEPT !.confirm = {p}]
      /\ UNCHANGED <<disk, registry, live, tasks, made, amiss>>
    BY DEF AskDelete
<1>3. /\ board' \in BoardRec /\ board'.number = board.number /\ board'.listed = board.listed
      /\ board'.posters = board.posters /\ board'.confirm = {p}
    BY <1>1, <1>2, ConfirmSet
<1>4. Shape'
    BY <1>1, <1>2, <1>3 DEF Shape
<1>5. Known'
    BY <1>1, <1>2, <1>3 DEF Known, Mutates, Mounted
<1>6. CleanInv'
    <2> SUFFICES ASSUME Clean'
                 PROVE  (/\ Exclusive /\ SavesHidden /\ ConfirmShown /\ ShownOnDisk /\ DeletesHere
                         /\ TaskDisk /\ MediaThere)'
        BY DEF CleanInv
    <2>1. Clean /\ Exclusive /\ SavesHidden /\ ConfirmShown /\ ShownOnDisk /\ DeletesHere
          /\ TaskDisk /\ MediaThere
        BY <1>1, <1>2, <1>3 DEF CleanInv, Clean
    <2>2. Exclusive'
        BY <2>1, <1>2 DEF Exclusive, Mutates
    <2>3. SavesHidden'
        BY <2>1, <1>2 DEF SavesHidden
    <2>4. ConfirmShown'
        BY <1>2 DEF ConfirmShown
    <2>5. ShownOnDisk'
        BY <2>1, <1>2 DEF ShownOnDisk, OnDisk
    <2>6. DeletesHere'
        BY <2>1, <1>2 DEF DeletesHere, Here, Mounted
    <2>7. TaskDisk'
        BY <2>1, <1>2 DEF TaskDisk, OnDisk
    <2>8. MediaThere'
        BY <2>1, <1>2 DEF MediaThere, Sealed, OnDisk
    <2>9. QED
        BY <2>2, <2>3, <2>4, <2>5, <2>6, <2>7, <2>8
<1>7. Owned'
    BY <1>1, <1>2, <1>3, MediaIs DEF Owned, OnDisk
<1>8. Follows'
    BY <1>1, <1>2, <1>3
       DEF Follows, Clean, CleanInv, Exclusive, Mutates, Here, Mounted, Pending
<1>9. UrlsInv'
    BY <1>1, <1>2, <1>3
       DEF UrlsInv, UrlsRegistered, UrlsGoWithTheirCard, Only, Mounted
<1>10. QED
    BY <1>4, <1>5, <1>6, <1>7, <1>8, <1>9 DEF BoardInv

(* dismissed,                                                               *)
LEMMA DismissKeeps ==
    ASSUME BoardInv, Dismiss
    PROVE  BoardInv'
<1>1. /\ Shape /\ Known /\ CleanInv /\ Owned /\ Follows /\ UrlsInv
      /\ disk.posters \in Posters /\ disk.blobs \subseteq Media /\ board \in BoardRec
      /\ board.posters \in Posters /\ made.posters \subseteq Poster /\ MaxBoards \in Nat
    BY ShapeParts, BoardAssumption DEF BoardInv, Shape
<1>2. /\ board' = [board EXCEPT !.confirm = {}]
      /\ UNCHANGED <<disk, registry, live, tasks, made, amiss>>
    BY DEF Dismiss
<1>3. /\ board' \in BoardRec /\ board'.number = board.number /\ board'.listed = board.listed
      /\ board'.posters = board.posters /\ board'.confirm = {}
    BY SMTT(30), <1>1, <1>2, ConfirmSet
<1>4. Shape'
    BY <1>1, <1>2, <1>3 DEF Shape
<1>5. Known'
    BY <1>1, <1>2, <1>3 DEF Known, Mutates, Mounted
<1>6. CleanInv'
    <2> SUFFICES ASSUME Clean'
                 PROVE  (/\ Exclusive /\ SavesHidden /\ ConfirmShown /\ ShownOnDisk /\ DeletesHere
                         /\ TaskDisk /\ MediaThere)'
        BY DEF CleanInv
    <2>1. Clean /\ Exclusive /\ SavesHidden /\ ConfirmShown /\ ShownOnDisk /\ DeletesHere
          /\ TaskDisk /\ MediaThere
        BY <1>1, <1>2, <1>3 DEF CleanInv, Clean
    <2>2. Exclusive'
        BY <2>1, <1>2 DEF Exclusive, Mutates
    <2>3. SavesHidden'
        BY <2>1, <1>2 DEF SavesHidden
    <2>4. ConfirmShown'
        BY <1>2 DEF ConfirmShown
    <2>5. ShownOnDisk'
        BY <2>1, <1>2 DEF ShownOnDisk, OnDisk
    <2>6. DeletesHere'
        BY <2>1, <1>2 DEF DeletesHere, Here, Mounted
    <2>7. TaskDisk'
        BY <2>1, <1>2 DEF TaskDisk, OnDisk
    <2>8. MediaThere'
        BY <2>1, <1>2 DEF MediaThere, Sealed, OnDisk
    <2>9. QED
        BY <2>2, <2>3, <2>4, <2>5, <2>6, <2>7, <2>8
<1>7. Owned'
    BY <1>1, <1>2, <1>3, MediaIs DEF Owned, OnDisk
<1>8. Follows'
    BY <1>1, <1>2, <1>3
       DEF Follows, Clean, CleanInv, Exclusive, Mutates, Here, Mounted, Pending
<1>9. UrlsInv'
    BY <1>1, <1>2, <1>3
       DEF UrlsInv, UrlsRegistered, UrlsGoWithTheirCard, Only, Mounted
<1>10. QED
    BY <1>4, <1>5, <1>6, <1>7, <1>8, <1>9 DEF BoardInv

(* or confirmed.                                                            *)
LEMMA HandleDeletedKeeps ==
    ASSUME BoardInv, NEW p \in Poster, handleDeleted(p)
    PROVE  BoardInv'
<1> DEFINE ks == {k \in Media : k[1] = p}
           u == Task("delete", p, "record")
<1>1. /\ Shape /\ Known /\ CleanInv /\ Owned /\ Follows /\ UrlsInv
      /\ disk.posters \in Posters /\ disk.blobs \subseteq Media /\ board \in BoardRec
      /\ board.posters \in Posters /\ made.posters \subseteq Poster /\ MaxBoards \in Nat
    BY ShapeParts, BoardAssumption DEF BoardInv, Shape
<1>2. /\ p \in board.confirm /\ board' = [board EXCEPT !.confirm = {}]
      /\ Revoke(ks) /\ tasks' = tasks \cup {u}
      /\ amiss' = amiss \cup (IF Busy("cycle", p) THEN {"revived"} ELSE {})
      /\ UNCHANGED <<disk, made>>
    BY DEF handleDeleted, Add, Blame, If
<1>3. /\ DOMAIN u = Fields /\ u.op = "delete" /\ u.poster = p /\ u.at = "record"
      /\ u.board = board.number /\ u.board \in Nat
    BY <1>1, TaskIs
<1>4. /\ live' \in [Media -> 0..MaxUrls] /\ registry' = registry \ ks
      /\ \A k \in Media : live'[k] = IF k[1] = p /\ k \in registry THEN live[k] - 1 ELSE live[k]
      /\ \A k \in registry' : live'[k] > 0
    BY <1>1, <1>2, Revoked
<1>5. /\ \A k \in Media : k \in registry' <=> k \in registry /\ k[1] # p
      /\ registry' \subseteq Media /\ live \in [Media -> 0..MaxUrls]
    BY <1>1, <1>4 DEF Shape
<1> HIDE DEF u, ks
<1>6. /\ board' \in BoardRec /\ board'.number = board.number /\ board'.listed = board.listed
      /\ board'.posters = board.posters /\ board'.confirm = {}
    BY <1>1, <1>2, ConfirmSet
<1>7. TaskOK(u)
    BY <1>3 DEF TaskOK
<1>8. /\ amiss \subseteq amiss' /\ amiss' \subseteq Ways
      /\ "revived" \notin amiss' => \A v \in tasks : ~(v.op = "cycle" /\ v.poster = p)
    BY <1>1, <1>2 DEF Shape, Ways, Busy
<1>9. Clean => board.posters[p] # None /\ \A v \in tasks : ~(v.op = "save" /\ v.poster = p)
    BY <1>1, <1>2 DEF CleanInv, ConfirmShown, SavesHidden
<1>10. p \in made.posters /\ Mounted
    BY <1>1, <1>2 DEF Known
<1>11. Shape'
    BY <1>1, <1>2, <1>4, <1>6, <1>7, <1>8 DEF Shape
<1>12. Known'
    BY <1>1, <1>2, <1>3 DEF Known, Mutates, Mounted
<1>13. CleanInv'
    <2> SUFFICES ASSUME Clean'
                 PROVE  (/\ Exclusive /\ SavesHidden /\ ConfirmShown /\ ShownOnDisk /\ DeletesHere
                         /\ TaskDisk /\ MediaThere)'
        BY DEF CleanInv
    <2>1. Clean /\ Exclusive /\ SavesHidden /\ ConfirmShown /\ ShownOnDisk /\ DeletesHere
          /\ TaskDisk /\ MediaThere
        BY <1>1, <1>2 DEF CleanInv, Clean
    <2>2. Exclusive'
        BY <2>1, <1>2, <1>3, <1>8, <1>9 DEF Exclusive, Mutates, Clean
    <2>3. SavesHidden'
        BY <2>1, <1>2, <1>3 DEF SavesHidden, Clean
    <2>4. ConfirmShown'
        BY <1>2 DEF ConfirmShown
    <2>5. ShownOnDisk'
        BY <2>1, <1>2 DEF ShownOnDisk, OnDisk
    <2>6. DeletesHere'
        BY <2>1, <1>2, <1>3, <1>10 DEF DeletesHere, Here, Mounted
    <2>7. TaskDisk'
        BY <2>1, <1>2, <1>3 DEF TaskDisk, OnDisk
    <2>8. MediaThere'
        BY <2>1, <1>2, <1>3 DEF MediaThere, Sealed, OnDisk
    <2>9. QED
        BY <2>2, <2>3, <2>4, <2>5, <2>6, <2>7, <2>8
<1>14. Owned'
    BY <1>1, <1>2 DEF Owned, OnDisk
<1>15. Follows'
    BY <1>1, <1>2, <1>3
       DEF Follows, Clean, CleanInv, Exclusive, Mutates, Here, Mounted, Pending
<1>16. UrlsInv'
    BY <1>1, <1>2, <1>3, <1>4, <1>5, <1>8
       DEF UrlsInv, UrlsRegistered, UrlsGoWithTheirCard, Only, Mounted
<1>17. QED
    BY <1>11, <1>12, <1>13, <1>14, <1>15, <1>16 DEF BoardInv

(* Showing cards changes the cards only.                                    *)
LEMMA CardsShown ==
    ASSUME board \in BoardRec, NEW b \in BoardRec, NEW ps
    PROVE  /\ ShowCards(b, ps) \in BoardRec
           /\ ShowCards(b, ps).number = b.number /\ ShowCards(b, ps).listed = b.listed
           /\ ShowCards(b, ps).posters = b.posters /\ ShowCards(b, ps).confirm = b.confirm
<1> DEFINE images == {<<p, "image">> : p \in ps} \cap Media
           cards == [k \in Media |-> IF b.posters[k[1]] = None THEN "sealed"
                                     ELSE IF k \notin images THEN board.cards[k]
                                     ELSE IF k \in registry THEN "shown" ELSE "loading"]
           c == ShowCards(b, ps)
<1>1. c = [b EXCEPT !.cards = cards]
    BY DEF ShowCards
<1>2. board.cards \in [Media -> {"sealed", "loading", "shown", "error"}]
    BY BoardFields
<1>3. cards \in [Media -> {"sealed", "loading", "shown", "error"}]
    BY <1>2
<1> HIDE DEF cards, c
<1>4. /\ c.number = b.number /\ c.listed = b.listed /\ c.posters = b.posters
      /\ c.confirm = b.confirm /\ c.cards = cards /\ c.adding = b.adding
      /\ c = [y \in DOMAIN b |-> c[y]]
    BY <1>1, BoardFields
<1>5. c \in BoardRec
    BY <1>3, <1>4, BoardFields, BoardUpdated
<1>6. QED
    BY <1>4, <1>5 DEF c

(* Cards that appear start decryptions and nothing else.                    *)
LEMMA Appears ==
    ASSUME Shape, NEW b \in BoardRec, NEW ps \in SUBSET Poster, NEW rest, Appear(b, ps, rest)
    PROVE  /\ board' \in BoardRec
           /\ board'.number = b.number /\ board'.listed = b.listed
           /\ board'.posters = b.posters /\ board'.confirm = b.confirm
           /\ rest \subseteq tasks'
           /\ \A u \in tasks' : u \in rest \/ (TaskOK(u) /\ u.op = "open")
<1>1. board' = ShowCards(b, ps) /\ tasks' = rest \cup {Open(k[1], k[2]) : k \in ToDecrypt(ps)}
    BY DEF Appear
<1>2. \A u \in {Open(k[1], k[2]) : k \in ToDecrypt(ps)} : TaskOK(u) /\ u.op = "open"
    <2> SUFFICES ASSUME NEW k \in ToDecrypt(ps), NEW u, u = Open(k[1], k[2])
                 PROVE  TaskOK(u) /\ u.op = "open"
        OBVIOUS
    <2>1. k \in Media
        BY DEF ToDecrypt
    <2>2. k[1] \in Poster /\ k[2] \in MediaOf(k[1])
        BY <2>1, MediaIs
    <2>3. QED
        BY <2>2, OpenIs
<1>3. board \in BoardRec
    BY DEF Shape
<1>4. QED
    BY <1>1, <1>2, <1>3, CardsShown

(* A list of posters that are on disk, or of none, reaches its board:       *)
LEMMA ListShown ==
    ASSUME BoardInv, NEW t \in tasks, t.op = "list", Here(t), NEW list, setPosters(t, list),
           list \in Posters, \A p \in Poster : list[p] # None => p \in made.posters,
           UNCHANGED <<disk, registry, live, made>>, amiss \subseteq amiss', amiss' \subseteq Ways,
           "overlaid" \notin amiss' => ~Amid /\ \A p \in Poster : list[p] \in {disk.posters[p], None},
           list # disk.posters /\ "overlaid" \notin amiss' => amiss' \cap Partial # {}
    PROVE  BoardInv'
<1> DEFINE b == [board EXCEPT !.posters = list, !.listed = TRUE]
           ps == {p \in Poster : list[p] # None}
<1>1. /\ Shape /\ Known /\ CleanInv /\ Owned /\ Follows /\ UrlsInv /\ TaskOK(t)
      /\ disk.posters \in Posters /\ disk.blobs \subseteq Media /\ board \in BoardRec
      /\ board.posters \in Posters /\ made.posters \subseteq Poster /\ MaxBoards \in Nat
    BY ShapeParts, BoardAssumption DEF BoardInv, Shape
<1>2. /\ t.op = "list" /\ list \in Posters /\ Mounted /\ Appear(b, ps, tasks \ {t})
      /\ UNCHANGED <<disk, registry, live, made>>
    BY DEF setPosters, Here
<1>3. /\ b.number = board.number /\ b.listed = TRUE /\ b.posters = list
      /\ b.confirm = board.confirm /\ b.adding = board.adding /\ b.cards = board.cards
      /\ b = [y \in DOMAIN board |-> b[y]]
    BY <1>1, BoardFields
<1>4. /\ board.adding \in {"closed", "open"} \cup Poster /\ board.confirm \subseteq Poster
      /\ board.listed \in BOOLEAN /\ board.number \in 0..MaxBoards
      /\ board.cards \in [Media -> {"sealed", "loading", "shown", "error"}]
    BY <1>1, BoardFields
<1> HIDE DEF b
<1>5. /\ b \in BoardRec /\ b.number = board.number /\ b.listed = TRUE
      /\ b.posters = list /\ b.confirm = board.confirm
    BY <1>1, <1>2, <1>3, <1>4, BoardUpdated
<1> HIDE DEF ps
<1>6. /\ board' \in BoardRec /\ board'.number = board.number
      /\ board'.listed = TRUE /\ board'.posters = list /\ board'.confirm = board.confirm
    BY <1>1, <1>2, <1>5, Appears DEF ps
<1>7. /\ tasks \ {t} \subseteq tasks'
      /\ \A u \in tasks' : u \in tasks \ {t} \/ (TaskOK(u) /\ u.op = "open")
    BY <1>1, <1>2, <1>5, Appears DEF ps
<1>8. /\ tasks \ {t} \subseteq tasks'
      /\ \A u \in tasks' : (u \in tasks /\ u # t) \/ (TaskOK(u) /\ u.op = "open")
    BY <1>7
<1>9. "overlaid" \notin amiss' =>
         /\ \A p \in Poster : list[p] \in {disk.posters[p], None} /\ board.posters[p] = None
         /\ \A u \in tasks : ~Mutates(u)
    BY NothingMounted DEF Amid, Mutates
<1>10. \A p \in Poster : list[p] # None => p \in made.posters
    OBVIOUS
<1>12. Shape'
    BY <1>1, <1>2, <1>6, <1>7 DEF Shape
<1>13. Known'
    BY <1>1, <1>2, <1>6, <1>7, <1>10 DEF Known, Mutates, Mounted
<1>14. CleanInv'
    <2> SUFFICES ASSUME Clean'
                 PROVE  (/\ Exclusive /\ SavesHidden /\ ConfirmShown /\ ShownOnDisk /\ DeletesHere
                         /\ TaskDisk /\ MediaThere)'
        BY DEF CleanInv
    <2>1. Clean /\ Exclusive /\ SavesHidden /\ ConfirmShown /\ ShownOnDisk /\ DeletesHere
          /\ TaskDisk /\ MediaThere
        BY <1>1, <1>2 DEF CleanInv, Clean
    <2>2. Exclusive'
        BY <2>1, <1>2, <1>7 DEF Exclusive, Mutates
    <2>3. SavesHidden'
        BY <1>2, <1>7, <1>9 DEF SavesHidden, Clean, Mutates
    <2>4. ConfirmShown'
        BY <2>1, <1>4, <1>6, <1>9 DEF ConfirmShown, Clean
    <2>5. ShownOnDisk'
        BY <1>2, <1>6, <1>9 DEF ShownOnDisk, OnDisk, Clean
    <2>6. DeletesHere'
        BY <1>2, <1>7, <1>9 DEF DeletesHere, Clean, Mutates
    <2>7. TaskDisk'
        BY <2>1, <1>2, <1>7 DEF TaskDisk, OnDisk
    <2>8. MediaThere'
        BY <2>1, <1>2, <1>7 DEF MediaThere, Sealed, OnDisk
    <2>9. QED
        BY <2>2, <2>3, <2>4, <2>5, <2>6, <2>7, <2>8
<1>15. Owned'
    BY <1>1, <1>2, <1>7 DEF Owned, OnDisk
<1>16. Follows'
    <2>1. list # disk.posters \/ \A p \in Poster : list[p] = disk.posters[p]
        OBVIOUS
    <2>2. QED
        BY <2>1, <1>2, <1>6, <1>7, <1>9 DEF Follows, Clean, Mutates, Here, Mounted, Pending
<1>17. UrlsInv'
    BY <1>1, <1>2, <1>7, <1>9, MediaIs
       DEF UrlsInv, UrlsRegistered, UrlsGoWithTheirCard, Only, Mounted, Ways
<1>18. QED
    BY <1>12, <1>13, <1>14, <1>15, <1>16, <1>17 DEF BoardInv

(* the one that was read,                                                   *)
LEMMA ListedHere ==
    ASSUME BoardInv, NEW t \in tasks, Listed(t), Here(t)
    PROVE  BoardInv'
<1> DEFINE ways == If(t.list # Listing(disk.posters) \/ Amid, "overlaid")
                   \cup If(disk.posters # Listing(disk.posters), "beyond")
<1>1. /\ Shape /\ Known /\ TaskOK(t) /\ disk.posters \in Posters /\ amiss \subseteq Ways
    BY ShapeParts DEF BoardInv, Shape
<1>2. /\ t.op = "list" /\ t.list \in Posters /\ setPosters(t, t.list)
      /\ UNCHANGED <<disk, registry, live, made>> /\ amiss' = amiss \cup ways
    BY <1>1 DEF Listed, Blame, If, TaskOK
<1>3. /\ amiss \subseteq amiss' /\ amiss' \subseteq Ways
      /\ "overlaid" \notin amiss' => t.list = Listing(disk.posters) /\ ~Amid
      /\ disk.posters # Listing(disk.posters) => "beyond" \in amiss'
    BY <1>1, <1>2 DEF If, Ways
<1> HIDE DEF ways
<1>4. \A p \in Poster : Listing(disk.posters)[p] \in {disk.posters[p], None}
    BY <1>1, ListingIs
<1>5. \A p \in Poster : t.list[p] # None => p \in made.posters
    BY <1>1, <1>2 DEF Known
<1>6. QED
    BY <1>2, <1>3, <1>4, <1>5, ListShown DEF Partial

(* or none when it could not be.                                            *)
LEMMA ListRefusedHere ==
    ASSUME BoardInv, NEW t \in tasks, ListRefused(t), Here(t)
    PROVE  BoardInv'
<1>1. amiss \subseteq Ways
    BY DEF BoardInv, Shape
<1>2. /\ t.op = "list" /\ setPosters(t, Blank) /\ UNCHANGED <<disk, registry, live, made>>
      /\ amiss' = amiss \cup {"unlisted"} \cup (IF Amid THEN {"overlaid"} ELSE {})
    BY DEF ListRefused, Blame, If
<1>3. /\ amiss \subseteq amiss' /\ amiss' \subseteq Ways /\ "unlisted" \in amiss'
      /\ "overlaid" \notin amiss' => ~Amid
    BY <1>1, <1>2 DEF Ways
<1>4. Blank \in Posters /\ \A p \in Poster : Blank[p] = None
    BY NothingMounted
<1>5. QED
    BY <1>2, <1>3, <1>4, ListShown DEF Partial

(* A handler ends that has nothing to show and has written nothing.         *)
LEMMA IdleEnds ==
    ASSUME BoardInv, NEW t \in tasks,
           \/ t.op \in {"list", "open"}
           \/ t.op = "cycle" /\ t.at = "put"
           \/ t.op = "delete" /\ t.at = "record",
           tasks' = tasks \ {t}, board' \in BoardRec,
           board'.number = board.number, board'.listed = board.listed,
           board'.posters = board.posters, board'.confirm = board.confirm,
           UNCHANGED <<disk, registry, live, made, amiss>>
    PROVE  BoardInv'
<1>1. /\ Shape /\ Known /\ CleanInv /\ Owned /\ Follows /\ UrlsInv /\ TaskOK(t)
      /\ disk.posters \in Posters /\ disk.blobs \subseteq Media /\ board \in BoardRec
      /\ board.posters \in Posters /\ made.posters \subseteq Poster /\ MaxBoards \in Nat
    BY ShapeParts, BoardAssumption DEF BoardInv, Shape
<1>2. /\ tasks' = tasks \ {t} /\ board' \in BoardRec
      /\ board'.number = board.number /\ board'.listed = board.listed
      /\ board'.posters = board.posters /\ board'.confirm = board.confirm
      /\ UNCHANGED <<disk, registry, live, made, amiss>>
    OBVIOUS
<1>3. Shape'
    BY <1>1, <1>2 DEF Shape
<1>4. Known'
    BY <1>1, <1>2 DEF Known, Mutates, Mounted
<1>5. CleanInv'
    <2> SUFFICES ASSUME Clean'
                 PROVE  (/\ Exclusive /\ SavesHidden /\ ConfirmShown /\ ShownOnDisk /\ DeletesHere
                         /\ TaskDisk /\ MediaThere)'
        BY DEF CleanInv
    <2>1. Clean /\ Exclusive /\ SavesHidden /\ ConfirmShown /\ ShownOnDisk /\ DeletesHere
          /\ TaskDisk /\ MediaThere
        BY <1>1, <1>2 DEF CleanInv, Clean
    <2>2. Exclusive'
        BY <2>1, <1>1, <1>2 DEF Exclusive, Mutates
    <2>3. SavesHidden'
        BY <2>1, <1>1, <1>2 DEF SavesHidden
    <2>4. ConfirmShown'
        BY <2>1, <1>1, <1>2 DEF ConfirmShown
    <2>5. ShownOnDisk'
        BY <2>1, <1>1, <1>2 DEF ShownOnDisk, OnDisk
    <2>6. DeletesHere'
        BY <2>1, <1>1, <1>2 DEF DeletesHere, Here, Mounted
    <2>7. TaskDisk'
        BY <2>1, <1>1, <1>2 DEF TaskDisk, OnDisk
    <2>8. MediaThere'
        BY <2>1, <1>1, <1>2 DEF MediaThere, Sealed, OnDisk
    <2>9. QED
        BY <2>2, <2>3, <2>4, <2>5, <2>6, <2>7, <2>8
<1>6. Owned'
    BY <1>1, <1>2, MediaIs DEF Owned, OnDisk
<1>7. Follows'
    BY <1>1, <1>2
       DEF Follows, Clean, CleanInv, Exclusive, Mutates, Here, Mounted, Pending
<1>8. UrlsInv'
    BY <1>1, <1>2 DEF UrlsInv, UrlsRegistered, UrlsGoWithTheirCard, Only, Mounted
<1>9. QED
    BY <1>3, <1>4, <1>5, <1>6, <1>7, <1>8 DEF BoardInv

(* So do a list that finds its board gone,                                  *)
LEMMA ListedElsewhere ==
    ASSUME BoardInv, NEW t \in tasks, Listed(t) \/ ListRefused(t), ~Here(t)
    PROVE  BoardInv'
<1>1. /\ t.op = "list" /\ tasks' = tasks \ {t}
      /\ UNCHANGED <<disk, board, registry, live, made, amiss>>
    BY DEF Listed, ListRefused, setPosters, Drop, Blame, If
<1>2. board \in BoardRec
    BY DEF BoardInv, Shape
<1>3. QED
    BY <1>1, <1>2, IdleEnds

(* and a handler that storage refuses.                                      *)
LEMMA RefusedKeeps ==
    ASSUME BoardInv, NEW t \in tasks, Refused(t)
    PROVE  BoardInv'
<1>1. /\ Shape /\ TaskOK(t) /\ board \in BoardRec
    BY DEF BoardInv, Shape
<1>2. /\ tasks' = tasks \ {t} /\ UNCHANGED <<disk, registry, live, made, amiss>>
      /\ \/ t.op = "open" /\ board' = Card(t, "error")
         \/ t.op = "cycle" /\ t.at = "put" /\ board' = board
         \/ t.op = "delete" /\ t.at = "record" /\ board' = board
    BY DEF Refused, Drop
<1>3. /\ board' \in BoardRec
      /\ board'.number = board.number /\ board'.listed = board.listed
      /\ board'.posters = board.posters /\ board'.confirm = board.confirm
    BY <1>1, <1>2, CardIs
<1>4. QED
    BY <1>2, <1>3, IdleEnds

(* The database is wiped: what is claimed of the disk is claimed no more.   *)
LEMMA ReplacedKeeps ==
    ASSUME BoardInv, Replaced
    PROVE  BoardInv'
<1>1. /\ Shape /\ Known /\ UrlsInv /\ Blank \in Posters /\ \A p \in Poster : Blank[p] = None
    BY NothingMounted DEF BoardInv
<1>2. /\ disk' = [posters |-> Blank, blobs |-> {}] /\ amiss' = amiss \cup {"replaced"}
      /\ UNCHANGED <<board, registry, live, tasks, made>>
    BY DEF Replaced, EmptyDisk, Blame
<1>3. Shape'
    BY <1>1, <1>2 DEF Shape, Ways
<1>4. Known'
    BY <1>1, <1>2 DEF Known, Mounted
<1>5. CleanInv' /\ Follows'
    BY <1>2 DEF CleanInv, Follows, Clean
<1>6. Owned'
    BY <1>2 DEF Owned
<1>7. UrlsInv'
    BY <1>1, <1>2 DEF UrlsInv, UrlsRegistered, UrlsGoWithTheirCard, Only, Mounted
<1>8. QED
    BY <1>3, <1>4, <1>5, <1>6, <1>7 DEF BoardInv

(* A save ends after its board;                                             *)
LEMMA CreatedElsewhere ==
    ASSUME BoardInv, NEW t \in tasks, handleCreated(t), ~Here(t)
    PROVE  BoardInv'
<1>1. /\ Shape /\ Known /\ CleanInv /\ Owned /\ Follows /\ UrlsInv /\ TaskOK(t)
      /\ disk.posters \in Posters /\ disk.blobs \subseteq Media /\ board \in BoardRec
      /\ board.posters \in Posters /\ made.posters \subseteq Poster /\ MaxBoards \in Nat
    BY ShapeParts, BoardAssumption DEF BoardInv, Shape
<1>2. /\ t.op = "save" /\ t.at = "created" /\ tasks' = tasks \ {t} /\ t.poster \in Poster
      /\ UNCHANGED <<disk, board, registry, live, made, amiss>>
    BY <1>1 DEF handleCreated, Drop, TaskOK
<1>3. Shape'
    BY <1>1, <1>2 DEF Shape
<1>4. Known'
    BY <1>1, <1>2 DEF Known, Mutates, Mounted
<1>5. CleanInv'
    <2> SUFFICES ASSUME Clean'
                 PROVE  (/\ Exclusive /\ SavesHidden /\ ConfirmShown /\ ShownOnDisk /\ DeletesHere
                         /\ TaskDisk /\ MediaThere)'
        BY DEF CleanInv
    <2>1. Clean /\ Exclusive /\ SavesHidden /\ ConfirmShown /\ ShownOnDisk /\ DeletesHere
          /\ TaskDisk /\ MediaThere
        BY <1>1, <1>2 DEF CleanInv, Clean
    <2>2. Exclusive'
        BY <2>1, <1>1, <1>2 DEF Exclusive, Mutates
    <2>3. SavesHidden'
        BY <2>1, <1>1, <1>2 DEF SavesHidden
    <2>4. ConfirmShown'
        BY <2>1, <1>1, <1>2 DEF ConfirmShown
    <2>5. ShownOnDisk'
        BY <2>1, <1>1, <1>2 DEF ShownOnDisk, OnDisk
    <2>6. DeletesHere'
        BY <2>1, <1>1, <1>2 DEF DeletesHere, Here, Mounted
    <2>7. TaskDisk'
        BY <2>1, <1>1, <1>2 DEF TaskDisk, OnDisk
    <2>8. MediaThere'
        BY <2>1, <1>1, <1>2 DEF MediaThere, Sealed, OnDisk
    <2>9. QED
        BY <2>2, <2>3, <2>4, <2>5, <2>6, <2>7, <2>8
<1>6. Owned'
    BY <1>1, <1>2, MediaIs DEF Owned, OnDisk
<1>7. Follows'
    BY <1>1, <1>2
       DEF Follows, Clean, CleanInv, Exclusive, Mutates, Here, Mounted, Pending
<1>8. UrlsInv'
    BY <1>1, <1>2 DEF UrlsInv, UrlsRegistered, UrlsGoWithTheirCard, Only, Mounted
<1>9. QED
    BY <1>3, <1>4, <1>5, <1>6, <1>7, <1>8 DEF BoardInv

(* so does a deletion.                                                      *)
LEMMA DeletedElsewhere ==
    ASSUME BoardInv, NEW t \in tasks, Deleted(t), ~Here(t)
    PROVE  BoardInv'
<1>1. /\ Shape /\ Known /\ CleanInv /\ Owned /\ Follows /\ UrlsInv /\ TaskOK(t)
      /\ disk.posters \in Posters /\ disk.blobs \subseteq Media /\ board \in BoardRec
      /\ board.posters \in Posters /\ made.posters \subseteq Poster /\ MaxBoards \in Nat
    BY ShapeParts, BoardAssumption DEF BoardInv, Shape
<1>2. /\ t.op = "delete" /\ t.at = "set" /\ tasks' = tasks \ {t} /\ t.poster \in Poster
      /\ UNCHANGED <<disk, board, registry, live, made, amiss>>
    BY <1>1 DEF Deleted, Drop, TaskOK
<1>3. Shape'
    BY <1>1, <1>2 DEF Shape
<1>4. Known'
    BY <1>1, <1>2 DEF Known, Mutates, Mounted
<1>5. CleanInv'
    <2> SUFFICES ASSUME Clean'
                 PROVE  (/\ Exclusive /\ SavesHidden /\ ConfirmShown /\ ShownOnDisk /\ DeletesHere
                         /\ TaskDisk /\ MediaThere)'
        BY DEF CleanInv
    <2>1. Clean /\ Exclusive /\ SavesHidden /\ ConfirmShown /\ ShownOnDisk /\ DeletesHere
          /\ TaskDisk /\ MediaThere
        BY <1>1, <1>2 DEF CleanInv, Clean
    <2>2. Exclusive'
        BY <2>1, <1>1, <1>2 DEF Exclusive, Mutates
    <2>3. SavesHidden'
        BY <2>1, <1>1, <1>2 DEF SavesHidden
    <2>4. ConfirmShown'
        BY <2>1, <1>1, <1>2 DEF ConfirmShown
    <2>5. ShownOnDisk'
        BY <2>1, <1>1, <1>2 DEF ShownOnDisk, OnDisk, DeletesHere
    <2>6. DeletesHere'
        BY <2>1, <1>1, <1>2 DEF DeletesHere, Here, Mounted
    <2>7. TaskDisk'
        BY <2>1, <1>1, <1>2 DEF TaskDisk, OnDisk
    <2>8. MediaThere'
        BY <2>1, <1>1, <1>2 DEF MediaThere, Sealed, OnDisk
    <2>9. QED
        BY <2>2, <2>3, <2>4, <2>5, <2>6, <2>7, <2>8
<1>6. Owned'
    BY <1>1, <1>2, MediaIs DEF Owned, OnDisk
<1>7. Follows'
    BY <1>1, <1>2
       DEF Follows, Clean, CleanInv, Exclusive, Mutates, Here, Mounted, Pending
<1>8. UrlsInv'
    BY <1>1, <1>2 DEF UrlsInv, UrlsRegistered, UrlsGoWithTheirCard, Only, Mounted
<1>9. QED
    BY <1>3, <1>4, <1>5, <1>6, <1>7, <1>8 DEF BoardInv

(* A save ends on its board.                                                *)
LEMMA CreatedHere ==
    ASSUME BoardInv, NEW t \in tasks, handleCreated(t), Here(t)
    PROVE  BoardInv'
<1> DEFINE ps == [board.posters EXCEPT ![t.poster] = 0]
           b == [board EXCEPT !.posters[t.poster] = 0, !.adding = "closed"]
<1>1. /\ Shape /\ Known /\ CleanInv /\ Owned /\ Follows /\ UrlsInv /\ TaskOK(t)
      /\ disk.posters \in Posters /\ disk.blobs \subseteq Media /\ board \in BoardRec
      /\ board.posters \in Posters /\ made.posters \subseteq Poster /\ MaxBoards \in Nat
    BY ShapeParts, BoardAssumption DEF BoardInv, Shape
<1>2. /\ t.op = "save" /\ t.at = "created" /\ t.poster \in Poster /\ Mounted
      /\ t.poster \in made.posters
      /\ Appear(b, {t.poster}, tasks \ {t})
      /\ UNCHANGED <<disk, registry, live, made, amiss>>
    BY <1>1 DEF handleCreated, TaskOK, Here, Known, Mutates
<1>3. /\ ps \in Posters /\ ps[t.poster] = 0
      /\ \A p \in Poster : p # t.poster => ps[p] = board.posters[p]
    BY <1>1, <1>2 DEF Posters, Status, None
<1>4. /\ board.adding \in {"closed", "open"} \cup Poster /\ board.confirm \subseteq Poster
      /\ board.listed \in BOOLEAN /\ board.number \in 0..MaxBoards
      /\ board.cards \in [Media -> {"sealed", "loading", "shown", "error"}]
    BY <1>1, BoardFields
<1>5. /\ b.number = board.number /\ b.listed = board.listed /\ b.posters = ps
      /\ b.confirm = board.confirm /\ b.adding = "closed" /\ b.cards = board.cards
      /\ b = [y \in DOMAIN board |-> b[y]]
    BY <1>1, BoardFields
<1> HIDE DEF b, ps
<1>6. /\ b \in BoardRec /\ b.number = board.number /\ b.listed = board.listed
      /\ b.posters = ps /\ b.confirm = board.confirm
    BY <1>1, <1>3, <1>4, <1>5, BoardUpdated
<1>7. /\ board' \in BoardRec /\ board'.number = board.number
      /\ board'.listed = board.listed /\ board'.posters = ps /\ board'.confirm = board.confirm
    BY <1>1, <1>2, <1>6, Appears
<1>8. /\ tasks \ {t} \subseteq tasks'
      /\ \A u \in tasks' : u \in tasks \ {t} \/ (TaskOK(u) /\ u.op = "open")
    BY <1>1, <1>2, <1>6, Appears
<1>9. /\ tasks \ {t} \subseteq tasks'
      /\ \A u \in tasks' : (u \in tasks /\ u # t) \/ (TaskOK(u) /\ u.op = "open")
    BY <1>8
<1>10. \A u \in tasks : Mutates(u) => u.poster \in Poster
    BY <1>1 DEF Shape, TaskOK, Mutates
<1>11. 0 # None
    BY DEF None
<1>12. Shape'
    BY <1>1, <1>2, <1>7, <1>8 DEF Shape
<1>13. Known'
    BY <1>1, <1>2, <1>3, <1>7, <1>8 DEF Known, Mutates, Mounted
<1>14. CleanInv'
    <2> SUFFICES ASSUME Clean'
                 PROVE  (/\ Exclusive /\ SavesHidden /\ ConfirmShown /\ ShownOnDisk /\ DeletesHere
                         /\ TaskDisk /\ MediaThere)'
        BY DEF CleanInv
    <2>1. Clean /\ Exclusive /\ SavesHidden /\ ConfirmShown /\ ShownOnDisk /\ DeletesHere
          /\ TaskDisk /\ MediaThere
        BY <1>1, <1>2 DEF CleanInv, Clean
    <2>2. Exclusive'
        BY <2>1, <1>2, <1>8 DEF Exclusive, Mutates
    <2>3. SavesHidden'
        BY <2>1, <1>2, <1>3, <1>7, <1>8, <1>10 DEF SavesHidden, Exclusive, Mutates
    <2>4. ConfirmShown'
        BY <2>1, <1>3, <1>4, <1>7, <1>11 DEF ConfirmShown
    <2>5. ShownOnDisk'
        BY <2>1, <1>2, <1>3, <1>7, <1>8 DEF ShownOnDisk, OnDisk, TaskDisk
    <2>6. DeletesHere'
        BY <2>1, <1>2, <1>3, <1>7, <1>8, <1>10
           DEF DeletesHere, Exclusive, Mutates, Here, Mounted
    <2>7. TaskDisk'
        BY <2>1, <1>2, <1>8 DEF TaskDisk, OnDisk
    <2>8. MediaThere'
        BY <2>1, <1>2, <1>8 DEF MediaThere, Sealed, OnDisk
    <2>9. QED
        BY <2>2, <2>3, <2>4, <2>5, <2>6, <2>7, <2>8
<1>15. Owned'
    BY <1>1, <1>2, <1>8 DEF Owned, OnDisk
<1>16. Follows'
    BY <1>1, <1>2, <1>3, <1>7, <1>8, <1>10
       DEF Follows, Clean, CleanInv, Exclusive, TaskDisk, Mutates, Here, Mounted,
       Pending
<1>17. UrlsInv'
    BY <1>1, <1>2, <1>3, <1>7, <1>8, <1>11, MediaIs
       DEF UrlsInv, UrlsRegistered, UrlsGoWithTheirCard, Only, Mounted
<1>18. QED
    BY <1>12, <1>13, <1>14, <1>15, <1>16, <1>17 DEF BoardInv

(* A deletion does.                                                         *)
LEMMA DeletedHere ==
    ASSUME BoardInv, NEW t \in tasks, Deleted(t), Here(t)
    PROVE  BoardInv'
<1> DEFINE ps == [board.posters EXCEPT ![t.poster] = None]
           b == [board EXCEPT !.posters[t.poster] = None, !.confirm = {}]
<1>1. /\ Shape /\ Known /\ CleanInv /\ Owned /\ Follows /\ UrlsInv /\ TaskOK(t)
      /\ disk.posters \in Posters /\ disk.blobs \subseteq Media /\ board \in BoardRec
      /\ board.posters \in Posters /\ made.posters \subseteq Poster /\ MaxBoards \in Nat
    BY ShapeParts, BoardAssumption DEF BoardInv, Shape
<1>2. /\ t.op = "delete" /\ t.at = "set" /\ t.poster \in Poster /\ Mounted
      /\ board' = ShowCards(b, {}) /\ tasks' = tasks \ {t}
      /\ UNCHANGED <<disk, registry, live, made, amiss>>
    BY <1>1 DEF Deleted, Drop, TaskOK, Here
<1>3. /\ ps \in Posters /\ ps[t.poster] = None
      /\ \A p \in Poster : p # t.poster => ps[p] = board.posters[p]
    BY <1>1, <1>2 DEF Posters, Status, None
<1>4. /\ board.adding \in {"closed", "open"} \cup Poster /\ board.confirm \subseteq Poster
      /\ board.listed \in BOOLEAN /\ board.number \in 0..MaxBoards
      /\ board.cards \in [Media -> {"sealed", "loading", "shown", "error"}]
    BY <1>1, BoardFields
<1>5. /\ b.number = board.number /\ b.listed = board.listed /\ b.posters = ps
      /\ b.confirm = {} /\ b.adding = board.adding /\ b.cards = board.cards
      /\ b = [y \in DOMAIN board |-> b[y]]
    BY <1>1, BoardFields
<1> HIDE DEF b, ps
<1>6. /\ b \in BoardRec /\ b.number = board.number /\ b.listed = board.listed
      /\ b.posters = ps /\ b.confirm = {}
    BY <1>1, <1>3, <1>4, <1>5, BoardUpdated
<1>7. /\ board' \in BoardRec /\ board'.number = board.number
      /\ board'.listed = board.listed /\ board'.posters = ps /\ board'.confirm = {}
    BY <1>1, <1>2, <1>6, CardsShown
<1>8. \A u \in tasks : Mutates(u) => u.poster \in Poster
    BY <1>1 DEF Shape, TaskOK, Mutates
<1>9. Shape'
    BY <1>1, <1>2, <1>7 DEF Shape
<1>10. Known'
    BY <1>1, <1>2, <1>3, <1>7 DEF Known, Mutates, Mounted
<1>11. CleanInv'
    <2> SUFFICES ASSUME Clean'
                 PROVE  (/\ Exclusive /\ SavesHidden /\ ConfirmShown /\ ShownOnDisk /\ DeletesHere
                         /\ TaskDisk /\ MediaThere)'
        BY DEF CleanInv
    <2>1. Clean /\ Exclusive /\ SavesHidden /\ ConfirmShown /\ ShownOnDisk /\ DeletesHere
          /\ TaskDisk /\ MediaThere
        BY <1>1, <1>2 DEF CleanInv, Clean
    <2>2. Exclusive'
        BY <2>1, <1>2 DEF Exclusive, Mutates
    <2>3. SavesHidden'
        BY <2>1, <1>2, <1>3, <1>7, <1>8 DEF SavesHidden, Mutates
    <2>4. ConfirmShown'
        BY <1>7 DEF ConfirmShown
    <2>5. ShownOnDisk'
        BY <2>1, <1>2, <1>3, <1>7 DEF ShownOnDisk, OnDisk
    <2>6. DeletesHere'
        BY <2>1, <1>2, <1>3, <1>7, <1>8 DEF DeletesHere, Mutates, Here, Mounted
    <2>7. TaskDisk'
        BY <2>1, <1>2 DEF TaskDisk, OnDisk
    <2>8. MediaThere'
        BY <2>1, <1>2 DEF MediaThere, Sealed, OnDisk
    <2>9. QED
        BY <2>2, <2>3, <2>4, <2>5, <2>6, <2>7, <2>8
<1>12. Owned'
    BY <1>1, <1>2 DEF Owned, OnDisk
<1>13. Follows'
    BY <1>1, <1>2, <1>3, <1>7, <1>8
       DEF Follows, Clean, CleanInv, Exclusive, TaskDisk, OnDisk, Mutates, Here,
       Mounted, Pending
<1>14. UrlsInv'
    BY <1>1, <1>2, <1>3, <1>7, MediaIs
       DEF UrlsInv, UrlsRegistered, UrlsGoWithTheirCard, Only, Mounted
<1>15. QED
    BY <1>9, <1>10, <1>11, <1>12, <1>13, <1>14 DEF BoardInv

(* A status change ends.                                                    *)
LEMMA ShowStatusKeeps ==
    ASSUME BoardInv, NEW t \in tasks, ShowStatus(t)
    PROVE  BoardInv'
<1> DEFINE ps == [board.posters EXCEPT ![t.poster] = t.status]
           b == [board EXCEPT !.posters[t.poster] = t.status]
<1>1. /\ Shape /\ Known /\ CleanInv /\ Owned /\ Follows /\ UrlsInv /\ TaskOK(t)
      /\ disk.posters \in Posters /\ disk.blobs \subseteq Media /\ board \in BoardRec
      /\ board.posters \in Posters /\ made.posters \subseteq Poster /\ MaxBoards \in Nat
    BY ShapeParts, BoardAssumption DEF BoardInv, Shape
<1>2. /\ t.op = "cycle" /\ t.at = "set" /\ t.poster \in Poster
      /\ t.status \in Status /\ t.status # None
      /\ tasks' = tasks \ {t}
      /\ UNCHANGED <<disk, registry, live, made, amiss>>
    BY <1>1 DEF ShowStatus, Drop, TaskOK, Status, None
<1>3. /\ ps \in Posters /\ ps[t.poster] = t.status
      /\ \A p \in Poster : p # t.poster => ps[p] = board.posters[p]
    BY <1>1, <1>2 DEF Posters, Status, None
<1>4. /\ board.adding \in {"closed", "open"} \cup Poster /\ board.confirm \subseteq Poster
      /\ board.listed \in BOOLEAN /\ board.number \in 0..MaxBoards
      /\ board.cards \in [Media -> {"sealed", "loading", "shown", "error"}]
    BY <1>1, BoardFields
<1>5. /\ b.number = board.number /\ b.listed = board.listed /\ b.posters = ps
      /\ b.confirm = board.confirm /\ b.adding = board.adding /\ b.cards = board.cards
      /\ b = [y \in DOMAIN board |-> b[y]]
    BY <1>1, BoardFields
<1> HIDE DEF b
<1>6. /\ b \in BoardRec /\ b.number = board.number /\ b.listed = board.listed
      /\ b.posters = ps /\ b.confirm = board.confirm
    BY <1>1, <1>3, <1>4, <1>5, BoardUpdated
<1>7. /\ Gone(t) => board' = board
      /\ ~Gone(t) => board' = b /\ Mounted /\ Here(t) /\ board.posters[t.poster] # None
    BY DEF ShowStatus, Gone, Here, b
<1> HIDE DEF ps
<1>8. /\ board' \in BoardRec /\ board'.number = board.number
      /\ board'.listed = board.listed /\ board'.confirm = board.confirm
      /\ \A p \in Poster : board'.posters[p] = None <=> board.posters[p] = None
      /\ \A p \in Poster : p # t.poster => board'.posters[p] = board.posters[p]
    BY <1>1, <1>2, <1>3, <1>6, <1>7
<1>9. Here(t) /\ board.posters[t.poster] # None => board'.posters[t.poster] = t.status
    BY <1>3, <1>6, <1>7 DEF Gone
<1>10. \A u \in tasks : Mutates(u) => u.poster \in Poster
    BY <1>1 DEF Shape, TaskOK, Mutates
<1>11. Shape'
    BY <1>1, <1>2, <1>6, <1>7 DEF Shape
<1>12. Known'
    BY <1>1, <1>2, <1>3, <1>5, <1>7 DEF Known, Mutates, Mounted
<1>13. CleanInv'
    <2> SUFFICES ASSUME Clean'
                 PROVE  (/\ Exclusive /\ SavesHidden /\ ConfirmShown /\ ShownOnDisk /\ DeletesHere
                         /\ TaskDisk /\ MediaThere)'
        BY DEF CleanInv
    <2>1. Clean /\ Exclusive /\ SavesHidden /\ ConfirmShown /\ ShownOnDisk /\ DeletesHere
          /\ TaskDisk /\ MediaThere
        BY <1>1, <1>2 DEF CleanInv, Clean
    <2>2. Exclusive'
        BY <2>1, <1>2 DEF Exclusive, Mutates
    <2>3. SavesHidden'
        BY <2>1, <1>2, <1>8, <1>10 DEF SavesHidden, Mutates
    <2>4. ConfirmShown'
        BY <2>1, <1>2, <1>3, <1>4, <1>5, <1>7 DEF ConfirmShown
    <2>5. ShownOnDisk'
        BY <2>1, <1>2, <1>3, <1>5, <1>7 DEF ShownOnDisk, OnDisk
    <2>6. DeletesHere'
        BY <2>1, <1>2, <1>8, <1>10 DEF DeletesHere, Mutates, Here, Mounted
    <2>7. TaskDisk'
        BY <2>1, <1>2 DEF TaskDisk, OnDisk
    <2>8. MediaThere'
        BY <2>1, <1>2 DEF MediaThere, Sealed, OnDisk
    <2>9. QED
        BY <2>2, <2>3, <2>4, <2>5, <2>6, <2>7, <2>8
<1>14. Owned'
    BY <1>1, <1>2 DEF Owned, OnDisk
<1>15. Follows'
    BY <1>1, <1>2, <1>8, <1>9, <1>10
       DEF Follows, Clean, CleanInv, Exclusive, Mutates, Here, Mounted, Pending
<1>16. UrlsInv'
    BY <1>1, <1>2, <1>8, MediaIs
       DEF UrlsInv, UrlsRegistered, UrlsGoWithTheirCard, Only, Mounted
<1>17. QED
    BY <1>11, <1>12, <1>13, <1>14, <1>15, <1>16 DEF BoardInv

(* Every step keeps BoardInv.                                               *)
LEMMA BoardStep ==
    ASSUME BoardInv, [Next]_vars
    PROVE  BoardInv'
<1>1. CASE UNCHANGED vars
    <2>1. UNCHANGED <<disk, board, registry, live, tasks, made, amiss>>
        BY <1>1 DEF vars
    <2>2. Shape' /\ UrlsInv'
        BY <2>1
           DEF BoardInv, Shape, UrlsInv, UrlsRegistered, UrlsGoWithTheirCard, Only,
           Mounted
    <2>3. Known' /\ CleanInv' /\ Owned' /\ Follows'
        BY <2>1, CoreKeeps
    <2>4. QED
        BY <2>2, <2>3 DEF BoardInv
<1>2. CASE Mount \/ Unmount \/ Reload \/ Replaced \/ OpenOverlay \/ CloseOverlay \/ Dismiss
    BY <1>2, MountKeeps, UnmountKeeps, ReloadKeeps, ReplacedKeeps, OverlayKeeps, DismissKeeps
<1>3. ASSUME NEW p \in Poster, PlayVideo(p) \/ Save(p) \/ cycleStatus(p) \/ AskDelete(p)
                               \/ handleDeleted(p)
      PROVE  BoardInv'
    BY <1>3, PlayKeeps, SaveKeeps, CycleKeeps, AskDeleteKeeps, HandleDeletedKeeps
<1>4. ASSUME NEW t \in tasks, Step(t) \/ SaveFails(t) \/ Refused(t)
      PROVE  BoardInv'
    <2>1. CASE ReadMedia(t) \/ Decrypted(t) \/ ReadList(t) \/ sealMedia(t) \/ putNewPoster(t)
               \/ putStatus(t) \/ ShowStatus(t) \/ deleteRecord(t) \/ deleteMedia(t) \/ SaveFails(t)
               \/ Refused(t)
        BY <2>1, ReadMediaKeeps, DecryptedKeeps, ReadListKeeps, SealKeeps,
           PutPosterKeeps, PutStatusKeeps, ShowStatusKeeps, DeleteRecordKeeps,
           DeleteMediaKeeps, SaveFailsKeeps, RefusedKeeps
    <2>2. CASE Listed(t) \/ ListRefused(t)
        BY <2>2, ListedHere, ListRefusedHere, ListedElsewhere
    <2>3. CASE handleCreated(t)
        BY <2>3, CreatedHere, CreatedElsewhere
    <2>4. CASE Deleted(t)
        BY <2>4, DeletedHere, DeletedElsewhere
    <2>5. QED
        BY <1>4, <2>1, <2>2, <2>3, <2>4 DEF Step
<1>5. QED
    BY <1>1, <1>2, <1>3, <1>4 DEF Next

(* So it always holds.                                                      *)
LEMMA BoardHolds == Spec => []BoardInv
<1>1. Init => BoardInv
    <2> SUFFICES ASSUME Init PROVE BoardInv
        OBVIOUS
    <2>1. /\ disk = [posters |-> Blank, blobs |-> {}] /\ board = NoBoard /\ registry = {}
          /\ live = [k \in Media |-> 0] /\ tasks = {}
          /\ made = [posters |-> {}, boards |-> 0, taps |-> 0] /\ amiss = {}
          /\ MaxBoards \in Nat /\ MaxTaps \in Nat /\ MaxUrls \in Nat
        BY BoardAssumption DEF Init, EmptyDisk
    <2>2. /\ board \in BoardRec /\ board.number = 0 /\ ~board.listed /\ board.posters = Blank
          /\ board.confirm = {} /\ Blank \in Posters /\ \A p \in Poster : Blank[p] = None
        BY <2>1, NothingMounted
    <2>3. Shape
        BY <2>1, <2>2 DEF Shape
    <2>4. Known /\ Owned /\ Follows
        BY <2>1, <2>2 DEF Known, Owned, Follows
    <2>5. CleanInv
        BY <2>1, <2>2
           DEF CleanInv, Exclusive, SavesHidden, ConfirmShown, ShownOnDisk,
                          DeletesHere, TaskDisk, MediaThere, OnDisk
    <2>6. UrlsInv
        BY <2>1 DEF UrlsInv, UrlsRegistered, UrlsGoWithTheirCard
    <2>7. QED
        BY <2>3, <2>4, <2>5, <2>6 DEF BoardInv
<1>2. QED
    BY <1>1, BoardStep, PTL DEF Spec

(* Once every handler has ended a listed board shows what is on disk, and   *)
(* leaves out only what a limited or refused list left out; every live      *)
(* object URL is registered, and none outlives its card, whatever handlers  *)
(* overlap, apart from the ways recorded in amiss.                          *)
THEOREM BoardAlwaysAgrees == Spec => []BoardAgrees
<1>1. BoardInv => BoardAgrees
    <2> SUFFICES ASSUME BoardInv PROVE BoardAgrees
        OBVIOUS
    <2>1. Shape /\ Follows /\ UrlsInv
        BY DEF BoardInv
    <2>2. TypeOK
        BY <2>1, ShapeParts, BoardFields DEF Shape, TypeOK
    <2>3. BoardShowsDisk
        BY <2>1 DEF BoardShowsDisk, Follows, Quiet, Only, Clean, Partial
    <2>4. QED
        BY <2>1, <2>2, <2>3 DEF BoardAgrees, UrlsInv
<1>2. QED
    BY <1>1, BoardHolds, PTL

(* Wherever a reload or a refused write cuts in, a poster on disk has its   *)
(* media; and ciphertext without a poster exists only while a save or a     *)
(* deletion is under way, unless a save failed or a medium was refused its  *)
(* deletion.                                                                *)
THEOREM MediaAlwaysMatch == Spec => []MediaMatchPosters
<1>1. BoardInv => MediaMatchPosters
    <2> SUFFICES ASSUME BoardInv PROVE MediaMatchPosters
        OBVIOUS
    <2>1. Shape /\ CleanInv /\ Owned
        BY DEF BoardInv
    <2>2. PosterComplete
        <3> SUFFICES ASSUME Only(Ways \ {"revived", "overlaid", "replaced"}), NEW p \in Poster, OnDisk(p),
                            NEW k \in {p} \X MediaOf(p)
                     PROVE  k \in disk.blobs
            BY DEF PosterComplete
        <3>1. Clean
            BY DEF Only, Clean
        <3>2. \A m \in MediaOf(p) : <<p, m>> \in disk.blobs
            BY <2>1, <3>1 DEF CleanInv, MediaThere, Sealed
        <3>3. QED
            BY <3>2
    <2>3. NoOrphanMedia
        BY <2>1 DEF NoOrphanMedia, Quiet, Only, Owned
    <2>4. QED
        BY <2>2, <2>3 DEF MediaMatchPosters
<1>2. QED
    BY <1>1, BoardHolds, PTL

(* No step brings a deleted poster back to disk, unless its status was      *)
(* written while it was being deleted, a late list brought it back to the   *)
(* board, or the database was wiped under the board.                        *)
THEOREM DeletedNeverReturns == Spec => DeletedStaysDeleted
<1>1. BoardInv /\ [Next]_vars =>
          [ \A p \in Poster :
              (/\ p \in made.posters /\ ~OnDisk(p) /\ ~Busy("save", p)
               /\ amiss' \cap {"revived", "overlaid", "replaced"} = {})
                => ~OnDisk(p)' ]_vars
    <2> SUFFICES ASSUME BoardInv, Next, NEW p \in Poster, p \in made.posters, ~OnDisk(p),
                        ~Busy("save", p), amiss' \cap {"revived", "overlaid", "replaced"} = {}
                 PROVE  ~OnDisk(p)'
        OBVIOUS
    <2>1. CASE disk'.posters = disk.posters
        BY <2>1 DEF OnDisk
    <2>2. ASSUME NEW t \in tasks, putNewPoster(t)
          PROVE  ~OnDisk(p)'
        <3>1. t.op = "save" /\ disk' = [disk EXCEPT !.posters[t.poster] = 0]
            BY <2>2 DEF putNewPoster
        <3>2. t.poster # p
            BY <3>1 DEF Busy
        <3>3. QED
            BY <3>1, <3>2, ShapeParts DEF OnDisk, BoardInv, Posters
    <2>3. ASSUME NEW t \in tasks, putStatus(t)
          PROVE  ~OnDisk(p)'
        <3>1. /\ t.op = "cycle" /\ t.at = "put" /\ amiss' = amiss
              /\ disk' = [disk EXCEPT !.posters[t.poster] = t.status]
            BY <2>3 DEF putStatus
        <3>2. Clean
            BY <3>1 DEF Clean
        <3>3. t.poster # p
            BY <3>1, <3>2 DEF BoardInv, CleanInv, TaskDisk
        <3>4. QED
            BY <3>1, <3>3, ShapeParts DEF OnDisk, BoardInv, Posters
    <2>4. ASSUME NEW t \in tasks, deleteRecord(t)
          PROVE  ~OnDisk(p)'
        <3>1. disk' = [disk EXCEPT !.posters[t.poster] = None]
            BY <2>4 DEF deleteRecord
        <3>2. QED
            BY <3>1, ShapeParts DEF OnDisk, BoardInv, Posters
    <2>5. ASSUME NEW t \in tasks, sealMedia(t) \/ deleteMedia(t)
          PROVE  disk'.posters = disk.posters
        BY <2>5, ShapeParts DEF sealMedia, deleteMedia, BoardInv
    <2>6. CASE Mount \/ Unmount \/ Reload \/ Replaced \/ OpenOverlay \/ CloseOverlay \/ Dismiss
        BY <2>6, <2>1 DEF Mount, Unmount, Reload, Replaced, Blame, OpenOverlay, CloseOverlay, Dismiss
    <2>7. ASSUME NEW q \in Poster, PlayVideo(q) \/ Save(q) \/ cycleStatus(q) \/ AskDelete(q)
                                   \/ handleDeleted(q)
          PROVE  disk'.posters = disk.posters
        BY <2>7 DEF PlayVideo, Save, cycleStatus, AskDelete, handleDeleted
    <2>8. ASSUME NEW t \in tasks, ReadMedia(t) \/ Decrypted(t) \/ ReadList(t) \/ Listed(t)
                                  \/ ListRefused(t) \/ handleCreated(t) \/ ShowStatus(t)
                                  \/ Deleted(t) \/ SaveFails(t) \/ Refused(t)
          PROVE  disk'.posters = disk.posters
        BY <2>8
           DEF ReadMedia, Decrypted, ReadList, Listed, ListRefused, handleCreated,
               ShowStatus, Deleted, SaveFails, Refused
    <2>9. QED
        BY <2>1, <2>2, <2>3, <2>4, <2>5, <2>6, <2>7, <2>8 DEF Next, Step
<1>2. QED
    BY <1>1, BoardHolds, PTL DEF Spec, DeletedStaysDeleted
=============================================================================

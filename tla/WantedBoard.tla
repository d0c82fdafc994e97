---------------------------- MODULE WantedBoard ----------------------------
(***************************************************************************)
(* The WANTED board (components/wanted.tsx): posters and their sealed      *)
(* media in IndexedDB (storage/vault-store.ts), what the mounted board     *)
(* shows, and the object URLs of decrypted media.                          *)
(*                                                                         *)
(* Every handler awaits storage, and nothing stops one that is under way:  *)
(* not another tap, not the overlay's close button, not the board going    *)
(* away with a change of tab or a lock.  A handler that ends after its     *)
(* board is gone still writes to disk and to the URL registry, which is a  *)
(* module variable, but changes nothing on the screen.                     *)
(*                                                                         *)
(* The history variable amiss records what else can go wrong:              *)
(*   failed     a write was refused, or the page reloaded, amid a save     *)
(*   revived    a status was written for a poster being deleted            *)
(*   overtaken  two status changes of one poster were under way            *)
(*   late       media were decrypted for a card that had gone              *)
(*   twice      media were decrypted twice at once                         *)
(*   overlaid   the list arrived after a poster was made or changed        *)
(*   beyond     the list left posters out, being limited                   *)
(*   unlisted   the list was refused, and an empty board shown             *)
(*   orphaned   the deletion of a medium was refused                       *)
(*   replaced   the database was wiped, by an import or DELETE ALL DATA    *)
(***************************************************************************)
EXTENDS Naturals, FiniteSets

CONSTANTS Poster,      \* ids of posters, each used once
          Before(_, _), \* does the key of a poster sort before another's?
          MediaOf(_),  \* the media a poster is given: image, video
          MaxListed,   \* posters listed (500)
          MaxBoards,   \* bound on boards mounted one after another
          MaxTaps,     \* bound on taps on a status stamp
          MaxUrls,     \* bound on live URLs of one medium
          MaxTogether, \* bound on handlers under way when the user taps
          MaxAmiss     \* bound on how many of the ways above are taken

ASSUME BoardAssumption ==
    /\ \A p \in Poster : MediaOf(p) \subseteq {"image", "video"}
    /\ {MaxListed, MaxBoards, MaxTaps, MaxUrls, MaxTogether, MaxAmiss} \subseteq Nat

VARIABLES
    disk,      \* poster records (their status) and media ciphertexts
    board,     \* the mounted board: what it shows, its overlays
    registry,  \* urlRegistry: the media that have an entry
    live,      \* [medium -> number of object URLs not revoked]
    tasks,     \* handlers that are awaiting
    made,      \* posters made, boards mounted, taps
    amiss      \* history: see above

vars == <<disk, board, registry, live, tasks, made, amiss>>

Status == 0..2    \* STATUS_ORDER, counted from the one the poster was saved with
None == 9         \* no such poster
Media == UNION {{p} \X MediaOf(p) : p \in Poster}
Posters == [Poster -> Status \cup {None}]
Blank == [p \in Poster |-> None]
EmptyDisk == [posters |-> Blank, blobs |-> {}]
NoBoard == [number |-> 0, listed |-> FALSE, posters |-> Blank,
            confirm |-> {}, adding |-> "closed", cards |-> [k \in Media |-> "sealed"]]

Init ==
    /\ disk = EmptyDisk
    /\ board = NoBoard /\ registry = {} /\ live = [k \in Media |-> 0]
    /\ tasks = {}
    /\ made = [posters |-> {}, boards |-> 0, taps |-> 0] /\ amiss = {}

Mounted == board.number # 0
Task(op, p, at) == [op |-> op, poster |-> p, at |-> at, board |-> board.number,
                    kind |-> "none", status |-> None, list |-> Blank]
Here(t) == Mounted /\ t.board = board.number
Gone(t) == ~Here(t) \/ board.posters[t.poster] = None
Add(ts) == Cardinality(tasks) < MaxTogether /\ tasks' = tasks \cup ts
Advance(t, at) == tasks' = (tasks \ {t}) \cup {[t EXCEPT !.at = at]}
Drop(t) == tasks' = tasks \ {t}
Busy(op, p) == \E t \in tasks : t.op = op /\ t.poster = p
Blame(ways) == amiss' = amiss \cup ways /\ Cardinality(amiss \cup ways) <= MaxAmiss
If(condition, way) == IF condition THEN {way} ELSE {}

-----------------------------------------------------------------------------
(* Cards.  A card that appears decrypts its image unless the registry has   *)
(* it; a video is decrypted when it is tapped.                              *)
Open(p, kind) == [Task("open", p, "read") EXCEPT !.kind = kind]
ToDecrypt(ps) == {<<p, "image">> : p \in ps} \cap (Media \ registry)

ShowCards(shown, appearing) ==
    LET images == {<<p, "image">> : p \in appearing} \cap Media IN
    [shown EXCEPT !.cards =
        [k \in Media |-> IF shown.posters[k[1]] = None THEN "sealed"
                         ELSE IF k \notin images THEN board.cards[k]
                         ELSE IF k \in registry THEN "shown" ELSE "loading"]]

(* Objects that appear anew for cards that are there run the effect again.  *)
Appear(shown, appearing, rest) ==
    /\ board' = ShowCards(shown, appearing)
    /\ tasks' = rest \cup {Open(k[1], k[2]) : k \in ToDecrypt(appearing)}

PlayVideo(p) ==
    LET k == <<p, "video">> IN
    /\ Mounted /\ board.posters[p] # None
    /\ k \in Media /\ board.cards[k] \in {"sealed", "error"}
    /\ IF k \in registry
       THEN board' = [board EXCEPT !.cards[k] = "shown"] /\ UNCHANGED tasks
       ELSE board' = [board EXCEPT !.cards[k] = "loading"] /\ Add({Open(p, "video")})
    /\ UNCHANGED <<disk, registry, live, made, amiss>>

Card(t, state) ==
    IF Gone(t) THEN board ELSE [board EXCEPT !.cards[<<t.poster, t.kind>>] = state]

ReadMedia(t) ==
    /\ t.op = "open" /\ t.at = "read"
    /\ IF <<t.poster, t.kind>> \in disk.blobs
       THEN Advance(t, "decrypt") /\ UNCHANGED board
       ELSE Drop(t) /\ board' = Card(t, "error")
    /\ UNCHANGED <<disk, registry, live, made, amiss>>

(* The URL is made and registered whether or not the card is still there.   *)
Registers(t, k) == registry' = registry \cup {k}

Decrypted(t) ==
    LET k == <<t.poster, t.kind>> IN
    /\ t.op = "open" /\ t.at = "decrypt" /\ live[k] < MaxUrls
    /\ live' = [live EXCEPT ![k] = @ + 1]
    /\ Registers(t, k)
    /\ board' = Card(t, "shown") /\ Drop(t)
    /\ Blame(If(Gone(t) \/ Busy("delete", t.poster), "late") \cup If(k \in registry, "twice"))
    /\ UNCHANGED <<disk, made>>

(* Storage refuses, or what it holds does not decrypt: only a card shows it. *)
Refused(t) ==
    /\ \/ t.op = "open" /\ board' = Card(t, "error")
       \/ t.op = "cycle" /\ t.at = "put" /\ UNCHANGED board
       \/ t.op = "delete" /\ t.at = "record" /\ UNCHANGED board
    /\ Drop(t)
    /\ UNCHANGED <<disk, registry, live, made, amiss>>

(* Revoking what the registry holds for the media ks.                       *)
Revoke(ks) ==
    /\ live' = [k \in Media |-> IF k \in ks \cap registry THEN live[k] - 1 ELSE live[k]]
    /\ registry' = registry \ ks

-----------------------------------------------------------------------------
(* The board appears with the tab and is listed; it goes with the tab, with *)
(* a lock or with the page.                                                 *)
Mount ==
    /\ ~Mounted /\ made.boards < MaxBoards
    /\ made' = [made EXCEPT !.boards = @ + 1]
    /\ board' = [NoBoard EXCEPT !.number = made.boards + 1]
    /\ tasks' = tasks \cup {[Task("list", CHOOSE p \in Poster : TRUE, "read")
                                EXCEPT !.board = made.boards + 1]}
    /\ UNCHANGED <<disk, registry, live, amiss>>

UnmountForgets ==
    /\ Mounted /\ board' = NoBoard
    /\ UNCHANGED <<disk, registry, live, tasks, made, amiss>>

Unmount ==
    /\ Mounted /\ board' = NoBoard
    /\ Revoke(Media)
    /\ UNCHANGED <<disk, tasks, made, amiss>>

Reload ==
    /\ board' = NoBoard /\ registry' = {} /\ live' = [k \in Media |-> 0]
    /\ tasks # {} /\ tasks' = {}
    /\ Blame(If(\E t \in tasks : t.op \in {"save", "delete"}, "failed"))
    /\ UNCHANGED <<disk, made>>

(* The first of the posters, by their keys.                                 *)
Listing(posters) ==
    LET kept == {p \in Poster : posters[p] # None}
    IN  [p \in Poster |-> IF Cardinality({q \in kept : Before(q, p)}) < MaxListed
                         THEN posters[p] ELSE None]

ReadList(t) ==
    /\ t.op = "list" /\ t.at = "read"
    /\ tasks' = (tasks \ {t}) \cup {[t EXCEPT !.at = "set", !.list = Listing(disk.posters)]}
    /\ UNCHANGED <<disk, board, registry, live, made, amiss>>

Amid == board.posters # Blank \/ \E u \in tasks : u.op \in {"save", "cycle", "delete"}

setPosters(t, list) ==
    IF Here(t)
    THEN Appear([board EXCEPT !.posters = list, !.listed = TRUE],
                {p \in Poster : list[p] # None}, tasks \ {t})
    ELSE Drop(t) /\ UNCHANGED board

Listed(t) ==
    /\ t.op = "list" /\ t.at = "set" /\ setPosters(t, t.list)
    /\ Blame(If(Here(t) /\ (t.list # Listing(disk.posters) \/ Amid), "overlaid")
             \cup If(Here(t) /\ disk.posters # Listing(disk.posters), "beyond"))
    /\ UNCHANGED <<disk, registry, live, made>>

(* The catch of load().                                                     *)
ListRefused(t) ==
    /\ t.op = "list" /\ t.at = "read" /\ setPosters(t, Blank)
    /\ Blame(If(Here(t), "unlisted") \cup If(Here(t) /\ Amid, "overlaid"))
    /\ UNCHANGED <<disk, registry, live, made>>

(* The database is wiped; a backup holds no posters.  The board is not told. *)
Replaced ==
    /\ disk' = EmptyDisk /\ Blame({"replaced"})
    /\ UNCHANGED <<board, registry, live, tasks, made>>

-----------------------------------------------------------------------------
(* Adding a poster: the media are sealed one after another, the record last.*)
(* The close button does not stop a save.                                   *)
OpenOverlay ==
    /\ Mounted /\ board.adding = "closed" /\ board.confirm = {}
    /\ board' = [board EXCEPT !.adding = "open"]
    /\ UNCHANGED <<disk, registry, live, tasks, made, amiss>>

CloseOverlay ==
    /\ Mounted /\ board.adding # "closed"
    /\ board' = [board EXCEPT !.adding = "closed"]
    /\ UNCHANGED <<disk, registry, live, tasks, made, amiss>>

FirstSealRecord(p) == "record"
FirstSeal(p) ==
    IF "image" \in MediaOf(p) THEN "image"
    ELSE IF "video" \in MediaOf(p) THEN "video" ELSE "record"
NextSeal(p, at) == IF at = "image" /\ "video" \in MediaOf(p) THEN "video" ELSE "record"

Save(p) ==
    /\ Mounted /\ board.adding = "open" /\ p \notin made.posters
    /\ board' = [board EXCEPT !.adding = p]
    /\ made' = [made EXCEPT !.posters = @ \cup {p}]
    /\ Add({Task("save", p, FirstSeal(p))})
    /\ UNCHANGED <<disk, registry, live, amiss>>

sealMedia(t) ==
    /\ t.op = "save" /\ t.at \in {"image", "video"}
    /\ disk' = [disk EXCEPT !.blobs = @ \cup {<<t.poster, t.at>>}]
    /\ Advance(t, NextSeal(t.poster, t.at))
    /\ UNCHANGED <<board, registry, live, made, amiss>>

putNewPoster(t) ==
    /\ t.op = "save" /\ t.at = "record"
    /\ disk' = [disk EXCEPT !.posters[t.poster] = 0]
    /\ Advance(t, "created")
    /\ UNCHANGED <<board, registry, live, made, amiss>>

handleCreated(t) ==
    LET shown == [board EXCEPT !.posters[t.poster] = 0, !.adding = "closed"] IN
    /\ t.op = "save" /\ t.at = "created"
    /\ IF Here(t) THEN Appear(shown, {t.poster}, tasks \ {t})
       ELSE Drop(t) /\ UNCHANGED board
    /\ UNCHANGED <<disk, registry, live, made, amiss>>

SaveFails(t) ==
    /\ t.op = "save" /\ t.at \in {"image", "video", "record"}
    /\ board' = IF Here(t) /\ board.adding = t.poster
                THEN [board EXCEPT !.adding = "open"] ELSE board
    /\ Drop(t) /\ Blame({"failed"})
    /\ UNCHANGED <<disk, registry, live, made>>

-----------------------------------------------------------------------------
(* The stamp: the status after the one of the poster that was rendered.     *)
NextStatus(s) == (s + 1) % 3

cycleStatus(p) ==
    /\ Mounted /\ board.posters[p] # None /\ made.taps < MaxTaps
    /\ made' = [made EXCEPT !.taps = @ + 1]
    /\ Add({[Task("cycle", p, "put") EXCEPT !.status = NextStatus(board.posters[p])]})
    /\ Blame(If(Busy("cycle", p), "overtaken") \cup If(Busy("delete", p), "revived"))
    /\ UNCHANGED <<disk, board, registry, live>>

putStatus(t) ==
    /\ t.op = "cycle" /\ t.at = "put" /\ Advance(t, "set")
    /\ disk' = [disk EXCEPT !.posters[t.poster] = t.status]
    /\ UNCHANGED <<board, registry, live, made, amiss>>

ShowStatus(t) ==
    /\ t.op = "cycle" /\ t.at = "set" /\ Drop(t)
    /\ board' = IF Gone(t) THEN board ELSE [board EXCEPT !.posters[t.poster] = t.status]
    /\ UNCHANGED <<disk, registry, live, made, amiss>>

-----------------------------------------------------------------------------
(* Deleting: asked for, confirmed, then URLs, record and media in turn.  A  *)
(* poster can be asked for again until it is gone.                          *)
AskDelete(p) ==
    /\ Mounted /\ board.posters[p] # None /\ board.adding = "closed" /\ board.confirm = {}
    /\ board' = [board EXCEPT !.confirm = {p}]
    /\ UNCHANGED <<disk, registry, live, tasks, made, amiss>>

Dismiss ==
    /\ board.confirm # {} /\ board' = [board EXCEPT !.confirm = {}]
    /\ UNCHANGED <<disk, registry, live, tasks, made, amiss>>

handleDeleted(p) ==
    /\ p \in board.confirm
    /\ board' = [board EXCEPT !.confirm = {}]
    /\ Revoke({k \in Media : k[1] = p})
    /\ Add({Task("delete", p, "record")})
    /\ Blame(If(Busy("cycle", p), "revived"))
    /\ UNCHANGED <<disk, made>>

deleteRecord(t) ==
    /\ t.op = "delete" /\ t.at = "record"
    /\ disk' = [disk EXCEPT !.posters[t.poster] = None]
    /\ Advance(t, IF disk.posters[t.poster] = None THEN "set" ELSE "media")
    /\ UNCHANGED <<board, registry, live, made, amiss>>

deleteMediaRewrites(t) ==
    /\ t.op = "delete" /\ t.at = "media" /\ Advance(t, "set")
    /\ disk' = [posters |-> [disk.posters EXCEPT ![t.poster] = 0],
                blobs |-> {k \in disk.blobs : k[1] # t.poster}]
    /\ UNCHANGED <<board, registry, live, made, amiss>>

(* The refused deletion of a medium is swallowed: its ciphertext is left.   *)
deleteMedia(t) ==
    \E left \in SUBSET (disk.blobs \cap ({t.poster} \X MediaOf(t.poster))) :
        /\ t.op = "delete" /\ t.at = "media" /\ Advance(t, "set")
        /\ disk' = [disk EXCEPT !.blobs = {k \in @ : k[1] # t.poster} \cup left]
        /\ Blame(If(left # {}, "orphaned"))
        /\ UNCHANGED <<board, registry, live, made>>

Deleted(t) ==
    /\ t.op = "delete" /\ t.at = "set" /\ Drop(t)
    /\ board' = IF Here(t)
                THEN ShowCards([board EXCEPT !.posters[t.poster] = None, !.confirm = {}], {})
                ELSE board
    /\ UNCHANGED <<disk, registry, live, made, amiss>>

-----------------------------------------------------------------------------
Step(t) ==
    \/ ReadMedia(t) \/ Decrypted(t) \/ ReadList(t) \/ Listed(t) \/ ListRefused(t)
    \/ sealMedia(t) \/ putNewPoster(t) \/ handleCreated(t)
    \/ putStatus(t) \/ ShowStatus(t)
    \/ deleteRecord(t) \/ deleteMedia(t) \/ Deleted(t)

Next ==
    \/ Mount \/ Unmount \/ Reload \/ Replaced \/ OpenOverlay \/ CloseOverlay \/ Dismiss
    \/ \E p \in Poster : PlayVideo(p) \/ Save(p) \/ cycleStatus(p)
                         \/ AskDelete(p) \/ handleDeleted(p)
    \/ \E t \in tasks : Step(t) \/ SaveFails(t) \/ Refused(t)

Spec == Init /\ [][Next]_vars

-----------------------------------------------------------------------------
Quiet == tasks = {}
Only(ways) == amiss \subseteq ways
Ways == {"failed", "revived", "overtaken", "late", "twice", "overlaid",
         "beyond", "unlisted", "orphaned", "replaced"}
OnDisk(p) == disk.posters[p] # None

(* The values the board and the database can hold.                          *)
TypeOK ==
    /\ disk.posters \in Posters /\ disk.blobs \subseteq Media
    /\ board.posters \in Posters /\ board.number \in 0..MaxBoards
    /\ board.confirm \subseteq Poster /\ board.adding \in {"closed", "open"} \cup Poster
    /\ board.cards \in [Media -> {"sealed", "loading", "shown", "error"}]
    /\ registry \subseteq Media /\ live \in [Media -> 0..MaxUrls]
    /\ made.posters \subseteq Poster /\ made.boards \in 0..MaxBoards /\ made.taps \in 0..MaxTaps
    /\ amiss \subseteq Ways

(* The media are sealed before the record and deleted after it: wherever a  *)
(* page reload or a refused write cuts in, a poster on disk has its media.  *)
PosterComplete ==
    Only(Ways \ {"revived", "overlaid", "replaced"}) =>
        \A p \in Poster : OnDisk(p) => {p} \X MediaOf(p) \subseteq disk.blobs

(* Ciphertext without a poster exists only while a save or a deletion is    *)
(* under way; what a failed save or a refused deletion leaves is the        *)
(* exception.                                                               *)
NoOrphanMedia ==
    Quiet /\ Only(Ways \ {"failed", "orphaned"}) => \A k \in disk.blobs : OnDisk(k[1])

(* A board that has been listed shows what is on disk once every handler    *)
(* has ended: every poster, unless the list was limited or refused, and     *)
(* none that is gone or has another status.                                 *)
Partial == {"beyond", "unlisted"}
BoardShowsDisk ==
    Quiet /\ Only({"failed", "late", "twice", "orphaned"} \cup Partial) /\ board.listed =>
        \A p \in Poster : board.posters[p] = disk.posters[p]
                         \/ (board.posters[p] = None /\ amiss \cap Partial # {})

(* Every live URL is one the registry knows, so that unmount or deletion    *)
(* revokes it, unless media were decrypted twice at once.                   *)
UrlsRegistered ==
    Only(Ways \ {"twice"}) =>
        \A k \in Media : live[k] = IF k \in registry THEN 1 ELSE 0

(* No decrypted medium outlives the board or the poster it was shown on,    *)
(* except those whose decryption ended after it.                            *)
UrlsGoWithTheirCard ==
    Only(Ways \ {"late", "twice", "overlaid"}) =>
        \A k \in Media : live[k] > 0 => Mounted /\ board.posters[k[1]] # None

(* Posters and their sealed media belong together.                          *)
MediaMatchPosters == PosterComplete /\ NoOrphanMedia

(* What is shown is there, in one formula.                                  *)
BoardAgrees == TypeOK /\ BoardShowsDisk /\ UrlsRegistered /\ UrlsGoWithTheirCard

(* A poster that is deleted from disk does not come back.                   *)
DeletedStaysDeleted ==
    [][ \A p \in Poster :
          (/\ p \in made.posters /\ ~OnDisk(p) /\ ~Busy("save", p)
           /\ amiss' \cap {"revived", "overlaid", "replaced"} = {})
            => ~OnDisk(p)' ]_vars
=============================================================================

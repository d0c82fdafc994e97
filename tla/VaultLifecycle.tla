--------------------------- MODULE VaultLifecycle ---------------------------
(***************************************************************************)
(* The life of the local vault on one device: boot, onboarding, unlock,    *)
(* lock, the two imports and the destructive wipe (store/app-store.ts),    *)
(* over the storage singleton (storage/vault-store.ts) and IndexedDB       *)
(* (storage/encrypted-store.ts, storage/meta-raw.ts).                      *)
(*                                                                         *)
(* Each asynchronous operation is a task cut at its awaits, so that a lock *)
(* by the user or the auto-lock timer, a reload of the page, or another    *)
(* operation may come between any two of its writes.  One await is one     *)
(* step; records other than the vault record and the identity are          *)
(* abstracted to the set of keys they are sealed under.                    *)
(*                                                                         *)
(* deleteDatabase resolves although open connections block it.  The real   *)
(* deletion then waits until the browser has closed them, and every later  *)
(* open waits for the deletion.                                            *)
(***************************************************************************)
EXTENDS Naturals, FiniteSets

CONSTANTS Key,          \* data encryption keys, one per vault record made
          Imported,     \* the identity in the backup file
          NoKey,        \* null
          Closed,       \* storage === null
          MaxReloads,   \* bound on page reloads
          MaxTogether   \* bound on operations in flight at once

ASSUME VaultAssumption ==
    /\ Imported # NoKey /\ Imported # Closed /\ NoKey # Closed
    /\ {Imported, NoKey, Closed} \cap Key = {}
    /\ MaxReloads \in Nat /\ MaxTogether \in Nat \ {0}

VARIABLES
    disk,       \* vault record's key, identity record, keys of other records
    deleting,   \* a deletion of the database is still blocked
    handle,     \* does dbPromise hold a connection?
    refs,       \* storage singleton, privateRefs, are decrypted records loaded?
    ui,         \* AppState's phase, vaultStatus, identityPublic; screens' state
    task,       \* [Ops -> where the operation is and what it captured]
    inFlight,   \* keys of writes nobody awaits, still being encrypted
    used,       \* keys made so far
    wiped,      \* history: the last wipe has ended, nothing created since
    disturbed,  \* history: an operation that rewrites the vault was cut short
    reloads     \* number of reloads so far

vars == <<disk, deleting, handle, refs, ui, task, inFlight,
          used, wiped, disturbed, reloads>>

Ops == {"create", "unlock", "recovery", "import", "wipe"}

NoIdentity == [dek |-> NoKey, id |-> NoKey]
EmptyDisk == [vault |-> NoKey, identity |-> NoIdentity, data |-> {}]
NoRefs == [storage |-> Closed, dek |-> NoKey, identity |-> NoKey, loaded |-> FALSE]
Ended == [at |-> "end", vault |-> NoKey, dek |-> NoKey, id |-> NoKey]
FirstScreen ==
    [phase |-> "boot", status |-> "none", shown |-> NoKey, busy |-> FALSE,
     refused |-> "no", forged |-> FALSE, reading |-> "no", dialog |-> "no"]

Init ==
    /\ disk = EmptyDisk /\ deleting = FALSE /\ handle = FALSE
    /\ refs = NoRefs /\ ui = FirstScreen
    /\ task = [o \in Ops |-> Ended] /\ inFlight = {}
    /\ used = {} /\ wiped = FALSE /\ disturbed = FALSE /\ reloads = 0

Running == {o \in Ops : task[o].at # "end"}

(* openDb: the connection held by dbPromise, or a new one, which waits for  *)
(* a pending deletion.  openMetaRaw and openMetaPut open one of their own   *)
(* each time.                                                               *)
CanOpen == handle \/ ~deleting
openMeta == ~deleting

(* createVaultRecord: a record that wraps a fresh key.                      *)
createVaultRecord(k) == k \in Key \ used /\ used' = used \cup {k}

-----------------------------------------------------------------------------
(* The screens.  A change of phase unmounts one screen with its local state *)
(* (unlock's busy and failed, onboarding's forgeDone, the import dialog,    *)
(* which is mounted in the app phase only) and mounts another.              *)
Enter(phase, screen) ==
    IF screen.phase = phase THEN screen
    ELSE [screen EXCEPT !.phase = phase, !.busy = FALSE, !.refused = "no",
                        !.forged = FALSE, !.dialog = "no"]

Boot ==
    /\ ui.phase = "boot" /\ openMeta
    /\ ui' = IF disk.vault # NoKey
             THEN [Enter("unlock", ui) EXCEPT !.status = "locked"]
             ELSE [Enter("landing", ui) EXCEPT !.status = "none"]
    /\ UNCHANGED <<disk, deleting, handle, refs, task, inFlight,
                   used, wiped, disturbed, reloads>>

Onboarding ==
    /\ \/ ui.phase = "landing" /\ ui' = Enter("onboarding", ui)
       \/ ui.phase = "onboarding" /\ task["create"] = Ended
            /\ ui' = Enter("landing", ui)
       \/ ui.phase = "onboarding" /\ ui.forged /\ ui' = Enter("app", ui)
    /\ UNCHANGED <<disk, deleting, handle, refs, task, inFlight,
                   used, wiped, disturbed, reloads>>

(* The file picker of the unlock screen asks for a recovery, the one of the *)
(* settings for an import.  When the FileReader is done an event is sent,   *)
(* which only a mounted dialog hears.                                       *)
PickFile ==
    /\ ui.reading = "no"
    /\ \/ ui.phase = "unlock" /\ ui' = [ui EXCEPT !.reading = "recovery"]
       \/ ui.phase = "app" /\ ui' = [ui EXCEPT !.reading = "import"]
    /\ UNCHANGED <<disk, deleting, handle, refs, task, inFlight,
                   used, wiped, disturbed, reloads>>

FileRead ==
    /\ ui.reading # "no"
    /\ ui' = [ui EXCEPT !.reading = "no",
                        !.dialog = IF ui.phase = "app" THEN ui.reading ELSE @]
    /\ UNCHANGED <<disk, deleting, handle, refs, task, inFlight,
                   used, wiped, disturbed, reloads>>

-----------------------------------------------------------------------------
(* Starting, advancing and ending an operation.                             *)
Starts(o, captured) ==
    /\ task[o] = Ended /\ Cardinality(Running) < MaxTogether
    /\ task' = [task EXCEPT ![o] = captured]
    /\ disturbed' = (disturbed \/ Running # {})

At(o, place) == task[o].at = place
Goes(o, place) == task' = [task EXCEPT ![o].at = place]
Ends(o) == task' = [task EXCEPT ![o] = Ended]
Throws(o) == Ends(o) /\ UNCHANGED <<disk, handle, refs, ui>>

(* The vault store's calls, as steps of operation o.                        *)
initStorage(o, next) ==
    /\ CanOpen /\ handle' = TRUE
    /\ refs' = [refs EXCEPT !.storage = task[o].dek]
    /\ Goes(o, next) /\ UNCHANGED <<disk, ui>>

saveVaultRecord(o, next) ==
    /\ openMeta /\ disk' = [disk EXCEPT !.vault = task[o].vault]
    /\ Goes(o, next) /\ UNCHANGED <<handle, refs, ui>>

saveIdentity(o, next) ==
    IF refs.storage \notin Key THEN Throws(o)
    ELSE /\ CanOpen /\ handle' = TRUE
         /\ disk' = [disk EXCEPT !.identity =
                        [dek |-> refs.storage, id |-> task[o].id]]
         /\ refs' = [refs EXCEPT !.identity = IF o = "import" THEN task[o].id ELSE @]
         /\ Goes(o, next) /\ UNCHANGED ui

(* Settings, contacts, conversations, messages and the log, then the set()  *)
(* that follows the last of these writes.                                   *)
saveRecords(o, screen) ==
    IF refs.storage \notin Key THEN Throws(o)
    ELSE /\ CanOpen /\ handle' = TRUE
         /\ disk' = [disk EXCEPT !.data = @ \cup {refs.storage}]
         /\ ui' = screen
         /\ Goes(o, "load") /\ UNCHANGED refs

(* loadAllData: one record under another key makes a list() throw.          *)
loadAllData(o, screen) ==
    IF refs.storage \notin Key \/ ~(disk.data \subseteq {refs.storage})
    THEN Throws(o)
    ELSE /\ CanOpen /\ handle' = TRUE
         /\ refs' = [refs EXCEPT !.loaded = TRUE]
         /\ ui' = screen
         /\ Ends(o) /\ UNCHANGED disk

(* wipeAllLocalData, deleteDatabase: resolved even when blocked.  (Slips: a *)
(* connection that is kept, a deletion that is not asked for.)              *)
deleteDatabaseKeepingHandle == deleting' = TRUE /\ UNCHANGED handle
deleteDatabaseForgotten == handle' = FALSE /\ UNCHANGED deleting
deleteDatabase == deleting' = TRUE /\ handle' = FALSE

Browser == <<deleting, inFlight, used, wiped, disturbed, reloads>>

-----------------------------------------------------------------------------
(* createIdentityAndVault.                                                  *)
CreateStarts ==
    /\ ui.phase = "onboarding" /\ ~ui.forged
    /\ \E k \in Key :
         /\ createVaultRecord(k)
         /\ Starts("create", [at |-> "keys", vault |-> k, dek |-> k, id |-> k])
    /\ wiped' = FALSE
    /\ UNCHANGED <<disk, deleting, handle, refs, ui, inFlight, reloads>>

TakeKeys(o, next) ==
    /\ refs' = [refs EXCEPT !.dek = task[o].dek, !.identity = task[o].id]
    /\ Goes(o, next) /\ UNCHANGED <<disk, handle, ui>>

ShowOnboarded ==
    [ui EXCEPT !.status = "unlocked", !.shown = task["create"].id]
ShowForged == [ui EXCEPT !.forged = (ui.phase = "onboarding")]

(* The identity is written before the vault record.  (Slip: the other way.) *)
CreateSavesRecordFirst ==
    \/ At("create", "identity") /\ saveVaultRecord("create", "vault")
    \/ At("create", "vault") /\ saveIdentity("create", "records")
CreateSaves ==
    \/ At("create", "identity") /\ saveIdentity("create", "vault")
    \/ At("create", "vault") /\ saveVaultRecord("create", "records")

CreateStep ==
    /\ \/ At("create", "keys") /\ TakeKeys("create", "open")
       \/ At("create", "open") /\ initStorage("create", "identity")
       \/ CreateSaves
       \/ At("create", "records") /\ saveRecords("create", ShowOnboarded)
       \/ At("create", "load") /\ loadAllData("create", ShowForged)
    /\ UNCHANGED Browser

-----------------------------------------------------------------------------
(* unlockVault, called by the unlock screen with the right password or not. *)
UnlockStarts ==
    /\ ui.phase = "unlock" /\ ~ui.busy
    /\ Starts("unlock", [Ended EXCEPT !.at = "read"])
    /\ ui' = [ui EXCEPT !.busy = TRUE, !.refused = "no"]
    /\ UNCHANGED <<disk, deleting, handle, refs, inFlight, used, wiped, reloads>>

UnlockReads ==
    /\ At("unlock", "read") /\ openMeta
    /\ IF disk.vault = NoKey
       THEN /\ ui' = [Enter("landing", ui) EXCEPT !.status = "none"]
            /\ Ends("unlock")
       ELSE /\ task' = [task EXCEPT !["unlock"] =
                  [at |-> "derive", vault |-> disk.vault, dek |-> disk.vault, id |-> NoKey]]
            /\ UNCHANGED ui
    /\ UNCHANGED <<disk, handle, refs>>

Refuses(password) ==
    /\ ui' = IF ui.phase = "unlock" THEN [ui EXCEPT !.busy = FALSE, !.refused = password]
             ELSE ui
    /\ Ends("unlock")

(* unlockVaultRecord: the key, or null for a wrong password.                *)
UnlockDerives ==
    /\ At("unlock", "derive")
    /\ \/ Refuses("wrong") /\ UNCHANGED refs
       \/ /\ refs' = [refs EXCEPT !.dek = task["unlock"].dek]
          /\ Goes("unlock", "open") /\ UNCHANGED ui
    /\ UNCHANGED <<disk, handle>>

loadIdentity ==
    /\ At("unlock", "identity")
    /\ IF refs.storage \notin Key THEN Throws("unlock")
       ELSE /\ CanOpen /\ handle' = TRUE /\ UNCHANGED disk
            /\ IF disk.identity = NoIdentity
               THEN /\ refs' = [refs EXCEPT !.dek = NoKey]
                    /\ Refuses("right")
               ELSE IF disk.identity.dek # refs.storage
               THEN Ends("unlock") /\ UNCHANGED <<refs, ui>>
               ELSE /\ refs' = [refs EXCEPT !.identity = disk.identity.id]
                    /\ task' = [task EXCEPT !["unlock"].at = "vault",
                                            !["unlock"].id = disk.identity.id]
                    /\ UNCHANGED ui

ShowApp(o) ==
    [Enter("app", ui) EXCEPT !.status = "unlocked", !.shown = task[o].id]

UnlockStep ==
    /\ \/ UnlockReads
       \/ UnlockDerives
       \/ At("unlock", "open") /\ initStorage("unlock", "identity")
       \/ loadIdentity
       \/ At("unlock", "vault") /\ saveVaultRecord("unlock", "records")
       \/ At("unlock", "records") /\ saveRecords("unlock", ShowApp("unlock"))
       \/ At("unlock", "load") /\ loadAllData("unlock", ui)
    /\ UNCHANGED Browser

-----------------------------------------------------------------------------
(* recoveryImport: a new vault record, then the backup's contents.          *)
RecoveryStarts ==
    /\ ui.dialog = "recovery"
    /\ \E k \in Key :
         /\ createVaultRecord(k)
         /\ Starts("recovery", [at |-> "wipe", vault |-> k, dek |-> k, id |-> Imported])
    /\ UNCHANGED <<disk, deleting, handle, refs, ui, inFlight, wiped, reloads>>

Wipe(o, next) ==
    /\ deleteDatabase
    /\ refs' = [refs EXCEPT !.storage = Closed]
    /\ Goes(o, next)
    /\ UNCHANGED <<disk, ui, inFlight, used, wiped, disturbed, reloads>>

RecoveryStep ==
    \/ At("recovery", "wipe") /\ Wipe("recovery", "keys")
    \/ /\ \/ At("recovery", "keys") /\ TakeKeys("recovery", "open")
          \/ At("recovery", "open") /\ initStorage("recovery", "vault")
          \/ At("recovery", "vault") /\ saveVaultRecord("recovery", "identity")
          \/ At("recovery", "identity") /\ saveIdentity("recovery", "records")
          \/ At("recovery", "records") /\ saveRecords("recovery", ShowApp("recovery"))
          \/ At("recovery", "load") /\ loadAllData("recovery", ui)
       /\ UNCHANGED Browser

-----------------------------------------------------------------------------
(* inAppImport: the same vault record again.  privateRefs.dek is read after *)
(* the wipe, whatever it is by then.                                        *)
ImportStarts ==
    /\ ui.dialog = "import"
    /\ Starts("import", [Ended EXCEPT !.at = "read", !.id = Imported])
    /\ UNCHANGED <<disk, deleting, handle, refs, ui, inFlight, used, wiped, reloads>>

ImportReads ==
    /\ At("import", "read") /\ openMeta
    /\ IF disk.vault = NoKey THEN Throws("import")
       ELSE /\ task' = [task EXCEPT !["import"].at = "wipe", !["import"].vault = disk.vault]
            /\ UNCHANGED <<disk, handle, refs, ui>>

ImportKey ==
    /\ At("import", "keys")
    /\ task' = [task EXCEPT !["import"].at = "open", !["import"].dek = refs.dek]
    /\ UNCHANGED <<disk, handle, refs, ui>>

ShowImportedForgotten == ui
ShowImported == [ui EXCEPT !.shown = task["import"].id]

ImportStep ==
    \/ At("import", "wipe") /\ Wipe("import", "keys")
    \/ /\ \/ ImportReads
          \/ ImportKey
          \/ At("import", "open") /\ initStorage("import", "vault")
          \/ At("import", "vault") /\ saveVaultRecord("import", "identity")
          \/ At("import", "identity") /\ saveIdentity("import", "records")
          \/ At("import", "records") /\ saveRecords("import", ShowImported)
          \/ At("import", "load") /\ loadAllData("import", ui)
       /\ UNCHANGED Browser

-----------------------------------------------------------------------------
(* wipeEverything, from the unlock screen or the settings.                  *)
WipeStarts ==
    /\ ui.phase \in {"unlock", "app"}
    /\ Starts("wipe", [Ended EXCEPT !.at = "wiped"])
    /\ deleteDatabase
    /\ refs' = [refs EXCEPT !.storage = Closed, !.dek = NoKey, !.identity = NoKey]
    /\ UNCHANGED <<disk, ui, inFlight, used, wiped, reloads>>

WipeStep ==
    /\ At("wipe", "wiped") /\ Ends("wipe")
    /\ refs' = [refs EXCEPT !.loaded = FALSE]
    /\ ui' = [Enter("landing", ui) EXCEPT !.status = "none", !.shown = NoKey]
    /\ wiped' = TRUE
    /\ UNCHANGED <<disk, deleting, handle, inFlight, used, disturbed, reloads>>

-----------------------------------------------------------------------------
(* lockVault, by a button of the app or by the auto-lock timer.  The log    *)
(* entry it appends is not awaited, and the storage singleton stays.        *)
LockVault ==
    /\ ui.phase = "app" \/ ui.status = "unlocked"
    /\ inFlight' = inFlight \cup ({refs.storage} \cap Key)
    /\ refs' = [refs EXCEPT !.dek = NoKey, !.identity = NoKey, !.loaded = FALSE]
    /\ ui' = [Enter("unlock", ui) EXCEPT !.status = "locked", !.shown = NoKey]
    /\ disturbed' = (disturbed \/ \E o \in Running : ~At(o, "load"))
    /\ UNCHANGED <<disk, deleting, handle, task, used, wiped, reloads>>

(* A callback of a session writes a record and does not wait for it.        *)
Callback ==
    /\ ui.phase = "app" /\ refs.storage \in Key
    /\ inFlight' = inFlight \cup {refs.storage}
    /\ UNCHANGED <<disk, deleting, handle, refs, ui, task,
                   used, wiped, disturbed, reloads>>

(* EncryptedStorage.put after its await: encrypted under the key it had,    *)
(* the record goes into whatever database is there by now.                  *)
WriteLands ==
    /\ CanOpen /\ handle' = TRUE
    /\ \E k \in inFlight :
         /\ inFlight' = inFlight \ {k}
         /\ disk' = [disk EXCEPT !.data = @ \cup {k}]
    /\ UNCHANGED <<deleting, refs, ui, task, used, wiped, disturbed, reloads>>

(* The browser has closed the last connection, and the deletion goes on.    *)
DeletionEnds ==
    /\ deleting /\ ~handle
    /\ deleting' = FALSE /\ disk' = EmptyDisk
    /\ UNCHANGED <<handle, refs, ui, task, inFlight, used, wiped, disturbed, reloads>>

(* The moments at which a reload leaves a vault record without its identity *)
(* on disk: between the two writes of an import, and, when a vault was there *)
(* before, between those of createIdentityAndVault.                         *)
Fragile ==
    \/ \E o \in {"recovery", "import"} : At(o, "identity")
    \/ At("create", "vault") /\ disk.vault \notin {NoKey, task["create"].vault}

(* The page is closed or reloaded: memory is gone, and a blocked deletion   *)
(* is carried out or, if the browser itself ended, is not.                  *)
Reload ==
    /\ reloads < MaxReloads /\ reloads' = reloads + 1
    /\ \E carriedOut \in {deleting, FALSE} :
         /\ disk' = IF carriedOut THEN EmptyDisk ELSE disk
         /\ disturbed' = (disturbed \/ Fragile \/ (deleting /\ ~carriedOut))
    /\ deleting' = FALSE /\ handle' = FALSE
    /\ refs' = NoRefs /\ ui' = FirstScreen
    /\ task' = [o \in Ops |-> Ended] /\ inFlight' = {}
    /\ UNCHANGED <<used, wiped>>

-----------------------------------------------------------------------------
OpStep == CreateStep \/ UnlockStep \/ RecoveryStep \/ ImportStep \/ WipeStep

Next ==
    \/ Boot \/ Onboarding \/ PickFile \/ FileRead
    \/ CreateStarts \/ UnlockStarts \/ RecoveryStarts \/ ImportStarts \/ WipeStarts
    \/ OpStep
    \/ LockVault \/ Callback \/ WriteLands \/ DeletionEnds \/ Reload

Spec == Init /\ [][Next]_vars

(* The browser ends what was started: awaited work, unawaited writes, and   *)
(* deletions once no connection is held.  Users owe nothing.                *)
FairSpec ==
    /\ Spec
    /\ WF_vars(CreateStep) /\ WF_vars(UnlockStep) /\ WF_vars(RecoveryStep)
    /\ WF_vars(ImportStep) /\ WF_vars(WipeStep)
    /\ WF_vars(WriteLands) /\ WF_vars(DeletionEnds)

-----------------------------------------------------------------------------
(* Properties.                                                              *)

Places == {"end", "keys", "open", "identity", "vault", "records", "load",
           "read", "derive", "wipe", "wiped"}
Ids == Key \cup {Imported, NoKey}

(* Every variable has its type, and a connection is never kept across a     *)
(* pending deletion: dbPromise is dropped before deleteDatabase is asked.   *)
TypeOK ==
    /\ disk \in [vault : Key \cup {NoKey}, data : SUBSET Key,
                 identity : [dek : Key \cup {NoKey}, id : Ids]]
    /\ deleting \in BOOLEAN /\ handle \in BOOLEAN /\ ~(deleting /\ handle)
    /\ refs \in [storage : Key \cup {NoKey, Closed}, dek : Key \cup {NoKey},
                 identity : Ids, loaded : BOOLEAN]
    /\ ui \in [phase : {"boot", "landing", "onboarding", "unlock", "app"},
               status : {"none", "locked", "unlocked"}, shown : Ids,
               busy : BOOLEAN, refused : {"no", "wrong", "right"}, forged : BOOLEAN,
               reading : {"no", "import", "recovery"},
               dialog : {"no", "import", "recovery"}]
    /\ task \in [Ops -> [at : Places, vault : Key \cup {NoKey},
                         dek : Key \cup {NoKey}, id : Ids]]
    /\ inFlight \subseteq Key /\ used \subseteq Key
    /\ wiped \in BOOLEAN /\ disturbed \in BOOLEAN /\ reloads \in 0..MaxReloads

(* A vault record on disk opens: the identity beside it is sealed under its *)
(* key.  Whatever locks, reloads and stray writes happened, this can only   *)
(* fail after one of the named moments (Fragile, a lock before an operation  *)
(* has written its last record, two operations at once).  So onboarding is crash-safe: the *)
(* identity is written before the record that makes it reachable.           *)
VaultOpens ==
    ~disturbed /\ ~Fragile /\ disk.vault # NoKey => disk.identity.dek = disk.vault

(* The identity the app shows is the one a later unlock will load.          *)
ShownIdentityIsStored ==
    ~disturbed /\ Running = {} /\ ui.phase = "app" /\ ui.shown # NoKey
        => disk.identity.id = ui.shown

(* What is shown agrees with what is stored, in one formula with the types. *)
VaultAgrees == TypeOK /\ ShownIdentityIsStored

(* "Removes identity, contacts, conversations, attachments and logs"        *)
(* (settings.tsx:228): once the wipe has ended nothing is left that could   *)
(* be unlocked, except while the browser still holds the deletion back.     *)
WipeErases ==
    ~disturbed /\ wiped /\ ~deleting
        => disk.vault = NoKey /\ disk.identity = NoIdentity

(* No operation hangs: a blocked deletion delays later opens of the         *)
(* database but never for ever, because no connection outlives dbPromise.   *)
OperationsEnd == \A o \in Ops : task[o].at # "end" ~> task[o].at = "end"

(* "Wrong password - decryption failed" (unlock.tsx:106) is shown for a     *)
(* wrong password only.                                                     *)
RightPasswordOpens == ui.refused # "right"

(* "Lock clears in-memory state" (SECURITY.md:95): a locked vault has no    *)
(* decrypted records in memory.                                             *)
LockedMemoryEmpty == ui.status = "locked" => ~refs.loaded

(* A backup picked on the unlock screen is asked about in the dialog        *)
(* (recovery-import.tsx:79, README.md "Recovery import (from the unlock     *)
(* screen)"), unless the page is reloaded meanwhile.                        *)
RecoveryIsHeard ==
    [][ui.reading = "recovery" /\ ui'.reading = "no" /\ ui'.phase # "boot"
        => ui'.dialog = "recovery"]_vars

=============================================================================

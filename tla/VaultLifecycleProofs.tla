------------------------ MODULE VaultLifecycleProofs ------------------------
(***************************************************************************)
(* VaultOpens, VaultAgrees and WipeErases of VaultLifecycle, proved for any*)
(* number of keys, reloads and operations in flight.                       *)
(*                                                                         *)
(* None is inductive by itself: what is on disk depends on how far the     *)
(* operation that rewrites it has come.  Calm holds until something was    *)
(* disturbed.  It says that one operation runs at a time (Single) and, for *)
(* each operation and each of its places, which key the storage singleton, *)
(* privateRefs and the disk have by then (CreateOK, UnlockOK, RecoveryOK,  *)
(* ImportOK, WipeOK); that the app, once entered, has its vault open and   *)
(* shows its identity (AppOpen), which is what makes inAppImport seal the  *)
(* imported identity under the key of the record it writes back; and that  *)
(* after a wipe nothing can start from what is left (WipedOK).             *)
(*                                                                         *)
(* At the end AutoLock: for any settings, delays and periods the vault is  *)
(* locked within one period of either limit.                               *)
(***************************************************************************)
EXTENDS VaultLifecycle, AutoLock, TLAPS

(* What the disk can hold,                                                  *)
Disks == [vault : Key \cup {NoKey}, data : SUBSET Key,
          identity : [dek : Key \cup {NoKey}, id : Ids]]

(* the module's references,                                                 *)
References == [storage : Key \cup {NoKey, Closed}, dek : Key \cup {NoKey}, identity : Ids, loaded : BOOLEAN]

(* the phases,                                                              *)
Phases == {"boot", "landing", "onboarding", "unlock", "app"}

(* AppState with the screens' own state,                                    *)
Screens ==
    [phase : Phases, status : {"none", "locked", "unlocked"}, shown : Ids,
     busy : BOOLEAN, refused : {"no", "wrong", "right"}, forged : BOOLEAN,
     reading : {"no", "import", "recovery"}, dialog : {"no", "import", "recovery"}]

(* and the operations.                                                      *)
Tasks == [at : Places, vault : Key \cup {NoKey}, dek : Key \cup {NoKey}, id : Ids]

(* TypeOK, in these terms.                                                  *)
Types ==
    /\ disk \in Disks /\ deleting \in BOOLEAN /\ handle \in BOOLEAN /\ ~(deleting /\ handle)
    /\ refs \in References /\ ui \in Screens /\ task \in [Ops -> Tasks]
    /\ inFlight \subseteq Key /\ used \subseteq Key
    /\ wiped \in BOOLEAN /\ disturbed \in BOOLEAN /\ reloads \in 0..MaxReloads

(* The import dialog is the app's, and forgeDone is onboarding's.           *)
Tied == (ui.dialog # "no" => ui.phase = "app") /\ (ui.forged => ui.phase = "onboarding")

(* Nothing on disk could be unlocked,                                       *)
Bare == disk.vault = NoKey /\ disk.identity = NoIdentity

(* or will be, once the browser lets the deletion go on.                    *)
Emptied == deleting \/ Bare

(* The vault has key k and identity id.                                     *)
Holds(k, id) == disk.vault = k /\ disk.identity.dek = k /\ disk.identity.id = id

(* Operations run one at a time.                                            *)
Single == \A o, q \in Ops : ~At(o, "end") /\ ~At(q, "end") => o = q

(* No operation has taken the vault away from under the app.                *)
Settled ==
    /\ task["recovery"].at \in {"end", "load", "wipe"}
    /\ task["import"].at \in {"end", "load", "read", "wipe"}
    /\ At("wipe", "end")

(* The app is shown, or about to be.                                        *)
Entered ==
    \/ ui.phase = "app" \/ ui.forged
    \/ At("create", "load") /\ ui.phase = "onboarding"

(* Then its vault is open, under the key of its record, and its identity is *)
(* shown.                                                                   *)
AppOpen ==
    Entered /\ Settled =>
        /\ handle /\ disk.vault \in Key
        /\ disk.identity.dek = disk.vault /\ ui.shown = disk.identity.id
        /\ refs.dek = disk.vault /\ refs.storage = disk.vault

(* createIdentityAndVault, place by place,                                  *)
CreateOK ==
    LET t == task["create"] IN
    t.at # "end" =>
        /\ t.at \in {"keys", "open", "identity", "vault", "records", "load"}
        /\ t.vault \in Key /\ t.dek = t.vault /\ t.id = t.vault
        /\ ui.phase \in {"onboarding", "unlock"} /\ ~ui.forged
        /\ t.at # "load" => ui.phase = "onboarding"
        /\ t.at \in {"open", "identity", "vault", "records"} => refs.dek = t.dek
        /\ t.at \in {"identity", "vault", "records", "load"} => handle /\ refs.storage = t.dek
        /\ t.at = "vault" => disk.identity.dek = t.dek /\ disk.identity.id = t.id
        /\ t.at \in {"records", "load"} => Holds(t.dek, t.id)

(* unlockVault,                                                             *)
UnlockOK ==
    LET t == task["unlock"] IN
    t.at # "end" =>
        /\ t.at \in {"read", "derive", "open", "identity", "vault", "records", "load"}
        /\ t.at # "load" => ui.phase = "unlock"
        /\ t.at # "read" => ~deleting /\ t.vault \in Key /\ t.dek = t.vault /\ disk.vault = t.vault
        /\ t.at \in {"open", "identity", "vault", "records"} => refs.dek = t.dek
        /\ t.at \in {"identity", "vault", "records", "load"} => handle /\ refs.storage = t.dek
        /\ t.at \in {"vault", "records"} => t.id = disk.identity.id

(* recoveryImport,                                                          *)
RecoveryOK ==
    LET t == task["recovery"] IN
    t.at # "end" =>
        /\ t.at \in {"wipe", "keys", "open", "vault", "identity", "records", "load"}
        /\ t.vault \in Key /\ t.dek = t.vault /\ t.id = Imported
        /\ t.at # "load" => ui.phase = "app"
        /\ t.at \in {"keys", "open"} => Emptied
        /\ t.at = "vault" => Bare
        /\ t.at \in {"open", "vault", "identity", "records"} => refs.dek = t.dek
        /\ t.at \in {"vault", "identity", "records", "load"} => handle /\ refs.storage = t.dek
        /\ t.at = "identity" => disk.vault = t.vault
        /\ t.at \in {"records", "load"} => Holds(t.dek, t.id)

(* inAppImport,                                                             *)
ImportOK ==
    LET t == task["import"] IN
    t.at # "end" =>
        /\ t.at \in {"read", "wipe", "keys", "open", "vault", "identity", "records", "load"}
        /\ t.id = Imported
        /\ t.at # "load" => ui.phase = "app"
        /\ t.at # "read" => t.vault \in Key
        /\ t.at \notin {"read", "load"} => refs.dek = t.vault
        /\ t.at \in {"open", "vault", "identity", "records", "load"} => t.dek = t.vault
        /\ t.at \in {"keys", "open"} => Emptied
        /\ t.at = "vault" => Bare
        /\ t.at \in {"vault", "identity", "records", "load"} => handle /\ refs.storage = t.dek
        /\ t.at = "identity" => disk.vault = t.vault
        /\ t.at \in {"records", "load"} => Holds(t.dek, t.id)

(* and wipeEverything.                                                      *)
WipeOK ==
    ~At("wipe", "end") => At("wipe", "wiped") /\ ui.phase \in {"unlock", "app"} /\ Emptied

(* After a wipe nothing runs, and no screen that needs a vault is reached.  *)
WipedOK ==
    wiped =>
        /\ \A o \in Ops : At(o, "end")
        /\ ui.phase \in {"boot", "landing", "onboarding"} /\ ui.status # "unlocked"
        /\ ~ui.forged
        /\ Emptied

(* All this until something was disturbed.                                  *)
Calm ==
    /\ Single /\ VaultOpens /\ AppOpen
    /\ CreateOK /\ UnlockOK /\ RecoveryOK /\ ImportOK /\ WipeOK /\ WipedOK

(* The inductive invariant.                                                 *)
VaultInv == Types /\ Tied /\ (~disturbed => Calm)

(* A step of operation o leaves the others,                                 *)
Frame(o) == \A q \in Ops : q # o => task'[q] = task[q]

(* and what o has captured.                                                 *)
Kept(o) ==
    /\ task'[o].vault = task[o].vault /\ task'[o].dek = task[o].dek
    /\ task'[o].id = task[o].id

(* It goes on to its next place.                                            *)
Advances(o, next) == Frame(o) /\ Kept(o) /\ task'[o].at = next /\ task' \in [Ops -> Tasks]

(* Types is TypeOK.                                                         *)
LEMMA TypesAre == TypeOK <=> Types
  BY DEF TypeOK, Types, Disks, References, Screens, Phases, Tasks

(* What is not a key.                                                       *)
LEMMA NoKeyFacts == NoKey \notin Key /\ Imported \notin Key /\ Closed \notin Key /\ NoKey # Closed
                    /\ NoKey # Imported /\ Closed # Imported
  BY VaultAssumption DEF VaultAssumption

(* Going on,                                                                *)
LEMMA GoesFacts ==
    ASSUME Types, NEW o \in Ops, NEW next \in Places, Goes(o, next)
    PROVE  Advances(o, next)
  BY DEF Types, Goes, Advances, Frame, Kept, Tasks

(* and ending.                                                              *)
LEMMA EndsFacts ==
    ASSUME Types, NEW o \in Ops, Ends(o)
    PROVE  Frame(o) /\ task'[o].at = "end" /\ task' \in [Ops -> Tasks]
  BY DEF Types, Ends, Frame, Tasks, Ended, Places, Ids

(* A change of phase resets what a screen keeps to itself.                  *)
LEMMA EnterFacts ==
    \A p \in Phases, s \in Screens :
        /\ Enter(p, s) \in Screens /\ Enter(p, s).phase = p
        /\ Enter(p, s).status = s.status /\ Enter(p, s).shown = s.shown
        /\ s.phase = p => Enter(p, s) = s
        /\ s.phase # p => Enter(p, s).forged = FALSE /\ Enter(p, s).dialog = "no"
  <1> SUFFICES ASSUME NEW p \in Phases, NEW s \in Screens
               PROVE  /\ Enter(p, s) \in Screens /\ Enter(p, s).phase = p
                      /\ Enter(p, s).status = s.status /\ Enter(p, s).shown = s.shown
                      /\ s.phase = p => Enter(p, s) = s
                      /\ s.phase # p => Enter(p, s).forged = FALSE /\ Enter(p, s).dialog = "no"
    OBVIOUS
  <1> QED
    BY DEF Enter, Screens

(* The storage is opened under the operation's key, and no deletion is      *)
(* pending then.                                                            *)
LEMMA initStorageFacts ==
    ASSUME Types, NEW o \in Ops, NEW next \in Places, initStorage(o, next), UNCHANGED Browser
    PROVE  /\ Types' /\ Advances(o, next)
           /\ ~deleting /\ handle' /\ ~deleting'
           /\ refs'.storage = task[o].dek /\ refs'.dek = refs.dek
           /\ disk' = disk /\ ui' = ui /\ wiped' = wiped /\ disturbed' = disturbed
  <1>1. Advances(o, next)
    BY GoesFacts DEF initStorage
  <1>2. refs' \in References /\ refs'.storage = task[o].dek /\ refs'.dek = refs.dek
    BY DEF initStorage, Types, References, Tasks
  <1> QED
    BY <1>1, <1>2 DEF initStorage, Browser, CanOpen, Types, Advances

(* The vault record is written;                                             *)
LEMMA saveVaultRecordFacts ==
    ASSUME Types, NEW o \in Ops, NEW next \in Places, saveVaultRecord(o, next),
           UNCHANGED Browser
    PROVE  /\ Types' /\ Advances(o, next) /\ handle' = handle /\ deleting' = deleting
           /\ disk'.vault = task[o].vault /\ disk'.identity = disk.identity
           /\ refs' = refs /\ ui' = ui /\ wiped' = wiped /\ disturbed' = disturbed
  <1>1. Advances(o, next)
    BY GoesFacts DEF saveVaultRecord
  <1>2. disk' \in Disks /\ disk'.vault = task[o].vault /\ disk'.identity = disk.identity
    BY DEF saveVaultRecord, Types, Disks, Tasks
  <1> QED
    BY <1>1, <1>2 DEF saveVaultRecord, Browser, Types, Advances

(* the identity, sealed under the storage's key, unless there is none;      *)
LEMMA saveIdentityFacts ==
    ASSUME Types, NEW o \in Ops, NEW next \in Places, saveIdentity(o, next), UNCHANGED Browser
    PROVE  /\ Types' /\ ui' = ui /\ wiped' = wiped /\ disturbed' = disturbed
           /\ deleting' = deleting
           /\ refs'.storage = refs.storage /\ refs'.dek = refs.dek
           /\ \/ refs.storage \notin Key /\ Frame(o) /\ task'[o].at = "end"
                 /\ disk' = disk /\ handle' = handle
              \/ refs.storage \in Key /\ Advances(o, next) /\ handle'
                 /\ disk'.vault = disk.vault /\ disk'.identity.dek = refs.storage
                 /\ disk'.identity.id = task[o].id
  <1>1. CASE refs.storage \notin Key
    BY <1>1, EndsFacts DEF saveIdentity, Throws, Browser, Types
  <1>2. CASE refs.storage \in Key
    <2>1. Advances(o, next)
      BY <1>2, GoesFacts DEF saveIdentity
    <2>2. /\ disk' \in Disks /\ disk'.vault = disk.vault
          /\ disk'.identity.dek = refs.storage /\ disk'.identity.id = task[o].id
      BY <1>2 DEF saveIdentity, Types, Disks, Tasks
    <2>3. refs' \in References /\ refs'.storage = refs.storage /\ refs'.dek = refs.dek
      BY <1>2 DEF saveIdentity, Types, References, Tasks
    <2> QED
      BY <1>2, <2>1, <2>2, <2>3 DEF saveIdentity, Browser, CanOpen, Types, Advances
  <1> QED
    BY <1>1, <1>2

(* the other records, and the set() after them;                             *)
LEMMA saveRecordsFacts ==
    ASSUME Types, NEW o \in Ops, NEW screen \in Screens, saveRecords(o, screen),
           UNCHANGED Browser
    PROVE  /\ Types' /\ wiped' = wiped /\ disturbed' = disturbed /\ deleting' = deleting
           /\ refs' = refs /\ disk'.vault = disk.vault /\ disk'.identity = disk.identity
           /\ \/ refs.storage \notin Key /\ Frame(o) /\ task'[o].at = "end" /\ ui' = ui /\ handle' = handle
              \/ refs.storage \in Key /\ Advances(o, "load") /\ handle' /\ ui' = screen
  <1>1. CASE refs.storage \notin Key
    BY <1>1, EndsFacts DEF saveRecords, Throws, Browser, Types
  <1>2. CASE refs.storage \in Key
    <2>1. Advances(o, "load")
      BY <1>2, GoesFacts DEF saveRecords, Places
    <2>2. disk' \in Disks /\ disk'.vault = disk.vault /\ disk'.identity = disk.identity
      BY <1>2 DEF saveRecords, Types, Disks
    <2> QED
      BY <1>2, <2>1, <2>2 DEF saveRecords, Browser, CanOpen, Types, Advances
  <1> QED
    BY <1>1, <1>2

(* what is on disk is loaded, if one key opens all of it.                   *)
LEMMA loadAllDataFacts ==
    ASSUME Types, NEW o \in Ops, NEW screen \in Screens, loadAllData(o, screen),
           UNCHANGED Browser
    PROVE  /\ Types' /\ wiped' = wiped /\ disturbed' = disturbed /\ deleting' = deleting
           /\ refs'.storage = refs.storage /\ refs'.dek = refs.dek /\ disk' = disk
           /\ Frame(o) /\ task'[o].at = "end"
           /\ \/ ui' = ui /\ handle' = handle
              \/ ui' = screen /\ handle'
  <1>1. CASE refs.storage \notin Key \/ ~(disk.data \subseteq {refs.storage})
    BY <1>1, EndsFacts DEF loadAllData, Throws, Browser, Types
  <1>2. CASE ~(refs.storage \notin Key \/ ~(disk.data \subseteq {refs.storage}))
    <2>1. refs' \in References /\ refs'.storage = refs.storage /\ refs'.dek = refs.dek
      BY <1>2 DEF loadAllData, Types, References
    <2>2. Ends(o) /\ handle' = TRUE /\ CanOpen /\ ui' = screen /\ disk' = disk
      BY <1>2 DEF loadAllData
    <2> QED
      BY <2>1, <2>2, EndsFacts DEF Browser, CanOpen, Types
  <1> QED
    BY <1>1, <1>2

(* privateRefs takes the operation's key.                                   *)
LEMMA TakeKeysFacts ==
    ASSUME Types, NEW o \in Ops, NEW next \in Places, TakeKeys(o, next), UNCHANGED Browser
    PROVE  /\ Types' /\ Advances(o, next) /\ handle' = handle /\ deleting' = deleting
           /\ refs'.storage = refs.storage /\ refs'.dek = task[o].dek
           /\ disk' = disk /\ ui' = ui /\ wiped' = wiped /\ disturbed' = disturbed
  <1>1. Advances(o, next)
    BY GoesFacts DEF TakeKeys
  <1>2. refs' \in References /\ refs'.storage = refs.storage /\ refs'.dek = task[o].dek
    BY DEF TakeKeys, Types, References, Tasks
  <1> QED
    BY <1>1, <1>2 DEF TakeKeys, Browser, Types, Advances

(* The database is closed and its deletion asked for.                       *)
LEMMA WipeFacts ==
    ASSUME Types, NEW o \in Ops, NEW next \in Places, Wipe(o, next)
    PROVE  /\ Types' /\ Advances(o, next) /\ ~handle' /\ deleting'
           /\ refs'.dek = refs.dek
           /\ disk' = disk /\ ui' = ui /\ wiped' = wiped /\ disturbed' = disturbed
  <1>1. Advances(o, next)
    BY GoesFacts DEF Wipe
  <1>2. refs' \in References /\ refs'.dek = refs.dek
    BY DEF Wipe, Types, References
  <1> QED
    BY <1>1, <1>2 DEF Wipe, deleteDatabase, Types, Advances

(* An operation that disturbs nothing starts alone,                         *)
LEMMA StartsFacts ==
    ASSUME Types, NEW o \in Ops, NEW t \in Tasks, t.at # "end", Starts(o, t)
    PROVE  /\ Frame(o) /\ task'[o] = t /\ task' \in [Ops -> Tasks]
           /\ disturbed' \in BOOLEAN
           /\ (~disturbed' => ~disturbed /\ \A q \in Ops : At(q, "end"))
  BY DEF Starts, Types, Frame, Running, At

(* and goes on alone: what is said of the others holds.                     *)
LEMMA Alone ==
    ASSUME Calm, NEW o \in Ops, task[o].at # "end", Frame(o), wiped' = wiped
    PROVE  /\ \A q \in Ops : q # o => task[q].at = "end" /\ task'[q].at = "end"
           /\ Single' /\ ~wiped /\ WipedOK'
           /\ o # "create" => CreateOK'
           /\ o # "unlock" => UnlockOK'
           /\ o # "recovery" => RecoveryOK'
           /\ o # "import" => ImportOK'
           /\ o # "wipe" => WipeOK'
  <1>1. \A q \in Ops : q # o => task[q].at = "end" /\ task'[q].at = "end"
    BY DEF Calm, Single, At, Frame
  <1>2. ~wiped /\ WipedOK'
    BY DEF Calm, WipedOK, At
  <1>3. Single'
    BY <1>1 DEF Single, At
  <1> QED
    BY <1>1, <1>2, <1>3
       DEF CreateOK, UnlockOK, RecoveryOK, ImportOK, WipeOK, At, Ops

(* So it does when the first one starts.                                    *)
LEMMA NoneRunning ==
    ASSUME Types, Calm, NEW o \in Ops, Frame(o), \A q \in Ops : At(q, "end"), ~wiped'
    PROVE  /\ Single' /\ WipedOK'
           /\ \A q \in Ops : q # o => task[q].at = "end" /\ task'[q].at = "end"
           /\ o # "create" => CreateOK'
           /\ o # "unlock" => UnlockOK'
           /\ o # "recovery" => RecoveryOK'
           /\ o # "import" => ImportOK'
           /\ o # "wipe" => WipeOK'
  <1>1. \A q \in Ops : q # o => task[q].at = "end" /\ task'[q].at = "end"
    BY DEF Frame, At
  <1>2. Single' /\ WipedOK'
    BY <1>1 DEF Single, At, WipedOK
  <1> QED
    BY <1>1, <1>2 DEF CreateOK, UnlockOK, RecoveryOK, ImportOK, WipeOK, At, Ops

(* The steps of createIdentityAndVault keep the invariant.                  *)
LEMMA CreateKeeps ==
    ASSUME VaultInv, CreateStep
    PROVE  VaultInv'
  <1>1. Types /\ Tied /\ (~disturbed => Calm)
    BY DEF VaultInv
  <1>2. /\ ShowOnboarded \in Screens /\ ShowOnboarded.phase = ui.phase
        /\ ShowOnboarded.forged = ui.forged
        /\ ShowOnboarded.dialog = ui.dialog /\ ShowOnboarded.shown = task["create"].id
    BY <1>1 DEF ShowOnboarded, Types, Screens, Tasks, Ops
  <1>3. /\ ShowForged \in Screens /\ ShowForged.phase = ui.phase
        /\ ShowForged.dialog = ui.dialog
        /\ ShowForged.forged = (ui.phase = "onboarding") /\ ShowForged.shown = ui.shown
    BY <1>1 DEF ShowForged, Types, Screens
  <1>4. ASSUME task["create"].at = "keys", TakeKeys("create", "open"), UNCHANGED Browser
        PROVE  VaultInv'
    <2>1. /\ Types' /\ Advances("create", "open") /\ Frame("create")
          /\ handle' = handle /\ deleting' = deleting
          /\ refs'.storage = refs.storage /\ refs'.dek = task["create"].dek
          /\ disk' = disk /\ ui' = ui
          /\ wiped' = wiped /\ disturbed' = disturbed
      BY <1>1, <1>4, TakeKeysFacts DEF Advances, Ops, Places
    <2>2. Types' /\ Tied'
      BY <1>1, <1>4, <2>1 DEF Tied
    <2>3. ASSUME ~disturbed' PROVE Calm'
      <3>1. Calm /\ CreateOK /\ AppOpen /\ VaultOpens
        BY <1>1, <2>1, <2>3 DEF Calm
      <3>2. /\ \A q \in Ops : q # "create" => task[q].at = "end" /\ task'[q].at = "end"
            /\ Single' /\ WipedOK'
            /\ UnlockOK' /\ RecoveryOK' /\ ImportOK' /\ WipeOK'
        BY <1>4, <2>1, <3>1, Alone DEF Advances, Ops
      <3>3. VaultOpens'
        BY <1>4, <2>1, <3>1, <3>2
           DEF VaultOpens, Fragile, CreateOK, Holds, Bare, Emptied, At, Ops,
           Advances, Kept
      <3>4. AppOpen'
        BY <1>4, <2>1, <3>1
           DEF AppOpen, Entered, Settled, Types, Tied, CreateOK, Holds, Bare,
           Emptied, At, Ops, Advances, Kept
      <3>5. CreateOK'
        BY <1>4, <2>1, <3>1
           DEF AppOpen, Entered, Settled, Types, Tied, CreateOK, Holds, Bare,
           Emptied, At, Ops, Advances, Kept
      <3> QED
        BY <3>2, <3>3, <3>4, <3>5 DEF Calm
    <2> QED
      BY <2>2, <2>3 DEF VaultInv
  <1>5. ASSUME task["create"].at = "open", initStorage("create", "identity"), UNCHANGED Browser
        PROVE  VaultInv'
    <2>1. /\ Types' /\ Advances("create", "identity") /\ Frame("create")
          /\ ~deleting /\ handle' /\ ~deleting'
          /\ refs'.storage = task["create"].dek /\ refs'.dek = refs.dek
          /\ disk' = disk /\ ui' = ui
          /\ wiped' = wiped /\ disturbed' = disturbed
      BY <1>1, <1>5, initStorageFacts DEF Advances, Ops, Places
    <2>2. Types' /\ Tied'
      BY <1>1, <1>5, <2>1 DEF Tied
    <2>3. ASSUME ~disturbed' PROVE Calm'
      <3>1. Calm /\ CreateOK /\ AppOpen /\ VaultOpens
        BY <1>1, <2>1, <2>3 DEF Calm
      <3>2. /\ \A q \in Ops : q # "create" => task[q].at = "end" /\ task'[q].at = "end"
            /\ Single' /\ WipedOK'
            /\ UnlockOK' /\ RecoveryOK' /\ ImportOK' /\ WipeOK'
        BY <1>5, <2>1, <3>1, Alone DEF Advances, Ops
      <3>3. VaultOpens'
        BY <1>5, <2>1, <3>1, <3>2
           DEF VaultOpens, Fragile, CreateOK, Holds, Bare, Emptied, At, Ops,
           Advances, Kept
      <3>4. AppOpen'
        BY <1>5, <2>1, <3>1
           DEF AppOpen, Entered, Settled, Types, Tied, CreateOK, Holds, Bare,
           Emptied, At, Ops, Advances, Kept
      <3>5. CreateOK'
        BY <1>5, <2>1, <3>1
           DEF AppOpen, Entered, Settled, Types, Tied, CreateOK, Holds, Bare,
           Emptied, At, Ops, Advances, Kept
      <3> QED
        BY <3>2, <3>3, <3>4, <3>5 DEF Calm
    <2> QED
      BY <2>2, <2>3 DEF VaultInv
  <1>6. ASSUME task["create"].at = "identity", saveIdentity("create", "vault"),
               UNCHANGED Browser
        PROVE  VaultInv'
    <2>1. /\ Types' /\ ui' = ui /\ Frame("create") /\ deleting' = deleting
          /\ wiped' = wiped /\ disturbed' = disturbed
          /\ refs'.storage = refs.storage /\ refs'.dek = refs.dek
          /\ \/ refs.storage \notin Key /\ task'["create"].at = "end" /\ disk' = disk /\ handle' = handle
             \/ /\ refs.storage \in Key /\ Advances("create", "vault") /\ handle'
                /\ disk'.vault = disk.vault /\ disk'.identity.dek = refs.storage
                /\ disk'.identity.id = task["create"].id
      BY <1>1, <1>6, saveIdentityFacts DEF Advances, Ops, Places
    <2>2. Types' /\ Tied'
      BY <1>1, <1>6, <2>1 DEF Tied
    <2>3. ASSUME ~disturbed' PROVE Calm'
      <3>1. Calm /\ CreateOK /\ AppOpen /\ VaultOpens
        BY <1>1, <2>1, <2>3 DEF Calm
      <3>2. /\ \A q \in Ops : q # "create" => task[q].at = "end" /\ task'[q].at = "end"
            /\ Single' /\ WipedOK'
            /\ UnlockOK' /\ RecoveryOK' /\ ImportOK' /\ WipeOK'
        BY <1>6, <2>1, <3>1, Alone DEF Advances, Ops
      <3>3. VaultOpens'
        BY <1>6, <2>1, <3>1
           DEF VaultOpens, Fragile, CreateOK, Holds, Bare, Emptied, At, Ops,
           Advances, Kept
      <3>4. AppOpen'
        BY <1>6, <2>1, <3>1
           DEF AppOpen, Entered, Settled, Types, Tied, CreateOK, Holds, Bare,
           Emptied, At, Ops, Advances, Kept
      <3>5. CreateOK'
        BY <1>6, <2>1, <3>1
           DEF AppOpen, Entered, Settled, Types, Tied, CreateOK, Holds, Bare,
           Emptied, At, Ops, Advances, Kept
      <3> QED
        BY <3>2, <3>3, <3>4, <3>5 DEF Calm
    <2> QED
      BY <2>2, <2>3 DEF VaultInv
  <1>7. ASSUME task["create"].at = "vault", saveVaultRecord("create", "records"),
               UNCHANGED Browser
        PROVE  VaultInv'
    <2>1. /\ Types' /\ Advances("create", "records") /\ Frame("create")
          /\ handle' = handle /\ deleting' = deleting
          /\ disk'.vault = task["create"].vault /\ disk'.identity = disk.identity
          /\ refs' = refs /\ ui' = ui
          /\ wiped' = wiped /\ disturbed' = disturbed
      BY <1>1, <1>7, saveVaultRecordFacts DEF Advances, Ops, Places
    <2>2. Types' /\ Tied'
      BY <1>1, <1>7, <2>1 DEF Tied
    <2>3. ASSUME ~disturbed' PROVE Calm'
      <3>1. Calm /\ CreateOK /\ AppOpen /\ VaultOpens
        BY <1>1, <2>1, <2>3 DEF Calm
      <3>2. /\ \A q \in Ops : q # "create" => task[q].at = "end" /\ task'[q].at = "end"
            /\ Single' /\ WipedOK'
            /\ UnlockOK' /\ RecoveryOK' /\ ImportOK' /\ WipeOK'
        BY <1>7, <2>1, <3>1, Alone DEF Advances, Ops
      <3>3. VaultOpens'
        BY <1>7, <2>1, <3>1
           DEF VaultOpens, Fragile, CreateOK, Holds, Bare, Emptied, At, Ops,
           Advances, Kept
      <3>4. AppOpen'
        BY <1>7, <2>1, <3>1
           DEF AppOpen, Entered, Settled, Types, Tied, CreateOK, Holds, Bare,
           Emptied, At, Ops, Advances, Kept
      <3>5. CreateOK'
        BY <1>7, <2>1, <3>1
           DEF AppOpen, Entered, Settled, Types, Tied, CreateOK, Holds, Bare,
           Emptied, At, Ops, Advances, Kept
      <3> QED
        BY <3>2, <3>3, <3>4, <3>5 DEF Calm
    <2> QED
      BY <2>2, <2>3 DEF VaultInv
  <1>8. ASSUME task["create"].at = "records", saveRecords("create", ShowOnboarded),
               UNCHANGED Browser
        PROVE  VaultInv'
    <2>1. /\ Types' /\ Frame("create") /\ deleting' = deleting
          /\ wiped' = wiped /\ disturbed' = disturbed
          /\ refs' = refs /\ disk'.vault = disk.vault /\ disk'.identity = disk.identity
          /\ \/ refs.storage \notin Key /\ task'["create"].at = "end" /\ ui' = ui /\ handle' = handle
             \/ refs.storage \in Key /\ Advances("create", "load") /\ handle' /\ ui' = ShowOnboarded
      BY <1>1, <1>2, <1>8, saveRecordsFacts DEF Advances, Ops, Places
    <2>2. Types' /\ Tied'
      BY <1>1, <1>2, <2>1 DEF Tied
    <2>3. ASSUME ~disturbed' PROVE Calm'
      <3>1. Calm /\ CreateOK /\ AppOpen /\ VaultOpens
        BY <1>1, <2>1, <2>3 DEF Calm
      <3>2. /\ \A q \in Ops : q # "create" => task[q].at = "end" /\ task'[q].at = "end"
            /\ Single' /\ WipedOK'
            /\ UnlockOK' /\ RecoveryOK' /\ ImportOK' /\ WipeOK'
        BY <1>8, <2>1, <3>1, Alone DEF Advances, Ops
      <3>3. VaultOpens'
        BY <1>8, <2>1, <3>1
           DEF VaultOpens, Fragile, CreateOK, Holds, Bare, Emptied, At, Ops,
           Advances, Kept
      <3>4. AppOpen'
        <4>1. CASE refs.storage \notin Key /\ task'["create"].at = "end" /\ ui' = ui
          BY <1>8, <2>1, <3>1, <4>1
             DEF AppOpen, Entered, Settled, Types, CreateOK, Holds, At, Ops
        <4>2. CASE /\ refs.storage \in Key /\ Advances("create", "load") /\ handle'
                   /\ ui' = ShowOnboarded
          BY <1>2, <1>8, <2>1, <3>1, <4>2
             DEF AppOpen, Entered, Settled, Types, Tied, CreateOK, Holds, At, Ops, Advances
        <4> QED
          BY <2>1, <4>1, <4>2
      <3>5. CreateOK'
        BY <1>2, <1>8, <2>1, <3>1
           DEF AppOpen, Entered, Settled, Types, Tied, CreateOK, Holds, Bare,
           Emptied, At, Ops, Advances, Kept
      <3> QED
        BY <3>2, <3>3, <3>4, <3>5 DEF Calm
    <2> QED
      BY <2>2, <2>3 DEF VaultInv
  <1>9. ASSUME task["create"].at = "load", loadAllData("create", ShowForged), UNCHANGED Browser
        PROVE  VaultInv'
    <2>1. /\ Types' /\ Frame("create") /\ deleting' = deleting
          /\ wiped' = wiped /\ disturbed' = disturbed
          /\ refs'.storage = refs.storage /\ refs'.dek = refs.dek /\ disk' = disk
          /\ task'["create"].at = "end"
          /\ \/ ui' = ui /\ handle' = handle
             \/ ui' = ShowForged /\ handle'
      BY <1>1, <1>3, <1>9, loadAllDataFacts DEF Advances, Ops, Places
    <2>2. Types' /\ Tied'
      BY <1>1, <1>3, <2>1 DEF Tied
    <2>3. ASSUME ~disturbed' PROVE Calm'
      <3>1. Calm /\ CreateOK /\ AppOpen /\ VaultOpens
        BY <1>1, <2>1, <2>3 DEF Calm
      <3>2. /\ \A q \in Ops : q # "create" => task[q].at = "end" /\ task'[q].at = "end"
            /\ Single' /\ WipedOK'
            /\ UnlockOK' /\ RecoveryOK' /\ ImportOK' /\ WipeOK'
        BY <1>9, <2>1, <3>1, Alone DEF Advances, Ops
      <3>3. VaultOpens'
        BY <1>9, <2>1, <3>1
           DEF VaultOpens, Fragile, CreateOK, Holds, Bare, Emptied, At, Ops,
           Advances, Kept
      <3>4. AppOpen'
        BY <1>3, <1>9, <2>1, <3>1, <3>2
           DEF AppOpen, Entered, Settled, Types, Tied, CreateOK, Holds, Bare,
           Emptied, At, Ops, Advances, Kept
      <3>5. CreateOK'
        BY <2>1
           DEF AppOpen, Entered, Settled, Types, Tied, CreateOK, Holds, Bare,
           Emptied, At, Ops, Advances, Kept
      <3> QED
        BY <3>2, <3>3, <3>4, <3>5 DEF Calm
    <2> QED
      BY <2>2, <2>3 DEF VaultInv
  <1> QED
    BY <1>4, <1>5, <1>6, <1>7, <1>8, <1>9 DEF CreateStep, CreateSaves, At

(* The app is entered,                                                      *)
LEMMA ShowAppFacts ==
    ASSUME Types, Tied, NEW o \in Ops
    PROVE  /\ ShowApp(o) \in Screens /\ ShowApp(o).phase = "app" /\ ShowApp(o).forged = FALSE
           /\ ShowApp(o).shown = task[o].id
  <1>1. /\ Enter("app", ui) \in Screens /\ Enter("app", ui).phase = "app"
        /\ Enter("app", ui).forged = FALSE
    <2>1. "app" \in Phases /\ ui \in Screens /\ (ui.phase = "app" => ui.forged = FALSE)
      BY DEF Types, Phases, Tied, Screens
    <2> QED
      BY <2>1, EnterFacts
  <1> QED
    BY <1>1 DEF ShowApp, Screens, Types, Tasks

(* or not.                                                                  *)
LEMMA RefusesFacts ==
    ASSUME Types, NEW password \in {"wrong", "right"}, Refuses(password)
    PROVE  /\ ui' \in Screens /\ ui'.phase = ui.phase /\ ui'.forged = ui.forged
           /\ ui'.dialog = ui.dialog /\ ui'.shown = ui.shown /\ Ends("unlock")
  BY DEF Refuses, Types, Screens

(* The steps of unlockVault: the record is read,                            *)
LEMMA UnlockReadsFacts ==
    ASSUME Types, UnlockReads, UNCHANGED Browser
    PROVE  /\ Types' /\ Frame("unlock") /\ disk' = disk /\ handle' = handle /\ refs' = refs
           /\ deleting' = deleting /\ wiped' = wiped /\ disturbed' = disturbed /\ ~deleting
           /\ \/ /\ disk.vault = NoKey /\ task'["unlock"].at = "end" /\ ui'.phase = "landing"
                 /\ ui.phase = "landing" => ui'.forged = ui.forged /\ ui'.dialog = ui.dialog
                 /\ ui.phase # "landing" => ui'.forged = FALSE /\ ui'.dialog = "no"
              \/ /\ disk.vault \in Key /\ ui' = ui /\ task'["unlock"].at = "derive"
                 /\ task'["unlock"].vault = disk.vault /\ task'["unlock"].dek = disk.vault
  <1>1. CASE disk.vault = NoKey
    <2>1. /\ Enter("landing", ui) \in Screens /\ Enter("landing", ui).phase = "landing"
          /\ ui.phase = "landing" => Enter("landing", ui) = ui
          /\ ui.phase # "landing" => Enter("landing", ui).forged = FALSE /\ Enter("landing", ui).dialog = "no"
      <3>1. "landing" \in Phases /\ ui \in Screens
        BY DEF Types, Phases
      <3> QED
        BY <3>1, EnterFacts
    <2>2. ui' = [Enter("landing", ui) EXCEPT !.status = "none"] /\ Ends("unlock")
      BY <1>1 DEF UnlockReads
    <2>3. /\ ui' \in Screens /\ ui'.phase = "landing"
          /\ ui'.forged = Enter("landing", ui).forged
          /\ ui'.dialog = Enter("landing", ui).dialog
      BY <2>1, <2>2 DEF Screens
    <2> QED
      BY <1>1, <2>1, <2>3, EndsFacts DEF UnlockReads, Browser, Types, openMeta, Ops
  <1>2. CASE disk.vault # NoKey
    <2>1. disk.vault \in Key
      BY <1>2 DEF Types, Disks
    <2>2. task' = [task EXCEPT !["unlock"] =
                     [at |-> "derive", vault |-> disk.vault, dek |-> disk.vault, id |-> NoKey]] /\ ui' = ui
      BY <1>2 DEF UnlockReads
    <2>3. [at |-> "derive", vault |-> disk.vault, dek |-> disk.vault, id |-> NoKey] \in Tasks
      BY <2>1 DEF Tasks, Places, Ids
    <2>4. /\ task' \in [Ops -> Tasks] /\ Frame("unlock")
          /\ task'["unlock"] = [at |-> "derive", vault |-> disk.vault, dek |-> disk.vault, id |-> NoKey]
      BY <2>2, <2>3 DEF Types, Frame, Ops
    <2> QED
      BY <2>1, <2>2, <2>4 DEF UnlockReads, Browser, Types, openMeta
  <1> QED
    BY <1>1, <1>2

(* its key derived,                                                         *)
LEMMA UnlockDerivesFacts ==
    ASSUME Types, UnlockDerives, UNCHANGED Browser
    PROVE  /\ Types' /\ Frame("unlock") /\ disk' = disk /\ handle' = handle
           /\ deleting' = deleting /\ wiped' = wiped /\ disturbed' = disturbed
           /\ ui'.phase = ui.phase /\ ui'.forged = ui.forged
           /\ ui'.dialog = ui.dialog /\ ui'.shown = ui.shown
           /\ refs'.storage = refs.storage
           /\ \/ task'["unlock"].at = "end" /\ refs' = refs
              \/ Advances("unlock", "open") /\ refs'.dek = task["unlock"].dek
  <1>1. CASE Refuses("wrong") /\ UNCHANGED refs
    <2>1. /\ ui' \in Screens /\ ui'.phase = ui.phase /\ ui'.forged = ui.forged
          /\ ui'.dialog = ui.dialog /\ ui'.shown = ui.shown /\ Ends("unlock")
      BY <1>1, RefusesFacts
    <2> QED
      BY <1>1, <2>1, EndsFacts DEF UnlockDerives, Browser, Types, Ops
  <1>2. CASE /\ refs' = [refs EXCEPT !.dek = task["unlock"].dek]
             /\ Goes("unlock", "open") /\ UNCHANGED ui
    <2>1. refs' \in References /\ refs'.storage = refs.storage /\ refs'.dek = task["unlock"].dek
      BY <1>2 DEF Types, References, Tasks, Ops
    <2>2. Advances("unlock", "open")
      BY <1>2, GoesFacts DEF Ops, Places
    <2> QED
      BY <1>2, <2>1, <2>2 DEF UnlockDerives, Browser, Types, Advances
  <1> QED
    BY <1>1, <1>2 DEF UnlockDerives

(* and the identity loaded.                                                 *)
LEMMA loadIdentityFacts ==
    ASSUME Types, loadIdentity, UNCHANGED Browser
    PROVE  /\ Types' /\ Frame("unlock") /\ disk' = disk
           /\ deleting' = deleting /\ wiped' = wiped /\ disturbed' = disturbed
           /\ ui'.phase = ui.phase /\ ui'.forged = ui.forged
           /\ ui'.dialog = ui.dialog /\ ui'.shown = ui.shown
           /\ refs'.storage = refs.storage /\ (handle => handle')
           /\ \/ task'["unlock"].at = "end"
              \/ /\ refs'.dek = refs.dek /\ handle' /\ task'["unlock"].at = "vault"
                 /\ task'["unlock"].vault = task["unlock"].vault
                 /\ task'["unlock"].dek = task["unlock"].dek
                 /\ task'["unlock"].id = disk.identity.id
  <1>1. CASE refs.storage \notin Key
    BY <1>1, EndsFacts DEF loadIdentity, Throws, Browser, Types, Ops
  <1>2. CASE refs.storage \in Key /\ disk.identity = NoIdentity
    <2>1. /\ refs' = [refs EXCEPT !.dek = NoKey] /\ Refuses("right") /\ CanOpen
          /\ handle' = TRUE /\ disk' = disk
      BY <1>2 DEF loadIdentity
    <2>2. /\ ui' \in Screens /\ ui'.phase = ui.phase /\ ui'.forged = ui.forged
          /\ ui'.dialog = ui.dialog /\ ui'.shown = ui.shown /\ Ends("unlock")
      BY <2>1, RefusesFacts
    <2>3. refs' \in References /\ refs'.storage = refs.storage
      BY <2>1 DEF Types, References
    <2> QED
      BY <2>1, <2>2, <2>3, EndsFacts DEF Browser, Types, Ops, CanOpen
  <1>3. CASE /\ refs.storage \in Key /\ disk.identity # NoIdentity
             /\ disk.identity.dek # refs.storage
    BY <1>3, EndsFacts DEF loadIdentity, Browser, Types, Ops, CanOpen
  <1>4. CASE /\ refs.storage \in Key /\ disk.identity # NoIdentity
             /\ disk.identity.dek = refs.storage
    <2>1. /\ refs' = [refs EXCEPT !.identity = disk.identity.id] /\ CanOpen
          /\ handle' = TRUE /\ disk' = disk /\ ui' = ui
          /\ task' = [task EXCEPT !["unlock"].at = "vault", !["unlock"].id = disk.identity.id]
      BY <1>4 DEF loadIdentity
    <2>2. disk.identity.id \in Ids
      BY DEF Types, Disks
    <2>3. refs' \in References /\ refs'.storage = refs.storage /\ refs'.dek = refs.dek
      BY <2>1, <2>2 DEF Types, References
    <2>4. /\ task' \in [Ops -> Tasks] /\ Frame("unlock") /\ task'["unlock"].at = "vault"
          /\ task'["unlock"].vault = task["unlock"].vault
          /\ task'["unlock"].dek = task["unlock"].dek
          /\ task'["unlock"].id = disk.identity.id
      BY <2>1, <2>2 DEF Types, Frame, Ops, Tasks, Places
    <2> QED
      BY <2>1, <2>3, <2>4 DEF Browser, Types, CanOpen
  <1> QED
    BY <1>1, <1>2, <1>3, <1>4

(* The steps of inAppImport: the record is read,                            *)
LEMMA ImportReadsFacts ==
    ASSUME Types, ImportReads, UNCHANGED Browser
    PROVE  /\ Types' /\ Frame("import") /\ disk' = disk /\ handle' = handle
           /\ refs' = refs /\ ui' = ui
           /\ deleting' = deleting /\ wiped' = wiped /\ disturbed' = disturbed
           /\ \/ task'["import"].at = "end"
              \/ /\ disk.vault \in Key /\ task'["import"].at = "wipe"
                 /\ task'["import"].vault = disk.vault /\ task'["import"].id = task["import"].id
  <1>1. CASE disk.vault = NoKey
    BY <1>1, EndsFacts DEF ImportReads, Throws, Browser, Types, Ops
  <1>2. CASE disk.vault # NoKey
    <2>1. disk.vault \in Key
      BY <1>2 DEF Types, Disks
    <2>2. task' = [task EXCEPT !["import"].at = "wipe", !["import"].vault = disk.vault]
      BY <1>2 DEF ImportReads
    <2>3. /\ task' \in [Ops -> Tasks] /\ Frame("import") /\ task'["import"].at = "wipe"
          /\ task'["import"].vault = disk.vault /\ task'["import"].id = task["import"].id
      BY <2>1, <2>2 DEF Types, Frame, Ops, Tasks, Places
    <2> QED
      BY <1>2, <2>1, <2>3 DEF ImportReads, Browser, Types
  <1> QED
    BY <1>1, <1>2

(* and, after the wipe, privateRefs.dek.                                    *)
LEMMA ImportKeyFacts ==
    ASSUME Types, ImportKey, UNCHANGED Browser
    PROVE  /\ Types' /\ Frame("import") /\ disk' = disk /\ handle' = handle
           /\ refs' = refs /\ ui' = ui
           /\ deleting' = deleting /\ wiped' = wiped /\ disturbed' = disturbed
           /\ task'["import"].at = "open" /\ task'["import"].dek = refs.dek
           /\ task'["import"].vault = task["import"].vault
           /\ task'["import"].id = task["import"].id
  <1>1. task' = [task EXCEPT !["import"].at = "open", !["import"].dek = refs.dek]
    BY DEF ImportKey
  <1>2. /\ task' \in [Ops -> Tasks] /\ Frame("import")
        /\ task'["import"].at = "open" /\ task'["import"].dek = refs.dek
        /\ task'["import"].vault = task["import"].vault
        /\ task'["import"].id = task["import"].id
    BY <1>1 DEF Types, Frame, Ops, Tasks, Places, References
  <1> QED
    BY <1>2 DEF ImportKey, Browser, Types

(* The steps of unlockVault keep the invariant,                             *)
LEMMA UnlockKeeps ==
    ASSUME VaultInv, UnlockStep
    PROVE  VaultInv'
  <1>1. Types /\ Tied /\ (~disturbed => Calm)
    BY DEF VaultInv
  <1>2. /\ ShowApp("unlock") \in Screens /\ ShowApp("unlock").phase = "app"
        /\ ShowApp("unlock").forged = FALSE
        /\ ShowApp("unlock").shown = task["unlock"].id
    BY <1>1, ShowAppFacts DEF Ops
  <1>3. ui \in Screens
    BY <1>1 DEF Types
  <1>4. ASSUME task["unlock"].at = "read", UnlockReads, UNCHANGED Browser
        PROVE  VaultInv'
    <2>1. /\ Types' /\ Frame("unlock") /\ disk' = disk /\ handle' = handle /\ refs' = refs
          /\ deleting' = deleting /\ wiped' = wiped /\ disturbed' = disturbed /\ ~deleting
          /\ \/ /\ disk.vault = NoKey /\ task'["unlock"].at = "end" /\ ui'.phase = "landing"
                /\ ui.phase = "landing" => ui'.forged = ui.forged /\ ui'.dialog = ui.dialog
                /\ ui.phase # "landing" => ui'.forged = FALSE /\ ui'.dialog = "no"
             \/ /\ disk.vault \in Key /\ ui' = ui /\ task'["unlock"].at = "derive"
                /\ task'["unlock"].vault = disk.vault /\ task'["unlock"].dek = disk.vault
      BY <1>1, <1>4, UnlockReadsFacts
    <2>2. Types' /\ Tied'
      BY <1>1, <1>4, <2>1 DEF Tied
    <2>3. ASSUME ~disturbed' PROVE Calm'
      <3>1. Calm /\ UnlockOK /\ AppOpen /\ VaultOpens
        BY <1>1, <2>1, <2>3 DEF Calm
      <3>2. /\ \A q \in Ops : q # "unlock" => task[q].at = "end" /\ task'[q].at = "end"
            /\ Single' /\ WipedOK'
            /\ CreateOK' /\ RecoveryOK' /\ ImportOK' /\ WipeOK'
        BY <1>4, <2>1, <3>1, Alone DEF Advances, Ops
      <3>3. VaultOpens'
        BY <2>1, <3>1, <3>2
           DEF VaultOpens, Fragile, UnlockOK, Holds, Bare, Emptied, At, Ops,
           Advances, Kept
      <3>4. AppOpen'
        BY <1>1, <1>4, <2>1, <3>1
           DEF AppOpen, Entered, Settled, Types, Tied, UnlockOK, Holds, Bare,
           Emptied, At, Ops, Advances, Kept
      <3>5. UnlockOK'
        BY <1>4, <2>1, <3>1
           DEF AppOpen, Entered, Settled, Types, Tied, UnlockOK, Holds, Bare,
           Emptied, At, Ops, Advances, Kept
      <3> QED
        BY <3>2, <3>3, <3>4, <3>5 DEF Calm
    <2> QED
      BY <2>2, <2>3 DEF VaultInv
  <1>5. ASSUME task["unlock"].at = "derive", UnlockDerives, UNCHANGED Browser
        PROVE  VaultInv'
    <2>1. /\ Types' /\ Frame("unlock") /\ disk' = disk /\ handle' = handle
          /\ deleting' = deleting /\ wiped' = wiped /\ disturbed' = disturbed
          /\ ui'.phase = ui.phase /\ ui'.forged = ui.forged
          /\ ui'.dialog = ui.dialog /\ ui'.shown = ui.shown
          /\ refs'.storage = refs.storage
          /\ \/ task'["unlock"].at = "end" /\ refs' = refs
             \/ Advances("unlock", "open") /\ refs'.dek = task["unlock"].dek
      BY <1>1, <1>5, UnlockDerivesFacts
    <2>2. Types' /\ Tied'
      BY <1>1, <1>5, <2>1 DEF Tied
    <2>3. ASSUME ~disturbed' PROVE Calm'
      <3>1. Calm /\ UnlockOK /\ AppOpen /\ VaultOpens
        BY <1>1, <2>1, <2>3 DEF Calm
      <3>2. /\ \A q \in Ops : q # "unlock" => task[q].at = "end" /\ task'[q].at = "end"
            /\ Single' /\ WipedOK'
            /\ CreateOK' /\ RecoveryOK' /\ ImportOK' /\ WipeOK'
        BY <1>5, <2>1, <3>1, Alone DEF Advances, Ops
      <3>3. VaultOpens'
        BY <2>1, <3>1, <3>2
           DEF VaultOpens, Fragile, UnlockOK, Holds, Bare, Emptied, At, Ops,
           Advances, Kept
      <3>4. AppOpen'
        BY <1>1, <1>5, <2>1, <3>1
           DEF AppOpen, Entered, Settled, Types, Tied, UnlockOK, Holds, Bare,
           Emptied, At, Ops, Advances, Kept
      <3>5. UnlockOK'
        BY <1>5, <2>1, <3>1
           DEF AppOpen, Entered, Settled, Types, Tied, UnlockOK, Holds, Bare,
           Emptied, At, Ops, Advances, Kept
      <3> QED
        BY <3>2, <3>3, <3>4, <3>5 DEF Calm
    <2> QED
      BY <2>2, <2>3 DEF VaultInv
  <1>6. ASSUME task["unlock"].at = "open", initStorage("unlock", "identity"), UNCHANGED Browser
        PROVE  VaultInv'
    <2>1. /\ Types' /\ Advances("unlock", "identity") /\ Frame("unlock")
          /\ ~deleting /\ handle' /\ ~deleting'
          /\ refs'.storage = task["unlock"].dek /\ refs'.dek = refs.dek
          /\ disk' = disk /\ ui' = ui
          /\ wiped' = wiped /\ disturbed' = disturbed
      BY <1>1, <1>6, initStorageFacts DEF Advances, Ops, Places
    <2>2. Types' /\ Tied'
      BY <1>1, <1>6, <2>1 DEF Tied
    <2>3. ASSUME ~disturbed' PROVE Calm'
      <3>1. Calm /\ UnlockOK /\ AppOpen /\ VaultOpens
        BY <1>1, <2>1, <2>3 DEF Calm
      <3>2. /\ \A q \in Ops : q # "unlock" => task[q].at = "end" /\ task'[q].at = "end"
            /\ Single' /\ WipedOK'
            /\ CreateOK' /\ RecoveryOK' /\ ImportOK' /\ WipeOK'
        BY <1>6, <2>1, <3>1, Alone DEF Advances, Ops
      <3>3. VaultOpens'
        BY <2>1, <3>1, <3>2
           DEF VaultOpens, Fragile, UnlockOK, Holds, Bare, Emptied, At, Ops,
           Advances, Kept
      <3>4. AppOpen'
        BY <1>1, <1>6, <2>1, <3>1
           DEF AppOpen, Entered, Settled, Types, Tied, UnlockOK, Holds, Bare,
           Emptied, At, Ops, Advances, Kept
      <3>5. UnlockOK'
        BY <1>6, <2>1, <3>1
           DEF AppOpen, Entered, Settled, Types, Tied, UnlockOK, Holds, Bare,
           Emptied, At, Ops, Advances, Kept
      <3> QED
        BY <3>2, <3>3, <3>4, <3>5 DEF Calm
    <2> QED
      BY <2>2, <2>3 DEF VaultInv
  <1>7. ASSUME task["unlock"].at = "identity", loadIdentity, UNCHANGED Browser
        PROVE  VaultInv'
    <2>1. /\ Types' /\ Frame("unlock") /\ disk' = disk
          /\ deleting' = deleting /\ wiped' = wiped /\ disturbed' = disturbed
          /\ ui'.phase = ui.phase /\ ui'.forged = ui.forged
          /\ ui'.dialog = ui.dialog /\ ui'.shown = ui.shown
          /\ refs'.storage = refs.storage /\ (handle => handle')
          /\ \/ task'["unlock"].at = "end"
             \/ /\ refs'.dek = refs.dek /\ handle' /\ task'["unlock"].at = "vault"
                /\ task'["unlock"].vault = task["unlock"].vault
                /\ task'["unlock"].dek = task["unlock"].dek
                /\ task'["unlock"].id = disk.identity.id
      BY <1>1, <1>7, loadIdentityFacts
    <2>2. Types' /\ Tied'
      BY <1>1, <1>7, <2>1 DEF Tied
    <2>3. ASSUME ~disturbed' PROVE Calm'
      <3>1. Calm /\ UnlockOK /\ AppOpen /\ VaultOpens
        BY <1>1, <2>1, <2>3 DEF Calm
      <3>2. /\ \A q \in Ops : q # "unlock" => task[q].at = "end" /\ task'[q].at = "end"
            /\ Single' /\ WipedOK'
            /\ CreateOK' /\ RecoveryOK' /\ ImportOK' /\ WipeOK'
        BY <1>7, <2>1, <3>1, Alone DEF Advances, Ops
      <3>3. VaultOpens'
        BY <2>1, <3>1, <3>2
           DEF VaultOpens, Fragile, UnlockOK, Holds, Bare, Emptied, At, Ops,
           Advances, Kept
      <3>4. AppOpen'
        BY <1>1, <1>7, <2>1, <3>1
           DEF AppOpen, Entered, Settled, Types, Tied, UnlockOK, Holds, Bare,
           Emptied, At, Ops, Advances, Kept
      <3>5. UnlockOK'
        BY <1>7, <2>1, <3>1
           DEF AppOpen, Entered, Settled, Types, Tied, UnlockOK, Holds, Bare,
           Emptied, At, Ops, Advances, Kept
      <3> QED
        BY <3>2, <3>3, <3>4, <3>5 DEF Calm
    <2> QED
      BY <2>2, <2>3 DEF VaultInv
  <1>8. ASSUME task["unlock"].at = "vault", saveVaultRecord("unlock", "records"),
               UNCHANGED Browser
        PROVE  VaultInv'
    <2>1. /\ Types' /\ Advances("unlock", "records") /\ Frame("unlock")
          /\ handle' = handle /\ deleting' = deleting
          /\ disk'.vault = task["unlock"].vault /\ disk'.identity = disk.identity
          /\ refs' = refs /\ ui' = ui
          /\ wiped' = wiped /\ disturbed' = disturbed
      BY <1>1, <1>8, saveVaultRecordFacts DEF Advances, Ops, Places
    <2>2. Types' /\ Tied'
      BY <1>1, <1>8, <2>1 DEF Tied
    <2>3. ASSUME ~disturbed' PROVE Calm'
      <3>1. Calm /\ UnlockOK /\ AppOpen /\ VaultOpens
        BY <1>1, <2>1, <2>3 DEF Calm
      <3>2. /\ \A q \in Ops : q # "unlock" => task[q].at = "end" /\ task'[q].at = "end"
            /\ Single' /\ WipedOK'
            /\ CreateOK' /\ RecoveryOK' /\ ImportOK' /\ WipeOK'
        BY <1>8, <2>1, <3>1, Alone DEF Advances, Ops
      <3>3. VaultOpens'
        BY <1>8, <2>1, <3>1, <3>2
           DEF VaultOpens, Fragile, UnlockOK, Holds, Bare, Emptied, At, Ops,
           Advances, Kept
      <3>4. AppOpen'
        BY <1>1, <1>8, <2>1, <3>1
           DEF AppOpen, Entered, Settled, Types, Tied, UnlockOK, Holds, Bare,
           Emptied, At, Ops, Advances, Kept
      <3>5. UnlockOK'
        BY <1>8, <2>1, <3>1
           DEF AppOpen, Entered, Settled, Types, Tied, UnlockOK, Holds, Bare,
           Emptied, At, Ops, Advances, Kept
      <3> QED
        BY <3>2, <3>3, <3>4, <3>5 DEF Calm
    <2> QED
      BY <2>2, <2>3 DEF VaultInv
  <1>9. ASSUME task["unlock"].at = "records",
               saveRecords("unlock", ShowApp("unlock")), UNCHANGED Browser
        PROVE  VaultInv'
    <2>1. /\ Types' /\ Frame("unlock") /\ deleting' = deleting
          /\ wiped' = wiped /\ disturbed' = disturbed
          /\ refs' = refs /\ disk'.vault = disk.vault /\ disk'.identity = disk.identity
          /\ \/ refs.storage \notin Key /\ task'["unlock"].at = "end" /\ ui' = ui /\ handle' = handle
             \/ refs.storage \in Key /\ Advances("unlock", "load") /\ handle' /\ ui' = ShowApp("unlock")
      BY <1>1, <1>2, <1>9, saveRecordsFacts DEF Advances, Ops, Places
    <2>2. Types' /\ Tied'
      BY <1>1, <1>2, <2>1 DEF Tied
    <2>3. ASSUME ~disturbed' PROVE Calm'
      <3>1. Calm /\ UnlockOK /\ AppOpen /\ VaultOpens
        BY <1>1, <2>1, <2>3 DEF Calm
      <3>2. /\ \A q \in Ops : q # "unlock" => task[q].at = "end" /\ task'[q].at = "end"
            /\ Single' /\ WipedOK'
            /\ CreateOK' /\ RecoveryOK' /\ ImportOK' /\ WipeOK'
        BY <1>9, <2>1, <3>1, Alone DEF Advances, Ops
      <3>3. VaultOpens'
        BY <2>1, <3>1, <3>2
           DEF VaultOpens, Fragile, UnlockOK, Holds, Bare, Emptied, At, Ops,
           Advances, Kept
      <3>4. AppOpen'
        <4>1. ~Fragile /\ disk.vault \in Key /\ disk.identity.dek = disk.vault
          <5>1. ~Fragile
            BY <3>2 DEF Fragile, At, Ops
          <5>2. disk.vault \in Key
            BY <1>9, <3>1 DEF UnlockOK
          <5> QED
            BY <2>1, <2>3, <3>1, <5>1, <5>2, NoKeyFacts DEF VaultOpens
        <4>2. /\ handle /\ refs.dek = disk.vault /\ refs.storage = disk.vault
              /\ task["unlock"].id = disk.identity.id
          BY <1>9, <3>1 DEF UnlockOK
        <4> QED
          BY <1>2, <2>1, <4>1, <4>2 DEF AppOpen
      <3>5. UnlockOK'
        BY <1>9, <2>1, <3>1
           DEF AppOpen, Entered, Settled, Types, Tied, UnlockOK, Holds, Bare,
           Emptied, At, Ops, Advances, Kept
      <3> QED
        BY <3>2, <3>3, <3>4, <3>5 DEF Calm
    <2> QED
      BY <2>2, <2>3 DEF VaultInv
  <1>10. ASSUME task["unlock"].at = "load", loadAllData("unlock", ui), UNCHANGED Browser
        PROVE  VaultInv'
    <2>1. /\ Types' /\ Frame("unlock") /\ deleting' = deleting
          /\ wiped' = wiped /\ disturbed' = disturbed
          /\ refs'.storage = refs.storage /\ refs'.dek = refs.dek /\ disk' = disk
          /\ task'["unlock"].at = "end"
          /\ \/ ui' = ui /\ handle' = handle
             \/ ui' = ui /\ handle'
      BY <1>1, <1>3, <1>10, loadAllDataFacts DEF Advances, Ops, Places
    <2>2. Types' /\ Tied'
      BY <1>1, <2>1 DEF Tied
    <2>3. ASSUME ~disturbed' PROVE Calm'
      <3>1. Calm /\ UnlockOK /\ AppOpen /\ VaultOpens
        BY <1>1, <2>1, <2>3 DEF Calm
      <3>2. /\ \A q \in Ops : q # "unlock" => task[q].at = "end" /\ task'[q].at = "end"
            /\ Single' /\ WipedOK'
            /\ CreateOK' /\ RecoveryOK' /\ ImportOK' /\ WipeOK'
        BY <1>10, <2>1, <3>1, Alone DEF Advances, Ops
      <3>3. VaultOpens'
        BY <2>1, <3>1, <3>2
           DEF VaultOpens, Fragile, UnlockOK, Holds, Bare, Emptied, At, Ops,
           Advances, Kept
      <3>4. AppOpen'
        BY <2>1, <3>1, <3>2
           DEF AppOpen, Entered, Settled, Types, Tied, UnlockOK, Holds, Bare,
           Emptied, At, Ops, Advances, Kept
      <3>5. UnlockOK'
        BY <2>1
           DEF AppOpen, Entered, Settled, Types, Tied, UnlockOK, Holds, Bare,
           Emptied, At, Ops, Advances, Kept
      <3> QED
        BY <3>2, <3>3, <3>4, <3>5 DEF Calm
    <2> QED
      BY <2>2, <2>3 DEF VaultInv
  <1> QED
    BY <1>4, <1>5, <1>6, <1>7, <1>8, <1>9, <1>10
       DEF UnlockStep, At, UnlockReads, UnlockDerives, loadIdentity

(* those of recoveryImport,                                                 *)
LEMMA RecoveryKeeps ==
    ASSUME VaultInv, RecoveryStep
    PROVE  VaultInv'
  <1>1. Types /\ Tied /\ (~disturbed => Calm)
    BY DEF VaultInv
  <1>2. /\ ShowApp("recovery") \in Screens /\ ShowApp("recovery").phase = "app"
        /\ ShowApp("recovery").forged = FALSE
        /\ ShowApp("recovery").shown = task["recovery"].id
    BY <1>1, ShowAppFacts DEF Ops
  <1>3. ui \in Screens
    BY <1>1 DEF Types
  <1>4. ASSUME task["recovery"].at = "wipe", Wipe("recovery", "keys")
        PROVE  VaultInv'
    <2>1. /\ Types' /\ Advances("recovery", "keys") /\ Frame("recovery")
          /\ ~handle' /\ deleting' /\ refs'.dek = refs.dek
          /\ disk' = disk /\ ui' = ui
          /\ wiped' = wiped /\ disturbed' = disturbed
      BY <1>1, <1>4, WipeFacts DEF Advances, Ops, Places
    <2>2. Types' /\ Tied'
      BY <1>1, <1>4, <2>1 DEF Tied
    <2>3. ASSUME ~disturbed' PROVE Calm'
      <3>1. Calm /\ RecoveryOK /\ AppOpen /\ VaultOpens
        BY <1>1, <2>1, <2>3 DEF Calm
      <3>2. /\ \A q \in Ops : q # "recovery" => task[q].at = "end" /\ task'[q].at = "end"
            /\ Single' /\ WipedOK'
            /\ CreateOK' /\ UnlockOK' /\ ImportOK' /\ WipeOK'
        BY <1>4, <2>1, <3>1, Alone DEF Advances, Ops
      <3>3. VaultOpens'
        BY <1>4, <2>1, <3>1, <3>2
           DEF VaultOpens, Fragile, RecoveryOK, Holds, Bare, Emptied, At, Ops,
           Advances, Kept
      <3>4. AppOpen'
        BY <2>1
           DEF AppOpen, Entered, Settled, Types, Tied, RecoveryOK, Holds, Bare,
           Emptied, At, Ops, Advances, Kept
      <3>5. RecoveryOK'
        BY <1>4, <2>1, <3>1
           DEF AppOpen, Entered, Settled, Types, Tied, RecoveryOK, Holds, Bare,
           Emptied, At, Ops, Advances, Kept
      <3> QED
        BY <3>2, <3>3, <3>4, <3>5 DEF Calm
    <2> QED
      BY <2>2, <2>3 DEF VaultInv
  <1>5. ASSUME task["recovery"].at = "keys", TakeKeys("recovery", "open"), UNCHANGED Browser
        PROVE  VaultInv'
    <2>1. /\ Types' /\ Advances("recovery", "open") /\ Frame("recovery")
          /\ handle' = handle /\ deleting' = deleting
          /\ refs'.storage = refs.storage /\ refs'.dek = task["recovery"].dek
          /\ disk' = disk /\ ui' = ui
          /\ wiped' = wiped /\ disturbed' = disturbed
      BY <1>1, <1>5, TakeKeysFacts DEF Advances, Ops, Places
    <2>2. Types' /\ Tied'
      BY <1>1, <1>5, <2>1 DEF Tied
    <2>3. ASSUME ~disturbed' PROVE Calm'
      <3>1. Calm /\ RecoveryOK /\ AppOpen /\ VaultOpens
        BY <1>1, <2>1, <2>3 DEF Calm
      <3>2. /\ \A q \in Ops : q # "recovery" => task[q].at = "end" /\ task'[q].at = "end"
            /\ Single' /\ WipedOK'
            /\ CreateOK' /\ UnlockOK' /\ ImportOK' /\ WipeOK'
        BY <1>5, <2>1, <3>1, Alone DEF Advances, Ops
      <3>3. VaultOpens'
        BY <1>5, <2>1, <3>1, <3>2
           DEF VaultOpens, Fragile, RecoveryOK, Holds, Bare, Emptied, At, Ops,
           Advances, Kept
      <3>4. AppOpen'
        BY <2>1
           DEF AppOpen, Entered, Settled, Types, Tied, RecoveryOK, Holds, Bare,
           Emptied, At, Ops, Advances, Kept
      <3>5. RecoveryOK'
        BY <1>5, <2>1, <3>1
           DEF AppOpen, Entered, Settled, Types, Tied, RecoveryOK, Holds, Bare,
           Emptied, At, Ops, Advances, Kept
      <3> QED
        BY <3>2, <3>3, <3>4, <3>5 DEF Calm
    <2> QED
      BY <2>2, <2>3 DEF VaultInv
  <1>6. ASSUME task["recovery"].at = "open", initStorage("recovery", "vault"), UNCHANGED Browser
        PROVE  VaultInv'
    <2>1. /\ Types' /\ Advances("recovery", "vault") /\ Frame("recovery")
          /\ ~deleting /\ handle' /\ ~deleting'
          /\ refs'.storage = task["recovery"].dek /\ refs'.dek = refs.dek
          /\ disk' = disk /\ ui' = ui
          /\ wiped' = wiped /\ disturbed' = disturbed
      BY <1>1, <1>6, initStorageFacts DEF Advances, Ops, Places
    <2>2. Types' /\ Tied'
      BY <1>1, <1>6, <2>1 DEF Tied
    <2>3. ASSUME ~disturbed' PROVE Calm'
      <3>1. Calm /\ RecoveryOK /\ AppOpen /\ VaultOpens
        BY <1>1, <2>1, <2>3 DEF Calm
      <3>2. /\ \A q \in Ops : q # "recovery" => task[q].at = "end" /\ task'[q].at = "end"
            /\ Single' /\ WipedOK'
            /\ CreateOK' /\ UnlockOK' /\ ImportOK' /\ WipeOK'
        BY <1>6, <2>1, <3>1, Alone DEF Advances, Ops
      <3>3. VaultOpens'
        BY <1>6, <2>1, <3>1
           DEF VaultOpens, Fragile, RecoveryOK, Holds, Bare, Emptied, At, Ops,
           Advances, Kept
      <3>4. AppOpen'
        BY <2>1
           DEF AppOpen, Entered, Settled, Types, Tied, RecoveryOK, Holds, Bare,
           Emptied, At, Ops, Advances, Kept
      <3>5. RecoveryOK'
        BY <1>6, <2>1, <3>1
           DEF AppOpen, Entered, Settled, Types, Tied, RecoveryOK, Holds, Bare,
           Emptied, At, Ops, Advances, Kept
      <3> QED
        BY <3>2, <3>3, <3>4, <3>5 DEF Calm
    <2> QED
      BY <2>2, <2>3 DEF VaultInv
  <1>7. ASSUME task["recovery"].at = "vault",
               saveVaultRecord("recovery", "identity"), UNCHANGED Browser
        PROVE  VaultInv'
    <2>1. /\ Types' /\ Advances("recovery", "identity") /\ Frame("recovery")
          /\ handle' = handle /\ deleting' = deleting
          /\ disk'.vault = task["recovery"].vault /\ disk'.identity = disk.identity
          /\ refs' = refs /\ ui' = ui
          /\ wiped' = wiped /\ disturbed' = disturbed
      BY <1>1, <1>7, saveVaultRecordFacts DEF Advances, Ops, Places
    <2>2. Types' /\ Tied'
      BY <1>1, <1>7, <2>1 DEF Tied
    <2>3. ASSUME ~disturbed' PROVE Calm'
      <3>1. Calm /\ RecoveryOK /\ AppOpen /\ VaultOpens
        BY <1>1, <2>1, <2>3 DEF Calm
      <3>2. /\ \A q \in Ops : q # "recovery" => task[q].at = "end" /\ task'[q].at = "end"
            /\ Single' /\ WipedOK'
            /\ CreateOK' /\ UnlockOK' /\ ImportOK' /\ WipeOK'
        BY <1>7, <2>1, <3>1, Alone DEF Advances, Ops
      <3>3. VaultOpens'
        BY <2>1
           DEF VaultOpens, Fragile, RecoveryOK, Holds, Bare, Emptied, At, Ops,
           Advances, Kept
      <3>4. AppOpen'
        BY <2>1
           DEF AppOpen, Entered, Settled, Types, Tied, RecoveryOK, Holds, Bare,
           Emptied, At, Ops, Advances, Kept
      <3>5. RecoveryOK'
        BY <1>7, <2>1, <3>1
           DEF AppOpen, Entered, Settled, Types, Tied, RecoveryOK, Holds, Bare,
           Emptied, At, Ops, Advances, Kept
      <3> QED
        BY <3>2, <3>3, <3>4, <3>5 DEF Calm
    <2> QED
      BY <2>2, <2>3 DEF VaultInv
  <1>8. ASSUME task["recovery"].at = "identity",
               saveIdentity("recovery", "records"), UNCHANGED Browser
        PROVE  VaultInv'
    <2>1. /\ Types' /\ ui' = ui /\ Frame("recovery") /\ deleting' = deleting
          /\ wiped' = wiped /\ disturbed' = disturbed
          /\ refs'.storage = refs.storage /\ refs'.dek = refs.dek
          /\ \/ refs.storage \notin Key /\ task'["recovery"].at = "end" /\ disk' = disk /\ handle' = handle
             \/ /\ refs.storage \in Key /\ Advances("recovery", "records") /\ handle'
                /\ disk'.vault = disk.vault /\ disk'.identity.dek = refs.storage
                /\ disk'.identity.id = task["recovery"].id
      BY <1>1, <1>8, saveIdentityFacts DEF Advances, Ops, Places
    <2>2. Types' /\ Tied'
      BY <1>1, <1>8, <2>1 DEF Tied
    <2>3. ASSUME ~disturbed' PROVE Calm'
      <3>1. Calm /\ RecoveryOK /\ AppOpen /\ VaultOpens
        BY <1>1, <2>1, <2>3 DEF Calm
      <3>2. /\ \A q \in Ops : q # "recovery" => task[q].at = "end" /\ task'[q].at = "end"
            /\ Single' /\ WipedOK'
            /\ CreateOK' /\ UnlockOK' /\ ImportOK' /\ WipeOK'
        BY <1>8, <2>1, <3>1, Alone DEF Advances, Ops
      <3>3. VaultOpens'
        BY <1>8, <2>1, <3>1
           DEF VaultOpens, Fragile, RecoveryOK, Holds, Bare, Emptied, At, Ops,
           Advances, Kept
      <3>4. AppOpen'
        BY <1>8, <2>1, <3>1
           DEF AppOpen, Entered, Settled, Types, Tied, RecoveryOK, Holds, Bare,
           Emptied, At, Ops, Advances, Kept
      <3>5. RecoveryOK'
        BY <1>8, <2>1, <3>1
           DEF AppOpen, Entered, Settled, Types, Tied, RecoveryOK, Holds, Bare,
           Emptied, At, Ops, Advances, Kept
      <3> QED
        BY <3>2, <3>3, <3>4, <3>5 DEF Calm
    <2> QED
      BY <2>2, <2>3 DEF VaultInv
  <1>9. ASSUME task["recovery"].at = "records",
               saveRecords("recovery", ShowApp("recovery")), UNCHANGED Browser
        PROVE  VaultInv'
    <2>1. /\ Types' /\ Frame("recovery") /\ deleting' = deleting
          /\ wiped' = wiped /\ disturbed' = disturbed
          /\ refs' = refs /\ disk'.vault = disk.vault /\ disk'.identity = disk.identity
          /\ \/ refs.storage \notin Key /\ task'["recovery"].at = "end" /\ ui' = ui /\ handle' = handle
             \/ refs.storage \in Key /\ Advances("recovery", "load") /\ handle' /\ ui' = ShowApp("recovery")
      BY <1>1, <1>2, <1>9, saveRecordsFacts DEF Advances, Ops, Places
    <2>2. Types' /\ Tied'
      BY <1>1, <1>2, <2>1 DEF Tied
    <2>3. ASSUME ~disturbed' PROVE Calm'
      <3>1. Calm /\ RecoveryOK /\ AppOpen /\ VaultOpens
        BY <1>1, <2>1, <2>3 DEF Calm
      <3>2. /\ \A q \in Ops : q # "recovery" => task[q].at = "end" /\ task'[q].at = "end"
            /\ Single' /\ WipedOK'
            /\ CreateOK' /\ UnlockOK' /\ ImportOK' /\ WipeOK'
        BY <1>9, <2>1, <3>1, Alone DEF Advances, Ops
      <3>3. VaultOpens'
        BY <1>9, <2>1, <3>1
           DEF VaultOpens, Fragile, RecoveryOK, Holds, Bare, Emptied, At, Ops,
           Advances, Kept
      <3>4. AppOpen'
        BY <1>2, <1>9, <2>1, <3>1
           DEF AppOpen, Entered, Settled, Types, Tied, RecoveryOK, Holds, Bare,
           Emptied, At, Ops, Advances, Kept
      <3>5. RecoveryOK'
        BY <1>9, <2>1, <3>1
           DEF AppOpen, Entered, Settled, Types, Tied, RecoveryOK, Holds, Bare,
           Emptied, At, Ops, Advances, Kept
      <3> QED
        BY <3>2, <3>3, <3>4, <3>5 DEF Calm
    <2> QED
      BY <2>2, <2>3 DEF VaultInv
  <1>10. ASSUME task["recovery"].at = "load", loadAllData("recovery", ui), UNCHANGED Browser
        PROVE  VaultInv'
    <2>1. /\ Types' /\ Frame("recovery") /\ deleting' = deleting
          /\ wiped' = wiped /\ disturbed' = disturbed
          /\ refs'.storage = refs.storage /\ refs'.dek = refs.dek /\ disk' = disk
          /\ task'["recovery"].at = "end"
          /\ \/ ui' = ui /\ handle' = handle
             \/ ui' = ui /\ handle'
      BY <1>1, <1>3, <1>10, loadAllDataFacts DEF Advances, Ops, Places
    <2>2. Types' /\ Tied'
      BY <1>1, <2>1 DEF Tied
    <2>3. ASSUME ~disturbed' PROVE Calm'
      <3>1. Calm /\ RecoveryOK /\ AppOpen /\ VaultOpens
        BY <1>1, <2>1, <2>3 DEF Calm
      <3>2. /\ \A q \in Ops : q # "recovery" => task[q].at = "end" /\ task'[q].at = "end"
            /\ Single' /\ WipedOK'
            /\ CreateOK' /\ UnlockOK' /\ ImportOK' /\ WipeOK'
        BY <1>10, <2>1, <3>1, Alone DEF Advances, Ops
      <3>3. VaultOpens'
        BY <1>10, <2>1, <3>1
           DEF VaultOpens, Fragile, RecoveryOK, Holds, Bare, Emptied, At, Ops,
           Advances, Kept
      <3>4. AppOpen'
        BY <1>10, <2>1, <3>1, <3>2
           DEF AppOpen, Entered, Settled, Types, Tied, RecoveryOK, Holds, Bare,
           Emptied, At, Ops, Advances, Kept
      <3>5. RecoveryOK'
        BY <2>1
           DEF AppOpen, Entered, Settled, Types, Tied, RecoveryOK, Holds, Bare,
           Emptied, At, Ops, Advances, Kept
      <3> QED
        BY <3>2, <3>3, <3>4, <3>5 DEF Calm
    <2> QED
      BY <2>2, <2>3 DEF VaultInv
  <1> QED
    BY <1>4, <1>5, <1>6, <1>7, <1>8, <1>9, <1>10 DEF RecoveryStep, At

(* of inAppImport,                                                          *)
LEMMA ImportKeeps ==
    ASSUME VaultInv, ImportStep
    PROVE  VaultInv'
  <1>1. Types /\ Tied /\ (~disturbed => Calm)
    BY DEF VaultInv
  <1>2. /\ ShowImported \in Screens /\ ShowImported.phase = ui.phase
        /\ ShowImported.forged = ui.forged
        /\ ShowImported.dialog = ui.dialog /\ ShowImported.shown = task["import"].id
    BY <1>1 DEF ShowImported, Types, Screens, Tasks, Ops
  <1>3. ui \in Screens
    BY <1>1 DEF Types
  <1>4. ASSUME task["import"].at = "read", ImportReads, UNCHANGED Browser
        PROVE  VaultInv'
    <2>1. /\ Types' /\ Frame("import") /\ disk' = disk /\ handle' = handle
          /\ refs' = refs /\ ui' = ui
          /\ deleting' = deleting /\ wiped' = wiped /\ disturbed' = disturbed
          /\ \/ task'["import"].at = "end"
             \/ /\ disk.vault \in Key /\ task'["import"].at = "wipe"
                /\ task'["import"].vault = disk.vault /\ task'["import"].id = task["import"].id
      BY <1>1, <1>4, ImportReadsFacts
    <2>2. Types' /\ Tied'
      BY <1>1, <1>4, <2>1 DEF Tied
    <2>3. ASSUME ~disturbed' PROVE Calm'
      <3>1. Calm /\ ImportOK /\ AppOpen /\ VaultOpens
        BY <1>1, <2>1, <2>3 DEF Calm
      <3>2. /\ \A q \in Ops : q # "import" => task[q].at = "end" /\ task'[q].at = "end"
            /\ Single' /\ WipedOK'
            /\ CreateOK' /\ UnlockOK' /\ RecoveryOK' /\ WipeOK'
        BY <1>4, <2>1, <3>1, Alone DEF Advances, Ops
      <3>3. VaultOpens'
        BY <1>4, <2>1, <3>1, <3>2
           DEF VaultOpens, Fragile, ImportOK, Holds, Bare, Emptied, At, Ops,
           Advances, Kept
      <3>4. AppOpen'
        BY <1>4, <2>1, <3>1, <3>2
           DEF AppOpen, Entered, Settled, Types, Tied, ImportOK, Holds, Bare,
           Emptied, At, Ops, Advances, Kept
      <3>5. ImportOK'
        BY <1>4, <2>1, <3>1, <3>2
           DEF AppOpen, Entered, Settled, Types, Tied, ImportOK, Holds, Bare,
           Emptied, At, Ops, Advances, Kept
      <3> QED
        BY <3>2, <3>3, <3>4, <3>5 DEF Calm
    <2> QED
      BY <2>2, <2>3 DEF VaultInv
  <1>5. ASSUME task["import"].at = "wipe", Wipe("import", "keys")
        PROVE  VaultInv'
    <2>1. /\ Types' /\ Advances("import", "keys") /\ Frame("import")
          /\ ~handle' /\ deleting' /\ refs'.dek = refs.dek
          /\ disk' = disk /\ ui' = ui
          /\ wiped' = wiped /\ disturbed' = disturbed
      BY <1>1, <1>5, WipeFacts DEF Advances, Ops, Places
    <2>2. Types' /\ Tied'
      BY <1>1, <1>5, <2>1 DEF Tied
    <2>3. ASSUME ~disturbed' PROVE Calm'
      <3>1. Calm /\ ImportOK /\ AppOpen /\ VaultOpens
        BY <1>1, <2>1, <2>3 DEF Calm
      <3>2. /\ \A q \in Ops : q # "import" => task[q].at = "end" /\ task'[q].at = "end"
            /\ Single' /\ WipedOK'
            /\ CreateOK' /\ UnlockOK' /\ RecoveryOK' /\ WipeOK'
        BY <1>5, <2>1, <3>1, Alone DEF Advances, Ops
      <3>3. VaultOpens'
        BY <1>5, <2>1, <3>1, <3>2
           DEF VaultOpens, Fragile, ImportOK, Holds, Bare, Emptied, At, Ops,
           Advances, Kept
      <3>4. AppOpen'
        BY <2>1
           DEF AppOpen, Entered, Settled, Types, Tied, ImportOK, Holds, Bare,
           Emptied, At, Ops, Advances, Kept
      <3>5. ImportOK'
        BY <1>5, <2>1, <3>1
           DEF AppOpen, Entered, Settled, Types, Tied, ImportOK, Holds, Bare,
           Emptied, At, Ops, Advances, Kept
      <3> QED
        BY <3>2, <3>3, <3>4, <3>5 DEF Calm
    <2> QED
      BY <2>2, <2>3 DEF VaultInv
  <1>6. ASSUME task["import"].at = "keys", ImportKey, UNCHANGED Browser
        PROVE  VaultInv'
    <2>1. /\ Types' /\ Frame("import") /\ disk' = disk /\ handle' = handle
          /\ refs' = refs /\ ui' = ui
          /\ deleting' = deleting /\ wiped' = wiped /\ disturbed' = disturbed
          /\ task'["import"].at = "open" /\ task'["import"].dek = refs.dek
          /\ task'["import"].vault = task["import"].vault
          /\ task'["import"].id = task["import"].id
      BY <1>1, <1>6, ImportKeyFacts
    <2>2. Types' /\ Tied'
      BY <1>1, <1>6, <2>1 DEF Tied
    <2>3. ASSUME ~disturbed' PROVE Calm'
      <3>1. Calm /\ ImportOK /\ AppOpen /\ VaultOpens
        BY <1>1, <2>1, <2>3 DEF Calm
      <3>2. /\ \A q \in Ops : q # "import" => task[q].at = "end" /\ task'[q].at = "end"
            /\ Single' /\ WipedOK'
            /\ CreateOK' /\ UnlockOK' /\ RecoveryOK' /\ WipeOK'
        BY <1>6, <2>1, <3>1, Alone DEF Advances, Ops
      <3>3. VaultOpens'
        BY <1>6, <2>1, <3>1, <3>2
           DEF VaultOpens, Fragile, ImportOK, Holds, Bare, Emptied, At, Ops,
           Advances, Kept
      <3>4. AppOpen'
        BY <2>1
           DEF AppOpen, Entered, Settled, Types, Tied, ImportOK, Holds, Bare,
           Emptied, At, Ops, Advances, Kept
      <3>5. ImportOK'
        BY <1>6, <2>1, <3>1
           DEF AppOpen, Entered, Settled, Types, Tied, ImportOK, Holds, Bare,
           Emptied, At, Ops, Advances, Kept
      <3> QED
        BY <3>2, <3>3, <3>4, <3>5 DEF Calm
    <2> QED
      BY <2>2, <2>3 DEF VaultInv
  <1>7. ASSUME task["import"].at = "open", initStorage("import", "vault"), UNCHANGED Browser
        PROVE  VaultInv'
    <2>1. /\ Types' /\ Advances("import", "vault") /\ Frame("import")
          /\ ~deleting /\ handle' /\ ~deleting'
          /\ refs'.storage = task["import"].dek /\ refs'.dek = refs.dek
          /\ disk' = disk /\ ui' = ui
          /\ wiped' = wiped /\ disturbed' = disturbed
      BY <1>1, <1>7, initStorageFacts DEF Advances, Ops, Places
    <2>2. Types' /\ Tied'
      BY <1>1, <1>7, <2>1 DEF Tied
    <2>3. ASSUME ~disturbed' PROVE Calm'
      <3>1. Calm /\ ImportOK /\ AppOpen /\ VaultOpens
        BY <1>1, <2>1, <2>3 DEF Calm
      <3>2. /\ \A q \in Ops : q # "import" => task[q].at = "end" /\ task'[q].at = "end"
            /\ Single' /\ WipedOK'
            /\ CreateOK' /\ UnlockOK' /\ RecoveryOK' /\ WipeOK'
        BY <1>7, <2>1, <3>1, Alone DEF Advances, Ops
      <3>3. VaultOpens'
        BY <1>7, <2>1, <3>1
           DEF VaultOpens, Fragile, ImportOK, Holds, Bare, Emptied, At, Ops,
           Advances, Kept
      <3>4. AppOpen'
        BY <2>1
           DEF AppOpen, Entered, Settled, Types, Tied, ImportOK, Holds, Bare,
           Emptied, At, Ops, Advances, Kept
      <3>5. ImportOK'
        BY <1>7, <2>1, <3>1
           DEF AppOpen, Entered, Settled, Types, Tied, ImportOK, Holds, Bare,
           Emptied, At, Ops, Advances, Kept
      <3> QED
        BY <3>2, <3>3, <3>4, <3>5 DEF Calm
    <2> QED
      BY <2>2, <2>3 DEF VaultInv
  <1>8. ASSUME task["import"].at = "vault", saveVaultRecord("import", "identity"),
               UNCHANGED Browser
        PROVE  VaultInv'
    <2>1. /\ Types' /\ Advances("import", "identity") /\ Frame("import")
          /\ handle' = handle /\ deleting' = deleting
          /\ disk'.vault = task["import"].vault /\ disk'.identity = disk.identity
          /\ refs' = refs /\ ui' = ui
          /\ wiped' = wiped /\ disturbed' = disturbed
      BY <1>1, <1>8, saveVaultRecordFacts DEF Advances, Ops, Places
    <2>2. Types' /\ Tied'
      BY <1>1, <1>8, <2>1 DEF Tied
    <2>3. ASSUME ~disturbed' PROVE Calm'
      <3>1. Calm /\ ImportOK /\ AppOpen /\ VaultOpens
        BY <1>1, <2>1, <2>3 DEF Calm
      <3>2. /\ \A q \in Ops : q # "import" => task[q].at = "end" /\ task'[q].at = "end"
            /\ Single' /\ WipedOK'
            /\ CreateOK' /\ UnlockOK' /\ RecoveryOK' /\ WipeOK'
        BY <1>8, <2>1, <3>1, Alone DEF Advances, Ops
      <3>3. VaultOpens'
        BY <2>1
           DEF VaultOpens, Fragile, ImportOK, Holds, Bare, Emptied, At, Ops,
           Advances, Kept
      <3>4. AppOpen'
        BY <2>1
           DEF AppOpen, Entered, Settled, Types, Tied, ImportOK, Holds, Bare,
           Emptied, At, Ops, Advances, Kept
      <3>5. ImportOK'
        BY <1>8, <2>1, <3>1
           DEF AppOpen, Entered, Settled, Types, Tied, ImportOK, Holds, Bare,
           Emptied, At, Ops, Advances, Kept
      <3> QED
        BY <3>2, <3>3, <3>4, <3>5 DEF Calm
    <2> QED
      BY <2>2, <2>3 DEF VaultInv
  <1>9. ASSUME task["import"].at = "identity", saveIdentity("import", "records"),
               UNCHANGED Browser
        PROVE  VaultInv'
    <2>1. /\ Types' /\ ui' = ui /\ Frame("import") /\ deleting' = deleting
          /\ wiped' = wiped /\ disturbed' = disturbed
          /\ refs'.storage = refs.storage /\ refs'.dek = refs.dek
          /\ \/ refs.storage \notin Key /\ task'["import"].at = "end" /\ disk' = disk /\ handle' = handle
             \/ /\ refs.storage \in Key /\ Advances("import", "records") /\ handle'
                /\ disk'.vault = disk.vault /\ disk'.identity.dek = refs.storage
                /\ disk'.identity.id = task["import"].id
      BY <1>1, <1>9, saveIdentityFacts DEF Advances, Ops, Places
    <2>2. Types' /\ Tied'
      BY <1>1, <1>9, <2>1 DEF Tied
    <2>3. ASSUME ~disturbed' PROVE Calm'
      <3>1. Calm /\ ImportOK /\ AppOpen /\ VaultOpens
        BY <1>1, <2>1, <2>3 DEF Calm
      <3>2. /\ \A q \in Ops : q # "import" => task[q].at = "end" /\ task'[q].at = "end"
            /\ Single' /\ WipedOK'
            /\ CreateOK' /\ UnlockOK' /\ RecoveryOK' /\ WipeOK'
        BY <1>9, <2>1, <3>1, Alone DEF Advances, Ops
      <3>3. VaultOpens'
        BY <1>9, <2>1, <3>1
           DEF VaultOpens, Fragile, ImportOK, Holds, Bare, Emptied, At, Ops,
           Advances, Kept
      <3>4. AppOpen'
        BY <1>9, <2>1, <3>1
           DEF AppOpen, Entered, Settled, Types, Tied, ImportOK, Holds, Bare,
           Emptied, At, Ops, Advances, Kept
      <3>5. ImportOK'
        BY <1>9, <2>1, <3>1
           DEF AppOpen, Entered, Settled, Types, Tied, ImportOK, Holds, Bare,
           Emptied, At, Ops, Advances, Kept
      <3> QED
        BY <3>2, <3>3, <3>4, <3>5 DEF Calm
    <2> QED
      BY <2>2, <2>3 DEF VaultInv
  <1>10. ASSUME task["import"].at = "records", saveRecords("import", ShowImported),
                UNCHANGED Browser
        PROVE  VaultInv'
    <2>1. /\ Types' /\ Frame("import") /\ deleting' = deleting
          /\ wiped' = wiped /\ disturbed' = disturbed
          /\ refs' = refs /\ disk'.vault = disk.vault /\ disk'.identity = disk.identity
          /\ \/ refs.storage \notin Key /\ task'["import"].at = "end" /\ ui' = ui /\ handle' = handle
             \/ refs.storage \in Key /\ Advances("import", "load") /\ handle' /\ ui' = ShowImported
      BY <1>1, <1>2, <1>10, saveRecordsFacts DEF Advances, Ops, Places
    <2>2. Types' /\ Tied'
      BY <1>1, <1>2, <2>1 DEF Tied
    <2>3. ASSUME ~disturbed' PROVE Calm'
      <3>1. Calm /\ ImportOK /\ AppOpen /\ VaultOpens
        BY <1>1, <2>1, <2>3 DEF Calm
      <3>2. /\ \A q \in Ops : q # "import" => task[q].at = "end" /\ task'[q].at = "end"
            /\ Single' /\ WipedOK'
            /\ CreateOK' /\ UnlockOK' /\ RecoveryOK' /\ WipeOK'
        BY <1>10, <2>1, <3>1, Alone DEF Advances, Ops
      <3>3. VaultOpens'
        BY <1>10, <2>1, <3>1
           DEF VaultOpens, Fragile, ImportOK, Holds, Bare, Emptied, At, Ops,
           Advances, Kept
      <3>4. AppOpen'
        <4>1. CASE refs.storage \notin Key /\ task'["import"].at = "end" /\ ui' = ui
          BY <1>10, <2>1, <3>1, <4>1
             DEF AppOpen, Entered, Settled, Types, ImportOK, Holds, At, Ops
        <4>2. CASE /\ refs.storage \in Key /\ Advances("import", "load") /\ handle'
                   /\ ui' = ShowImported
          BY <1>2, <1>10, <2>1, <3>1, <4>2, NoKeyFacts
             DEF AppOpen, Entered, Settled, Types, Tied, ImportOK, Holds, At, Ops, Advances
        <4> QED
          BY <2>1, <4>1, <4>2
      <3>5. ImportOK'
        BY <1>10, <2>1, <3>1
           DEF AppOpen, Entered, Settled, Types, Tied, ImportOK, Holds, Bare,
           Emptied, At, Ops, Advances, Kept
      <3> QED
        BY <3>2, <3>3, <3>4, <3>5 DEF Calm
    <2> QED
      BY <2>2, <2>3 DEF VaultInv
  <1>11. ASSUME task["import"].at = "load", loadAllData("import", ui), UNCHANGED Browser
        PROVE  VaultInv'
    <2>1. /\ Types' /\ Frame("import") /\ deleting' = deleting
          /\ wiped' = wiped /\ disturbed' = disturbed
          /\ refs'.storage = refs.storage /\ refs'.dek = refs.dek /\ disk' = disk
          /\ task'["import"].at = "end"
          /\ \/ ui' = ui /\ handle' = handle
             \/ ui' = ui /\ handle'
      BY <1>1, <1>3, <1>11, loadAllDataFacts DEF Advances, Ops, Places
    <2>2. Types' /\ Tied'
      BY <1>1, <2>1 DEF Tied
    <2>3. ASSUME ~disturbed' PROVE Calm'
      <3>1. Calm /\ ImportOK /\ AppOpen /\ VaultOpens
        BY <1>1, <2>1, <2>3 DEF Calm
      <3>2. /\ \A q \in Ops : q # "import" => task[q].at = "end" /\ task'[q].at = "end"
            /\ Single' /\ WipedOK'
            /\ CreateOK' /\ UnlockOK' /\ RecoveryOK' /\ WipeOK'
        BY <1>11, <2>1, <3>1, Alone DEF Advances, Ops
      <3>3. VaultOpens'
        BY <1>11, <2>1, <3>1
           DEF VaultOpens, Fragile, ImportOK, Holds, Bare, Emptied, At, Ops,
           Advances, Kept
      <3>4. AppOpen'
        BY <1>11, <2>1, <3>1, <3>2
           DEF AppOpen, Entered, Settled, Types, Tied, ImportOK, Holds, Bare,
           Emptied, At, Ops, Advances, Kept
      <3>5. ImportOK'
        BY <2>1
           DEF AppOpen, Entered, Settled, Types, Tied, ImportOK, Holds, Bare,
           Emptied, At, Ops, Advances, Kept
      <3> QED
        BY <3>2, <3>3, <3>4, <3>5 DEF Calm
    <2> QED
      BY <2>2, <2>3 DEF VaultInv
  <1> QED
    BY <1>4, <1>5, <1>6, <1>7, <1>8, <1>9, <1>10, <1>11
       DEF ImportStep, At, ImportReads, ImportKey

(* and of wipeEverything.                                                   *)
LEMMA WipeKeeps ==
    ASSUME VaultInv, WipeStep
    PROVE  VaultInv'
  <1>1. Types /\ Tied /\ (~disturbed => Calm) /\ task["wipe"].at = "wiped"
    BY DEF VaultInv, WipeStep, At
  <1>2. /\ Frame("wipe") /\ task'["wipe"].at = "end" /\ task' \in [Ops -> Tasks]
    BY <1>1, EndsFacts DEF WipeStep, Ops
  <1>3. /\ Enter("landing", ui) \in Screens /\ Enter("landing", ui).phase = "landing"
        /\ Enter("landing", ui).forged = FALSE /\ Enter("landing", ui).dialog = "no"
    <2>1. /\ "landing" \in Phases /\ ui \in Screens
          /\ ui.phase = "landing" => ui.forged = FALSE /\ ui.dialog = "no"
      BY <1>1 DEF Types, Phases, Tied, Screens
    <2> QED
      BY <2>1, EnterFacts
  <1>4. /\ ui' \in Screens /\ ui'.phase = "landing" /\ ui'.forged = FALSE
        /\ ui'.dialog = "no" /\ ui'.status = "none"
    BY <1>3, NoKeyFacts DEF WipeStep, Screens, Ids
  <1>5. refs' \in References
    BY <1>1 DEF WipeStep, Types, References
  <1>6. /\ disk' = disk /\ deleting' = deleting /\ handle' = handle
        /\ inFlight' = inFlight /\ used' = used
        /\ disturbed' = disturbed /\ reloads' = reloads /\ wiped' = TRUE
    BY DEF WipeStep
  <1>7. Types' /\ Tied'
    BY <1>1, <1>2, <1>4, <1>5, <1>6 DEF Types, Tied
  <1>8. ASSUME ~disturbed' PROVE Calm'
    <2>1. Calm
      BY <1>1, <1>6, <1>8
    <2>2. \A q \in Ops : task'[q].at = "end"
      BY <1>1, <1>2, <2>1 DEF Calm, Single, At, Frame, Ops
    <2>3. Single' /\ CreateOK' /\ UnlockOK' /\ RecoveryOK' /\ ImportOK' /\ WipeOK'
      BY <2>2 DEF Single, CreateOK, UnlockOK, RecoveryOK, ImportOK, WipeOK, At, Ops
    <2>4. Emptied
      BY <1>1, <2>1 DEF Calm, WipeOK, At
    <2>5. WipedOK' /\ VaultOpens'
      <3>1. WipedOK'
        BY <1>4, <1>6, <2>2, <2>4 DEF WipedOK, Emptied, Bare, At
      <3>2. ~Fragile /\ VaultOpens
        BY <1>1, <2>1 DEF Calm, Single, At, Fragile, Ops
      <3> QED
        BY <1>6, <3>1, <3>2 DEF VaultOpens
    <2>6. AppOpen'
      BY <1>4, <2>2 DEF AppOpen, Entered, At, Ops
    <2> QED
      BY <2>3, <2>5, <2>6 DEF Calm
  <1> QED
    BY <1>7, <1>8 DEF VaultInv

(* createIdentityAndVault starts,                                           *)
LEMMA CreateStartsKeeps ==
    ASSUME VaultInv, CreateStarts
    PROVE  VaultInv'
  <1>1. Types /\ Tied /\ (~disturbed => Calm)
    BY DEF VaultInv
  <1>2. PICK k \in Key \ used : /\ used' = used \cup {k}
                               /\ Starts("create", [at |-> "keys", vault |-> k, dek |-> k, id |-> k])
    BY DEF CreateStarts, createVaultRecord
  <1>3. ui.phase = "onboarding" /\ ~ui.forged
    BY DEF CreateStarts
  <1>4. [at |-> "keys", vault |-> k, dek |-> k, id |-> k] \in Tasks
    BY <1>1, <1>2, <1>3 DEF Types, Tasks, Places, Ids, Ended, Ops, References
  <1>5. /\ Frame("create")
        /\ task'["create"] = [at |-> "keys", vault |-> k, dek |-> k, id |-> k]
        /\ task' \in [Ops -> Tasks]
        /\ disturbed' \in BOOLEAN /\ (~disturbed' => ~disturbed /\ \A q \in Ops : At(q, "end"))
    BY <1>1, <1>2, <1>4, StartsFacts DEF CreateStarts, Ops, Ended
  <1>6. /\ disk' = disk /\ deleting' = deleting /\ handle' = handle /\ refs' = refs
        /\ inFlight' = inFlight /\ reloads' = reloads /\ ui' = ui /\ wiped' = FALSE
    BY <1>1, <1>2, <1>3 DEF CreateStarts
  <1>7. Types' /\ Tied'
    BY <1>1, <1>2, <1>5, <1>6 DEF Types, Tied, CanOpen, openMeta
  <1>8. ASSUME ~disturbed' PROVE Calm'
    <2>1. Calm /\ AppOpen /\ VaultOpens /\ WipedOK /\ ~disturbed /\ \A q \in Ops : At(q, "end")
      BY <1>1, <1>5, <1>8 DEF Calm
    <2>2. ~wiped'
      BY <1>6 DEF WipedOK, Tied, Types
    <2>3. /\ Single' /\ WipedOK'
          /\ \A q \in Ops : q # "create" => task[q].at = "end" /\ task'[q].at = "end"
          /\ UnlockOK' /\ RecoveryOK' /\ ImportOK' /\ WipeOK'
      BY <1>1, <1>5, <2>1, <2>2, NoneRunning DEF Ops
    <2>4. VaultOpens'
      BY <1>6, <2>1 DEF VaultOpens, Fragile, At, Ops, Ended
    <2>5. AppOpen'
      BY <1>3, <1>5, <1>6 DEF AppOpen, Entered, Settled, Tied, At, Ops, Ended
    <2>6. CreateOK'
      BY <1>3, <1>5, <1>6
         DEF CreateOK, AppOpen, Entered, Settled, Tied, At, Ops, Ended, Emptied,
         Holds, Bare
    <2> QED
      BY <2>3, <2>4, <2>5, <2>6 DEF Calm
  <1> QED
    BY <1>7, <1>8 DEF VaultInv

(* unlockVault,                                                             *)
LEMMA UnlockStartsKeeps ==
    ASSUME VaultInv, UnlockStarts
    PROVE  VaultInv'
  <1>1. Types /\ Tied /\ (~disturbed => Calm)
    BY DEF VaultInv
  <1>2. ui.phase = "unlock" /\ Starts("unlock", [Ended EXCEPT !.at = "read"])
    BY DEF UnlockStarts
  <1>3. [Ended EXCEPT !.at = "read"] \in Tasks
    BY <1>1, <1>2 DEF Types, Tasks, Places, Ids, Ended, Ops, References
  <1>4. /\ Frame("unlock") /\ task'["unlock"] = [Ended EXCEPT !.at = "read"]
        /\ task' \in [Ops -> Tasks]
        /\ disturbed' \in BOOLEAN /\ (~disturbed' => ~disturbed /\ \A q \in Ops : At(q, "end"))
    BY <1>1, <1>2, <1>3, StartsFacts DEF UnlockStarts, Ops, Ended
  <1>5. /\ disk' = disk /\ deleting' = deleting /\ handle' = handle /\ refs' = refs
        /\ inFlight' = inFlight /\ reloads' = reloads
        /\ used' = used /\ wiped' = wiped /\ ui' \in Screens
        /\ ui'.phase = ui.phase /\ ui'.forged = ui.forged /\ ui'.dialog = ui.dialog
        /\ ui'.shown = ui.shown
    BY <1>1, <1>2 DEF UnlockStarts, Types, Screens
  <1>6. Types' /\ Tied'
    BY <1>1, <1>4, <1>5 DEF Types, Tied, CanOpen, openMeta
  <1>7. ASSUME ~disturbed' PROVE Calm'
    <2>1. Calm /\ AppOpen /\ VaultOpens /\ WipedOK /\ ~disturbed /\ \A q \in Ops : At(q, "end")
      BY <1>1, <1>4, <1>7 DEF Calm
    <2>2. ~wiped'
      BY <2>1, <1>5, <1>2 DEF WipedOK, Tied, Types
    <2>3. /\ Single' /\ WipedOK'
          /\ \A q \in Ops : q # "unlock" => task[q].at = "end" /\ task'[q].at = "end"
          /\ CreateOK' /\ RecoveryOK' /\ ImportOK' /\ WipeOK'
      BY <1>1, <1>4, <2>1, <2>2, NoneRunning DEF Ops
    <2>4. VaultOpens'
      BY <1>5, <2>1 DEF VaultOpens, Fragile, At, Ops, Ended
    <2>5. AppOpen'
      BY <1>5, <2>1, <2>3 DEF AppOpen, Entered, Settled, Tied, At, Ops, Ended
    <2>6. UnlockOK'
      BY <1>2, <1>4, <1>5
         DEF UnlockOK, AppOpen, Entered, Settled, Tied, At, Ops, Ended, Emptied,
         Holds, Bare
    <2> QED
      BY <2>3, <2>4, <2>5, <2>6 DEF Calm
  <1> QED
    BY <1>6, <1>7 DEF VaultInv

(* recoveryImport,                                                          *)
LEMMA RecoveryStartsKeeps ==
    ASSUME VaultInv, RecoveryStarts
    PROVE  VaultInv'
  <1>1. Types /\ Tied /\ (~disturbed => Calm)
    BY DEF VaultInv
  <1>2. PICK k \in Key \ used : /\ used' = used \cup {k}
                               /\ Starts("recovery", [at |-> "wipe", vault |-> k, dek |-> k, id |-> Imported])
    BY DEF RecoveryStarts, createVaultRecord
  <1>3. ui.phase = "app"
    BY <1>1 DEF RecoveryStarts, Tied
  <1>4. [at |-> "wipe", vault |-> k, dek |-> k, id |-> Imported] \in Tasks
    BY <1>1, <1>2, <1>3 DEF Types, Tasks, Places, Ids, Ended, Ops, References
  <1>5. /\ Frame("recovery")
        /\ task'["recovery"] = [at |-> "wipe", vault |-> k, dek |-> k, id |-> Imported]
        /\ task' \in [Ops -> Tasks]
        /\ disturbed' \in BOOLEAN /\ (~disturbed' => ~disturbed /\ \A q \in Ops : At(q, "end"))
    BY <1>1, <1>2, <1>4, StartsFacts DEF RecoveryStarts, Ops, Ended
  <1>6. /\ disk' = disk /\ deleting' = deleting /\ handle' = handle /\ refs' = refs
        /\ inFlight' = inFlight /\ reloads' = reloads /\ ui' = ui /\ wiped' = wiped
    BY <1>1, <1>2, <1>3 DEF RecoveryStarts
  <1>7. Types' /\ Tied'
    BY <1>1, <1>2, <1>5, <1>6 DEF Types, Tied, CanOpen, openMeta
  <1>8. ASSUME ~disturbed' PROVE Calm'
    <2>1. Calm /\ AppOpen /\ VaultOpens /\ WipedOK /\ ~disturbed /\ \A q \in Ops : At(q, "end")
      BY <1>1, <1>5, <1>8 DEF Calm
    <2>2. ~wiped'
      BY <2>1, <1>6, <1>3 DEF WipedOK, Tied, Types
    <2>3. /\ Single' /\ WipedOK'
          /\ \A q \in Ops : q # "recovery" => task[q].at = "end" /\ task'[q].at = "end"
          /\ CreateOK' /\ UnlockOK' /\ ImportOK' /\ WipeOK'
      BY <1>1, <1>5, <2>1, <2>2, NoneRunning DEF Ops
    <2>4. VaultOpens'
      BY <1>6, <2>1 DEF VaultOpens, Fragile, At, Ops, Ended
    <2>5. AppOpen'
      BY <1>6, <2>1, <2>3 DEF AppOpen, Entered, Settled, Tied, At, Ops, Ended
    <2>6. RecoveryOK'
      BY <1>3, <1>5, <1>6
         DEF RecoveryOK, AppOpen, Entered, Settled, Tied, At, Ops, Ended, Emptied,
         Holds, Bare
    <2> QED
      BY <2>3, <2>4, <2>5, <2>6 DEF Calm
  <1> QED
    BY <1>7, <1>8 DEF VaultInv

(* inAppImport,                                                             *)
LEMMA ImportStartsKeeps ==
    ASSUME VaultInv, ImportStarts
    PROVE  VaultInv'
  <1>1. Types /\ Tied /\ (~disturbed => Calm)
    BY DEF VaultInv
  <1>2. ui.phase = "app" /\ Starts("import", [Ended EXCEPT !.at = "read", !.id = Imported])
    BY <1>1 DEF ImportStarts, Tied
  <1>3. [Ended EXCEPT !.at = "read", !.id = Imported] \in Tasks
    BY <1>1, <1>2 DEF Types, Tasks, Places, Ids, Ended, Ops, References
  <1>4. /\ Frame("import")
        /\ task'["import"] = [Ended EXCEPT !.at = "read", !.id = Imported]
        /\ task' \in [Ops -> Tasks]
        /\ disturbed' \in BOOLEAN /\ (~disturbed' => ~disturbed /\ \A q \in Ops : At(q, "end"))
    BY <1>1, <1>2, <1>3, StartsFacts DEF ImportStarts, Ops, Ended
  <1>5. /\ disk' = disk /\ deleting' = deleting /\ handle' = handle /\ refs' = refs
        /\ inFlight' = inFlight /\ reloads' = reloads /\ ui' = ui /\ wiped' = wiped
        /\ used' = used
    BY <1>1, <1>2 DEF ImportStarts
  <1>6. Types' /\ Tied'
    BY <1>1, <1>4, <1>5 DEF Types, Tied, CanOpen, openMeta
  <1>7. ASSUME ~disturbed' PROVE Calm'
    <2>1. Calm /\ AppOpen /\ VaultOpens /\ WipedOK /\ ~disturbed /\ \A q \in Ops : At(q, "end")
      BY <1>1, <1>4, <1>7 DEF Calm
    <2>2. ~wiped'
      BY <2>1, <1>5, <1>2 DEF WipedOK, Tied, Types
    <2>3. /\ Single' /\ WipedOK'
          /\ \A q \in Ops : q # "import" => task[q].at = "end" /\ task'[q].at = "end"
          /\ CreateOK' /\ UnlockOK' /\ RecoveryOK' /\ WipeOK'
      BY <1>1, <1>4, <2>1, <2>2, NoneRunning DEF Ops
    <2>4. VaultOpens'
      BY <1>5, <2>1 DEF VaultOpens, Fragile, At, Ops, Ended
    <2>5. AppOpen'
      BY <1>5, <2>1, <2>3 DEF AppOpen, Entered, Settled, Tied, At, Ops, Ended
    <2>6. ImportOK'
      BY <1>2, <1>4, <1>5
         DEF ImportOK, AppOpen, Entered, Settled, Tied, At, Ops, Ended, Emptied,
         Holds, Bare
    <2> QED
      BY <2>3, <2>4, <2>5, <2>6 DEF Calm
  <1> QED
    BY <1>6, <1>7 DEF VaultInv

(* wipeEverything.                                                          *)
LEMMA WipeStartsKeeps ==
    ASSUME VaultInv, WipeStarts
    PROVE  VaultInv'
  <1>1. Types /\ Tied /\ (~disturbed => Calm)
    BY DEF VaultInv
  <1>2. ui.phase \in {"unlock", "app"} /\ Starts("wipe", [Ended EXCEPT !.at = "wiped"])
    BY DEF WipeStarts
  <1>3. [Ended EXCEPT !.at = "wiped"] \in Tasks
    BY <1>1, <1>2 DEF Types, Tasks, Places, Ids, Ended, Ops, References
  <1>4. /\ Frame("wipe") /\ task'["wipe"] = [Ended EXCEPT !.at = "wiped"]
        /\ task' \in [Ops -> Tasks]
        /\ disturbed' \in BOOLEAN /\ (~disturbed' => ~disturbed /\ \A q \in Ops : At(q, "end"))
    BY <1>1, <1>2, <1>3, StartsFacts DEF WipeStarts, Ops, Ended
  <1>5. /\ disk' = disk /\ deleting' = TRUE /\ handle' = FALSE
        /\ refs' \in References /\ ui' = ui
        /\ inFlight' = inFlight /\ reloads' = reloads /\ used' = used /\ wiped' = wiped
    BY <1>1, <1>2 DEF WipeStarts, deleteDatabase, Types, References, Ids
  <1>6. Types' /\ Tied'
    BY <1>1, <1>4, <1>5 DEF Types, Tied, CanOpen, openMeta
  <1>7. ASSUME ~disturbed' PROVE Calm'
    <2>1. Calm /\ AppOpen /\ VaultOpens /\ WipedOK /\ ~disturbed /\ \A q \in Ops : At(q, "end")
      BY <1>1, <1>4, <1>7 DEF Calm
    <2>2. ~wiped'
      BY <2>1, <1>5, <1>2 DEF WipedOK, Tied, Types
    <2>3. /\ Single' /\ WipedOK'
          /\ \A q \in Ops : q # "wipe" => task[q].at = "end" /\ task'[q].at = "end"
          /\ CreateOK' /\ UnlockOK' /\ RecoveryOK' /\ ImportOK'
      BY <1>1, <1>4, <2>1, <2>2, NoneRunning DEF Ops
    <2>4. VaultOpens'
      BY <1>5, <2>1 DEF VaultOpens, Fragile, At, Ops, Ended
    <2>5. AppOpen'
      BY <1>4 DEF AppOpen, Entered, Settled, Tied, At, Ops, Ended
    <2>6. WipeOK'
      BY <1>2, <1>4, <1>5
         DEF WipeOK, AppOpen, Entered, Settled, Tied, At, Ops, Ended, Emptied,
         Holds, Bare
    <2> QED
      BY <2>3, <2>4, <2>5, <2>6 DEF Calm
  <1> QED
    BY <1>6, <1>7 DEF VaultInv

(* The app boots,                                                           *)
LEMMA BootKeeps ==
    ASSUME VaultInv, Boot
    PROVE  VaultInv'
  <1>1. Types /\ Tied /\ (~disturbed => Calm)
    BY DEF VaultInv
  <1>2. /\ Enter("unlock", ui) \in Screens /\ Enter("unlock", ui).phase = "unlock"
        /\ Enter("unlock", ui).status = ui.status /\ Enter("unlock", ui).shown = ui.shown
        /\ ui.phase = "unlock" => Enter("unlock", ui) = ui
        /\ ui.phase # "unlock" => Enter("unlock", ui).forged = FALSE /\ Enter("unlock", ui).dialog = "no"
    <2>1. "unlock" \in Phases /\ ui \in Screens
      BY <1>1 DEF Types, Phases
    <2> QED
      BY <2>1, EnterFacts
  <1>3. /\ Enter("landing", ui) \in Screens /\ Enter("landing", ui).phase = "landing"
        /\ Enter("landing", ui).status = ui.status /\ Enter("landing", ui).shown = ui.shown
        /\ ui.phase = "landing" => Enter("landing", ui) = ui
        /\ ui.phase # "landing" => Enter("landing", ui).forged = FALSE /\ Enter("landing", ui).dialog = "no"
    <2>1. "landing" \in Phases /\ ui \in Screens
      BY <1>1 DEF Types, Phases
    <2> QED
      BY <2>1, EnterFacts
  <1>4. /\ ui' \in Screens /\ ui'.forged = FALSE /\ ui'.dialog = "no" /\ ui'.status # "unlocked"
        /\ ui'.phase = (IF disk.vault # NoKey THEN "unlock" ELSE "landing")
    BY <1>2, <1>3 DEF Boot, Screens
  <1>5. /\ disk' = disk /\ deleting' = deleting /\ handle' = handle /\ refs' = refs
        /\ task' = task /\ inFlight' = inFlight
        /\ used' = used /\ wiped' = wiped /\ disturbed' = disturbed
        /\ reloads' = reloads /\ ui.phase = "boot" /\ ~deleting
    BY <1>1, <1>4 DEF Boot, openMeta
  <1>6. Types' /\ Tied'
    BY <1>1, <1>4, <1>5 DEF Types, Tied
  <1>7. ASSUME ~disturbed' PROVE Calm'
    <2>1. /\ Calm /\ AppOpen /\ VaultOpens /\ WipedOK /\ CreateOK /\ UnlockOK
          /\ RecoveryOK /\ ImportOK /\ WipeOK /\ Single
      BY <1>1, <1>5, <1>7 DEF Calm
    <2>2. Single'
      BY <1>5, <2>1 DEF Single, Types, Tied, At, Ops, Emptied, Bare, Holds
    <2>3. VaultOpens'
      BY <1>5, <2>1
         DEF VaultOpens, Fragile, Types, Tied, At, Ops, Emptied, Bare, Holds
    <2>4. AppOpen'
      BY <1>4
         DEF AppOpen, Entered, Settled, Types, Tied, At, Ops, Emptied, Bare, Holds
    <2>5. CreateOK'
      BY <1>5, <2>1 DEF CreateOK, Types, Tied, At, Ops, Emptied, Bare, Holds
    <2>6. UnlockOK'
      BY <1>5, <2>1 DEF UnlockOK, Types, Tied, At, Ops, Emptied, Bare, Holds
    <2>7. RecoveryOK'
      BY <1>5, <2>1 DEF RecoveryOK, Types, Tied, At, Ops, Emptied, Bare, Holds
    <2>8. ImportOK'
      BY <1>5, <2>1 DEF ImportOK, Types, Tied, At, Ops, Emptied, Bare, Holds
    <2>9. WipeOK'
      BY <1>5, <2>1 DEF WipeOK, Types, Tied, At, Ops, Emptied, Bare, Holds
    <2>10. WipedOK'
      BY <1>4, <1>5, <2>1 DEF WipedOK, Types, Tied, At, Ops, Emptied, Bare, Holds
    <2> QED
      BY <2>2, <2>3, <2>4, <2>5, <2>6, <2>7, <2>8, <2>9, <2>10 DEF Calm
  <1> QED
    BY <1>6, <1>7 DEF VaultInv

(* moves to and from onboarding,                                            *)
LEMMA OnboardingKeeps ==
    ASSUME VaultInv, Onboarding
    PROVE  VaultInv'
  <1>1. Types /\ Tied /\ (~disturbed => Calm)
    BY DEF VaultInv
  <1>2. /\ Enter("onboarding", ui) \in Screens /\ Enter("onboarding", ui).phase = "onboarding"
        /\ Enter("onboarding", ui).status = ui.status
        /\ Enter("onboarding", ui).shown = ui.shown
        /\ ui.phase = "onboarding" => Enter("onboarding", ui) = ui
        /\ ui.phase # "onboarding" => Enter("onboarding", ui).forged = FALSE /\ Enter("onboarding", ui).dialog = "no"
    <2>1. "onboarding" \in Phases /\ ui \in Screens
      BY <1>1 DEF Types, Phases
    <2> QED
      BY <2>1, EnterFacts
  <1>3. /\ Enter("landing", ui) \in Screens /\ Enter("landing", ui).phase = "landing"
        /\ Enter("landing", ui).status = ui.status /\ Enter("landing", ui).shown = ui.shown
        /\ ui.phase = "landing" => Enter("landing", ui) = ui
        /\ ui.phase # "landing" => Enter("landing", ui).forged = FALSE /\ Enter("landing", ui).dialog = "no"
    <2>1. "landing" \in Phases /\ ui \in Screens
      BY <1>1 DEF Types, Phases
    <2> QED
      BY <2>1, EnterFacts
  <1>4. /\ Enter("app", ui) \in Screens /\ Enter("app", ui).phase = "app"
        /\ Enter("app", ui).status = ui.status /\ Enter("app", ui).shown = ui.shown
        /\ ui.phase = "app" => Enter("app", ui) = ui
        /\ ui.phase # "app" => Enter("app", ui).forged = FALSE /\ Enter("app", ui).dialog = "no"
    <2>1. "app" \in Phases /\ ui \in Screens
      BY <1>1 DEF Types, Phases
    <2> QED
      BY <2>1, EnterFacts
  <1>5. /\ ui' \in Screens /\ ui'.forged = FALSE /\ ui'.dialog = "no"
        /\ ui'.status = ui.status /\ ui'.shown = ui.shown
        /\ \/ ui.phase = "landing" /\ ui'.phase = "onboarding"
           \/ ui.phase = "onboarding" /\ task["create"] = Ended /\ ui'.phase = "landing"
           \/ ui.phase = "onboarding" /\ ui.forged /\ ui'.phase = "app"
    BY <1>2, <1>3, <1>4 DEF Onboarding
  <1>6. /\ disk' = disk /\ deleting' = deleting /\ handle' = handle /\ refs' = refs
        /\ task' = task /\ inFlight' = inFlight
        /\ used' = used /\ wiped' = wiped /\ disturbed' = disturbed /\ reloads' = reloads
    BY <1>1, <1>5 DEF Onboarding
  <1>7. Types' /\ Tied'
    BY <1>1, <1>5, <1>6 DEF Types, Tied
  <1>8. ASSUME ~disturbed' PROVE Calm'
    <2>1. /\ Calm /\ AppOpen /\ VaultOpens /\ WipedOK /\ CreateOK /\ UnlockOK
          /\ RecoveryOK /\ ImportOK /\ WipeOK /\ Single
      BY <1>1, <1>6, <1>8 DEF Calm
    <2>2. Single'
      BY <1>6, <2>1 DEF Single, Types, Tied, At, Ops, Emptied, Bare, Holds, Ended
    <2>3. VaultOpens'
      BY <1>6, <2>1
         DEF VaultOpens, Fragile, Types, Tied, At, Ops, Emptied, Bare, Holds, Ended
    <2>4. AppOpen'
      BY <1>5, <1>6, <2>1
         DEF AppOpen, Entered, Settled, CreateOK, Types, Tied, At, Ops, Emptied,
         Bare, Holds, Ended
    <2>5. CreateOK'
      BY <1>5, <1>6, <2>1
         DEF CreateOK, Types, Tied, At, Ops, Emptied, Bare, Holds, Ended
    <2>6. UnlockOK'
      BY <1>5, <1>6, <2>1
         DEF UnlockOK, Types, Tied, At, Ops, Emptied, Bare, Holds, Ended
    <2>7. RecoveryOK'
      BY <1>5, <1>6, <2>1
         DEF RecoveryOK, Types, Tied, At, Ops, Emptied, Bare, Holds, Ended
    <2>8. ImportOK'
      BY <1>5, <1>6, <2>1
         DEF ImportOK, Types, Tied, At, Ops, Emptied, Bare, Holds, Ended
    <2>9. WipeOK'
      BY <1>5, <1>6, <2>1
         DEF WipeOK, Types, Tied, At, Ops, Emptied, Bare, Holds, Ended
    <2>10. WipedOK'
      BY <1>5, <1>6, <2>1
         DEF WipedOK, Types, Tied, At, Ops, Emptied, Bare, Holds, Ended
    <2> QED
      BY <2>2, <2>3, <2>4, <2>5, <2>6, <2>7, <2>8, <2>9, <2>10 DEF Calm
  <1> QED
    BY <1>7, <1>8 DEF VaultInv

(* lets a file be picked                                                    *)
LEMMA PickFileKeeps ==
    ASSUME VaultInv, PickFile
    PROVE  VaultInv'
  <1>1. Types /\ Tied /\ (~disturbed => Calm)
    BY DEF VaultInv
  <1>2. /\ disk' = disk /\ deleting' = deleting /\ handle' = handle /\ refs' = refs
        /\ task' = task /\ inFlight' = inFlight
        /\ used' = used /\ wiped' = wiped /\ disturbed' = disturbed /\ reloads' = reloads
        /\ ui' \in Screens /\ ui'.forged = ui.forged /\ ui'.dialog = ui.dialog
        /\ ui'.status = ui.status
        /\ ui'.shown = ui.shown /\ ui'.phase = ui.phase
    BY <1>1, <1>1 DEF PickFile, Types, Screens
  <1>3. Types' /\ Tied'
    BY <1>1, <1>1, <1>2 DEF Types, Tied
  <1>4. ASSUME ~disturbed' PROVE Calm'
    <2>1. /\ Calm /\ AppOpen /\ VaultOpens /\ WipedOK /\ CreateOK /\ UnlockOK
          /\ RecoveryOK /\ ImportOK /\ WipeOK /\ Single
      BY <1>1, <1>2, <1>4 DEF Calm
    <2>2. Single'
      BY <1>2, <2>1 DEF Single, Types, Tied, At, Ops, Emptied, Bare, Holds
    <2>3. VaultOpens'
      BY <1>2, <2>1
         DEF VaultOpens, Fragile, Types, Tied, At, Ops, Emptied, Bare, Holds
    <2>4. AppOpen'
      BY <1>2, <2>1
         DEF AppOpen, Entered, Settled, Types, Tied, At, Ops, Emptied, Bare, Holds
    <2>5. CreateOK'
      BY <1>2, <2>1 DEF CreateOK, Types, Tied, At, Ops, Emptied, Bare, Holds
    <2>6. UnlockOK'
      BY <1>2, <2>1 DEF UnlockOK, Types, Tied, At, Ops, Emptied, Bare, Holds
    <2>7. RecoveryOK'
      BY <1>2, <2>1 DEF RecoveryOK, Types, Tied, At, Ops, Emptied, Bare, Holds
    <2>8. ImportOK'
      BY <1>2, <2>1 DEF ImportOK, Types, Tied, At, Ops, Emptied, Bare, Holds
    <2>9. WipeOK'
      BY <1>2, <2>1 DEF WipeOK, Types, Tied, At, Ops, Emptied, Bare, Holds
    <2>10. WipedOK'
      BY <1>2, <2>1 DEF WipedOK, Types, Tied, At, Ops, Emptied, Bare, Holds
    <2> QED
      BY <2>2, <2>3, <2>4, <2>5, <2>6, <2>7, <2>8, <2>9, <2>10 DEF Calm
  <1> QED
    BY <1>3, <1>4 DEF VaultInv

(* and hears of it.                                                         *)
LEMMA FileReadKeeps ==
    ASSUME VaultInv, FileRead
    PROVE  VaultInv'
  <1>1. Types /\ Tied /\ (~disturbed => Calm)
    BY DEF VaultInv
  <1>2. /\ disk' = disk /\ deleting' = deleting /\ handle' = handle /\ refs' = refs
        /\ task' = task /\ inFlight' = inFlight
        /\ used' = used /\ wiped' = wiped /\ disturbed' = disturbed /\ reloads' = reloads
        /\ ui' \in Screens /\ ui'.forged = ui.forged /\ ui'.status = ui.status
        /\ ui'.shown = ui.shown /\ ui'.phase = ui.phase
        /\ (ui'.dialog # ui.dialog => ui.phase = "app")
    BY <1>1, <1>1 DEF FileRead, Types, Screens
  <1>3. Types' /\ Tied'
    BY <1>1, <1>1, <1>2 DEF Types, Tied
  <1>4. ASSUME ~disturbed' PROVE Calm'
    <2>1. /\ Calm /\ AppOpen /\ VaultOpens /\ WipedOK /\ CreateOK /\ UnlockOK
          /\ RecoveryOK /\ ImportOK /\ WipeOK /\ Single
      BY <1>1, <1>2, <1>4 DEF Calm
    <2>2. Single'
      BY <1>2, <2>1 DEF Single, Types, Tied, At, Ops, Emptied, Bare, Holds
    <2>3. VaultOpens'
      BY <1>2, <2>1
         DEF VaultOpens, Fragile, Types, Tied, At, Ops, Emptied, Bare, Holds
    <2>4. AppOpen'
      BY <1>2, <2>1
         DEF AppOpen, Entered, Settled, Types, Tied, At, Ops, Emptied, Bare, Holds
    <2>5. CreateOK'
      BY <1>2, <2>1 DEF CreateOK, Types, Tied, At, Ops, Emptied, Bare, Holds
    <2>6. UnlockOK'
      BY <1>2, <2>1 DEF UnlockOK, Types, Tied, At, Ops, Emptied, Bare, Holds
    <2>7. RecoveryOK'
      BY <1>2, <2>1 DEF RecoveryOK, Types, Tied, At, Ops, Emptied, Bare, Holds
    <2>8. ImportOK'
      BY <1>2, <2>1 DEF ImportOK, Types, Tied, At, Ops, Emptied, Bare, Holds
    <2>9. WipeOK'
      BY <1>2, <2>1 DEF WipeOK, Types, Tied, At, Ops, Emptied, Bare, Holds
    <2>10. WipedOK'
      BY <1>2, <2>1 DEF WipedOK, Types, Tied, At, Ops, Emptied, Bare, Holds
    <2> QED
      BY <2>2, <2>3, <2>4, <2>5, <2>6, <2>7, <2>8, <2>9, <2>10 DEF Calm
  <1> QED
    BY <1>3, <1>4 DEF VaultInv

(* The vault is locked: undisturbed, no operation has more to write.        *)
LEMMA LockKeeps ==
    ASSUME VaultInv, LockVault
    PROVE  VaultInv'
  <1>1. Types /\ Tied /\ (~disturbed => Calm)
    BY DEF VaultInv
  <1>2. /\ Enter("unlock", ui) \in Screens /\ Enter("unlock", ui).phase = "unlock"
        /\ Enter("unlock", ui).status = ui.status /\ Enter("unlock", ui).shown = ui.shown
        /\ ui.phase = "unlock" => Enter("unlock", ui) = ui
        /\ ui.phase # "unlock" => Enter("unlock", ui).forged = FALSE /\ Enter("unlock", ui).dialog = "no"
    <2>1. "unlock" \in Phases /\ ui \in Screens
      BY <1>1 DEF Types, Phases
    <2> QED
      BY <2>1, EnterFacts
  <1>3. ui' \in Screens /\ ui'.forged = FALSE /\ ui'.dialog = "no" /\ ui'.phase = "unlock"
    <2>1. ui' = [Enter("unlock", ui) EXCEPT !.status = "locked", !.shown = NoKey]
      BY DEF LockVault
    <2>2. ui.phase = "unlock" => ui.forged = FALSE /\ ui.dialog = "no"
      BY <1>1 DEF Tied, Types, Screens
    <2> QED
      BY <1>2, <2>1, <2>2 DEF Screens, Ids
  <1>4. /\ disk' = disk /\ deleting' = deleting /\ handle' = handle /\ task' = task
        /\ used' = used /\ wiped' = wiped /\ reloads' = reloads /\ inFlight' \subseteq Key
        /\ refs' \in References /\ refs'.storage = refs.storage
        /\ ui.phase = "app" \/ ui.status = "unlocked"
        /\ disturbed' \in BOOLEAN
        /\ ~disturbed' => ~disturbed /\ \A q \in Ops : task[q].at \in {"end", "load"}
    BY <1>1, <1>3 DEF LockVault, Types, References, Ids, Running, At
  <1>5. Types' /\ Tied'
    BY <1>1, <1>3, <1>4 DEF Types, Tied
  <1>6. ASSUME ~disturbed' PROVE Calm'
    <2>1. /\ Calm /\ AppOpen /\ VaultOpens /\ WipedOK /\ CreateOK /\ UnlockOK
          /\ RecoveryOK /\ ImportOK /\ WipeOK /\ Single
      BY <1>1, <1>4, <1>6 DEF Calm
    <2>2. Single'
      BY <1>4, <2>1 DEF Single, Types, Tied, At, Ops, Emptied, Bare, Holds
    <2>3. VaultOpens'
      BY <1>4, <2>1
         DEF VaultOpens, Fragile, Types, Tied, At, Ops, Emptied, Bare, Holds
    <2>4. AppOpen'
      BY <1>3
         DEF AppOpen, Entered, Settled, Types, Tied, At, Ops, Emptied, Bare, Holds
    <2>5. CreateOK'
      BY <1>3, <1>4, <1>6, <2>1
         DEF CreateOK, Types, Tied, At, Ops, Emptied, Bare, Holds
    <2>6. UnlockOK'
      BY <1>4, <1>6, <2>1 DEF UnlockOK, Types, Tied, At, Ops, Emptied, Bare, Holds
    <2>7. RecoveryOK'
      BY <1>4, <1>6, <2>1 DEF RecoveryOK, Types, Tied, At, Ops, Emptied, Bare, Holds
    <2>8. ImportOK'
      BY <1>4, <1>6, <2>1 DEF ImportOK, Types, Tied, At, Ops, Emptied, Bare, Holds
    <2>9. WipeOK'
      BY <1>3, <1>4, <2>1 DEF WipeOK, Types, Tied, At, Ops, Emptied, Bare, Holds
    <2>10. WipedOK'
      BY <1>4, <2>1 DEF WipedOK, Types, Tied, At, Ops, Emptied, Bare, Holds
    <2> QED
      BY <2>2, <2>3, <2>4, <2>5, <2>6, <2>7, <2>8, <2>9, <2>10 DEF Calm
  <1> QED
    BY <1>5, <1>6 DEF VaultInv

(* A callback starts a write,                                               *)
LEMMA CallbackKeeps ==
    ASSUME VaultInv, Callback
    PROVE  VaultInv'
  <1>1. Types /\ Tied /\ (~disturbed => Calm)
    BY DEF VaultInv
  <1>2. /\ disk' = disk /\ deleting' = deleting /\ handle' = handle /\ refs' = refs
        /\ task' = task
        /\ ui' = ui /\ inFlight' \subseteq Key
        /\ used' = used /\ wiped' = wiped /\ disturbed' = disturbed /\ reloads' = reloads
    BY <1>1, <1>1 DEF Callback, Types
  <1>3. Types' /\ Tied'
    BY <1>1, <1>1, <1>2 DEF Types, Tied
  <1>4. ASSUME ~disturbed' PROVE Calm'
    <2>1. /\ Calm /\ AppOpen /\ VaultOpens /\ WipedOK /\ CreateOK /\ UnlockOK
          /\ RecoveryOK /\ ImportOK /\ WipeOK /\ Single
      BY <1>1, <1>2, <1>4 DEF Calm
    <2>2. Single'
      BY <1>2, <2>1 DEF Single, Types, Tied, At, Ops, Emptied, Bare, Holds
    <2>3. VaultOpens'
      BY <1>2, <2>1
         DEF VaultOpens, Fragile, Types, Tied, At, Ops, Emptied, Bare, Holds
    <2>4. AppOpen'
      BY <1>2, <2>1
         DEF AppOpen, Entered, Settled, Types, Tied, At, Ops, Emptied, Bare, Holds
    <2>5. CreateOK'
      BY <1>2, <2>1 DEF CreateOK, Types, Tied, At, Ops, Emptied, Bare, Holds
    <2>6. UnlockOK'
      BY <1>2, <2>1 DEF UnlockOK, Types, Tied, At, Ops, Emptied, Bare, Holds
    <2>7. RecoveryOK'
      BY <1>2, <2>1 DEF RecoveryOK, Types, Tied, At, Ops, Emptied, Bare, Holds
    <2>8. ImportOK'
      BY <1>2, <2>1 DEF ImportOK, Types, Tied, At, Ops, Emptied, Bare, Holds
    <2>9. WipeOK'
      BY <1>2, <2>1 DEF WipeOK, Types, Tied, At, Ops, Emptied, Bare, Holds
    <2>10. WipedOK'
      BY <1>2, <2>1 DEF WipedOK, Types, Tied, At, Ops, Emptied, Bare, Holds
    <2> QED
      BY <2>2, <2>3, <2>4, <2>5, <2>6, <2>7, <2>8, <2>9, <2>10 DEF Calm
  <1> QED
    BY <1>3, <1>4 DEF VaultInv

(* which lands.                                                             *)
LEMMA WriteLandsKeeps ==
    ASSUME VaultInv, WriteLands
    PROVE  VaultInv'
  <1>1. Types /\ Tied /\ (~disturbed => Calm)
    BY DEF VaultInv
  <1>2. /\ disk' \in Disks /\ disk'.vault = disk.vault /\ disk'.identity = disk.identity
        /\ deleting' = deleting /\ ~deleting /\ handle' = TRUE /\ refs' = refs /\ task' = task
        /\ ui' = ui /\ inFlight' \subseteq Key
        /\ used' = used /\ wiped' = wiped /\ disturbed' = disturbed /\ reloads' = reloads
    BY <1>1, <1>1 DEF WriteLands, Types, CanOpen, Disks
  <1>3. Types' /\ Tied'
    BY <1>1, <1>1, <1>2 DEF Types, Tied
  <1>4. ASSUME ~disturbed' PROVE Calm'
    <2>1. /\ Calm /\ AppOpen /\ VaultOpens /\ WipedOK /\ CreateOK /\ UnlockOK
          /\ RecoveryOK /\ ImportOK /\ WipeOK /\ Single
      BY <1>1, <1>2, <1>4 DEF Calm
    <2>2. Single'
      BY <1>2, <2>1 DEF Single, Types, Tied, At, Ops, Emptied, Bare, Holds
    <2>3. VaultOpens'
      BY <1>2, <2>1
         DEF VaultOpens, Fragile, Types, Tied, At, Ops, Emptied, Bare, Holds
    <2>4. AppOpen'
      BY <1>2, <2>1
         DEF AppOpen, Entered, Settled, Types, Tied, At, Ops, Emptied, Bare, Holds
    <2>5. CreateOK'
      BY <1>2, <2>1 DEF CreateOK, Types, Tied, At, Ops, Emptied, Bare, Holds
    <2>6. UnlockOK'
      BY <1>2, <2>1 DEF UnlockOK, Types, Tied, At, Ops, Emptied, Bare, Holds
    <2>7. RecoveryOK'
      BY <1>2, <2>1 DEF RecoveryOK, Types, Tied, At, Ops, Emptied, Bare, Holds
    <2>8. ImportOK'
      BY <1>2, <2>1 DEF ImportOK, Types, Tied, At, Ops, Emptied, Bare, Holds
    <2>9. WipeOK'
      BY <1>2, <2>1 DEF WipeOK, Types, Tied, At, Ops, Emptied, Bare, Holds
    <2>10. WipedOK'
      BY <1>2, <2>1 DEF WipedOK, Types, Tied, At, Ops, Emptied, Bare, Holds
    <2> QED
      BY <2>2, <2>3, <2>4, <2>5, <2>6, <2>7, <2>8, <2>9, <2>10 DEF Calm
  <1> QED
    BY <1>3, <1>4 DEF VaultInv

(* A deletion goes on, which no operation that holds the vault has pending. *)
LEMMA DeletionEndsKeeps ==
    ASSUME VaultInv, DeletionEnds
    PROVE  VaultInv'
  <1>1. Types /\ Tied /\ (~disturbed => Calm)
    BY DEF VaultInv
  <1>2. /\ disk' \in Disks /\ disk'.vault = NoKey /\ disk'.identity = NoIdentity
        /\ deleting /\ deleting' = FALSE /\ ~handle /\ handle' = handle
        /\ refs' = refs /\ task' = task
        /\ ui' = ui /\ inFlight' = inFlight
        /\ used' = used /\ wiped' = wiped /\ disturbed' = disturbed /\ reloads' = reloads
    BY <1>1, <1>1 DEF DeletionEnds, Types, Disks, EmptyDisk, NoIdentity, Ids
  <1>3. Types' /\ Tied'
    BY <1>1, <1>1, <1>2 DEF Types, Tied
  <1>4. ASSUME ~disturbed' PROVE Calm'
    <2>1. /\ Calm /\ AppOpen /\ VaultOpens /\ WipedOK /\ CreateOK /\ UnlockOK
          /\ RecoveryOK /\ ImportOK /\ WipeOK /\ Single
      BY <1>1, <1>2, <1>4 DEF Calm
    <2>2. Single'
      BY <1>2, <2>1 DEF Single, Types, Tied, At, Ops, Emptied, Bare, Holds
    <2>3. VaultOpens'
      BY <1>2 DEF VaultOpens, Fragile, Types, Tied, At, Ops, Emptied, Bare, Holds
    <2>4. AppOpen'
      BY <1>2, <2>1
         DEF AppOpen, Entered, Settled, Types, Tied, At, Ops, Emptied, Bare, Holds
    <2>5. CreateOK'
      BY <1>2, <2>1 DEF CreateOK, Types, Tied, At, Ops, Emptied, Bare, Holds
    <2>6. UnlockOK'
      BY <1>2, <2>1 DEF UnlockOK, Types, Tied, At, Ops, Emptied, Bare, Holds
    <2>7. RecoveryOK'
      BY <1>2, <2>1 DEF RecoveryOK, Types, Tied, At, Ops, Emptied, Bare, Holds
    <2>8. ImportOK'
      BY <1>2, <2>1 DEF ImportOK, Types, Tied, At, Ops, Emptied, Bare, Holds
    <2>9. WipeOK'
      BY <1>2, <2>1 DEF WipeOK, Types, Tied, At, Ops, Emptied, Bare, Holds
    <2>10. WipedOK'
      BY <1>2, <2>1 DEF WipedOK, Types, Tied, At, Ops, Emptied, Bare, Holds
    <2> QED
      BY <2>2, <2>3, <2>4, <2>5, <2>6, <2>7, <2>8, <2>9, <2>10 DEF Calm
  <1> QED
    BY <1>3, <1>4 DEF VaultInv

(* The page goes, at a moment that is not fragile.                          *)
LEMMA ReloadKeeps ==
    ASSUME VaultInv, Reload
    PROVE  VaultInv'
  <1>1. Types /\ Tied /\ (~disturbed => Calm)
    BY DEF VaultInv
  <1>2. PICK carriedOut \in {deleting, FALSE} :
            /\ disk' = IF carriedOut THEN EmptyDisk ELSE disk
            /\ disturbed' = (disturbed \/ Fragile \/ (deleting /\ ~carriedOut))
    BY DEF Reload
  <1>3. /\ deleting' = FALSE /\ handle' = FALSE /\ refs' = NoRefs /\ ui' = FirstScreen
        /\ inFlight' = {} /\ used' = used /\ wiped' = wiped
        /\ \A o \in Ops : task'[o].at = "end"
    BY DEF Reload, Ended
  <1>4. Types' /\ Tied'
    <2>1. disk' \in Disks /\ ui' \in Screens /\ refs' \in References
      BY <1>1, <1>2, <1>3
         DEF Types, Disks, EmptyDisk, NoIdentity, Ids, FirstScreen, Screens, Phases,
         NoRefs, References
    <2>2. task' \in [Ops -> Tasks] /\ reloads' \in 0..MaxReloads
      BY <1>1, VaultAssumption
         DEF Reload, Types, Tasks, Ended, Places, Ids, VaultAssumption
    <2>3. disturbed' \in BOOLEAN
      BY <1>1, <1>2 DEF Types
    <2> QED
      BY <1>1, <1>3, <2>1, <2>2, <2>3 DEF Types, Tied, FirstScreen
  <1>5. ASSUME ~disturbed' PROVE Calm'
    <2>1. Calm /\ VaultOpens /\ WipedOK /\ ~Fragile /\ (carriedOut = deleting)
      BY <1>1, <1>2, <1>5 DEF Calm, Types
    <2>2. Single' /\ CreateOK' /\ UnlockOK' /\ RecoveryOK' /\ ImportOK' /\ WipeOK'
      BY <1>3 DEF Single, CreateOK, UnlockOK, RecoveryOK, ImportOK, WipeOK, At, Ops
    <2>3. disk' = (IF deleting THEN EmptyDisk ELSE disk)
      BY <1>2, <2>1
    <2>4. VaultOpens'
      <3>1. ~disturbed
        BY <1>2, <1>5
      <3> QED
        BY <2>1, <2>3, <3>1 DEF VaultOpens, EmptyDisk
    <2>5. AppOpen'
      BY <1>3 DEF AppOpen, Entered, At, Ops, FirstScreen
    <2>6. WipedOK'
      BY <1>3, <2>1, <2>3
         DEF WipedOK, Emptied, Bare, EmptyDisk, FirstScreen, At, Types
    <2> QED
      BY <2>2, <2>4, <2>5, <2>6 DEF Calm
  <1> QED
    BY <1>4, <1>5 DEF VaultInv

(* It starts so.                                                            *)
LEMMA InitVault == Init => VaultInv
  <1> SUFFICES ASSUME Init PROVE VaultInv
    OBVIOUS
  <1>1. Types
    <2>1. disk \in Disks /\ ui \in Screens /\ refs \in References
      BY DEF Init, Disks, EmptyDisk, NoIdentity, Ids, FirstScreen, Screens, Phases,
         NoRefs, References
    <2>2. task \in [Ops -> Tasks] /\ reloads \in 0..MaxReloads
      BY VaultAssumption DEF Init, Tasks, Ended, Places, Ids, VaultAssumption
    <2> QED
      BY <2>1, <2>2 DEF Init, Types
  <1>2. /\ \A o \in Ops : task[o].at = "end"
        /\ ui.phase = "boot" /\ ui.status = "none" /\ ui.forged = FALSE /\ ui.dialog = "no"
        /\ disk.vault = NoKey /\ disk.identity = NoIdentity /\ wiped = FALSE
    BY DEF Init, Ended, FirstScreen, EmptyDisk
  <1>3. /\ Tied /\ Single /\ VaultOpens /\ CreateOK /\ UnlockOK /\ RecoveryOK
        /\ ImportOK /\ WipeOK /\ WipedOK
    BY <1>2
       DEF Tied, Single, VaultOpens, CreateOK, UnlockOK, RecoveryOK, ImportOK,
       WipeOK, WipedOK, At, Ops
  <1>4. AppOpen
    BY <1>2 DEF AppOpen, Entered, At, Ops
  <1> QED
    BY <1>1, <1>3, <1>4 DEF VaultInv, Calm

(* Every step keeps the invariant.                                          *)
LEMMA StepKeepsVault == VaultInv /\ [Next]_vars => VaultInv'
  <1> SUFFICES ASSUME VaultInv, [Next]_vars PROVE VaultInv'
    OBVIOUS
  <1>1. CASE UNCHANGED vars
    <2>1. /\ disk' = disk /\ deleting' = deleting /\ handle' = handle
          /\ refs' = refs /\ ui' = ui /\ task' = task
          /\ inFlight' = inFlight /\ used' = used /\ wiped' = wiped
          /\ disturbed' = disturbed /\ reloads' = reloads
      BY <1>1 DEF vars
    <2>2. Types' = Types /\ Tied' = Tied
      BY <2>1 DEF Types, Tied
    <2>3. Single' = Single /\ VaultOpens' = VaultOpens /\ AppOpen' = AppOpen
      BY <2>1 DEF Single, VaultOpens, Fragile, AppOpen, Entered, Settled, At
    <2>4. CreateOK' = CreateOK /\ UnlockOK' = UnlockOK /\ RecoveryOK' = RecoveryOK
      BY <2>1 DEF CreateOK, UnlockOK, RecoveryOK, Holds, Emptied, Bare
    <2>5. ImportOK' = ImportOK /\ WipeOK' = WipeOK /\ WipedOK' = WipedOK
      BY <2>1 DEF ImportOK, WipeOK, WipedOK, Holds, Emptied, Bare, At
    <2> QED
      BY <2>1, <2>2, <2>3, <2>4, <2>5 DEF VaultInv, Calm
  <1>2. CASE Boot \/ Onboarding \/ PickFile \/ FileRead
    BY <1>2, BootKeeps, OnboardingKeeps, PickFileKeeps, FileReadKeeps
  <1>3. CASE CreateStarts \/ UnlockStarts \/ RecoveryStarts \/ ImportStarts \/ WipeStarts
    BY <1>3, CreateStartsKeeps, UnlockStartsKeeps, RecoveryStartsKeeps,
       ImportStartsKeeps, WipeStartsKeeps
  <1>4. CASE OpStep
    BY <1>4, CreateKeeps, UnlockKeeps, RecoveryKeeps, ImportKeeps, WipeKeeps
       DEF OpStep
  <1>5. CASE LockVault \/ Callback \/ WriteLands \/ DeletionEnds \/ Reload
    BY <1>5, LockKeeps, CallbackKeeps, WriteLandsKeeps, DeletionEndsKeeps,
       ReloadKeeps
  <1> QED
    BY <1>1, <1>2, <1>3, <1>4, <1>5 DEF Next

(* The invariant says what the properties ask.                              *)
LEMMA VaultInvSays == VaultInv => VaultOpens /\ VaultAgrees /\ WipeErases
  <1> SUFFICES ASSUME VaultInv PROVE VaultOpens /\ VaultAgrees /\ WipeErases
    OBVIOUS
  <1>1. Types /\ (~disturbed => Calm)
    BY DEF VaultInv
  <1>2. VaultOpens
    BY <1>1 DEF VaultOpens, Calm
  <1>3. ShownIdentityIsStored
    <2> SUFFICES ASSUME ~disturbed, Running = {}, ui.phase = "app"
                 PROVE  disk.identity.id = ui.shown
      BY DEF ShownIdentityIsStored
    <2>1. \A o \in Ops : task[o].at = "end"
      BY DEF Running
    <2> QED
      BY <1>1, <2>1 DEF Calm, AppOpen, Entered, Settled, At, Ops
  <1>4. WipeErases
    BY <1>1 DEF WipeErases, Calm, WipedOK, Emptied, Bare
  <1> QED
    BY <1>1, <1>2, <1>3, <1>4, TypesAre DEF VaultAgrees

(* A vault record on disk opens, whatever locks, reloads, stray writes and  *)
(* operations there are, except after one of the named moments: onboarding  *)
(* is crash-safe.                                                           *)
THEOREM VaultAlwaysOpens == Spec => []VaultOpens
  BY InitVault, StepKeepsVault, VaultInvSays, PTL DEF Spec

(* The types hold, no connection outlives a pending deletion, and the       *)
(* identity the app shows is the one a later unlock loads.                  *)
THEOREM VaultAlwaysAgrees == Spec => []VaultAgrees
  BY InitVault, StepKeepsVault, VaultInvSays, PTL DEF Spec

(* Once wipeEverything has ended and the browser has let the deletion go    *)
(* on, nothing is left that could be unlocked.                              *)
THEOREM WipeAlwaysErases == Spec => []WipeErases
  BY InitVault, StepKeepsVault, VaultInvSays, PTL DEF Spec

-----------------------------------------------------------------------------
(* The automatic lock.                                                      *)

(* The strengthening.  Since the interval last ran neither limit was        *)
(* reached, so each age exceeds its limit by less than the time since then; *)
(* and a hidden page is known to be hidden unless the effect started over.  *)
InTime ==
    unlocked /\ "frozen" \notin amiss =>
        sinceCheck <= Period /\ idle < idleLimit + sinceCheck
Known ==
    unlocked /\ hidden /\ amiss = {} =>
        marked /\ (settings.onHide => away < HideDelay + sinceCheck)
IInv == LockTypeOK /\ InTime /\ Known

(* The constants, as the provers need them.                                 *)
LEMMA Positive ==
    /\ Minutes \subseteq Nat /\ MaxLate \in Nat
    /\ Minute \in Nat \ {0} /\ HideDelay \in Nat \ {0} /\ Period \in Nat \ {0}
  BY AutoLockAssumption

(* The interval may at least come in time.                                  *)
LEMMA LateNat == Late \in Nat /\ 0 \in 0..Late
  BY Positive DEF Late

(* Whatever the setting, the idle limit is a positive number of units.      *)
LEMMA LimitPositive ==
    ASSUME NEW s \in Settings PROVE Larger(1, s.minutes) * Minute \in Nat \ {0}
<1>1. s.minutes \in Nat
  BY Positive DEF Settings
<1>2. Larger(1, s.minutes) \in Nat \ {0}
  BY <1>1 DEF Larger
<1>3. \A m, n \in Nat \ {0} : m * n \in Nat \ {0}
  OBVIOUS
<1> QED
  BY <1>2, <1>3, Positive

(* The hook starts with a locked vault.                                     *)
LEMMA InitInv == LockInit => IInv
<1> SUFFICES ASSUME LockInit PROVE IInv
  OBVIOUS
<1>1. LockTypeOK
  BY LateNat DEF LockInit, LockTypeOK
<1>2. InTime /\ Known
  BY DEF LockInit, InTime, Known
<1> QED
  BY <1>1, <1>2 DEF IInv

(* An effect that starts over satisfies both limits at once; a hidden page  *)
(* is then put down to the restart.                                         *)
LEMMA RestartsKeeps ==
    ASSUME settings' \in Settings, Restarts, hidden' = hidden, amiss \subseteq Ways
    PROVE  InTime' /\ Known' /\ idle' = 0 /\ sinceCheck' = 0 /\ marked' = FALSE
           /\ amiss' \subseteq Ways
<1>1. idleLimit' \in Nat \ {0}
  BY LimitPositive DEF idleLimit
<1>2. idle' = 0 /\ sinceCheck' = 0 /\ marked' = FALSE
  BY DEF Restarts, Armed
<1>3. sinceCheck' <= Period
  BY <1>2, Positive
<1>4. \A limit \in Nat \ {0} : 0 < limit + 0
  OBVIOUS
<1>5. 0 < idleLimit' + 0
  BY <1>1, <1>4
<1>6. idle' < idleLimit' + sinceCheck'
  BY <1>2, <1>5
<1>7. InTime'
  BY <1>3, <1>6 DEF InTime
<1>8. amiss' = IF hidden THEN amiss \cup {"restarted"} ELSE amiss
  BY DEF Restarts
<1>9. amiss' \subseteq Ways
  BY <1>8 DEF Ways
<1>10. hidden => amiss' # {}
  BY <1>8
<1>11. Known'
  BY <1>10 DEF Known
<1> QED
  BY <1>2, <1>7, <1>11, <1>9

(* Locking leaves nothing to claim.                                         *)
LEMMA LockNowKeeps ==
    ASSUME LockTypeOK, lockVault PROVE IInv'
<1>1. LockTypeOK'
  BY LateNat DEF LockTypeOK, lockVault
<1>2. InTime' /\ Known'
  BY DEF LockTypeOK, lockVault, InTime, Known
<1> QED
  BY <1>1, <1>2 DEF IInv

(* Every step preserves the strengthening.                                  *)
LEMMA NextInv == IInv /\ [LockNext]_lockVars => IInv'
<1> SUFFICES ASSUME IInv, [LockNext]_lockVars PROVE IInv'
  OBVIOUS
<1> USE Positive
<1>0. LockTypeOK /\ InTime /\ Known /\ idleLimit \in Nat \ {0}
  BY LimitPositive DEF IInv, LockTypeOK, idleLimit
<1>late. Late \in Nat /\ 0 \in 0..Late
  BY LateNat
<1>same. settings' = settings => idleLimit' = idleLimit
  BY DEF idleLimit
<1>1. CASE unlockVault
  <2>1. settings' \in Settings /\ hidden' = hidden /\ amiss \subseteq Ways
    BY <1>0, <1>1 DEF unlockVault, LockTypeOK
  <2>2. InTime' /\ Known' /\ idle' = 0 /\ sinceCheck' = 0 /\ marked' = FALSE /\ amiss' \subseteq Ways
    BY <1>1, <2>1, RestartsKeeps DEF unlockVault
  <2> QED
    BY <1>0, <1>1, <1>late, <2>1, <2>2 DEF unlockVault, IInv, LockTypeOK
<1>2. CASE LockNow
  BY <1>0, <1>2, LockNowKeeps DEF LockNow
<1>3. CASE updateSettings
  BY <1>0, <1>3, <1>same DEF updateSettings, IInv, LockTypeOK, InTime, Known
<1>4. ASSUME NEW next \in saving, SettingsSet(next) PROVE IInv'
  <2>0. settings' \in Settings /\ hidden' = hidden /\ unlocked' = unlocked /\ away' = away
        /\ saving' \subseteq Settings /\ amiss \subseteq Ways
    BY <1>0, <1>4 DEF SettingsSet, LockTypeOK
  <2>1. CASE unlocked /\ next # settings
    <3>1. InTime' /\ Known' /\ idle' = 0 /\ sinceCheck' = 0 /\ marked' = FALSE /\ amiss' \subseteq Ways
      BY <1>4, <2>0, <2>1, RestartsKeeps DEF SettingsSet
    <3> QED
      BY <1>0, <1>late, <2>0, <3>1 DEF IInv, LockTypeOK
  <2>2. CASE ~(unlocked /\ next # settings)
    <3>1. UNCHANGED <<idle, marked, sinceCheck, amiss>>
      BY <1>4, <2>2 DEF SettingsSet
    <3>2. unlocked => settings' = settings
      BY <1>4, <2>2 DEF SettingsSet
    <3>3. InTime' /\ Known'
      BY <1>0, <1>same, <2>0, <3>1, <3>2 DEF InTime, Known
    <3> QED
      BY <1>0, <2>0, <3>1, <3>3 DEF IInv, LockTypeOK
  <2> QED
    BY <2>1, <2>2
<1>5. CASE activity
  BY <1>0, <1>5, <1>same DEF activity, IInv, LockTypeOK, InTime, Known
<1>6. CASE Hide
  BY <1>0, <1>6, <1>same DEF Hide, IInv, LockTypeOK, InTime, Known
<1>7. CASE Show
  <2>1. LockTypeOK'
    BY <1>0, <1>7 DEF Show, LockTypeOK
  <2>2. InTime'
    BY <1>0, <1>7, <1>same DEF Show, LockTypeOK, InTime
  <2>3. Known'
    BY <1>7 DEF Show, Known
  <2> QED
    BY <2>1, <2>2, <2>3 DEF IInv
<1>8. CASE TimePasses
  <2>1. LockTypeOK'
    BY <1>0, <1>8, <1>late DEF TimePasses, LockTypeOK, Ways
  <2>2. InTime'
    BY <1>0, <1>8, <1>same DEF TimePasses, LockTypeOK, InTime
  <2>3. Known'
    BY <1>0, <1>8 DEF TimePasses, LockTypeOK, Known
  <2> QED
    BY <2>1, <2>2, <2>3 DEF IInv
<1>9. CASE Check
  <2>1. CASE TimeIsUp
    BY <1>0, <1>9, <2>1, LockNowKeeps DEF Check
  <2>2. CASE ~TimeIsUp
    <3>1. idle < idleLimit /\ ~(settings.onHide /\ marked /\ away >= HideDelay)
      BY <1>0, <2>2 DEF TimeIsUp, LockTypeOK
    <3> QED
      BY <1>0, <1>9, <1>late, <1>same, <2>2, <3>1 DEF Check, IInv, LockTypeOK, InTime, Known
  <2> QED
    BY <2>1, <2>2
<1>10. CASE UNCHANGED lockVars
  BY <1>0, <1>10, <1>same DEF lockVars, IInv, LockTypeOK, InTime, Known
<1> QED
  BY <1>1, <1>2, <1>3, <1>4, <1>5, <1>6, <1>7, <1>8, <1>9, <1>10 DEF LockNext

(* The strengthening gives both limits.                                     *)
LEMMA InvSuffices == IInv => LocksInTime
<1> SUFFICES ASSUME IInv PROVE LocksInTime
  OBVIOUS
<1>1. idleLimit \in Nat \ {0}
  BY LimitPositive DEF IInv, LockTypeOK, idleLimit
<1>2. IdleLocks
  BY <1>1, Positive DEF IInv, LockTypeOK, InTime, IdleLocks
<1>3. HiddenLocks
  BY Positive DEF IInv, LockTypeOK, InTime, Known, HiddenLocks
<1> QED
  BY <1>2, <1>3 DEF IInv, LocksInTime

(* The vault locks within one period of the idle limit, and of the delay on *)
(* a hidden page (use-auto-lock.ts), for every value of the constants.      *)
THEOREM AlwaysLocksInTime == LockSpec => []LocksInTime
<1>1. LockInit => IInv
  BY InitInv
<1>2. IInv /\ [LockNext]_lockVars => IInv'
  BY NextInv
<1>3. IInv => LocksInTime
  BY InvSuffices
<1> QED
  BY <1>1, <1>2, <1>3, PTL DEF LockSpec
=============================================================================

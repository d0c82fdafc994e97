------------------------------ MODULE Screens ------------------------------
(***************************************************************************)
(* What the user sees and may do: the phases, tabs and overlays of the     *)
(* application (components/app-view.tsx, shell.tsx), the controls each     *)
(* screen offers, and the operations they start.  An operation runs on     *)
(* while the user, a peer or the auto-lock moves to another screen, and    *)
(* its end changes whatever is shown by then.                              *)
(*                                                                         *)
(* What the operations do to the storage is the subject of VaultLifecycle  *)
(* and ConversationStore; here an operation starts and ends.  Two          *)
(* operations that are alike are not started together.                     *)
(*                                                                         *)
(* The history variable amiss records:                                     *)
(*   threw     unlockVault threw instead of answering                      *)
(*   crossed   an operation on the vault ended after its screen was left   *)
(*   stale     a list of contacts taken earlier replaced a newer one       *)
(*   late      an operation or a handshake ended after a lock or a wipe    *)
(*   intruded  a channel became secure away from the connect overlay       *)
(***************************************************************************)
EXTENDS Naturals, FiniteSets

CONSTANTS Contact,   \* contacts, named by their fingerprints
          MaxTasks   \* bound on the operations under way

VARIABLES
    phase,   \* AppState.phase
    vault,   \* AppState.vaultStatus
    keys,    \* privateRefs.identity is there
    disk,    \* [vault |-> is there a record?, contacts |-> those stored]
    nav,     \* AppState.overlay and the contact it is about
    local,   \* state of the mounted overlay: whose it is, compared
    wizard,  \* state of Onboarding: step, forgeDone
    form,    \* state of Unlock: busy
    dialog,  \* the ConfirmDialog that is open
    import,  \* state of BackupImportDialog: is a request open, busy
    book,    \* [shown |-> AppState.contacts, verified |-> those whose record
             \*  says so, compared |-> history: those the user compared]
    tasks,   \* operations under way
    amiss    \* history: see above

vars == <<phase, vault, keys, disk, nav, local, wizard, form, dialog, import,
          book, tasks, amiss>>
screen == <<nav, local, wizard, form, dialog, import>>

None == "none"

(* The contacts are finitely many, and none is the absence of a contact.    *)
ASSUME ScreensAssumption ==
    MaxTasks \in Nat /\ IsFiniteSet(Contact) /\ None \notin Contact

OfContact == {"chat", "contact-detail", "verify"}
Page == {"security-log"}   \* it, the threat model, about and the QR code are read and closed
Plain == {"connect", "backup"} \cup Page
Task == [op : {"unlock", "forge", "settle", "load", "verify", "delete",
               "import", "wipe"},
         who : Contact \cup {None}, mine : BOOLEAN, snap : SUBSET Contact]

FreshLocal(c) == [of |-> c, compared |-> c \in book.verified]
FirstStep == [step |-> 0, done |-> FALSE]
NoImport == [open |-> FALSE, busy |-> FALSE]

Init ==
    /\ phase = "boot" /\ keys = FALSE /\ vault = None
    /\ disk \in {[vault |-> FALSE, contacts |-> {}]}
                \cup {[vault |-> TRUE, contacts |-> C] : C \in SUBSET Contact}
    /\ nav = [overlay |-> None, contact |-> None]
    /\ local = [of |-> None, compared |-> FALSE]
    /\ wizard = FirstStep /\ form = FALSE /\ dialog = None /\ import = NoImport
    /\ \E C \in SUBSET disk.contacts : book = [shown |-> {}, verified |-> C, compared |-> C]
    /\ tasks = {} /\ amiss = {}

Blame(ways) == amiss' = amiss \cup ways
If(condition, way) == IF condition THEN {way} ELSE {}

-----------------------------------------------------------------------------
(* Routing.  A screen that is left loses its state, its operations go on.   *)
Orphans(T) == {[t EXCEPT !.mine = FALSE] : t \in T}
Leave(p) ==
    /\ phase' = p
    /\ nav' = [overlay |-> None, contact |-> None]
    /\ local' = FreshLocal(None)
    /\ wizard' = FirstStep /\ form' = FALSE
    /\ dialog' = None /\ import' = NoImport

(* An overlay of the same name is the same component: it keeps its state.   *)
ShowsKept(name, c, T) ==
    /\ nav' = [overlay |-> name, contact |-> c]
    /\ local' = [local EXCEPT !.of = IF nav.overlay = None THEN c ELSE @]
    /\ tasks' = T
    /\ dialog' = IF dialog = "delete" THEN None ELSE dialog
Shows(name, c, T) ==
    /\ nav' = [overlay |-> name, contact |-> c]
    /\ IF nav.overlay = name
       THEN /\ tasks' = T /\ UNCHANGED <<local, dialog>>
       ELSE /\ local' = FreshLocal(c)
            /\ tasks' = {[t EXCEPT !.mine = @ /\ t.op = "import"] : t \in T}
            /\ dialog' = IF dialog = "delete" THEN None ELSE dialog

(* The user acts on what is neither covered nor behind a dialog.  With no   *)
(* overlay open each tab is one press away, so the tab is not kept: setTab  *)
(* changes nothing else.                                                    *)
Free == dialog = None /\ ~import.open
At(overlay) == phase = "app" /\ Free /\ nav.overlay = overlay
AtTabs == At(None)
Starting(op, c) ==
    [op |-> op, who |-> c, mine |-> op \in {"unlock", "forge", "import"},
     snap |-> IF op \in {"verify", "delete"} THEN book.shown ELSE {}]
Start(op, c) ==
    /\ Cardinality(tasks) < MaxTasks /\ Starting(op, c) \notin tasks
    /\ tasks' = tasks \cup {Starting(op, c)}
Loading == [op |-> "load", who |-> None, mine |-> FALSE, snap |-> disk.contacts]
Goes(name, c) ==
    /\ Shows(name, c, tasks)
    /\ UNCHANGED <<phase, vault, keys, disk, wizard, form, import, book, amiss>>
Unseen == UNCHANGED <<phase, vault, keys, disk, book, amiss>>

boot ==
    /\ phase = "boot"
    /\ phase' = IF disk.vault THEN "unlock" ELSE "landing"
    /\ vault' = IF disk.vault THEN "locked" ELSE None
    /\ UNCHANGED <<keys, disk, screen, book, tasks, amiss>>

-----------------------------------------------------------------------------
(* Landing and Onboarding.  The landing's unlock button is offered when the *)
(* vault is locked, and would only choose a tab.                            *)
startOnboarding ==
    /\ phase = "landing" /\ Leave("onboarding") /\ tasks' = Orphans(tasks)
    /\ UNCHANGED <<vault, keys, disk, book, amiss>>

UnlockOffered == phase = "landing" /\ vault = "locked"

AtStep(step) == phase = "onboarding" /\ wizard.step = step /\ Free
ToStep(step) ==
    /\ wizard' = [wizard EXCEPT !.step = step]
    /\ UNCHANGED <<nav, local, form, dialog, import>> /\ Unseen

NameGiven == AtStep(0) /\ ToStep(1) /\ UNCHANGED tasks
Forge == AtStep(1) /\ ToStep(2) /\ Start("forge", None)
ToBackup == AtStep(2) /\ wizard.done /\ ToStep(3) /\ UNCHANGED tasks
cancelOnboarding ==
    /\ wizard.step # 2 /\ AtStep(wizard.step)
    /\ Leave("landing") /\ tasks' = Orphans(tasks)
    /\ UNCHANGED <<vault, keys, disk, book, amiss>>

completeOnboarding ==
    /\ \/ AtStep(3)                                              \* Enter vault
       \/ phase = "onboarding" /\ wizard.step = 3 /\ dialog = "skip"
    /\ Leave("app") /\ tasks' = Orphans(tasks)
    /\ UNCHANGED <<vault, keys, disk, book, amiss>>

(* createIdentityAndVault: the vault is open, then everything is loaded.    *)
Forged(t) ==
    /\ t.op = "forge" /\ disk' = [disk EXCEPT !.vault = TRUE]
    /\ vault' = "unlocked" /\ keys' = TRUE
    /\ nav' = [overlay |-> None, contact |-> None]
    /\ tasks' = (tasks \ {t}) \cup {[Loading EXCEPT !.op = "settle", !.mine = t.mine]}
    /\ Blame(If(~t.mine, "crossed"))
    /\ UNCHANGED <<phase, local, wizard, form, dialog, import, book>>

Takes(contacts) == book' = [book EXCEPT !.shown = contacts]
LoadEnds(contacts) ==
    /\ Takes(contacts)
    /\ Blame(If(contacts # disk.contacts, "stale") \cup If(vault # "unlocked", "late"))

Settled(t) ==
    /\ t.op = "settle" /\ LoadEnds(t.snap) /\ tasks' = tasks \ {t}
    /\ wizard' = IF t.mine THEN [wizard EXCEPT !.done = TRUE] ELSE wizard
    /\ UNCHANGED <<phase, vault, keys, disk, nav, local, form, dialog, import>>

ForgeFailsSilently(t) ==
    /\ t.op \in {"forge", "settle"} /\ tasks' = tasks \ {t}
    /\ UNCHANGED <<screen>> /\ Unseen
ForgeFails(t) ==
    /\ t.op \in {"forge", "settle"} /\ tasks' = tasks \ {t}
    /\ wizard' = IF t.mine THEN [wizard EXCEPT !.step = 1] ELSE wizard
    /\ UNCHANGED <<nav, local, form, dialog, import>> /\ Unseen

-----------------------------------------------------------------------------
(* Unlock.                                                                  *)
submit ==
    /\ phase = "unlock" /\ Free /\ ~form
    /\ Start("unlock", None)
    /\ form' = TRUE
    /\ UNCHANGED <<nav, local, wizard, dialog, import>> /\ Unseen

Unlocked(t) ==
    /\ disk.vault \/ ~t.mine
    /\ disk' = [disk EXCEPT !.vault = TRUE]
    /\ Leave("app") /\ vault' = "unlocked" /\ keys' = TRUE
    /\ tasks' = Orphans(tasks \ {t}) \cup {Loading}
    /\ Blame(If(~t.mine, "crossed")) /\ UNCHANGED book

NoVault(t) ==
    /\ ~disk.vault /\ Leave("landing") /\ vault' = None
    /\ tasks' = Orphans(tasks \ {t})
    /\ Blame(If(~t.mine, "crossed")) /\ UNCHANGED <<keys, disk, book>>

WrongPassword(t) ==
    /\ form' = (form /\ ~t.mine)
    /\ tasks' = tasks \ {t}
    /\ UNCHANGED <<nav, local, wizard, dialog, import>> /\ Unseen

UnlockThrows(t) ==
    /\ tasks' = tasks \ {t} /\ Blame({"threw"})
    /\ UNCHANGED <<phase, vault, keys, disk, screen, book>>

UnlockEnds(t) ==
    t.op = "unlock" /\ (Unlocked(t) \/ NoVault(t) \/ WrongPassword(t) \/ UnlockThrows(t))

Loaded(t) ==
    /\ t.op = "load" /\ LoadEnds(t.snap) /\ tasks' = tasks \ {t}
    /\ UNCHANGED <<phase, vault, keys, disk, screen>>

(* By one of the lock buttons, or by the auto-lock.                         *)
lockVault ==
    /\ vault = "unlocked" /\ Leave("unlock")
    /\ vault' = "locked" /\ keys' = FALSE
    /\ Takes({}) /\ tasks' = Orphans(tasks)
    /\ UNCHANGED <<disk, amiss>>

-----------------------------------------------------------------------------
(* The confirm dialogs.  A phrase is asked for anew each time.              *)
Dialogs == {"skip", "erase", "wipe", "delete"}
Opens(kind) ==
    \/ kind = "skip" /\ AtStep(3)
    \/ kind = "erase" /\ phase = "unlock" /\ Free
    \/ kind = "wipe" /\ AtTabs
    \/ kind = "delete" /\ At("contact-detail") /\ nav.contact \in book.shown

ConfirmOpens(kind) ==
    /\ Opens(kind) /\ dialog' = kind
    /\ UNCHANGED <<nav, local, wizard, form, import, tasks>> /\ Unseen

Closed == dialog' = None

ConfirmCancelled ==
    /\ dialog # None /\ Closed
    /\ UNCHANGED <<nav, local, wizard, form, import, tasks>> /\ Unseen

Confirms(kind) == dialog = kind /\ Closed

(* An operation on a contact outlives the contacts it was started with.     *)
Handling(T) == \E t \in T : t.op \in {"verify", "delete"}

(* wipeEverything drops the keys at once.                                   *)
WipeConfirmed ==
    /\ \E kind \in {"erase", "wipe"} : Confirms(kind)
    /\ Start("wipe", None) /\ keys' = FALSE
    /\ UNCHANGED <<phase, vault, disk, nav, local, wizard, form, import, book, amiss>>

Wiped(t) ==
    /\ t.op = "wipe" /\ Leave("landing") /\ vault' = None /\ keys' = keys
    /\ disk' = [vault |-> FALSE, contacts |-> {}]
    /\ book' = [shown |-> {}, verified |-> {}, compared |-> {}]
    /\ tasks' = Orphans(tasks \ {t})
    /\ Blame(If(keys, "late") \cup If(Handling(tasks), "stale") \cup If(phase \notin {"unlock", "app"}, "crossed"))

DeleteConfirmed ==
    /\ Confirms("delete")
    /\ IF nav.contact \in book.shown /\ keys
       THEN Start("delete", nav.contact) ELSE UNCHANGED tasks
    /\ UNCHANGED <<nav, local, wizard, form, import>> /\ Unseen

(* Both end with the list of contacts they started from, and then no        *)
(* overlay is open, whichever it was.                                       *)
ContactsEnd(t) ==
    /\ Shows(None, None, tasks \ {t})
    /\ Blame(If(t.snap # book.shown \/ Handling(tasks \ {t}), "stale") \cup If(vault # "unlocked", "late"))
    /\ UNCHANGED <<phase, vault, keys, wizard, form, import>>

Deleted(t) ==
    /\ t.op = "delete"
    /\ book' = [shown |-> t.snap \ {t.who}, verified |-> book.verified \ {t.who},
                compared |-> book.compared \ {t.who}]
    /\ disk' = [disk EXCEPT !.contacts = @ \ {t.who}]
    /\ ContactsEnd(t)

-----------------------------------------------------------------------------
(* The application: shell, tabs and overlays.                               *)
openChatWithContact(c) ==
    /\ c \in book.shown /\ keys
    /\ \/ AtTabs
       \/ At("contact-detail") /\ nav.contact = c
    /\ Goes("chat", c)

ChatList == AtTabs /\ Goes("connect", None)
Contacts == \E c \in book.shown : AtTabs /\ Goes("contact-detail", c)
ChatHeader ==
    /\ At("chat") /\ nav.contact \in book.shown
    /\ \E name \in {"contact-detail", "verify"} : Goes(name, nav.contact)
ContactDetail ==
    At("contact-detail") /\ nav.contact \in book.shown /\ Goes("verify", nav.contact)
Settings == AtTabs /\ Goes("backup", None)
Back == phase = "app" /\ Free /\ nav.overlay # None /\ Goes(None, None)

(* SecurityCenter: what it claims, and where it leads.                      *)
Claimed == [vault |-> "unlocked", verified |-> Cardinality(book.verified \cap book.shown)]
SecurityCenter == AtTabs /\ \E name \in Page \cup {"backup"} : Goes(name, None)

(* VerifyIdentity: the check box, then the button.                          *)
Compares ==
    /\ At("verify") /\ nav.contact \in book.shown \ book.verified
    /\ local' = [local EXCEPT !.compared = TRUE]
    /\ book' = [book EXCEPT !.compared = @ \cup {nav.contact}]
    /\ UNCHANGED <<phase, vault, keys, disk, nav, wizard, form, dialog, import,
                   tasks, amiss>>

markContactVerified ==
    /\ At("verify") /\ nav.contact \in book.shown \ book.verified /\ local.compared
    /\ Start("verify", nav.contact) /\ UNCHANGED <<screen>> /\ Unseen

Verified(t) ==
    /\ t.op = "verify"
    /\ book' = [book EXCEPT !.shown = t.snap, !.verified = @ \cup {t.who}]
    /\ disk' = [disk EXCEPT !.contacts = @ \cup {t.who}]
    /\ ContactsEnd(t)

-----------------------------------------------------------------------------
(* Backups.                                                                 *)
(* A file was chosen, on whichever screen; the dialog that hears of it when *)
(* it has been read is mounted in the app phase only.  Reading counts as an *)
(* operation under way.                                                     *)
FileRead ==
    /\ phase = "app" /\ Cardinality(tasks) < MaxTasks
    /\ import' = [import EXCEPT !.open = TRUE]
    /\ UNCHANGED <<nav, local, wizard, form, dialog, tasks>> /\ Unseen

ImportConfirmed ==
    /\ import.open /\ ~import.busy /\ Start("import", None)
    /\ import' = [import EXCEPT !.busy = TRUE]
    /\ UNCHANGED <<nav, local, wizard, form, dialog>> /\ Unseen

ImportCancelled ==
    /\ import.open /\ import' = [import EXCEPT !.open = FALSE]
    /\ UNCHANGED <<nav, local, wizard, form, dialog, tasks>> /\ Unseen

(* setPending(null) closes the request that is open, setBusy frees it.      *)
Imported(t) ==
    /\ t.op = "import" /\ disk.vault
    /\ \E contacts \in SUBSET Contact : \E verified \in SUBSET contacts :
         /\ disk' = [disk EXCEPT !.contacts = contacts]
         /\ book' = [shown |-> contacts, verified |-> verified, compared |-> verified]
    /\ keys' = TRUE /\ tasks' = tasks \ {t}
    /\ import' = IF t.mine THEN NoImport ELSE import
    /\ Blame(If(vault # "unlocked", "late") \cup If(nav.overlay \in OfContact \/ Handling(tasks), "stale"))
    /\ UNCHANGED <<phase, vault, nav, local, wizard, form, dialog>>

ImportFails(t) ==
    /\ t.op = "import" /\ tasks' = tasks \ {t}
    /\ import' = IF t.mine THEN [import EXCEPT !.busy = FALSE] ELSE import
    /\ UNCHANGED <<nav, local, wizard, form, dialog>> /\ Unseen

-----------------------------------------------------------------------------
(* What a session reports.  onSecure needs the identity.                    *)
onSecure(c) ==
    /\ keys /\ phase = "app"
    /\ book' = IF c \in book.shown THEN book
               ELSE [shown |-> book.shown \cup {c}, verified |-> book.verified \ {c},
                     compared |-> book.compared \ {c}]
    /\ disk' = [disk EXCEPT !.contacts = @ \cup {c}]
    /\ Shows("chat", c, tasks)
    /\ Blame(If(nav.overlay # "connect", "intruded")
              \cup If(c \notin book.shown /\ (c \in disk.contacts \/ Handling(tasks)), "stale"))
    /\ UNCHANGED <<phase, vault, keys, wizard, form, import>>

-----------------------------------------------------------------------------
Ends(t) ==
    \/ Forged(t) \/ Settled(t) \/ ForgeFails(t) \/ UnlockEnds(t) \/ Loaded(t)
    \/ Wiped(t) \/ Deleted(t) \/ Verified(t)
    \/ Imported(t) \/ ImportFails(t)

Next ==
    \/ boot \/ startOnboarding \/ NameGiven \/ Forge \/ ToBackup
    \/ cancelOnboarding \/ completeOnboarding \/ submit \/ lockVault
    \/ (\E kind \in Dialogs : ConfirmOpens(kind))
    \/ ConfirmCancelled \/ WipeConfirmed \/ DeleteConfirmed
    \/ ChatList \/ Contacts \/ ChatHeader \/ ContactDetail \/ Settings \/ SecurityCenter
    \/ Back \/ Compares \/ markContactVerified
    \/ FileRead \/ ImportConfirmed \/ ImportCancelled
    \/ (\E c \in Contact : openChatWithContact(c) \/ onSecure(c))
    \/ \E t \in tasks : Ends(t)

Spec == Init /\ [][Next]_vars

-----------------------------------------------------------------------------
Ways == {"threw", "crossed", "stale", "late", "intruded"}
Only(ways) == amiss \subseteq ways

(* The values the application's state can hold.                             *)
TypeOK ==
    /\ phase \in {"boot", "landing", "onboarding", "unlock", "app"}
    /\ vault \in {None, "locked", "unlocked"} /\ keys \in BOOLEAN
    /\ disk \in [vault : BOOLEAN, contacts : SUBSET Contact]
    /\ nav \in [overlay : OfContact \cup Plain \cup {None},
               contact : Contact \cup {None}]
    /\ (nav.overlay \in OfContact <=> nav.contact # None)
    /\ local \in [of : Contact \cup {None}, compared : BOOLEAN]
    /\ wizard \in [step : 0..3, done : BOOLEAN]
    /\ form \in BOOLEAN
    /\ dialog \in Dialogs \cup {None}
    /\ import \in [open : BOOLEAN, busy : BOOLEAN]
    /\ book \in [shown : SUBSET Contact, verified : SUBSET Contact,
                compared : SUBSET Contact]
    /\ tasks \subseteq Task /\ Cardinality(tasks) <= MaxTasks /\ amiss \subseteq Ways

(* The screen fits the vault: the application is shown over an open vault,  *)
(* the password form over a locked one, and the landing, whose unlock       *)
(* button leads nowhere, never over a locked one.                           *)
PhaseAgrees ==
    Only(Ways \ {"crossed"}) =>
        /\ phase = "app" => vault = "unlocked"
        /\ phase = "unlock" => vault = "locked"
        /\ ~UnlockOffered

(* "Real state only - this page never shows a status the code has not       *)
(* earned" (security.tsx:52): the vault is open when the page says so, and  *)
(* who is counted as verified was compared.                                 *)
ClaimsAreEarned ==
    phase = "app" /\ nav.overlay = None =>
        /\ Only(Ways \ {"crossed"}) => Claimed.vault = vault
        /\ Only(Ways \ {"stale", "intruded", "late"}) =>
             Claimed.verified <= Cardinality(book.compared)

(* A locked or wiped vault leaves no contacts, identity or overlay.  *)
LockedShowsNothing ==
    Only({"threw", "intruded"}) /\ vault # "unlocked" =>
        /\ book.shown = {} /\ ~keys
        /\ nav.overlay = None /\ ~import.open

(* An overlay about a contact finds the contact it is about.                *)
OverlayHasContact ==
    Only(Ways \ {"stale", "late"}) /\ nav.overlay \in OfContact =>
        nav.contact \in book.shown

(* A draft, an edited name or a ticked box belongs to the contact that is   *)
(* shown, although the overlays keep their state between contacts.          *)
LocalIsTheContacts ==
    Only(Ways \ {"intruded"}) /\ nav.overlay \in OfContact => local.of = nav.contact

(* Whoever is marked verified was compared by the user since the contact    *)
(* was made; a contact deleted and met again is a new one.                  *)
VerifiedWasCompared ==
    Only(Ways \ {"stale", "intruded", "late"}) => book.verified \subseteq book.compared

(* Whoever waits is waited for: a form that shows an operation under way    *)
(* and cannot be used meanwhile will hear the end of that operation.  Only  *)
(* unlockVault may throw past its form.                                     *)
Pending(ops) == \E t \in tasks : t.op \in ops /\ t.mine
WaitersAreAnswered ==
    /\ form /\ Only(Ways \ {"threw"}) => Pending({"unlock"})
    /\ wizard.step = 2 /\ ~wizard.done => Pending({"forge", "settle"})
    /\ import.busy => Pending({"import"})

(* What is shown and what is so, in one formula.                            *)
ScreenAgrees ==
    /\ TypeOK /\ PhaseAgrees /\ LockedShowsNothing
    /\ OverlayHasContact /\ LocalIsTheContacts /\ WaitersAreAnswered /\ ClaimsAreEarned
=============================================================================

---------------------------- MODULE ScreensProofs ----------------------------
(***************************************************************************)
(* Theorems about Screens, for any contacts and any bounds: what the       *)
(* screens show agrees with the vault and the records, and a contact is    *)
(* marked verified only after its code was compared.                       *)
(***************************************************************************)
EXTENDS Screens, FiniteSetTheorems, TLAPS

(* Each part of a screen is there in its phase only, and at first nothing.  *)
Placed ==
    /\ phase = "boot" => vault = None /\ ~keys /\ tasks = {} /\ dialog = None /\ book.shown = {}
    /\ nav.overlay # None => phase = "app"
    /\ form => phase = "unlock"
    /\ wizard.done \/ wizard.step # 0 => phase = "onboarding"
    /\ import.open \/ import.busy => phase = "app"

(* An operation that belongs to a screen ends on it, and the steps behind   *)
(* the forging are reached with an open vault.                              *)
Owned ==
    /\ \A t \in tasks : t.mine =>
        /\ t.op = "unlock" => phase = "unlock"
        /\ t.op \in {"forge", "settle"} => phase = "onboarding"
        /\ t.op = "settle" => vault = "unlocked"
    /\ \A t \in tasks : t.op = "verify" => t.who # None
    /\ wizard.done \/ wizard.step = 3 => vault = "unlocked"

(* PhaseAgrees with the phase between the landing and the application.      *)
Phases ==
    Only(Ways \ {"crossed"}) =>
        /\ phase = "app" => vault = "unlocked"
        /\ phase = "unlock" => vault = "locked"
        /\ phase \in {"landing", "onboarding"} => vault # "locked"

(* What is shown is stored, unless a list that is taken earlier was shown.  *)
ShownStored == Only(Ways \ {"stale", "late"}) => book.shown \subseteq disk.contacts

(* A ticked box and an operation that verifies stand for a comparison.      *)
Ticked ==
    Only(Ways \ {"stale", "intruded", "late"}) =>
        /\ nav.overlay = "verify" /\ local.compared => nav.contact \in book.compared
        /\ \A t \in tasks : t.op = "verify" => t.who \in book.compared

(* The inductive invariant.                                                 *)
IInv ==
    /\ TypeOK /\ IsFiniteSet(tasks) /\ Placed /\ Owned /\ Phases
    /\ LockedShowsNothing /\ ShownStored
    /\ OverlayHasContact /\ LocalIsTheContacts /\ Ticked /\ VerifiedWasCompared
    /\ WaitersAreAnswered

(* The values of the variables, one by one.                                 *)
Phase == {"boot", "landing", "onboarding", "unlock", "app"}
Overlay == OfContact \cup Plain \cup {None}
PlaceType == Contact \cup {None}
NavType == [overlay : Overlay, contact : PlaceType]
LocalType == [of : PlaceType, compared : BOOLEAN]
BookType == [shown : SUBSET Contact, verified : SUBSET Contact, compared : SUBSET Contact]

(* A set of tasks of a limited size.                                        *)
Fits(T, k) ==
    /\ T \subseteq Task /\ IsFiniteSet(T) /\ Cardinality(T) \in Nat
    /\ Cardinality(T) <= k

(* TypeOK in two halves: what the screen shows, and what it shows it of.    *)
ScreenFormed ==
    /\ phase \in Phase /\ nav \in NavType /\ (nav.overlay \in OfContact <=> nav.contact # None)
    /\ local \in LocalType /\ wizard \in [step : 0..3, done : BOOLEAN]
    /\ form \in BOOLEAN /\ dialog \in Dialogs \cup {None}
    /\ import \in [open : BOOLEAN, busy : BOOLEAN]
DataFormed ==
    /\ vault \in {None, "locked", "unlocked"} /\ keys \in BOOLEAN
    /\ disk \in [vault : BOOLEAN, contacts : SUBSET Contact]
    /\ book \in BookType /\ amiss \subseteq Ways

(* Both halves, and the bound on the tasks.                                 *)
Formed == ScreenFormed /\ DataFormed /\ Fits(tasks, MaxTasks)

(* The type invariant, with the finiteness its bound needs.                 *)
LEMMA Types == TypeOK /\ IsFiniteSet(tasks) <=> Formed
  BY FS_CardinalityType
     DEF TypeOK, Formed, ScreenFormed, DataFormed, Phase, Overlay, PlaceType, NavType, LocalType, BookType, Fits

(* The constants, as the provers need them.                                 *)
LEMMA Bounds == MaxTasks \in Nat /\ IsFiniteSet(Contact) /\ None \notin Contact
  BY ScreensAssumption

(* A task is started only while there is room for it.                       *)
LEMMA StartFits ==
    ASSUME Formed, NEW op \in {"unlock", "forge", "verify", "delete", "import", "wipe"},
           NEW c \in PlaceType, Start(op, c)
    PROVE  Fits(tasks', MaxTasks)
<1>1. Starting(op, c) \in Task
  BY DEF Formed, DataFormed, Starting, Task, PlaceType, BookType
<1>2. /\ IsFiniteSet(tasks \cup {Starting(op, c)})
      /\ Cardinality(tasks \cup {Starting(op, c)}) \in {Cardinality(tasks), Cardinality(tasks) + 1}
  BY FS_AddElement DEF Formed, Fits
<1> QED
  BY <1>1, <1>2, Bounds DEF Start, Formed, Fits

(* When a task ends there is room for another.                              *)
LEMMA RestFits ==
    ASSUME NEW T, NEW t \in T, Fits(T, MaxTasks)
    PROVE  Fits(T \ {t}, MaxTasks - 1) /\ Fits(T \ {t}, MaxTasks)
<1>1. IsFiniteSet(T \ {t}) /\ Cardinality(T \ {t}) = Cardinality(T) - 1
  BY FS_RemoveElement DEF Fits
<1>2. Cardinality(T \ {t}) \in Nat
  BY <1>1, FS_CardinalityType
<1> QED
  BY <1>1, <1>2, Bounds DEF Fits

(* Which is taken by whatever it turns into.                                *)
LEMMA NextFits ==
    ASSUME NEW T, Fits(T, MaxTasks - 1), NEW u \in Task PROVE Fits(T \cup {u}, MaxTasks)
<1>1. /\ IsFiniteSet(T \cup {u})
      /\ Cardinality(T \cup {u}) \in {Cardinality(T), Cardinality(T) + 1}
  BY FS_AddElement DEF Fits
<1> QED
  BY <1>1, Bounds DEF Fits

(* Changing every task of a set makes it no larger.                         *)
LEMMA MappedFits ==
    ASSUME NEW T, NEW k \in {MaxTasks, MaxTasks - 1}, Fits(T, k), NEW S, S \subseteq Task,
           NEW f \in Surjection(T, S)
    PROVE  Fits(S, k)
<1>1. IsFiniteSet(S) /\ Cardinality(S) <= Cardinality(T) /\ Cardinality(S) \in Nat
  BY FS_Surjection, FS_CardinalityType DEF Fits
<1> QED
  BY <1>1, Bounds DEF Fits

(* A screen that is left owns no task any more; the tasks go on.            *)
LEMMA Orphaned ==
    ASSUME NEW T, T \subseteq Task
    PROVE  /\ Orphans(T) \subseteq Task
           /\ \A u \in Orphans(T) :
                ~u.mine /\ \E t \in T : u.op = t.op /\ u.who = t.who /\ u.snap = t.snap
  BY DEF Orphans, Task

(* They are no more than before.                                            *)
LEMMA OrphansFit ==
    ASSUME NEW T, NEW k \in {MaxTasks, MaxTasks - 1}, Fits(T, k) PROVE Fits(Orphans(T), k)
<1> DEFINE f == [t \in T |-> [t EXCEPT !.mine = FALSE]]
<1>1. f \in Surjection(T, Orphans(T))
  BY DEF Surjection, Orphans
<1> QED
  BY <1>1, MappedFits, Orphaned DEF Fits

(* Only an import still belongs to the screen when the screens below it     *)
(* are left.                                                                *)
LEMMA Muted ==
    ASSUME NEW T, T \subseteq Task
    PROVE  LET S == {[t EXCEPT !.mine = @ /\ t.op = "import"] : t \in T} IN
           /\ S \subseteq Task
           /\ \A u \in S : (u.mine => u.op = "import") /\
                 \E t \in T : u.op = t.op /\ u.who = t.who /\ u.snap = t.snap /\ (u.mine => t.mine)
           /\ \A t \in T : t.mine /\ t.op = "import" => t \in S
<1> DEFINE S == {[t EXCEPT !.mine = @ /\ t.op = "import"] : t \in T}
<1>1. \A t \in T : [t EXCEPT !.mine = @ /\ t.op = "import"] =
                     [op |-> t.op, who |-> t.who, mine |-> t.mine /\ t.op = "import", snap |-> t.snap]
  BY DEF Task
<1>2. \A t \in T : t = [op |-> t.op, who |-> t.who, mine |-> t.mine, snap |-> t.snap] /\ t.mine \in BOOLEAN
  BY DEF Task
<1>3. \A t \in T : [t EXCEPT !.mine = @ /\ t.op = "import"] \in Task
  BY <1>1 DEF Task
<1>4. \A t \in T : t.mine /\ t.op = "import" => t = [t EXCEPT !.mine = @ /\ t.op = "import"]
  BY <1>1, <1>2
<1>5. ASSUME NEW u \in S
      PROVE  /\ u.mine => u.op = "import"
             /\ \E t \in T : u.op = t.op /\ u.who = t.who /\ u.snap = t.snap /\ (u.mine => t.mine)
  <2>1. PICK t \in T : u = [t EXCEPT !.mine = @ /\ t.op = "import"]
    OBVIOUS
  <2>2. u = [op |-> t.op, who |-> t.who, mine |-> t.mine /\ t.op = "import", snap |-> t.snap]
    BY <1>1, <2>1
  <2> QED
    BY <2>2
<1> QED
  BY <1>3, <1>4, <1>5

(* Showing a place of the application keeps the number of tasks.            *)
LEMMA ShowsFit ==
    ASSUME NEW T, Fits(T, MaxTasks), NEW name, NEW c, Shows(name, c, T)
    PROVE  Fits(tasks', MaxTasks)
<1>1. CASE nav.overlay = name
  BY <1>1 DEF Shows
<1>2. CASE nav.overlay # name
  <2> DEFINE S == {[t EXCEPT !.mine = @ /\ t.op = "import"] : t \in T}
             f == [t \in T |-> [t EXCEPT !.mine = @ /\ t.op = "import"]]
  <2>1. f \in Surjection(T, S)
    BY DEF Surjection
  <2>2. S \subseteq Task
    BY Muted DEF Fits
  <2>3. Fits(S, MaxTasks)
    BY <2>1, <2>2, MappedFits
  <2> QED
    BY <1>2, <2>3 DEF Shows
<1> QED
  BY <1>1, <1>2

(* Every press that only leads to another overlay is a visit.               *)
Visit(name, c) ==
    /\ phase = "app" /\ name # nav.overlay /\ (name \in OfContact <=> c # None)
    /\ (name \in OfContact => c \in book.shown)
    /\ Goes(name, c)

(* What navigation within the application leaves alone.                     *)
Navigation ==
    \/ ChatList \/ Contacts \/ ChatHeader \/ ContactDetail \/ Settings \/ SecurityCenter \/ Back
    \/ \E c \in Contact : openChatWithContact(c)

(* What showing a place sets, and what becomes of the tasks.                *)
LEMMA Navigates ==
    ASSUME Formed, Navigation PROVE \E name \in Overlay, c \in PlaceType : Visit(name, c)
<1> USE Bounds DEF Formed, ScreenFormed, DataFormed, NavType, BookType, PlaceType,
       Overlay, OfContact, Plain, Page, None, Visit
<1>1. CASE ChatList
  BY <1>1 DEF ChatList, AtTabs, At
<1>2. CASE Contacts
  BY <1>2 DEF Contacts, AtTabs, At
<1>3. CASE ChatHeader
  BY <1>3 DEF ChatHeader, At
<1>4. CASE ContactDetail
  BY <1>4 DEF ContactDetail, At
<1>5. CASE Settings
  BY <1>5 DEF Settings, AtTabs, At
<1>6. CASE SecurityCenter
  BY <1>6 DEF SecurityCenter, AtTabs, At
<1>7. CASE Back
  BY <1>7 DEF Back
<1>8. ASSUME NEW c \in Contact, openChatWithContact(c)
      PROVE  \E name \in Overlay, d \in PlaceType : Visit(name, d)
  BY <1>8 DEF openChatWithContact, AtTabs, At
<1> QED
  BY <1>1, <1>2, <1>3, <1>4, <1>5, <1>6, <1>7, <1>8 DEF Navigation

(* The local state of a mounted screen is well formed.                      *)
LEMMA FreshTyped == ASSUME NEW c \in PlaceType PROVE FreshLocal(c) \in LocalType
  BY DEF FreshLocal, LocalType

(* Leaving a screen keeps the types.                                        *)
LEMMA LeaveForms ==
    ASSUME Formed, NEW p \in Phase, Leave(p) PROVE ScreenFormed' /\ phase' = p
<1>1. nav' \in NavType /\ nav'.overlay \notin OfContact /\ nav'.contact = None
  BY DEF Leave, NavType, Overlay, OfContact, PlaceType, None
<1>2. local' \in LocalType
  BY FreshTyped DEF Leave, PlaceType
<1>3. wizard' \in [step : 0..3, done : BOOLEAN] /\ import' \in [open : BOOLEAN, busy : BOOLEAN]
  BY DEF Leave, FirstStep, NoImport
<1> QED
  BY <1>1, <1>2, <1>3 DEF Leave, ScreenFormed

(* Showing another screen keeps the types.                                  *)
LEMMA ShowsForms ==
    ASSUME Formed, NEW T, NEW name \in Overlay, NEW c \in PlaceType, Shows(name, c, T),
           name \in OfContact <=> c # None, UNCHANGED <<phase, wizard, form, import>>
    PROVE  ScreenFormed'
<1>1. nav' \in NavType /\ nav'.overlay = name /\ nav'.contact = c
  BY DEF Shows, NavType
<1>2. local' \in LocalType
  BY FreshTyped DEF Shows, Formed, ScreenFormed
<1>3. dialog' \in Dialogs \cup {None}
  BY DEF Shows, Formed, ScreenFormed
<1> QED
  BY <1>1, <1>2, <1>3 DEF Formed, ScreenFormed

(* What a task holds.                                                       *)
LEMMA TaskTyped ==
    ASSUME Formed, NEW t \in tasks
    PROVE  t \in Task /\ t.who \in PlaceType /\ t.snap \subseteq Contact /\ t.mine \in BOOLEAN
  BY DEF Formed, Fits, Task, PlaceType

(* The vault is opened by a task whose contacts are loaded next.            *)
LEMMA UnlockedFits ==
    ASSUME Formed, NEW t \in tasks PROVE Fits(Orphans(tasks \ {t}) \cup {Loading}, MaxTasks)
<1>1. Loading \in Task
  BY DEF Loading, Task, Formed, DataFormed
<1> QED
  BY <1>1, RestFits, OrphansFit, NextFits DEF Formed

(* The vault is forged by a task that settles its contacts next.            *)
LEMMA ForgedFits ==
    ASSUME Formed, NEW t \in tasks
    PROVE  Fits((tasks \ {t}) \cup {[Loading EXCEPT !.op = "settle", !.mine = t.mine]}, MaxTasks)
<1>1. [Loading EXCEPT !.op = "settle", !.mine = t.mine] \in Task
  BY TaskTyped DEF Loading, Task, Formed, DataFormed
<1> QED
  BY <1>1, RestFits, NextFits DEF Formed

(* Where the operations of the application lead, field by field.            *)
LEMMA ShowsSets ==
    ASSUME Formed, NEW T, T \subseteq Task, NEW name, NEW c, Shows(name, c, T)
    PROVE  /\ nav'.overlay = name /\ nav'.contact = c
           /\ nav.overlay = name => tasks' = T /\ local' = local
           /\ nav.overlay # name => local' = FreshLocal(c)
           /\ \A u \in tasks' : \E t \in T :
                 u.op = t.op /\ u.who = t.who /\ u.snap = t.snap /\ (u.mine => t.mine)
           /\ \A u \in tasks' : nav.overlay # name /\ u.mine => u.op = "import"
           /\ \A t \in T : t.mine /\ t.op = "import" => t \in tasks'
<1>1. CASE nav.overlay = name
  BY <1>1 DEF Shows
<1>2. CASE nav.overlay # name
  BY <1>2, Muted DEF Shows
<1> QED
  BY <1>1, <1>2

(* What a forged vault sets.                                                *)
LEMMA ForgedSets ==
    ASSUME Formed, NEW t \in tasks, Forged(t)
    PROVE  /\ \A u \in tasks' : u \in tasks \/ (u.op = "settle" /\ u.mine = t.mine)
           /\ \E u \in tasks' : u.op = "settle" /\ u.mine = t.mine
           /\ \A u \in tasks : u # t => u \in tasks'
<1> DEFINE w == [Loading EXCEPT !.op = "settle", !.mine = t.mine]
<1>1. w.op = "settle" /\ w.mine = t.mine
  BY DEF Loading
<1>2. tasks' = (tasks \ {t}) \cup {w}
  BY DEF Forged
<1> HIDE DEF w
<1> QED
  BY <1>1, <1>2

(* What the end of an operation on contacts sets.                           *)
LEMMA ContactsEndSets ==
    ASSUME Formed, NEW t \in tasks, ContactsEnd(t)
    PROVE  /\ UNCHANGED <<phase, vault, keys, wizard, form, import>>
           /\ nav'.overlay = None /\ nav'.contact = None
           /\ nav.overlay = None => tasks' = tasks \ {t}
           /\ \A u \in tasks' : \E v \in tasks \ {t} :
                 u.op = v.op /\ u.who = v.who /\ u.snap = v.snap /\ (u.mine => v.mine)
           /\ \A u \in tasks \ {t} : u.mine /\ u.op = "import" => u \in tasks'
           /\ amiss \subseteq amiss' /\ (vault # "unlocked" => "late" \in amiss')
           /\ t.snap # book.shown \/ Handling(tasks \ {t}) => "stale" \in amiss'
<1>1. tasks \ {t} \subseteq Task
  BY DEF Formed, Fits
<1>2. Shows(None, None, tasks \ {t})
  BY DEF ContactsEnd
<1> QED
  BY <1>1, <1>2, ShowsSets DEF ContactsEnd, Blame, If

(* Every step keeps the types, and the bound on the operations under way.   *)
LEMMA TypeKept ==
    ASSUME Formed, Owned, [Next]_vars PROVE Formed'
<1> USE Bounds DEF Formed
<1>1. CASE UNCHANGED vars
  BY <1>1 DEF vars, ScreenFormed, DataFormed
<1>2. CASE boot
  BY <1>2, Bounds DEF boot, screen, ScreenFormed, DataFormed, Phase
<1>3. CASE startOnboarding
  BY <1>3, LeaveForms, OrphansFit DEF startOnboarding, DataFormed, Phase
<1>4. CASE NameGiven
  BY <1>4 DEF NameGiven, ToStep, Unseen, ScreenFormed, DataFormed
<1>5. CASE Forge
  BY <1>5, StartFits DEF Forge, ToStep, Unseen, ScreenFormed, DataFormed, PlaceType
<1>6. CASE ToBackup
  BY <1>6 DEF ToBackup, ToStep, Unseen, ScreenFormed, DataFormed
<1>7. CASE cancelOnboarding
  BY <1>7, LeaveForms, OrphansFit DEF cancelOnboarding, DataFormed, Phase
<1>8. CASE completeOnboarding
  BY <1>8, LeaveForms, OrphansFit DEF completeOnboarding, DataFormed, Phase
<1>9. CASE submit
  BY <1>9, StartFits DEF submit, Unseen, ScreenFormed, DataFormed, PlaceType
<1>10. CASE lockVault
  BY <1>10, LeaveForms, OrphansFit DEF lockVault, Takes, DataFormed, Phase, BookType
<1>11. ASSUME NEW kind \in Dialogs, ConfirmOpens(kind) PROVE Formed'
  BY <1>11 DEF ConfirmOpens, Unseen, ScreenFormed, DataFormed
<1>12. CASE ConfirmCancelled
  BY <1>12 DEF ConfirmCancelled, Closed, Unseen, ScreenFormed, DataFormed
<1>13. CASE WipeConfirmed
  BY <1>13, StartFits
     DEF WipeConfirmed, Confirms, Closed, ScreenFormed, DataFormed, PlaceType
<1>14. CASE DeleteConfirmed
  BY <1>14, StartFits
     DEF DeleteConfirmed, Confirms, Closed, Unseen, ScreenFormed, DataFormed,
     NavType
<1>15. ASSUME NEW name \in Overlay, NEW c \in PlaceType, Visit(name, c) PROVE Formed'
  BY <1>15, ShowsForms, ShowsFit DEF Visit, Goes, DataFormed
<1>16. CASE Compares
  BY <1>16 DEF Compares, ScreenFormed, DataFormed, LocalType, BookType
<1>17. CASE markContactVerified
  BY <1>17, StartFits
     DEF markContactVerified, screen, Unseen, ScreenFormed, DataFormed, NavType
<1>18. CASE FileRead
  BY <1>18 DEF FileRead, Unseen, ScreenFormed, DataFormed
<1>19. CASE ImportConfirmed
  BY <1>19, StartFits
     DEF ImportConfirmed, Unseen, ScreenFormed, DataFormed, PlaceType
<1>20. CASE ImportCancelled
  BY <1>20 DEF ImportCancelled, Unseen, ScreenFormed, DataFormed
<1>21. ASSUME NEW c \in Contact, onSecure(c) PROVE Formed'
  BY <1>21, ShowsForms, ShowsFit
     DEF onSecure, DataFormed, BookType, Blame, If, Ways, Overlay, OfContact,
     PlaceType, None
<1>22. ASSUME NEW t \in tasks, Forged(t) PROVE Formed'
  BY <1>22, ForgedFits
     DEF Forged, Blame, If, Ways, ScreenFormed, DataFormed, NavType, Overlay,
     OfContact, PlaceType, None
<1>23. ASSUME NEW t \in tasks, Settled(t) PROVE Formed'
  BY <1>23, RestFits, TaskTyped
     DEF Settled, LoadEnds, Takes, Blame, If, Ways, ScreenFormed, DataFormed,
     BookType
<1>24. ASSUME NEW t \in tasks, ForgeFails(t) PROVE Formed'
  BY <1>24, RestFits DEF ForgeFails, Unseen, ScreenFormed, DataFormed
<1>25. ASSUME NEW t \in tasks, Unlocked(t), t.op = "unlock" PROVE Formed'
  BY <1>25, LeaveForms, UnlockedFits
     DEF Unlocked, DataFormed, Phase, Blame, If, Ways
<1>26. ASSUME NEW t \in tasks, NoVault(t), t.op = "unlock" PROVE Formed'
  BY <1>26, LeaveForms, RestFits, OrphansFit
     DEF NoVault, DataFormed, Phase, Blame, If, Ways
<1>27. ASSUME NEW t \in tasks, WrongPassword(t), t.op = "unlock" PROVE Formed'
  BY <1>27, RestFits DEF WrongPassword, Unseen, ScreenFormed, DataFormed
<1>28. ASSUME NEW t \in tasks, UnlockThrows(t), t.op = "unlock" PROVE Formed'
  BY <1>28, RestFits DEF UnlockThrows, screen, Blame, Ways, ScreenFormed, DataFormed
<1>29. ASSUME NEW t \in tasks, Loaded(t) PROVE Formed'
  BY <1>29, RestFits, TaskTyped
     DEF Loaded, LoadEnds, Takes, Blame, If, Ways, screen, ScreenFormed, DataFormed,
     BookType
<1>30. ASSUME NEW t \in tasks, Wiped(t) PROVE Formed'
  BY <1>30, LeaveForms, RestFits, OrphansFit
     DEF Wiped, DataFormed, Phase, Blame, If, Ways, BookType
<1>31. ASSUME NEW t \in tasks, Deleted(t) PROVE Formed'
  BY <1>31, ShowsForms, RestFits, ShowsFit, TaskTyped
     DEF Deleted, ContactsEnd, DataFormed, BookType, Blame, If, Ways, Overlay,
     OfContact, PlaceType, None
<1>32. ASSUME NEW t \in tasks, Verified(t) PROVE Formed'
  BY <1>32, ShowsForms, RestFits, ShowsFit, TaskTyped
     DEF Owned, Verified, ContactsEnd, DataFormed, BookType, Blame, If, Ways,
     Overlay, OfContact, PlaceType, None
<1>33. ASSUME NEW t \in tasks, Imported(t) PROVE Formed'
  BY <1>33, RestFits
     DEF Imported, Blame, If, Ways, ScreenFormed, DataFormed, BookType, NoImport
<1>34. ASSUME NEW t \in tasks, ImportFails(t) PROVE Formed'
  BY <1>34, RestFits DEF ImportFails, Unseen, ScreenFormed, DataFormed
<1>35. CASE Navigation
  BY <1>35, Navigates, <1>15
<1> HIDE DEF Formed
<1> QED
  BY <1>1, <1>2, <1>3, <1>4, <1>5, <1>6, <1>7, <1>8, <1>9, <1>10, <1>11, <1>12,
     <1>13, <1>14, <1>15, <1>16, <1>17, <1>18, <1>19, <1>20, <1>21, <1>22, <1>23,
     <1>24, <1>25, <1>26, <1>27, <1>28, <1>29, <1>30, <1>31, <1>32, <1>33, <1>34,
     <1>35
     DEF Next, Ends, UnlockEnds, Navigation

(* What belongs to a screen is lost when the phase is left.                 *)
LEMMA PlacedKept ==
    ASSUME Formed, Placed, Owned, [Next]_vars PROVE Placed'
<1> USE DEF Placed, Owned, None, FirstStep, NoImport, Formed, ScreenFormed, DataFormed,
       Fits
<1>1. CASE UNCHANGED vars
  BY <1>1 DEF vars
<1>2. CASE boot
  BY <1>2 DEF boot, screen
<1>3. CASE startOnboarding
  BY <1>3, Orphaned DEF startOnboarding, Leave
<1>4. CASE NameGiven
  BY <1>4 DEF NameGiven, ToStep, AtStep, Unseen
<1>5. CASE Forge
  BY <1>5 DEF Forge, AtStep, ToStep, Unseen, Start, Starting
<1>6. CASE ToBackup
  BY <1>6 DEF ToBackup, AtStep, ToStep, Unseen
<1>7. CASE cancelOnboarding
  BY <1>7, Orphaned DEF cancelOnboarding, AtStep, Leave
<1>8. CASE completeOnboarding
  BY <1>8, Orphaned DEF completeOnboarding, AtStep, Leave
<1>9. CASE submit
  BY <1>9 DEF submit, Unseen, Start, Starting
<1>10. CASE lockVault
  BY <1>10, Orphaned DEF lockVault, Leave, Takes
<1>11. ASSUME NEW kind \in Dialogs, ConfirmOpens(kind) PROVE Placed'
  BY <1>11 DEF ConfirmOpens, Opens, AtStep, At, Unseen, AtTabs
<1>12. CASE ConfirmCancelled
  BY <1>12 DEF ConfirmCancelled, Closed, Unseen
<1>13. CASE WipeConfirmed
  BY <1>13 DEF WipeConfirmed, Confirms, Closed, Start, Starting
<1>14. CASE DeleteConfirmed
  BY <1>14 DEF DeleteConfirmed, Confirms, Closed, Unseen, Start, Starting
<1>15. ASSUME NEW name \in Overlay, NEW c \in PlaceType, Visit(name, c) PROVE Placed'
  BY <1>15, ShowsSets DEF Visit, Goes
<1>16. CASE Compares
  BY <1>16 DEF Compares, At
<1>17. CASE markContactVerified
  BY <1>17 DEF markContactVerified, At, screen, Unseen, Start, Starting
<1>18. CASE FileRead
  BY <1>18 DEF FileRead, Unseen
<1>19. CASE ImportConfirmed
  BY <1>19 DEF ImportConfirmed, Unseen, Start, Starting
<1>20. CASE ImportCancelled
  BY <1>20 DEF ImportCancelled, Unseen
<1>21. ASSUME NEW c \in Contact, onSecure(c) PROVE Placed'
  BY <1>21, ShowsSets DEF onSecure, Blame, If
<1>22. ASSUME NEW t \in tasks, Forged(t) PROVE Placed'
  BY <1>22, ForgedSets DEF Forged, Blame, If
<1>23. ASSUME NEW t \in tasks, Settled(t) PROVE Placed'
  BY <1>23 DEF Settled, LoadEnds, Takes, Blame, If
<1>24. ASSUME NEW t \in tasks, ForgeFails(t) PROVE Placed'
  BY <1>24 DEF ForgeFails, Unseen
<1>25. ASSUME NEW t \in tasks, Unlocked(t), t.op = "unlock" PROVE Placed'
  BY <1>25, Orphaned DEF Unlocked, Leave, Blame, If, Loading
<1>26. ASSUME NEW t \in tasks, NoVault(t), t.op = "unlock" PROVE Placed'
  BY <1>26, Orphaned DEF NoVault, Leave, Blame, If
<1>27. ASSUME NEW t \in tasks, WrongPassword(t), t.op = "unlock" PROVE Placed'
  BY <1>27 DEF WrongPassword, Unseen
<1>28. ASSUME NEW t \in tasks, UnlockThrows(t), t.op = "unlock" PROVE Placed'
  BY <1>28 DEF UnlockThrows, screen, Blame
<1>29. ASSUME NEW t \in tasks, Loaded(t) PROVE Placed'
  BY <1>29 DEF Loaded, LoadEnds, Takes, Blame, If, screen
<1>30. ASSUME NEW t \in tasks, Wiped(t) PROVE Placed'
  BY <1>30, Orphaned DEF Wiped, Leave, Blame, If
<1>31. ASSUME NEW t \in tasks, Deleted(t) PROVE Placed'
  BY <1>31, ContactsEndSets DEF Deleted
<1>32. ASSUME NEW t \in tasks, Verified(t) PROVE Placed'
  BY <1>32, ContactsEndSets DEF Verified
<1>33. ASSUME NEW t \in tasks, Imported(t) PROVE Placed'
  BY <1>33 DEF Imported, Blame, If
<1>34. ASSUME NEW t \in tasks, ImportFails(t) PROVE Placed'
  BY <1>34 DEF ImportFails, Unseen
<1>35. CASE Navigation
  BY <1>35, Navigates, <1>15
<1> HIDE DEF Placed, Owned, None, FirstStep, NoImport, Formed, ScreenFormed, DataFormed,
       Fits
<1> QED
  BY <1>1, <1>2, <1>3, <1>4, <1>5, <1>6, <1>7, <1>8, <1>9, <1>10, <1>11, <1>12,
     <1>13, <1>14, <1>15, <1>16, <1>17, <1>18, <1>19, <1>20, <1>21, <1>22, <1>23,
     <1>24, <1>25, <1>26, <1>27, <1>28, <1>29, <1>30, <1>31, <1>32, <1>33, <1>34,
     <1>35
     DEF Next, Ends, UnlockEnds, Navigation

(* The operations of a screen that is left are nobody's.                    *)
LEMMA OwnedKept ==
    ASSUME Formed, Placed, Owned, [Next]_vars PROVE Owned'
<1> USE Bounds DEF None, Owned, Placed, FirstStep, NoImport, Formed, ScreenFormed,
       DataFormed, Fits, BookType
<1>1. CASE UNCHANGED vars
  BY <1>1 DEF vars
<1>2. CASE boot
  BY <1>2 DEF boot, screen
<1>3. CASE startOnboarding
  BY <1>3, Orphaned DEF startOnboarding, Leave
<1>4. CASE NameGiven
  BY <1>4 DEF NameGiven, ToStep, AtStep, Unseen
<1>5. CASE Forge
  BY <1>5 DEF Forge, AtStep, ToStep, Unseen, Start, Starting
<1>6. CASE ToBackup
  BY <1>6 DEF ToBackup, AtStep, ToStep, Unseen
<1>7. CASE cancelOnboarding
  BY <1>7, Orphaned DEF cancelOnboarding, AtStep, Leave
<1>8. CASE completeOnboarding
  BY <1>8, Orphaned DEF completeOnboarding, AtStep, Leave
<1>9. CASE submit
  BY <1>9 DEF submit, Unseen, Start, Starting
<1>10. CASE lockVault
  BY <1>10, Orphaned DEF lockVault, Leave, Takes
<1>11. ASSUME NEW kind \in Dialogs, ConfirmOpens(kind) PROVE Owned'
  BY <1>11 DEF ConfirmOpens, Opens, AtStep, At, Unseen, AtTabs
<1>12. CASE ConfirmCancelled
  BY <1>12 DEF ConfirmCancelled, Closed, Unseen
<1>13. CASE WipeConfirmed
  BY <1>13 DEF WipeConfirmed, Confirms, Closed, Start, Starting
<1>14. CASE DeleteConfirmed
  BY <1>14 DEF DeleteConfirmed, Confirms, Closed, Unseen, Start, Starting
<1>15. ASSUME NEW name \in Overlay, NEW c \in PlaceType, Visit(name, c) PROVE Owned'
  BY <1>15, ShowsSets DEF Visit, Goes
<1>16. CASE Compares
  BY <1>16 DEF Compares, At
<1>17. CASE markContactVerified
  BY <1>17 DEF markContactVerified, At, screen, Unseen, Start, Starting
<1>18. CASE FileRead
  BY <1>18 DEF FileRead, Unseen
<1>19. CASE ImportConfirmed
  BY <1>19 DEF ImportConfirmed, Unseen, Start, Starting
<1>20. CASE ImportCancelled
  BY <1>20 DEF ImportCancelled, Unseen
<1>21. ASSUME NEW c \in Contact, onSecure(c) PROVE Owned'
  BY <1>21, ShowsSets DEF onSecure, Blame, If
<1>22. ASSUME NEW t \in tasks, Forged(t) PROVE Owned'
  BY <1>22, ForgedSets DEF Forged, Blame, If
<1>23. ASSUME NEW t \in tasks, Settled(t) PROVE Owned'
  BY <1>23 DEF Settled, LoadEnds, Takes, Blame, If
<1>24. ASSUME NEW t \in tasks, ForgeFails(t) PROVE Owned'
  BY <1>24 DEF ForgeFails, Unseen
<1>25. ASSUME NEW t \in tasks, Unlocked(t), t.op = "unlock" PROVE Owned'
  BY <1>25, Orphaned DEF Unlocked, Leave, Blame, If, Loading
<1>26. ASSUME NEW t \in tasks, NoVault(t), t.op = "unlock" PROVE Owned'
  BY <1>26, Orphaned DEF NoVault, Leave, Blame, If
<1>27. ASSUME NEW t \in tasks, WrongPassword(t), t.op = "unlock" PROVE Owned'
  BY <1>27 DEF WrongPassword, Unseen
<1>28. ASSUME NEW t \in tasks, UnlockThrows(t), t.op = "unlock" PROVE Owned'
  BY <1>28 DEF UnlockThrows, screen, Blame
<1>29. ASSUME NEW t \in tasks, Loaded(t) PROVE Owned'
  BY <1>29 DEF Loaded, LoadEnds, Takes, Blame, If, screen
<1>30. ASSUME NEW t \in tasks, Wiped(t) PROVE Owned'
  BY <1>30, Orphaned DEF Wiped, Leave, Blame, If
<1>31. ASSUME NEW t \in tasks, Deleted(t) PROVE Owned'
  <2> HIDE DEF Formed, ScreenFormed, DataFormed, Fits, Placed, BookType
  <2>1. /\ \A u \in tasks' : \E v \in tasks \ {t} : u.op = v.op /\ u.who = v.who /\ (u.mine => v.mine)
        /\ UNCHANGED <<phase, vault, wizard>>
    BY <1>31, ContactsEndSets DEF Deleted
  <2> QED
    BY <2>1
<1>32. ASSUME NEW t \in tasks, Verified(t) PROVE Owned'
  <2> HIDE DEF Formed, ScreenFormed, DataFormed, Fits, Placed, BookType
  <2>1. /\ \A u \in tasks' : \E v \in tasks \ {t} : u.op = v.op /\ u.who = v.who /\ (u.mine => v.mine)
        /\ UNCHANGED <<phase, vault, wizard>>
    BY <1>32, ContactsEndSets DEF Verified
  <2> QED
    BY <2>1
<1>33. ASSUME NEW t \in tasks, Imported(t) PROVE Owned'
  BY <1>33 DEF Imported, Blame, If
<1>34. ASSUME NEW t \in tasks, ImportFails(t) PROVE Owned'
  BY <1>34 DEF ImportFails, Unseen
<1>35. CASE Navigation
  BY <1>35, Navigates, <1>15
<1> HIDE DEF None, Owned, Placed, FirstStep, NoImport, Formed, ScreenFormed, DataFormed,
       Fits, BookType
<1> QED
  BY <1>1, <1>2, <1>3, <1>4, <1>5, <1>6, <1>7, <1>8, <1>9, <1>10, <1>11, <1>12,
     <1>13, <1>14, <1>15, <1>16, <1>17, <1>18, <1>19, <1>20, <1>21, <1>22, <1>23,
     <1>24, <1>25, <1>26, <1>27, <1>28, <1>29, <1>30, <1>31, <1>32, <1>33, <1>34,
     <1>35
     DEF Next, Ends, UnlockEnds, Navigation

(* Only an operation that ends after its screen was left crosses phases.    *)
LEMMA PhasesKept ==
    ASSUME Formed, Placed, Owned, Phases, [Next]_vars PROVE Phases'
<1> USE DEF None, Owned, Placed, Phases, FirstStep, Formed, ScreenFormed, DataFormed,
       Only, Ways
<1>1. CASE UNCHANGED vars
  BY <1>1 DEF vars
<1>2. CASE boot
  BY <1>2 DEF boot, screen
<1>3. CASE startOnboarding
  BY <1>3, Orphaned DEF startOnboarding, Leave
<1>4. CASE NameGiven
  BY <1>4 DEF NameGiven, ToStep, AtStep, Unseen
<1>5. CASE Forge
  BY <1>5 DEF Forge, AtStep, ToStep, Unseen, Start, Starting
<1>6. CASE ToBackup
  BY <1>6 DEF ToBackup, AtStep, ToStep, Unseen
<1>7. CASE cancelOnboarding
  BY <1>7, Orphaned DEF cancelOnboarding, AtStep, Leave
<1>8. CASE completeOnboarding
  BY <1>8, Orphaned DEF completeOnboarding, AtStep, Leave
<1>9. CASE submit
  BY <1>9 DEF submit, Unseen, Start, Starting
<1>10. CASE lockVault
  BY <1>10, Orphaned DEF lockVault, Leave, Takes
<1>11. ASSUME NEW kind \in Dialogs, ConfirmOpens(kind) PROVE Phases'
  BY <1>11 DEF ConfirmOpens, Opens, AtStep, At, Unseen, AtTabs
<1>12. CASE ConfirmCancelled
  BY <1>12 DEF ConfirmCancelled, Closed, Unseen
<1>13. CASE WipeConfirmed
  BY <1>13 DEF WipeConfirmed, Confirms, Closed, Start, Starting
<1>14. CASE DeleteConfirmed
  BY <1>14 DEF DeleteConfirmed, Confirms, Closed, Unseen, Start, Starting
<1>15. ASSUME NEW name \in Overlay, NEW c \in PlaceType, Visit(name, c) PROVE Phases'
  BY <1>15, ShowsSets DEF Visit, Goes
<1>16. CASE Compares
  BY <1>16 DEF Compares, At
<1>17. CASE markContactVerified
  BY <1>17 DEF markContactVerified, At, screen, Unseen, Start, Starting
<1>18. CASE FileRead
  BY <1>18 DEF FileRead, Unseen
<1>19. CASE ImportConfirmed
  BY <1>19 DEF ImportConfirmed, Unseen, Start, Starting
<1>20. CASE ImportCancelled
  BY <1>20 DEF ImportCancelled, Unseen
<1>21. ASSUME NEW c \in Contact, onSecure(c) PROVE Phases'
  BY <1>21, ShowsSets DEF onSecure, Blame, If
<1>22. ASSUME NEW t \in tasks, Forged(t) PROVE Phases'
  BY <1>22 DEF Forged, Blame, If
<1>23. ASSUME NEW t \in tasks, Settled(t) PROVE Phases'
  BY <1>23 DEF Settled, LoadEnds, Takes, Blame, If
<1>24. ASSUME NEW t \in tasks, ForgeFails(t) PROVE Phases'
  BY <1>24 DEF ForgeFails, Unseen
<1>25. ASSUME NEW t \in tasks, Unlocked(t), t.op = "unlock" PROVE Phases'
  BY <1>25, Orphaned DEF Unlocked, Leave, Blame, If, Loading
<1>26. ASSUME NEW t \in tasks, NoVault(t), t.op = "unlock" PROVE Phases'
  BY <1>26, Orphaned DEF NoVault, Leave, Blame, If
<1>27. ASSUME NEW t \in tasks, WrongPassword(t), t.op = "unlock" PROVE Phases'
  BY <1>27 DEF WrongPassword, Unseen
<1>28. ASSUME NEW t \in tasks, UnlockThrows(t), t.op = "unlock" PROVE Phases'
  BY <1>28 DEF UnlockThrows, screen, Blame
<1>29. ASSUME NEW t \in tasks, Loaded(t) PROVE Phases'
  BY <1>29 DEF Loaded, LoadEnds, Takes, Blame, If, screen
<1>30. ASSUME NEW t \in tasks, Wiped(t) PROVE Phases'
  BY <1>30, Orphaned DEF Wiped, Leave, Blame, If
<1>31. ASSUME NEW t \in tasks, Deleted(t) PROVE Phases'
  BY <1>31, ContactsEndSets DEF Deleted
<1>32. ASSUME NEW t \in tasks, Verified(t) PROVE Phases'
  BY <1>32, ContactsEndSets DEF Verified
<1>33. ASSUME NEW t \in tasks, Imported(t) PROVE Phases'
  BY <1>33 DEF Imported, Blame, If
<1>34. ASSUME NEW t \in tasks, ImportFails(t) PROVE Phases'
  BY <1>34 DEF ImportFails, Unseen
<1>35. CASE Navigation
  BY <1>35, Navigates, <1>15
<1> HIDE DEF None, Owned, Placed, Phases, FirstStep, Formed, ScreenFormed, DataFormed,
       Only, Ways
<1> QED
  BY <1>1, <1>2, <1>3, <1>4, <1>5, <1>6, <1>7, <1>8, <1>9, <1>10, <1>11, <1>12,
     <1>13, <1>14, <1>15, <1>16, <1>17, <1>18, <1>19, <1>20, <1>21, <1>22, <1>23,
     <1>24, <1>25, <1>26, <1>27, <1>28, <1>29, <1>30, <1>31, <1>32, <1>33, <1>34,
     <1>35
     DEF Next, Ends, UnlockEnds, Navigation

(* A lock clears what was shown, and nothing refills it unless it is late.  *)
LEMMA LockedShowsNothingKept ==
    ASSUME Formed, Placed, Owned, Phases, LockedShowsNothing, [Next]_vars
    PROVE  LockedShowsNothing'
<1> USE DEF None, LockedShowsNothing, Owned, Placed, Phases, FirstStep, NoImport,
       Formed, ScreenFormed, DataFormed, Only, Ways
<1>1. CASE UNCHANGED vars
  BY <1>1 DEF vars
<1>2. CASE boot
  BY <1>2 DEF boot, screen
<1>3. CASE startOnboarding
  BY <1>3, Orphaned DEF startOnboarding, Leave
<1>4. CASE NameGiven
  BY <1>4 DEF NameGiven, ToStep, AtStep, Unseen
<1>5. CASE Forge
  BY <1>5 DEF Forge, AtStep, ToStep, Unseen, Start, Starting
<1>6. CASE ToBackup
  BY <1>6 DEF ToBackup, AtStep, ToStep, Unseen
<1>7. CASE cancelOnboarding
  BY <1>7, Orphaned DEF cancelOnboarding, AtStep, Leave
<1>8. CASE completeOnboarding
  BY <1>8, Orphaned DEF completeOnboarding, AtStep, Leave
<1>9. CASE submit
  BY <1>9 DEF submit, Unseen, Start, Starting
<1>10. CASE lockVault
  BY <1>10, Orphaned DEF lockVault, Leave, Takes
<1>11. ASSUME NEW kind \in Dialogs, ConfirmOpens(kind) PROVE LockedShowsNothing'
  BY <1>11 DEF ConfirmOpens, Opens, AtStep, At, Unseen, AtTabs
<1>12. CASE ConfirmCancelled
  BY <1>12 DEF ConfirmCancelled, Closed, Unseen
<1>13. CASE WipeConfirmed
  BY <1>13 DEF WipeConfirmed, Confirms, Closed, Start, Starting
<1>14. CASE DeleteConfirmed
  BY <1>14 DEF DeleteConfirmed, Confirms, Closed, Unseen, Start, Starting
<1>15. ASSUME NEW name \in Overlay, NEW c \in PlaceType, Visit(name, c)
       PROVE  LockedShowsNothing'
  BY <1>15, ShowsSets DEF Visit, Goes
<1>16. CASE Compares
  BY <1>16 DEF Compares, At
<1>17. CASE markContactVerified
  BY <1>17 DEF markContactVerified, At, screen, Unseen, Start, Starting
<1>18. CASE FileRead
  BY <1>18 DEF FileRead, Unseen
<1>19. CASE ImportConfirmed
  BY <1>19 DEF ImportConfirmed, Unseen, Start, Starting
<1>20. CASE ImportCancelled
  BY <1>20 DEF ImportCancelled, Unseen
<1>21. ASSUME NEW c \in Contact, onSecure(c) PROVE LockedShowsNothing'
  BY <1>21, ShowsSets DEF onSecure, Blame, If
<1>22. ASSUME NEW t \in tasks, Forged(t) PROVE LockedShowsNothing'
  BY <1>22, ForgedSets DEF Forged, Blame, If
<1>23. ASSUME NEW t \in tasks, Settled(t) PROVE LockedShowsNothing'
  BY <1>23 DEF Settled, LoadEnds, Takes, Blame, If
<1>24. ASSUME NEW t \in tasks, ForgeFails(t) PROVE LockedShowsNothing'
  BY <1>24 DEF ForgeFails, Unseen
<1>25. ASSUME NEW t \in tasks, Unlocked(t), t.op = "unlock" PROVE LockedShowsNothing'
  BY <1>25, Orphaned DEF Unlocked, Leave, Blame, If, Loading
<1>26. ASSUME NEW t \in tasks, NoVault(t), t.op = "unlock" PROVE LockedShowsNothing'
  BY <1>26, Orphaned DEF NoVault, Leave, Blame, If
<1>27. ASSUME NEW t \in tasks, WrongPassword(t), t.op = "unlock" PROVE LockedShowsNothing'
  BY <1>27 DEF WrongPassword, Unseen
<1>28. ASSUME NEW t \in tasks, UnlockThrows(t), t.op = "unlock" PROVE LockedShowsNothing'
  BY <1>28 DEF UnlockThrows, screen, Blame
<1>29. ASSUME NEW t \in tasks, Loaded(t) PROVE LockedShowsNothing'
  BY <1>29 DEF Loaded, LoadEnds, Takes, Blame, If, screen
<1>30. ASSUME NEW t \in tasks, Wiped(t) PROVE LockedShowsNothing'
  BY <1>30, Orphaned DEF Wiped, Leave, Blame, If
<1>31. ASSUME NEW t \in tasks, Deleted(t) PROVE LockedShowsNothing'
  BY <1>31, ContactsEndSets DEF Deleted
<1>32. ASSUME NEW t \in tasks, Verified(t) PROVE LockedShowsNothing'
  BY <1>32, ContactsEndSets DEF Verified
<1>33. ASSUME NEW t \in tasks, Imported(t) PROVE LockedShowsNothing'
  BY <1>33 DEF Imported, Blame, If
<1>34. ASSUME NEW t \in tasks, ImportFails(t) PROVE LockedShowsNothing'
  BY <1>34 DEF ImportFails, Unseen
<1>35. CASE Navigation
  BY <1>35, Navigates, <1>15
<1> HIDE DEF None, LockedShowsNothing, Owned, Placed, Phases, FirstStep, NoImport,
       Formed, ScreenFormed, DataFormed, Only, Ways
<1> QED
  BY <1>1, <1>2, <1>3, <1>4, <1>5, <1>6, <1>7, <1>8, <1>9, <1>10, <1>11, <1>12,
     <1>13, <1>14, <1>15, <1>16, <1>17, <1>18, <1>19, <1>20, <1>21, <1>22, <1>23,
     <1>24, <1>25, <1>26, <1>27, <1>28, <1>29, <1>30, <1>31, <1>32, <1>33, <1>34,
     <1>35
     DEF Next, Ends, UnlockEnds, Navigation

(* A contact is stored when it is shown.                                    *)
LEMMA ShownStoredKept ==
    ASSUME Formed, Placed, ShownStored, [Next]_vars PROVE ShownStored'
<1> USE DEF ShownStored, Formed, DataFormed, Only, Ways, BookType
<1>1. CASE UNCHANGED vars
  BY <1>1 DEF vars
<1>2. CASE boot
  BY <1>2 DEF boot, screen
<1>3. CASE startOnboarding
  BY <1>3, Orphaned DEF startOnboarding, Leave
<1>4. CASE NameGiven
  BY <1>4 DEF NameGiven, ToStep, AtStep, Unseen
<1>5. CASE Forge
  BY <1>5 DEF Forge, AtStep, ToStep, Unseen, Start, Starting
<1>6. CASE ToBackup
  BY <1>6 DEF ToBackup, AtStep, ToStep, Unseen
<1>7. CASE cancelOnboarding
  BY <1>7, Orphaned DEF cancelOnboarding, AtStep, Leave
<1>8. CASE completeOnboarding
  BY <1>8, Orphaned DEF completeOnboarding, AtStep, Leave
<1>9. CASE submit
  BY <1>9 DEF submit, Unseen, Start, Starting
<1>10. CASE lockVault
  BY <1>10, Orphaned DEF lockVault, Leave, Takes
<1>11. ASSUME NEW kind \in Dialogs, ConfirmOpens(kind) PROVE ShownStored'
  BY <1>11 DEF ConfirmOpens, Opens, AtStep, At, Unseen, AtTabs
<1>12. CASE ConfirmCancelled
  BY <1>12 DEF ConfirmCancelled, Closed, Unseen
<1>13. CASE WipeConfirmed
  BY <1>13 DEF WipeConfirmed, Confirms, Closed, Start, Starting
<1>14. CASE DeleteConfirmed
  BY <1>14 DEF DeleteConfirmed, Confirms, Closed, Unseen, Start, Starting
<1>15. ASSUME NEW name \in Overlay, NEW c \in PlaceType, Visit(name, c) PROVE ShownStored'
  BY <1>15, ShowsSets DEF Visit, Goes
<1>16. CASE Compares
  BY <1>16 DEF Compares, At
<1>17. CASE markContactVerified
  BY <1>17 DEF markContactVerified, At, screen, Unseen, Start, Starting
<1>18. CASE FileRead
  BY <1>18 DEF FileRead, Unseen
<1>19. CASE ImportConfirmed
  BY <1>19 DEF ImportConfirmed, Unseen, Start, Starting
<1>20. CASE ImportCancelled
  BY <1>20 DEF ImportCancelled, Unseen
<1>21. ASSUME NEW c \in Contact, onSecure(c) PROVE ShownStored'
  BY <1>21, ShowsSets DEF onSecure, Blame, If
<1>22. ASSUME NEW t \in tasks, Forged(t) PROVE ShownStored'
  BY <1>22, ForgedSets DEF Forged, Blame, If
<1>23. ASSUME NEW t \in tasks, Settled(t) PROVE ShownStored'
  BY <1>23 DEF Settled, LoadEnds, Takes, Blame, If
<1>24. ASSUME NEW t \in tasks, ForgeFails(t) PROVE ShownStored'
  BY <1>24 DEF ForgeFails, Unseen
<1>25. ASSUME NEW t \in tasks, Unlocked(t), t.op = "unlock" PROVE ShownStored'
  BY <1>25, Orphaned DEF Unlocked, Leave, Blame, If, Loading
<1>26. ASSUME NEW t \in tasks, NoVault(t), t.op = "unlock" PROVE ShownStored'
  BY <1>26, Orphaned DEF NoVault, Leave, Blame, If
<1>27. ASSUME NEW t \in tasks, WrongPassword(t), t.op = "unlock" PROVE ShownStored'
  BY <1>27 DEF WrongPassword, Unseen
<1>28. ASSUME NEW t \in tasks, UnlockThrows(t), t.op = "unlock" PROVE ShownStored'
  BY <1>28 DEF UnlockThrows, screen, Blame
<1>29. ASSUME NEW t \in tasks, Loaded(t) PROVE ShownStored'
  BY <1>29 DEF Loaded, LoadEnds, Takes, Blame, If, screen
<1>30. ASSUME NEW t \in tasks, Wiped(t) PROVE ShownStored'
  BY <1>30, Orphaned DEF Wiped, Leave, Blame, If
<1>31. ASSUME NEW t \in tasks, Deleted(t) PROVE ShownStored'
  BY <1>31, ContactsEndSets DEF Deleted
<1>32. ASSUME NEW t \in tasks, Verified(t) PROVE ShownStored'
  BY <1>32, ContactsEndSets DEF Verified
<1>33. ASSUME NEW t \in tasks, Imported(t) PROVE ShownStored'
  BY <1>33 DEF Imported, Blame, If
<1>34. ASSUME NEW t \in tasks, ImportFails(t) PROVE ShownStored'
  BY <1>34 DEF ImportFails, Unseen
<1>35. CASE Navigation
  BY <1>35, Navigates, <1>15
<1> HIDE DEF ShownStored, Formed, DataFormed, Only, Ways, BookType
<1> QED
  BY <1>1, <1>2, <1>3, <1>4, <1>5, <1>6, <1>7, <1>8, <1>9, <1>10, <1>11, <1>12,
     <1>13, <1>14, <1>15, <1>16, <1>17, <1>18, <1>19, <1>20, <1>21, <1>22, <1>23,
     <1>24, <1>25, <1>26, <1>27, <1>28, <1>29, <1>30, <1>31, <1>32, <1>33, <1>34,
     <1>35
     DEF Next, Ends, UnlockEnds, Navigation

(* An overlay about a contact is gone before the contact is.                *)
LEMMA OverlayHasContactKept ==
    ASSUME Formed, Placed, ShownStored, OverlayHasContact, [Next]_vars PROVE OverlayHasContact'
<1> USE DEF OverlayHasContact, Placed, ShownStored, Formed, ScreenFormed, DataFormed,
       Only, Ways, OfContact, Page, BookType, Fits, None
<1>1. CASE UNCHANGED vars
  BY <1>1 DEF vars
<1>2. CASE boot
  BY <1>2 DEF boot, screen
<1>3. CASE startOnboarding
  BY <1>3, Orphaned DEF startOnboarding, Leave
<1>4. CASE NameGiven
  BY <1>4 DEF NameGiven, ToStep, AtStep, Unseen
<1>5. CASE Forge
  BY <1>5 DEF Forge, AtStep, ToStep, Unseen, Start, Starting
<1>6. CASE ToBackup
  BY <1>6 DEF ToBackup, AtStep, ToStep, Unseen
<1>7. CASE cancelOnboarding
  BY <1>7, Orphaned DEF cancelOnboarding, AtStep, Leave
<1>8. CASE completeOnboarding
  BY <1>8, Orphaned DEF completeOnboarding, AtStep, Leave
<1>9. CASE submit
  BY <1>9 DEF submit, Unseen, Start, Starting
<1>10. CASE lockVault
  BY <1>10, Orphaned DEF lockVault, Leave, Takes
<1>11. ASSUME NEW kind \in Dialogs, ConfirmOpens(kind) PROVE OverlayHasContact'
  BY <1>11 DEF ConfirmOpens, Opens, AtStep, At, Unseen, AtTabs
<1>12. CASE ConfirmCancelled
  BY <1>12 DEF ConfirmCancelled, Closed, Unseen
<1>13. CASE WipeConfirmed
  BY <1>13 DEF WipeConfirmed, Confirms, Closed, Start, Starting
<1>14. CASE DeleteConfirmed
  BY <1>14 DEF DeleteConfirmed, Confirms, Closed, Unseen, Start, Starting
<1>15. ASSUME NEW name \in Overlay, NEW c \in PlaceType, Visit(name, c) PROVE OverlayHasContact'
  BY <1>15, ShowsSets DEF Visit, Goes
<1>16. CASE Compares
  BY <1>16 DEF Compares, At
<1>17. CASE markContactVerified
  BY <1>17 DEF markContactVerified, At, screen, Unseen, Start, Starting
<1>18. CASE FileRead
  BY <1>18 DEF FileRead, Unseen
<1>19. CASE ImportConfirmed
  BY <1>19 DEF ImportConfirmed, Unseen, Start, Starting
<1>20. CASE ImportCancelled
  BY <1>20 DEF ImportCancelled, Unseen
<1>21. ASSUME NEW c \in Contact, onSecure(c) PROVE OverlayHasContact'
  BY <1>21, ShowsSets DEF onSecure, Blame, If
<1>22. ASSUME NEW t \in tasks, Forged(t) PROVE OverlayHasContact'
  BY <1>22, ForgedSets DEF Forged, Blame, If
<1>23. ASSUME NEW t \in tasks, Settled(t) PROVE OverlayHasContact'
  BY <1>23 DEF Settled, LoadEnds, Takes, Blame, If
<1>24. ASSUME NEW t \in tasks, ForgeFails(t) PROVE OverlayHasContact'
  BY <1>24 DEF ForgeFails, Unseen
<1>25. ASSUME NEW t \in tasks, Unlocked(t), t.op = "unlock" PROVE OverlayHasContact'
  BY <1>25, Orphaned DEF Unlocked, Leave, Blame, If, Loading
<1>26. ASSUME NEW t \in tasks, NoVault(t), t.op = "unlock" PROVE OverlayHasContact'
  BY <1>26, Orphaned DEF NoVault, Leave, Blame, If
<1>27. ASSUME NEW t \in tasks, WrongPassword(t), t.op = "unlock" PROVE OverlayHasContact'
  BY <1>27 DEF WrongPassword, Unseen
<1>28. ASSUME NEW t \in tasks, UnlockThrows(t), t.op = "unlock" PROVE OverlayHasContact'
  BY <1>28 DEF UnlockThrows, screen, Blame
<1>29. ASSUME NEW t \in tasks, Loaded(t) PROVE OverlayHasContact'
  BY <1>29 DEF Loaded, LoadEnds, Takes, Blame, If, screen
<1>30. ASSUME NEW t \in tasks, Wiped(t) PROVE OverlayHasContact'
  BY <1>30, Orphaned DEF Wiped, Leave, Blame, If
<1>31. ASSUME NEW t \in tasks, Deleted(t) PROVE OverlayHasContact'
  BY <1>31, ContactsEndSets DEF Deleted
<1>32. ASSUME NEW t \in tasks, Verified(t) PROVE OverlayHasContact'
  BY <1>32, ContactsEndSets DEF Verified
<1>33. ASSUME NEW t \in tasks, Imported(t) PROVE OverlayHasContact'
  BY <1>33 DEF Imported, Blame, If
<1>34. ASSUME NEW t \in tasks, ImportFails(t) PROVE OverlayHasContact'
  BY <1>34 DEF ImportFails, Unseen
<1>35. CASE Navigation
  BY <1>35, Navigates, <1>15
<1> HIDE DEF OverlayHasContact, Placed, ShownStored, Formed, ScreenFormed, DataFormed,
       Only, Ways, OfContact, Page, BookType, Fits, None
<1> QED
  BY <1>1, <1>2, <1>3, <1>4, <1>5, <1>6, <1>7, <1>8, <1>9, <1>10, <1>11, <1>12,
     <1>13, <1>14, <1>15, <1>16, <1>17, <1>18, <1>19, <1>20, <1>21, <1>22, <1>23,
     <1>24, <1>25, <1>26, <1>27, <1>28, <1>29, <1>30, <1>31, <1>32, <1>33, <1>34,
     <1>35
     DEF Next, Ends, UnlockEnds, Navigation

(* Two contacts meet in one overlay only where a channel intrudes.          *)
LEMMA LocalIsTheContactsKept ==
    ASSUME Formed, LocalIsTheContacts, [Next]_vars PROVE LocalIsTheContacts'
<1> USE DEF LocalIsTheContacts, Formed, ScreenFormed, DataFormed, Only, Ways, OfContact,
       LocalType, FreshLocal, Fits, None
<1>1. CASE UNCHANGED vars
  BY <1>1 DEF vars
<1>2. CASE boot
  BY <1>2 DEF boot, screen
<1>3. CASE startOnboarding
  BY <1>3, Orphaned DEF startOnboarding, Leave
<1>4. CASE NameGiven
  BY <1>4 DEF NameGiven, ToStep, AtStep, Unseen
<1>5. CASE Forge
  BY <1>5 DEF Forge, AtStep, ToStep, Unseen, Start, Starting
<1>6. CASE ToBackup
  BY <1>6 DEF ToBackup, AtStep, ToStep, Unseen
<1>7. CASE cancelOnboarding
  BY <1>7, Orphaned DEF cancelOnboarding, AtStep, Leave
<1>8. CASE completeOnboarding
  BY <1>8, Orphaned DEF completeOnboarding, AtStep, Leave
<1>9. CASE submit
  BY <1>9 DEF submit, Unseen, Start, Starting
<1>10. CASE lockVault
  BY <1>10, Orphaned DEF lockVault, Leave, Takes
<1>11. ASSUME NEW kind \in Dialogs, ConfirmOpens(kind) PROVE LocalIsTheContacts'
  BY <1>11 DEF ConfirmOpens, Opens, AtStep, At, Unseen, AtTabs
<1>12. CASE ConfirmCancelled
  BY <1>12 DEF ConfirmCancelled, Closed, Unseen
<1>13. CASE WipeConfirmed
  BY <1>13 DEF WipeConfirmed, Confirms, Closed, Start, Starting
<1>14. CASE DeleteConfirmed
  BY <1>14 DEF DeleteConfirmed, Confirms, Closed, Unseen, Start, Starting
<1>15. ASSUME NEW name \in Overlay, NEW c \in PlaceType, Visit(name, c)
       PROVE  LocalIsTheContacts'
  BY <1>15, ShowsSets DEF Visit, Goes
<1>16. CASE Compares
  BY <1>16 DEF Compares, At
<1>17. CASE markContactVerified
  BY <1>17 DEF markContactVerified, At, screen, Unseen, Start, Starting
<1>18. CASE FileRead
  BY <1>18 DEF FileRead, Unseen
<1>19. CASE ImportConfirmed
  BY <1>19 DEF ImportConfirmed, Unseen, Start, Starting
<1>20. CASE ImportCancelled
  BY <1>20 DEF ImportCancelled, Unseen
<1>21. ASSUME NEW c \in Contact, onSecure(c) PROVE LocalIsTheContacts'
  BY <1>21, ShowsSets DEF onSecure, Blame, If
<1>22. ASSUME NEW t \in tasks, Forged(t) PROVE LocalIsTheContacts'
  BY <1>22, ForgedSets DEF Forged, Blame, If
<1>23. ASSUME NEW t \in tasks, Settled(t) PROVE LocalIsTheContacts'
  BY <1>23 DEF Settled, LoadEnds, Takes, Blame, If
<1>24. ASSUME NEW t \in tasks, ForgeFails(t) PROVE LocalIsTheContacts'
  BY <1>24 DEF ForgeFails, Unseen
<1>25. ASSUME NEW t \in tasks, Unlocked(t), t.op = "unlock" PROVE LocalIsTheContacts'
  BY <1>25, Orphaned DEF Unlocked, Leave, Blame, If, Loading
<1>26. ASSUME NEW t \in tasks, NoVault(t), t.op = "unlock" PROVE LocalIsTheContacts'
  BY <1>26, Orphaned DEF NoVault, Leave, Blame, If
<1>27. ASSUME NEW t \in tasks, WrongPassword(t), t.op = "unlock" PROVE LocalIsTheContacts'
  BY <1>27 DEF WrongPassword, Unseen
<1>28. ASSUME NEW t \in tasks, UnlockThrows(t), t.op = "unlock" PROVE LocalIsTheContacts'
  BY <1>28 DEF UnlockThrows, screen, Blame
<1>29. ASSUME NEW t \in tasks, Loaded(t) PROVE LocalIsTheContacts'
  BY <1>29 DEF Loaded, LoadEnds, Takes, Blame, If, screen
<1>30. ASSUME NEW t \in tasks, Wiped(t) PROVE LocalIsTheContacts'
  BY <1>30, Orphaned DEF Wiped, Leave, Blame, If
<1>31. ASSUME NEW t \in tasks, Deleted(t) PROVE LocalIsTheContacts'
  BY <1>31, ContactsEndSets DEF Deleted
<1>32. ASSUME NEW t \in tasks, Verified(t) PROVE LocalIsTheContacts'
  BY <1>32, ContactsEndSets DEF Verified
<1>33. ASSUME NEW t \in tasks, Imported(t) PROVE LocalIsTheContacts'
  BY <1>33 DEF Imported, Blame, If
<1>34. ASSUME NEW t \in tasks, ImportFails(t) PROVE LocalIsTheContacts'
  BY <1>34 DEF ImportFails, Unseen
<1>35. CASE Navigation
  BY <1>35, Navigates, <1>15
<1> HIDE DEF LocalIsTheContacts, Formed, ScreenFormed, DataFormed, Only, Ways,
       OfContact, LocalType, FreshLocal, Fits, None
<1> QED
  BY <1>1, <1>2, <1>3, <1>4, <1>5, <1>6, <1>7, <1>8, <1>9, <1>10, <1>11, <1>12,
     <1>13, <1>14, <1>15, <1>16, <1>17, <1>18, <1>19, <1>20, <1>21, <1>22, <1>23,
     <1>24, <1>25, <1>26, <1>27, <1>28, <1>29, <1>30, <1>31, <1>32, <1>33, <1>34,
     <1>35
     DEF Next, Ends, UnlockEnds, Navigation

(* A contact that is deleted takes its ticked box and its comparison along. *)
LEMMA TickedKept ==
    ASSUME Formed, Placed, Ticked, VerifiedWasCompared, [Next]_vars PROVE Ticked'
<1> USE DEF Ticked, VerifiedWasCompared, Placed, Formed, ScreenFormed, DataFormed, Only,
       Ways, Handling, LocalType, FreshLocal, None, OfContact, BookType, Fits
<1>1. CASE UNCHANGED vars
  BY <1>1 DEF vars
<1>2. CASE boot
  BY <1>2 DEF boot, screen
<1>3. CASE startOnboarding
  BY <1>3, Orphaned DEF startOnboarding, Leave
<1>4. CASE NameGiven
  BY <1>4 DEF NameGiven, ToStep, AtStep, Unseen
<1>5. CASE Forge
  BY <1>5 DEF Forge, AtStep, ToStep, Unseen, Start, Starting
<1>6. CASE ToBackup
  BY <1>6 DEF ToBackup, AtStep, ToStep, Unseen
<1>7. CASE cancelOnboarding
  BY <1>7, Orphaned DEF cancelOnboarding, AtStep, Leave
<1>8. CASE completeOnboarding
  BY <1>8, Orphaned DEF completeOnboarding, AtStep, Leave
<1>9. CASE submit
  BY <1>9 DEF submit, Unseen, Start, Starting
<1>10. CASE lockVault
  BY <1>10, Orphaned DEF lockVault, Leave, Takes
<1>11. ASSUME NEW kind \in Dialogs, ConfirmOpens(kind) PROVE Ticked'
  BY <1>11 DEF ConfirmOpens, Opens, AtStep, At, Unseen, AtTabs
<1>12. CASE ConfirmCancelled
  BY <1>12 DEF ConfirmCancelled, Closed, Unseen
<1>13. CASE WipeConfirmed
  BY <1>13 DEF WipeConfirmed, Confirms, Closed, Start, Starting
<1>14. CASE DeleteConfirmed
  BY <1>14 DEF DeleteConfirmed, Confirms, Closed, Unseen, Start, Starting
<1>15. ASSUME NEW name \in Overlay, NEW c \in PlaceType, Visit(name, c) PROVE Ticked'
  BY <1>15, ShowsSets DEF Visit, Goes
<1>16. CASE Compares
  BY <1>16 DEF Compares, At
<1>17. CASE markContactVerified
  BY <1>17 DEF markContactVerified, At, screen, Unseen, Start, Starting
<1>18. CASE FileRead
  BY <1>18 DEF FileRead, Unseen
<1>19. CASE ImportConfirmed
  BY <1>19 DEF ImportConfirmed, Unseen, Start, Starting
<1>20. CASE ImportCancelled
  BY <1>20 DEF ImportCancelled, Unseen
<1>21. ASSUME NEW c \in Contact, onSecure(c) PROVE Ticked'
  BY <1>21, ShowsSets DEF onSecure, Blame, If
<1>22. ASSUME NEW t \in tasks, Forged(t) PROVE Ticked'
  BY <1>22, ForgedSets DEF Forged, Blame, If
<1>23. ASSUME NEW t \in tasks, Settled(t) PROVE Ticked'
  BY <1>23 DEF Settled, LoadEnds, Takes, Blame, If
<1>24. ASSUME NEW t \in tasks, ForgeFails(t) PROVE Ticked'
  BY <1>24 DEF ForgeFails, Unseen
<1>25. ASSUME NEW t \in tasks, Unlocked(t), t.op = "unlock" PROVE Ticked'
  BY <1>25, Orphaned DEF Unlocked, Leave, Blame, If, Loading
<1>26. ASSUME NEW t \in tasks, NoVault(t), t.op = "unlock" PROVE Ticked'
  BY <1>26, Orphaned DEF NoVault, Leave, Blame, If
<1>27. ASSUME NEW t \in tasks, WrongPassword(t), t.op = "unlock" PROVE Ticked'
  BY <1>27 DEF WrongPassword, Unseen
<1>28. ASSUME NEW t \in tasks, UnlockThrows(t), t.op = "unlock" PROVE Ticked'
  BY <1>28 DEF UnlockThrows, screen, Blame
<1>29. ASSUME NEW t \in tasks, Loaded(t) PROVE Ticked'
  BY <1>29 DEF Loaded, LoadEnds, Takes, Blame, If, screen
<1>30. ASSUME NEW t \in tasks, Wiped(t) PROVE Ticked'
  BY <1>30, Orphaned DEF Wiped, Leave, Blame, If
<1>31. ASSUME NEW t \in tasks, Deleted(t) PROVE Ticked'
  BY <1>31, ContactsEndSets DEF Deleted
<1>32. ASSUME NEW t \in tasks, Verified(t) PROVE Ticked'
  BY <1>32, ContactsEndSets DEF Verified
<1>33. ASSUME NEW t \in tasks, Imported(t) PROVE Ticked'
  BY <1>33 DEF Imported, Blame, If
<1>34. ASSUME NEW t \in tasks, ImportFails(t) PROVE Ticked'
  BY <1>34 DEF ImportFails, Unseen
<1>35. CASE Navigation
  BY <1>35, Navigates, <1>15
<1> HIDE DEF Ticked, VerifiedWasCompared, Placed, Formed, ScreenFormed, DataFormed,
       Only, Ways, Handling, LocalType, FreshLocal, None, OfContact, BookType, Fits
<1> QED
  BY <1>1, <1>2, <1>3, <1>4, <1>5, <1>6, <1>7, <1>8, <1>9, <1>10, <1>11, <1>12,
     <1>13, <1>14, <1>15, <1>16, <1>17, <1>18, <1>19, <1>20, <1>21, <1>22, <1>23,
     <1>24, <1>25, <1>26, <1>27, <1>28, <1>29, <1>30, <1>31, <1>32, <1>33, <1>34,
     <1>35
     DEF Next, Ends, UnlockEnds, Navigation

(* Only a ticked box verifies, and only what is verified was compared.      *)
LEMMA VerifiedWasComparedKept ==
    ASSUME Formed, Placed, Ticked, VerifiedWasCompared, [Next]_vars PROVE VerifiedWasCompared'
<1> USE DEF Ticked, VerifiedWasCompared, Placed, Formed, ScreenFormed, DataFormed, Only,
       Ways, Handling, BookType
<1>1. CASE UNCHANGED vars
  BY <1>1 DEF vars
<1>2. CASE boot
  BY <1>2 DEF boot, screen
<1>3. CASE startOnboarding
  BY <1>3, Orphaned DEF startOnboarding, Leave
<1>4. CASE NameGiven
  BY <1>4 DEF NameGiven, ToStep, AtStep, Unseen
<1>5. CASE Forge
  BY <1>5 DEF Forge, AtStep, ToStep, Unseen, Start, Starting
<1>6. CASE ToBackup
  BY <1>6 DEF ToBackup, AtStep, ToStep, Unseen
<1>7. CASE cancelOnboarding
  BY <1>7, Orphaned DEF cancelOnboarding, AtStep, Leave
<1>8. CASE completeOnboarding
  BY <1>8, Orphaned DEF completeOnboarding, AtStep, Leave
<1>9. CASE submit
  BY <1>9 DEF submit, Unseen, Start, Starting
<1>10. CASE lockVault
  BY <1>10, Orphaned DEF lockVault, Leave, Takes
<1>11. ASSUME NEW kind \in Dialogs, ConfirmOpens(kind) PROVE VerifiedWasCompared'
  BY <1>11 DEF ConfirmOpens, Opens, AtStep, At, Unseen, AtTabs
<1>12. CASE ConfirmCancelled
  BY <1>12 DEF ConfirmCancelled, Closed, Unseen
<1>13. CASE WipeConfirmed
  BY <1>13 DEF WipeConfirmed, Confirms, Closed, Start, Starting
<1>14. CASE DeleteConfirmed
  BY <1>14 DEF DeleteConfirmed, Confirms, Closed, Unseen, Start, Starting
<1>15. ASSUME NEW name \in Overlay, NEW c \in PlaceType, Visit(name, c)
       PROVE  VerifiedWasCompared'
  BY <1>15, ShowsSets DEF Visit, Goes
<1>16. CASE Compares
  BY <1>16 DEF Compares, At
<1>17. CASE markContactVerified
  BY <1>17 DEF markContactVerified, At, screen, Unseen, Start, Starting
<1>18. CASE FileRead
  BY <1>18 DEF FileRead, Unseen
<1>19. CASE ImportConfirmed
  BY <1>19 DEF ImportConfirmed, Unseen, Start, Starting
<1>20. CASE ImportCancelled
  BY <1>20 DEF ImportCancelled, Unseen
<1>21. ASSUME NEW c \in Contact, onSecure(c) PROVE VerifiedWasCompared'
  BY <1>21, ShowsSets DEF onSecure, Blame, If
<1>22. ASSUME NEW t \in tasks, Forged(t) PROVE VerifiedWasCompared'
  BY <1>22, ForgedSets DEF Forged, Blame, If
<1>23. ASSUME NEW t \in tasks, Settled(t) PROVE VerifiedWasCompared'
  BY <1>23 DEF Settled, LoadEnds, Takes, Blame, If
<1>24. ASSUME NEW t \in tasks, ForgeFails(t) PROVE VerifiedWasCompared'
  BY <1>24 DEF ForgeFails, Unseen
<1>25. ASSUME NEW t \in tasks, Unlocked(t), t.op = "unlock" PROVE VerifiedWasCompared'
  BY <1>25, Orphaned DEF Unlocked, Leave, Blame, If, Loading
<1>26. ASSUME NEW t \in tasks, NoVault(t), t.op = "unlock" PROVE VerifiedWasCompared'
  BY <1>26, Orphaned DEF NoVault, Leave, Blame, If
<1>27. ASSUME NEW t \in tasks, WrongPassword(t), t.op = "unlock" PROVE VerifiedWasCompared'
  BY <1>27 DEF WrongPassword, Unseen
<1>28. ASSUME NEW t \in tasks, UnlockThrows(t), t.op = "unlock" PROVE VerifiedWasCompared'
  BY <1>28 DEF UnlockThrows, screen, Blame
<1>29. ASSUME NEW t \in tasks, Loaded(t) PROVE VerifiedWasCompared'
  BY <1>29 DEF Loaded, LoadEnds, Takes, Blame, If, screen
<1>30. ASSUME NEW t \in tasks, Wiped(t) PROVE VerifiedWasCompared'
  BY <1>30, Orphaned DEF Wiped, Leave, Blame, If
<1>31. ASSUME NEW t \in tasks, Deleted(t) PROVE VerifiedWasCompared'
  BY <1>31, ContactsEndSets DEF Deleted
<1>32. ASSUME NEW t \in tasks, Verified(t) PROVE VerifiedWasCompared'
  BY <1>32, ContactsEndSets DEF Verified
<1>33. ASSUME NEW t \in tasks, Imported(t) PROVE VerifiedWasCompared'
  BY <1>33 DEF Imported, Blame, If
<1>34. ASSUME NEW t \in tasks, ImportFails(t) PROVE VerifiedWasCompared'
  BY <1>34 DEF ImportFails, Unseen
<1>35. CASE Navigation
  BY <1>35, Navigates, <1>15
<1> HIDE DEF Ticked, VerifiedWasCompared, Placed, Formed, ScreenFormed, DataFormed,
       Only, Ways, Handling, BookType
<1> QED
  BY <1>1, <1>2, <1>3, <1>4, <1>5, <1>6, <1>7, <1>8, <1>9, <1>10, <1>11, <1>12,
     <1>13, <1>14, <1>15, <1>16, <1>17, <1>18, <1>19, <1>20, <1>21, <1>22, <1>23,
     <1>24, <1>25, <1>26, <1>27, <1>28, <1>29, <1>30, <1>31, <1>32, <1>33, <1>34,
     <1>35
     DEF Next, Ends, UnlockEnds, Navigation

(* An operation that ends answers its own screen, and no other's end does.  *)
LEMMA WaitersAreAnsweredKept ==
    ASSUME Formed, Placed, Owned, WaitersAreAnswered, [Next]_vars PROVE WaitersAreAnswered'
<1> USE DEF None, WaitersAreAnswered, Pending, Placed, Owned, FirstStep, NoImport,
       Formed, ScreenFormed, DataFormed, Fits, Only, Ways
<1>1. CASE UNCHANGED vars
  BY <1>1 DEF vars
<1>2. CASE boot
  BY <1>2 DEF boot, screen
<1>3. CASE startOnboarding
  BY <1>3, Orphaned DEF startOnboarding, Leave
<1>4. CASE NameGiven
  BY <1>4 DEF NameGiven, ToStep, AtStep, Unseen
<1>5. CASE Forge
  <2>1. /\ Starting("forge", None) \in tasks'
        /\ Starting("forge", None).op = "forge" /\ Starting("forge", None).mine
    BY <1>5 DEF Forge, Start, Starting
  <2> QED
    BY <1>5, <2>1 DEF Forge, AtStep, ToStep, Unseen, Start, Starting
<1>6. CASE ToBackup
  BY <1>6 DEF ToBackup, AtStep, ToStep, Unseen
<1>7. CASE cancelOnboarding
  BY <1>7, Orphaned DEF cancelOnboarding, AtStep, Leave
<1>8. CASE completeOnboarding
  BY <1>8, Orphaned DEF completeOnboarding, AtStep, Leave
<1>9. CASE submit
  <2>1. /\ Starting("unlock", None) \in tasks'
        /\ Starting("unlock", None).op = "unlock" /\ Starting("unlock", None).mine
    BY <1>9 DEF submit, Start, Starting
  <2> QED
    BY <1>9, <2>1 DEF submit, Unseen, Start, Starting
<1>10. CASE lockVault
  BY <1>10, Orphaned DEF lockVault, Leave, Takes
<1>11. ASSUME NEW kind \in Dialogs, ConfirmOpens(kind) PROVE WaitersAreAnswered'
  BY <1>11 DEF ConfirmOpens, Opens, AtStep, At, Unseen, AtTabs
<1>12. CASE ConfirmCancelled
  BY <1>12 DEF ConfirmCancelled, Closed, Unseen
<1>13. CASE WipeConfirmed
  BY <1>13 DEF WipeConfirmed, Confirms, Closed, Start, Starting
<1>14. CASE DeleteConfirmed
  BY <1>14 DEF DeleteConfirmed, Confirms, Closed, Unseen, Start, Starting
<1>15. ASSUME NEW name \in Overlay, NEW c \in PlaceType, Visit(name, c)
       PROVE  WaitersAreAnswered'
  BY <1>15, ShowsSets DEF Visit, Goes
<1>16. CASE Compares
  BY <1>16 DEF Compares, At
<1>17. CASE markContactVerified
  BY <1>17 DEF markContactVerified, At, screen, Unseen, Start, Starting
<1>18. CASE FileRead
  BY <1>18 DEF FileRead, Unseen
<1>19. CASE ImportConfirmed
  BY <1>19 DEF ImportConfirmed, Unseen, Start, Starting
<1>20. CASE ImportCancelled
  BY <1>20 DEF ImportCancelled, Unseen
<1>21. ASSUME NEW c \in Contact, onSecure(c) PROVE WaitersAreAnswered'
  BY <1>21, ShowsSets DEF onSecure, Blame, If
<1>22. ASSUME NEW t \in tasks, Forged(t) PROVE WaitersAreAnswered'
  <2>1. UNCHANGED <<form, wizard, import>> /\ amiss \subseteq amiss' /\ t.op = "forge"
    BY <1>22 DEF Forged, Blame
  <2>2. /\ t.mine => \E u \in tasks' : u.op = "settle" /\ u.mine
        /\ \A u \in tasks : u # t => u \in tasks'
    BY <1>22, ForgedSets
  <2> HIDE DEF Formed, Placed, Owned
  <2> QED
    BY <2>1, <2>2
<1>23. ASSUME NEW t \in tasks, Settled(t) PROVE WaitersAreAnswered'
  BY <1>23 DEF Settled, LoadEnds, Takes, Blame, If
<1>24. ASSUME NEW t \in tasks, ForgeFails(t) PROVE WaitersAreAnswered'
  BY <1>24 DEF ForgeFails, Unseen
<1>25. ASSUME NEW t \in tasks, Unlocked(t), t.op = "unlock" PROVE WaitersAreAnswered'
  BY <1>25, Orphaned DEF Unlocked, Leave, Blame, If, Loading
<1>26. ASSUME NEW t \in tasks, NoVault(t), t.op = "unlock" PROVE WaitersAreAnswered'
  BY <1>26, Orphaned DEF NoVault, Leave, Blame, If
<1>27. ASSUME NEW t \in tasks, WrongPassword(t), t.op = "unlock" PROVE WaitersAreAnswered'
  BY <1>27 DEF WrongPassword, Unseen
<1>28. ASSUME NEW t \in tasks, UnlockThrows(t), t.op = "unlock" PROVE WaitersAreAnswered'
  BY <1>28 DEF UnlockThrows, screen, Blame
<1>29. ASSUME NEW t \in tasks, Loaded(t) PROVE WaitersAreAnswered'
  BY <1>29 DEF Loaded, LoadEnds, Takes, Blame, If, screen
<1>30. ASSUME NEW t \in tasks, Wiped(t) PROVE WaitersAreAnswered'
  BY <1>30, Orphaned DEF Wiped, Leave, Blame, If
<1>31. ASSUME NEW t \in tasks, Deleted(t) PROVE WaitersAreAnswered'
  <2>1. /\ nav.overlay = None => tasks' = tasks \ {t}
        /\ \A u \in tasks \ {t} : u.mine /\ u.op = "import" => u \in tasks'
        /\ UNCHANGED <<form, wizard, import>> /\ amiss \subseteq amiss' /\ t.op = "delete"
    BY <1>31, ContactsEndSets DEF Deleted
  <2>2. CASE nav.overlay = None
    BY <2>1, <2>2
  <2>3. CASE nav.overlay # None
    <3>1. ~form /\ wizard.step # 2
      BY <2>3
    <3> QED
      BY <2>1, <3>1
  <2> QED
    BY <2>2, <2>3
<1>32. ASSUME NEW t \in tasks, Verified(t) PROVE WaitersAreAnswered'
  <2>1. /\ nav.overlay = None => tasks' = tasks \ {t}
        /\ \A u \in tasks \ {t} : u.mine /\ u.op = "import" => u \in tasks'
        /\ UNCHANGED <<form, wizard, import>> /\ amiss \subseteq amiss' /\ t.op = "verify"
    BY <1>32, ContactsEndSets DEF Verified
  <2>2. CASE nav.overlay = None
    BY <2>1, <2>2
  <2>3. CASE nav.overlay # None
    <3>1. ~form /\ wizard.step # 2
      BY <2>3
    <3> QED
      BY <2>1, <3>1
  <2> QED
    BY <2>2, <2>3
<1>33. ASSUME NEW t \in tasks, Imported(t) PROVE WaitersAreAnswered'
  BY <1>33 DEF Imported, Blame, If
<1>34. ASSUME NEW t \in tasks, ImportFails(t) PROVE WaitersAreAnswered'
  BY <1>34 DEF ImportFails, Unseen
<1>35. CASE Navigation
  BY <1>35, Navigates, <1>15
<1> HIDE DEF None, WaitersAreAnswered, Pending, Placed, Owned, FirstStep, NoImport,
       Formed, ScreenFormed, DataFormed, Fits, Only, Ways
<1> QED
  BY <1>1, <1>2, <1>3, <1>4, <1>5, <1>6, <1>7, <1>8, <1>9, <1>10, <1>11, <1>12,
     <1>13, <1>14, <1>15, <1>16, <1>17, <1>18, <1>19, <1>20, <1>21, <1>22, <1>23,
     <1>24, <1>25, <1>26, <1>27, <1>28, <1>29, <1>30, <1>31, <1>32, <1>33, <1>34,
     <1>35
     DEF Next, Ends, UnlockEnds, Navigation

(* Before the boot nothing is shown and nothing is under way.               *)
LEMMA InitInv == Init => IInv
<1> SUFFICES ASSUME Init PROVE IInv
  OBVIOUS
<1> USE Bounds DEF None
<1>1. Formed
  <2>1. Fits(tasks, MaxTasks)
    BY FS_EmptySet DEF Init, Fits
  <2>2. ScreenFormed
    <3>1. nav \in NavType /\ nav.overlay \notin OfContact /\ nav.contact = None
      BY DEF Init, NavType, Overlay, OfContact, PlaceType
    <3>2. local \in LocalType
      BY DEF Init, LocalType, PlaceType
    <3>3. /\ wizard \in [step : 0..3, done : BOOLEAN]
          /\ import \in [open : BOOLEAN, busy : BOOLEAN]
      BY DEF Init, FirstStep, NoImport
    <3> QED
      BY <3>1, <3>2, <3>3 DEF Init, ScreenFormed, Phase
  <2>3. DataFormed
    <3>1. disk \in [vault : BOOLEAN, contacts : SUBSET Contact]
      <4>1. \/ disk = [vault |-> FALSE, contacts |-> {}]
            \/ \E C \in SUBSET Contact : disk = [vault |-> TRUE, contacts |-> C]
        BY DEF Init
      <4>2. ASSUME NEW C \in SUBSET Contact, NEW v \in BOOLEAN
            PROVE  [vault |-> v, contacts |-> C] \in [vault : BOOLEAN, contacts : SUBSET Contact]
        OBVIOUS
      <4>3. {} \in SUBSET Contact
        OBVIOUS
      <4> QED
        BY <4>1, <4>2, <4>3
    <3>2. book \in BookType
      BY <3>1 DEF Init, BookType
    <3> QED
      BY <3>1, <3>2 DEF Init, DataFormed
  <2> QED
    BY <2>1, <2>2, <2>3 DEF Formed
<1>2. Placed /\ Owned /\ Phases /\ LockedShowsNothing /\ ShownStored /\ Ticked
  BY DEF Init, Placed, Owned, Phases, LockedShowsNothing, ShownStored, Ticked,
     FirstStep, NoImport
<1>3. OverlayHasContact /\ LocalIsTheContacts /\ VerifiedWasCompared /\ WaitersAreAnswered
  BY DEF Init, OverlayHasContact, LocalIsTheContacts, VerifiedWasCompared,
     WaitersAreAnswered,
         OfContact, FirstStep, NoImport
<1> QED
  BY <1>1, <1>2, <1>3, Types DEF IInv

(* Every step keeps every part.                                             *)
LEMMA NextInv == IInv /\ [Next]_vars => IInv'
<1> SUFFICES ASSUME IInv, [Next]_vars PROVE IInv'
  OBVIOUS
<1>1. Formed
  BY Types DEF IInv
<1>2. Formed'
  BY <1>1, TypeKept DEF IInv
<1>3. (TypeOK /\ IsFiniteSet(tasks))'
  BY <1>2, Types, PTL
<1> QED
  BY <1>1, <1>3, PlacedKept, OwnedKept, PhasesKept, LockedShowsNothingKept,
     ShownStoredKept,
     OverlayHasContactKept, LocalIsTheContactsKept, TickedKept, VerifiedWasComparedKept,
     WaitersAreAnsweredKept DEF IInv

(* The strengthening says what the runs check.                              *)
LEMMA InvAgrees == IInv => ScreenAgrees
<1> SUFFICES ASSUME IInv PROVE ScreenAgrees
  OBVIOUS
<1>1. PhaseAgrees
  BY DEF IInv, Phases, PhaseAgrees, UnlockOffered
<1>2. ClaimsAreEarned
  <2>1. ASSUME book.verified \subseteq book.compared
        PROVE  Claimed.verified <= Cardinality(book.compared)
    <3>1. IsFiniteSet(book.compared)
      BY Bounds, FS_Subset DEF IInv, TypeOK
    <3> QED
      BY <2>1, <3>1, FS_Subset DEF Claimed
  <2> QED
    BY <1>1, <2>1
       DEF IInv, PhaseAgrees, VerifiedWasCompared, ClaimsAreEarned, Claimed
<1> QED
  BY <1>1, <1>2 DEF IInv, ScreenAgrees

(* ScreenAgrees: the phase, the overlays and the claims of every screen fit *)
(* the vault and the contacts, and whoever waits is waited for, for any     *)
(* contacts and any bound, apart from the ways the property tolerates.      *)
THEOREM ScreenAlwaysAgrees == Spec => []ScreenAgrees
<1>1. Spec => []IInv
  BY InitInv, NextInv, PTL DEF Spec
<1> QED
  BY <1>1, InvAgrees, PTL

(* VerifiedWasCompared: no order of deletions, imports and channels leaves  *)
(* a contact marked verified that the user did not compare.                 *)
THEOREM VerifiedAlwaysCompared == Spec => []VerifiedWasCompared
<1>1. Spec => []IInv
  BY InitInv, NextInv, PTL DEF Spec
<1>2. IInv => VerifiedWasCompared
  BY DEF IInv
<1> QED
  BY <1>1, <1>2, PTL
=============================================================================

------------------------------ MODULE AutoLock ------------------------------
(***************************************************************************)
(* The vault's auto-lock (hooks/use-auto-lock.ts): an interval that looks  *)
(* how long the user has been idle and how long the page has been hidden.  *)
(* The effect that sets it up starts over, and forgets both, whenever the  *)
(* vault is unlocked or a setting changes; a setting changes only after    *)
(* its record was written.                                                 *)
(*                                                                         *)
(* Time is discrete and counted while the vault is open.                   *)
(*                                                                         *)
(* The history variable amiss records:                                     *)
(*   frozen    the interval came late: the page was throttled or suspended *)
(*   restarted the effect started over while the page was hidden           *)
(***************************************************************************)
EXTENDS Naturals

CONSTANTS Minutes,    \* values of autoLockMinutes
          Minute,     \* a minute
          HideDelay,  \* HIDE_LOCK_DELAY_MS
          Period,     \* of the interval
          MaxLate     \* bound on how late the interval may come

ASSUME AutoLockAssumption ==
    /\ Minutes \subseteq Nat /\ MaxLate \in Nat
    /\ {Minute, HideDelay, Period} \subseteq Nat \ {0}

VARIABLES
    unlocked,    \* is AppState.vaultStatus "unlocked"?
    settings,    \* AppState.settings: autoLockMinutes, lockOnHide
    saving,      \* settings that updateSettings or loadAllData has yet to set
    hidden,      \* is document.visibilityState "hidden"?
    idle,        \* Date.now() - lastActivity
    marked,      \* is hiddenAt set?  It is then the time the page was hidden
    away,        \* how long the page has been hidden, the vault open
    sinceCheck,  \* since the interval was set up or ran
    amiss        \* history: see above

lockVars == <<unlocked, settings, saving, hidden, idle, marked, away, sinceCheck, amiss>>

Settings == [minutes : Minutes, onHide : BOOLEAN]
Larger(m, n) == IF m >= n THEN m ELSE n
idleLimit == Larger(1, settings.minutes) * Minute
Late == Period + MaxLate

LockInit ==
    /\ unlocked = FALSE /\ hidden = FALSE
    /\ settings \in Settings /\ saving = {}
    /\ idle = 0 /\ marked = FALSE /\ away = 0 /\ sinceCheck = 0 /\ amiss = {}

(* The effect starts over.                                                  *)
Armed == idle' = 0 /\ sinceCheck' = 0 /\ marked' = FALSE
Restarts ==
    /\ Armed
    /\ amiss' = IF hidden THEN amiss \cup {"restarted"} ELSE amiss

unlockVault ==
    /\ ~unlocked /\ unlocked' = TRUE /\ Restarts /\ away' = 0
    /\ \E loaded \in Settings : saving' = saving \cup {loaded}
    /\ UNCHANGED <<settings, hidden>>

lockVault ==
    /\ unlocked' = FALSE /\ idle' = 0 /\ marked' = FALSE /\ away' = 0 /\ sinceCheck' = 0
    /\ UNCHANGED <<settings, saving, hidden, amiss>>

LockNow == unlocked /\ ~hidden /\ lockVault

(* The controls of the settings; a touch is an activity.  A control sets    *)
(* one of the two; several saves may be under way.                          *)
updateSettings ==
    /\ unlocked /\ ~hidden
    /\ \E next \in Settings :
         /\ \/ next.onHide = settings.onHide
            \/ next.minutes = settings.minutes
         /\ saving' = saving \cup {next}
    /\ idle' = 0
    /\ UNCHANGED <<unlocked, settings, hidden, marked, away, sinceCheck, amiss>>

(* set({ settings }): the effect depends on the values.                     *)
SettingsSet(next) ==
    /\ next \in saving /\ settings' = next /\ saving' = saving \ {next}
    /\ IF unlocked /\ next # settings THEN Restarts
       ELSE UNCHANGED <<idle, marked, sinceCheck, amiss>>
    /\ UNCHANGED <<unlocked, hidden, away>>

activity ==
    /\ unlocked /\ ~hidden /\ idle' = 0
    /\ UNCHANGED <<unlocked, settings, saving, hidden, marked, away, sinceCheck, amiss>>

Hide ==
    /\ ~hidden /\ hidden' = TRUE /\ marked' = unlocked /\ away' = 0
    /\ UNCHANGED <<unlocked, settings, saving, idle, sinceCheck, amiss>>

Show ==
    /\ hidden /\ hidden' = FALSE /\ marked' = FALSE /\ idle' = 0 /\ away' = 0
    /\ UNCHANGED <<unlocked, settings, saving, sinceCheck, amiss>>

TimePasses ==
    /\ unlocked /\ sinceCheck < Late
    /\ idle' = idle + 1 /\ sinceCheck' = sinceCheck + 1
    /\ away' = IF hidden THEN away + 1 ELSE away
    /\ amiss' = IF sinceCheck < Period THEN amiss ELSE amiss \cup {"frozen"}
    /\ UNCHANGED <<unlocked, settings, saving, hidden, marked>>

(* The interval's function.                                                 *)
IdleOnly == idle >= idleLimit
TimeIsUp ==
    \/ idle >= idleLimit
    \/ settings.onHide /\ marked /\ away >= HideDelay
Check ==
    /\ unlocked /\ sinceCheck >= Period
    /\ IF TimeIsUp THEN lockVault
       ELSE /\ sinceCheck' = 0
            /\ UNCHANGED <<unlocked, settings, saving, hidden, idle, marked, away, amiss>>

LockNext ==
    \/ unlockVault \/ LockNow \/ updateSettings
    \/ \E next \in saving : SettingsSet(next)
    \/ activity \/ Hide \/ Show \/ TimePasses \/ Check

LockSpec == LockInit /\ [][LockNext]_lockVars

-----------------------------------------------------------------------------
Ways == {"frozen", "restarted"}

(* The values the hook and the settings can hold.                           *)
LockTypeOK ==
    /\ unlocked \in BOOLEAN /\ hidden \in BOOLEAN /\ marked \in BOOLEAN
    /\ settings \in Settings /\ saving \subseteq Settings
    /\ idle \in Nat /\ away \in Nat /\ sinceCheck \in 0..Late
    /\ amiss \subseteq Ways

(* The vault is never open for longer than the idle limit in force and one  *)
(* period after the last activity, or after the effect last started over,   *)
(* unless the interval itself came late.                                    *)
IdleLocks == unlocked /\ "frozen" \notin amiss => idle < idleLimit + Period

(* With "Lock when app hides" the vault is never open for longer on a       *)
(* hidden page than the delay and one period, unless the effect started     *)
(* over meanwhile and forgot that the page is hidden.                       *)
HiddenLocks ==
    unlocked /\ hidden /\ settings.onHide /\ amiss = {} => away < HideDelay + Period

(* The vault locks in time, for both reasons.                               *)
LocksInTime == LockTypeOK /\ IdleLocks /\ HiddenLocks
=============================================================================

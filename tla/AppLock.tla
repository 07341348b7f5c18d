------------------------------- MODULE AppLock -------------------------------
(***************************************************************************)
(* The lock of the program: AppDelegate.m and MainViewController.m present *)
(* it, WUGestureUnlockView/WUGesturesUnlockViewController.m is its screen. *)
(*                                                                         *)
(* At launch the screen asks for a gesture pattern, or has one created     *)
(* when none is stored.  The system's authentication (Face ID, Touch ID)   *)
(* is another way out of the validation; its answer arrives on the main    *)
(* thread whatever has happened meanwhile.  A quick action of the home     *)
(* screen dismisses whatever is presented.  The process may go to the      *)
(* background or be killed at any point, the dismissal animation included, *)
(* whose completion block is what stores a new pattern.                    *)
(*                                                                         *)
(* A stroke is what one pan of the finger selects: a sequence of buttons   *)
(* none of which it selects twice.                                         *)
(***************************************************************************)
EXTENDS Integers, Sequences, FiniteSets, Functions

CONSTANTS
    Buttons,     \* the buttons of the gesture view
    MinPoints,   \* the least length of a new pattern (4 in the code)
    Tries,       \* kUnlockTryCount
    Biometry,    \* what the device offers: "none", "face" or "touch"
    AutoLock,    \* AppConfig.autoLockDuration
    MaxTime      \* bound: the last instant in the model

ASSUME TriesAssumption == Tries \in Nat \ {0}
ASSUME MinPointsAssumption == MinPoints \in 1 .. Cardinality(Buttons)
ASSUME BiometryAssumption == Biometry \in {"none", "face", "touch"}
ASSUME TimeAssumption == MaxTime \in Nat \ {0}

Strokes == UNION {Injection(1 .. n, Buttons) : n \in 0 .. Cardinality(Buttons)}
None == <<>>

VARIABLES
    proc,        \* the process: "dead", "front" or "back"
    now,         \* the clock; it starts at 1
    stored,      \* NSUserDefaults: the pattern (None when there is none)
    stamp,       \* NSUserDefaults: when the process last went to the background
    lock,        \* the lock screen, "...ing" while its dismissal is animated
    first,       \* lastGesturePassword, the pattern to confirm
    selected,    \* selectedBtns: buttons a cancelled pan has left selected
    errorCount,  \* tries left; a static variable of the process
    systemView,  \* WUSystemLockView covers the gesture view
    eval,        \* the pending authentication: "none", "face" or "touch"
    cover,       \* CoverView is in front of everything
    left         \* history: the lock was left since the launch, by one of its ways

lkVars == <<proc, now, stored, stamp, lock, first, selected, errorCount,
            systemView, eval, cover, left>>
screenVars == <<lock, first, selected, errorCount, systemView, eval, left>>
deviceVars == <<proc, now, stamp, cover>>

(***************************************************************************)
(* Launch.                                                                 *)
(***************************************************************************)

\* Mutant: the screen to create a pattern is presented at every launch.
Launch_AlwaysCreates(use) ==
    /\ proc = "dead"
    /\ proc' = "front"
    /\ lock' = "create"
    /\ systemView' = FALSE
    /\ eval' = "none"
    /\ UNCHANGED <<now, stored, stamp, first, selected, errorCount, cover, left>>

\* AppDelegate presents the validation when the stamp is old enough, and
\* MainViewController presents it in any case: one of the two takes effect.
\* With userSystemLock the system is asked at once, and a view covers the
\* gesture view.
Launch(use) ==
    /\ proc = "dead"
    /\ proc' = "front"
    /\ lock' = IF stored = None THEN "create" ELSE "validate"
    /\ systemView' = (use /\ stored # None)
    /\ eval' = IF use /\ stored # None THEN Biometry ELSE "none"
    /\ UNCHANGED <<now, stored, stamp, first, selected, errorCount, cover, left>>

\* The screen goes away, with what it holds: it dismisses itself after a
\* creation, a validation and an authentication.
Leave ==
    /\ lock' = "none"
    /\ first' = None
    /\ selected' = <<>>
    /\ systemView' = FALSE
    /\ left' = TRUE

(***************************************************************************)
(* Drawing.  The gesture view takes touches when nothing covers it.        *)
(***************************************************************************)

Drawable == /\ proc = "front"
            /\ lock \in {"create", "validate"}
            /\ ~systemView
            /\ eval = "none"

\* Mutant: a button that is selected is selected again.
CanSelect_Again(s) == TRUE

\* A pan selects buttons that are not selected yet,
CanSelect(s) == Range(s) \cap Range(selected) = {}

\* and adds them to those that are.
Drawn(s) == selected \o s

\* A pan the system cancels leaves its buttons selected.
PanCancelled(s) ==
    /\ Drawable /\ CanSelect(s)
    /\ selected' = Drawn(s)
    /\ UNCHANGED <<deviceVars, stored, lock, first, errorCount, systemView, eval, left>>

\* createGesturesPassword: the first drawing is long enough or rejected; the
\* second one is the same or rejected.
CreateGesturesPassword(s) ==
    /\ Drawable /\ CanSelect(s)
    /\ lock = "create"
    /\ selected' = <<>>
    /\ first' = IF first = None /\ Len(Drawn(s)) >= MinPoints THEN Drawn(s) ELSE first
    /\ lock' = IF first # None /\ Drawn(s) = first THEN "creating" ELSE lock
    /\ UNCHANGED <<deviceVars, stored, errorCount, systemView, eval, left>>

ResetGesturePassword ==
    /\ Drawable
    /\ first # None
    /\ first' = None
    /\ UNCHANGED <<deviceVars, stored, lock, selected, errorCount, systemView, eval, left>>

\* Mutant: the count is not started again after the last try.
ValidateGesturesPassword_NoRestart(s) ==
    /\ Drawable /\ CanSelect(s)
    /\ lock = "validate"
    /\ selected' = <<>>
    /\ \/ /\ Drawn(s) = stored
          /\ lock' = "validating"
          /\ UNCHANGED errorCount
       \/ /\ Drawn(s) # stored
          /\ errorCount >= 0
          /\ errorCount' = errorCount - 1
          /\ UNCHANGED lock
    /\ UNCHANGED <<deviceVars, stored, first, systemView, eval, left>>

\* validateGesturesPassword: the stored pattern, or one try less; after the
\* last one the screen says the pattern has expired, and counts again: the
\* pattern still unlocks it.
ValidateGesturesPassword(s) ==
    /\ Drawable /\ CanSelect(s)
    /\ lock = "validate"
    /\ selected' = <<>>
    /\ \/ /\ Drawn(s) = stored
          /\ lock' = "validating"
          /\ UNCHANGED errorCount
       \/ /\ Drawn(s) # stored
          /\ errorCount > 1
          /\ errorCount' = errorCount - 1
          /\ UNCHANGED lock
       \/ /\ Drawn(s) # stored
          /\ errorCount = 1
          /\ errorCount' = Tries
          /\ UNCHANGED lock
    /\ UNCHANGED <<deviceVars, stored, first, systemView, eval, left>>

\* The animation ends: the completion block of either dismissal.
CreateCompletion ==
    /\ proc # "dead"
    /\ lock = "creating"
    /\ stored' = first
    /\ Leave
    /\ UNCHANGED <<deviceVars, errorCount, eval>>

ValidateCompletion ==
    /\ proc # "dead"
    /\ lock = "validating"
    /\ errorCount' = Tries
    /\ Leave
    /\ UNCHANGED <<deviceVars, stored, eval>>

(***************************************************************************)
(* The system's authentication.                                            *)
(***************************************************************************)

PressedSystemLockButton ==
    /\ proc = "front" /\ lock = "validate"
    /\ systemView /\ eval = "none"
    /\ eval' = Biometry
    /\ UNCHANGED <<deviceVars, stored, lock, first, selected, errorCount, systemView, left>>

PressedGestureUnlockButton ==
    /\ proc = "front" /\ lock = "validate"
    /\ systemView /\ eval = "none"
    /\ systemView' = FALSE
    /\ UNCHANGED <<deviceVars, stored, lock, first, selected, errorCount, eval, left>>

\* The answer dismisses the screen, if it is still there.
EvalSucceeds ==
    /\ proc # "dead"
    /\ eval # "none"
    /\ eval' = "none"
    /\ Leave
    /\ UNCHANGED <<deviceVars, stored, errorCount>>

\* Mutant: the reply block does not look at success.
EvalFails_Dismisses ==
    /\ proc # "dead"
    /\ eval # "none"
    /\ eval' = "none"
    /\ lock' = "none"
    /\ UNCHANGED <<deviceVars, stored, first, selected, errorCount, systemView, left>>

\* It fails or is cancelled; Touch ID's fallback uncovers the gesture view.
EvalFails ==
    /\ proc # "dead"
    /\ eval # "none"
    /\ eval' = "none"
    /\ systemView' \in {systemView} \cup (IF eval = "touch" THEN {FALSE} ELSE {})
    /\ UNCHANGED <<deviceVars, stored, lock, first, selected, errorCount, left>>

(***************************************************************************)
(* The process.                                                            *)
(***************************************************************************)

\* performActionForShortcutItem: a presented screen is dismissed for the form
\* of the action; one that is being dismissed already goes on.
PerformActionForShortcutItem ==
    /\ proc = "front"
    /\ lock \in {"create", "validate"}
    /\ Leave
    /\ UNCHANGED <<deviceVars, stored, errorCount, eval>>

DidEnterBackground ==
    /\ proc = "front"
    /\ proc' = "back"
    /\ cover' = TRUE
    /\ stamp' = now
    /\ UNCHANGED <<now, stored, screenVars>>

\* The stamp is compared with the duration, and the result is not used.
WillEnterForeground ==
    /\ proc = "back"
    /\ proc' = "front"
    /\ cover' = FALSE
    /\ UNCHANGED <<now, stored, stamp, screenVars>>

Kill ==
    /\ proc # "dead"
    /\ proc' = "dead"
    /\ lock' = "none"
    /\ first' = None
    /\ selected' = <<>>
    /\ errorCount' = Tries
    /\ systemView' = FALSE
    /\ eval' = "none"
    /\ cover' = FALSE
    /\ left' = FALSE
    /\ UNCHANGED <<now, stored, stamp>>

Tick ==
    /\ now < MaxTime
    /\ now' = now + 1
    /\ UNCHANGED <<proc, stored, stamp, cover, screenVars>>

-----------------------------------------------------------------------------
LKInit ==
    /\ proc = "dead" /\ now = 1
    /\ stored = None /\ stamp = 0
    /\ lock = "none" /\ first = None /\ selected = <<>>
    /\ errorCount = Tries
    /\ systemView = FALSE /\ eval = "none" /\ cover = FALSE
    /\ left = FALSE

LKNext ==
    \/ \E use \in BOOLEAN : Launch(use)
    \/ \E s \in Strokes : \/ PanCancelled(s)
                          \/ CreateGesturesPassword(s)
                          \/ ValidateGesturesPassword(s)
    \/ ResetGesturePassword \/ CreateCompletion \/ ValidateCompletion
    \/ PressedSystemLockButton \/ PressedGestureUnlockButton
    \/ EvalSucceeds \/ EvalFails
    \/ PerformActionForShortcutItem
    \/ DidEnterBackground \/ WillEnterForeground
    \/ Kill \/ Tick

LKSpec == LKInit /\ [][LKNext]_lkVars

-----------------------------------------------------------------------------
(***************************************************************************)
(* Properties.                                                             *)
(***************************************************************************)

LKTypeOK ==
    /\ proc \in {"dead", "front", "back"}
    /\ now \in 1 .. MaxTime /\ stamp \in 0 .. now
    /\ stored \in Seq(Buttons) /\ first \in Seq(Buttons) /\ selected \in Seq(Buttons)
    /\ lock \in {"none", "create", "creating", "validate", "validating"}
    /\ errorCount \in 1 .. Tries
    /\ systemView \in BOOLEAN /\ eval \in {"none", "face", "touch"}
    /\ cover \in BOOLEAN /\ left \in BOOLEAN

\* From the launch on, the program stays behind the screen that fits what is
\* stored until it is left: by the stored pattern, by the system's
\* authentication, by a pattern drawn twice, or for the form of a quick action
\* (MainViewController.m:105-133, WUGesturesUnlockViewController.m:161-180).
LockedUntilLeft ==
    proc # "dead" /\ ~left =>
        lock \in IF stored = None THEN {"create", "creating"} ELSE {"validate", "validating"}

\* A stored pattern can be drawn: it is long enough and selects no button
\* twice, whichever pans were cancelled while it was created
\* (WUGesturesUnlockView.m:111-143, WUGesturesUnlockViewController.m:139-163).
StoredIsDrawable ==
    stored # None => Len(stored) >= MinPoints /\ IsInjective(stored)

\* A stored pattern stays: no way through the screens, kills and quick actions
\* included, has it replaced (MainViewController.m:105-133).
PatternKept == [][stored # None => stored' = stored]_lkVars

\* What AppConfig.h:35 says of autoLockDuration: after that long in the
\* background the program locks itself, at once by default
\* (AppDelegate.m:85-90).
LocksItselfOnReturn ==
    [][WillEnterForeground /\ stored # None /\ now - stamp >= AutoLock
          => lock' = "validate"]_lkVars
=============================================================================

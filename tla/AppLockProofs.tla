--------------------------- MODULE AppLockProofs ---------------------------
(***************************************************************************)
(* What AppLock guarantees for every set of buttons, every least length of *)
(* a pattern, every number of tries and every device.                      *)
(*                                                                         *)
(* The argument is one inductive invariant, IInv.  That a pattern which is *)
(* being stored replaces none follows from the lock itself: the screen     *)
(* that creates one is up only before the lock was left, and there it fits *)
(* what is stored.                                                         *)
(***************************************************************************)
EXTENDS AppLock, TLAPS

\* What the screen holds: no button twice, and a pattern to confirm that is
\* long enough; and once the lock was left there is no screen until the end of
\* the process.
ScreenInv ==
    /\ left => lock = "none" /\ proc # "dead"
    /\ IsInjective(selected) /\ IsInjective(first)
    /\ first # None => Len(first) >= MinPoints
    /\ lock = "creating" => first # None

IInv == LKTypeOK /\ LockedUntilLeft /\ StoredIsDrawable /\ ScreenInv

-----------------------------------------------------------------------------
(* Strokes.                                                                *)

\* The empty stroke selects nothing.
LEMMA NoStroke == None \in Seq(Buttons) /\ IsInjective(None)
  BY DEF None, IsInjective

\* A stroke is a sequence of buttons, none of them twice.
LEMMA StrokeIsInjective ==
  ASSUME NEW s \in Strokes
  PROVE  s \in Seq(Buttons) /\ IsInjective(s)
<1>1. PICK n \in 0 .. Cardinality(Buttons) : s \in Injection(1 .. n, Buttons)
  BY DEF Strokes
<1>2. n \in Nat
  OBVIOUS
<1> QED
  BY <1>1, <1>2 DEF Injection

\* The tries and the instants begin in their ranges.
LEMMA FirstTry == Tries \in 1 .. Tries /\ 1 \in 1 .. MaxTime
  BY TriesAssumption, TimeAssumption

\* A pan adds to what is selected, and selects no button twice.
LEMMA DrawnIsInjective ==
  ASSUME NEW s \in Strokes, selected \in Seq(Buttons), IsInjective(selected),
         CanSelect(s)
  PROVE  Drawn(s) \in Seq(Buttons) /\ IsInjective(Drawn(s))
<1>1. s \in Seq(Buttons) /\ IsInjective(s)
  BY StrokeIsInjective
<1>2. Drawn(s) \in Seq(Buttons)
  BY <1>1 DEF Drawn
<1>3. ASSUME NEW a \in DOMAIN Drawn(s), NEW b \in DOMAIN Drawn(s),
             Drawn(s)[a] = Drawn(s)[b]
      PROVE  a = b
  <2> DEFINE k == Len(selected)
  <2>1. /\ k \in Nat /\ Len(s) \in Nat
        /\ a \in 1 .. k + Len(s) /\ b \in 1 .. k + Len(s)
    BY <1>1 DEF Drawn
  <2>2. \A c \in 1 .. k + Len(s) :
          Drawn(s)[c] = IF c <= k THEN selected[c] ELSE s[c - k]
    BY <1>1 DEF Drawn
  <2>3. CASE a <= k /\ b <= k
    BY <2>1, <2>2, <2>3, <1>3 DEF IsInjective
  <2>4. CASE a > k /\ b > k
    <3>1. a - k \in DOMAIN s /\ b - k \in DOMAIN s /\ s[a - k] = s[b - k]
      BY <2>1, <2>2, <2>4, <1>1, <1>3
    <3> QED
      BY <3>1, <2>1, <1>1 DEF IsInjective
  <2>5. ~\E c \in DOMAIN selected, d \in DOMAIN s : selected[c] = s[d]
    BY DEF CanSelect, Range
  <2>6. ~(a <= k /\ b > k) /\ ~(a > k /\ b <= k)
    <3>1. a <= k => a \in DOMAIN selected /\ Drawn(s)[a] = selected[a]
      BY <2>1, <2>2
    <3>2. b <= k => b \in DOMAIN selected /\ Drawn(s)[b] = selected[b]
      BY <2>1, <2>2
    <3>3. a > k => a - k \in DOMAIN s /\ Drawn(s)[a] = s[a - k]
      BY <2>1, <2>2, <1>1
    <3>4. b > k => b - k \in DOMAIN s /\ Drawn(s)[b] = s[b - k]
      BY <2>1, <2>2, <1>1
    <3> QED
      BY <3>1, <3>2, <3>3, <3>4, <2>5, <1>3
  <2>7. (a <= k \/ a > k) /\ (b <= k \/ b > k)
    BY <2>1
  <2> QED
    BY <2>3, <2>4, <2>6, <2>7
<1> QED
  BY <1>2, <1>3 DEF IsInjective

-----------------------------------------------------------------------------
(* The inductive invariant.                                                *)

\* A device on which no pattern is stored and the program does not run.
LEMMA InitIInv ==
  ASSUME LKInit
  PROVE  IInv
<1> USE DEF LKInit
<1>1. LKTypeOK
  <2>1. now \in 1 .. MaxTime /\ stamp \in 0 .. now /\ errorCount \in 1 .. Tries
    BY FirstTry
  <2>2. systemView \in BOOLEAN /\ cover \in BOOLEAN /\ left \in BOOLEAN
    OBVIOUS
  <2> QED
    BY <2>1, <2>2, NoStroke DEF LKTypeOK, None
<1>2. LockedUntilLeft /\ StoredIsDrawable
  BY DEF LockedUntilLeft, StoredIsDrawable
<1>3. ScreenInv
  BY NoStroke DEF ScreenInv, None
<1> QED
  BY <1>1, <1>2, <1>3 DEF IInv

\* A launch puts the screen up that fits what is stored.
LEMMA LaunchIInv ==
  ASSUME IInv, NEW use \in BOOLEAN, Launch(use)
  PROVE  IInv'
<1> USE DEF IInv, Launch
<1>1. LKTypeOK'
  <2>1. systemView' \in BOOLEAN
    BY Zenon
  <2>2. eval' \in {"none", "face", "touch"}
    BY BiometryAssumption
  <2> QED
    BY <2>1, <2>2 DEF LKTypeOK
<1>2. LockedUntilLeft'
  BY DEF LockedUntilLeft
<1>3. StoredIsDrawable'
  BY DEF StoredIsDrawable
<1>4. ScreenInv'
  BY DEF ScreenInv
<1> QED
  BY <1>1, <1>2, <1>3, <1>4

\* A stroke, finished or cancelled.
LEMMA StrokeIInv ==
  ASSUME IInv, NEW s \in Strokes,
         PanCancelled(s) \/ CreateGesturesPassword(s) \/ ValidateGesturesPassword(s)
  PROVE  IInv'
<1> USE DEF IInv, deviceVars
<1>1. CASE PanCancelled(s)
  <2>1. Drawn(s) \in Seq(Buttons) /\ IsInjective(Drawn(s))
    BY <1>1, DrawnIsInjective DEF LKTypeOK, ScreenInv, PanCancelled
  <2> QED
    BY <1>1, <2>1
       DEF PanCancelled, LKTypeOK, LockedUntilLeft, StoredIsDrawable, ScreenInv
<1>2. CASE CreateGesturesPassword(s)
  <2>1. Drawn(s) \in Seq(Buttons) /\ IsInjective(Drawn(s))
    BY <1>2, DrawnIsInjective DEF LKTypeOK, ScreenInv, CreateGesturesPassword
  <2>2. LKTypeOK'
    BY <1>2, <2>1, NoStroke DEF CreateGesturesPassword, LKTypeOK, None
  <2>3. LockedUntilLeft' /\ StoredIsDrawable'
    BY <1>2 DEF CreateGesturesPassword, LockedUntilLeft, StoredIsDrawable
  <2>4. ScreenInv'
    BY <1>2, <2>1, NoStroke DEF CreateGesturesPassword, ScreenInv, None
  <2> QED
    BY <2>2, <2>3, <2>4
<1>3. CASE ValidateGesturesPassword(s)
  <2>1. LKTypeOK'
    BY <1>3, NoStroke, TriesAssumption DEF ValidateGesturesPassword, LKTypeOK, None
  <2>2. LockedUntilLeft' /\ StoredIsDrawable'
    BY <1>3 DEF ValidateGesturesPassword, LockedUntilLeft, StoredIsDrawable
  <2>3. ScreenInv'
    BY <1>3, NoStroke DEF ValidateGesturesPassword, ScreenInv, None
  <2> QED
    BY <2>1, <2>2, <2>3
<1> QED
  BY <1>1, <1>2, <1>3

\* Leaving the screen keeps what it says of it.
LEMMA LeaveScreenInv ==
  ASSUME Leave, proc' # "dead"
  PROVE  ScreenInv' /\ LockedUntilLeft'
  BY NoStroke DEF Leave, ScreenInv, LockedUntilLeft, None

\* The ways out of the lock.
LEMMA LeaveIInv ==
  ASSUME IInv,
         \/ CreateCompletion \/ ValidateCompletion
         \/ EvalSucceeds \/ PerformActionForShortcutItem
  PROVE  IInv'
<1> USE DEF IInv, deviceVars, Leave
<1>1. LKTypeOK'
  <2> USE NoStroke DEF LKTypeOK, None
  <2>1. CASE CreateCompletion
    BY <2>1 DEF CreateCompletion
  <2>2. CASE ValidateCompletion
    BY <2>2, FirstTry DEF ValidateCompletion
  <2>3. CASE EvalSucceeds
    BY <2>3 DEF EvalSucceeds
  <2>4. CASE PerformActionForShortcutItem
    BY <2>4 DEF PerformActionForShortcutItem
  <2> QED
    BY <2>1, <2>2, <2>3, <2>4
<1>2. ScreenInv' /\ LockedUntilLeft'
  BY LeaveScreenInv
     DEF CreateCompletion, ValidateCompletion, EvalSucceeds,
         PerformActionForShortcutItem
<1>3. StoredIsDrawable'
  BY DEF StoredIsDrawable, ScreenInv, CreateCompletion, ValidateCompletion,
         EvalSucceeds, PerformActionForShortcutItem
<1> QED
  BY <1>1, <1>2, <1>3

\* The rest of the screen, and the process.
LEMMA OtherIInv ==
  ASSUME IInv,
         \/ ResetGesturePassword
         \/ PressedSystemLockButton \/ PressedGestureUnlockButton \/ EvalFails
         \/ DidEnterBackground \/ WillEnterForeground \/ Kill \/ Tick
  PROVE  IInv'
<1> USE DEF IInv, deviceVars, screenVars
<1>1. LKTypeOK'
  <2> USE NoStroke DEF LKTypeOK, None
  <2>1. CASE ResetGesturePassword
    BY <2>1 DEF ResetGesturePassword
  <2>2. CASE PressedSystemLockButton
    BY <2>2, BiometryAssumption DEF PressedSystemLockButton
  <2>3. CASE PressedGestureUnlockButton
    BY <2>3 DEF PressedGestureUnlockButton
  <2>4. CASE EvalFails
    BY <2>4 DEF EvalFails
  <2>5. CASE DidEnterBackground
    BY <2>5 DEF DidEnterBackground
  <2>6. CASE WillEnterForeground
    BY <2>6 DEF WillEnterForeground
  <2>7. CASE Kill
    BY <2>7, FirstTry DEF Kill
  <2>8. CASE Tick
    BY <2>8, TimeAssumption DEF Tick
  <2> QED
    BY <2>1, <2>2, <2>3, <2>4, <2>5, <2>6, <2>7, <2>8
<1>2. LockedUntilLeft' /\ StoredIsDrawable'
  BY DEF LockedUntilLeft, StoredIsDrawable, ResetGesturePassword,
         PressedSystemLockButton, PressedGestureUnlockButton, EvalFails,
         DidEnterBackground, WillEnterForeground, Kill, Tick, Drawable
<1>3. ScreenInv'
  <2> USE NoStroke DEF ScreenInv, None
  <2>1. CASE ResetGesturePassword
    BY <2>1 DEF ResetGesturePassword, Drawable
  <2>2. CASE PressedSystemLockButton
    BY <2>2 DEF PressedSystemLockButton
  <2>3. CASE PressedGestureUnlockButton
    BY <2>3 DEF PressedGestureUnlockButton
  <2>4. CASE EvalFails
    BY <2>4 DEF EvalFails
  <2>5. CASE DidEnterBackground
    BY <2>5 DEF DidEnterBackground
  <2>6. CASE WillEnterForeground
    BY <2>6 DEF WillEnterForeground
  <2>7. CASE Kill
    BY <2>7 DEF Kill
  <2>8. CASE Tick
    BY <2>8 DEF Tick
  <2> QED
    BY <2>1, <2>2, <2>3, <2>4, <2>5, <2>6, <2>7, <2>8
<1> QED
  BY <1>1, <1>2, <1>3

\* Every step keeps the invariant.
LEMMA NextIInv ==
  ASSUME IInv, [LKNext]_lkVars
  PROVE  IInv'
<1>1. CASE LKNext
  BY <1>1, LaunchIInv, StrokeIInv, LeaveIInv, OtherIInv DEF LKNext
<1>2. CASE UNCHANGED lkVars
  BY <1>2 DEF lkVars, IInv, LKTypeOK, LockedUntilLeft, StoredIsDrawable, ScreenInv
<1> QED
  BY <1>1, <1>2

-----------------------------------------------------------------------------
(* Theorems.                                                               *)

\* The invariant holds throughout.
THEOREM Invariant == LKSpec => []IInv
<1>1. IInv /\ [LKNext]_lkVars => IInv'
  BY NextIInv
<1> QED
  BY InitIInv, <1>1, PTL DEF LKSpec

\* Every state of the lock is well typed, for every set of buttons: the tries
\* that are left are counted between one and all of them.
THEOREM TypeCorrect == LKSpec => []LKTypeOK
  BY Invariant, PTL DEF IInv

\* From the launch on the program stays behind the screen that fits what is
\* stored until it is left by one of its ways.
THEOREM StaysLocked == LKSpec => []LockedUntilLeft
  BY Invariant, PTL DEF IInv

\* A stored pattern is long enough and selects no button twice.
THEOREM StoresDrawable == LKSpec => []StoredIsDrawable
  BY Invariant, PTL DEF IInv

\* A stored pattern stays: only the completion block of a creation stores one,
\* and its screen is up only where none is stored.
THEOREM KeepsPattern == LKSpec => PatternKept
<1>1. ASSUME IInv, [LKNext]_lkVars
      PROVE  stored # None => stored' = stored
  <2>1. CASE CreateCompletion
    BY <1>1, <2>1 DEF CreateCompletion, IInv, LockedUntilLeft, ScreenInv
  <2>2. CASE LKNext /\ ~CreateCompletion
    BY <1>1, <2>2
       DEF LKNext, Launch, PanCancelled, CreateGesturesPassword,
           ValidateGesturesPassword, ResetGesturePassword, ValidateCompletion,
           PressedSystemLockButton, PressedGestureUnlockButton, EvalSucceeds,
           EvalFails, PerformActionForShortcutItem, DidEnterBackground,
           WillEnterForeground, Kill, Tick
  <2>3. CASE UNCHANGED lkVars
    BY <2>3 DEF lkVars
  <2> QED
    BY <1>1, <2>1, <2>2, <2>3
<1>2. IInv /\ [LKNext]_lkVars => [stored # None => stored' = stored]_lkVars
  BY <1>1
<1> QED
  BY <1>2, Invariant, PTL DEF LKSpec, PatternKept
=============================================================================

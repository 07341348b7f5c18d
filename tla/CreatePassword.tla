--------------------------- MODULE CreatePassword ---------------------------
(***************************************************************************)
(* The password generator: CreatePasswordViewController.m, whose switches  *)
(* exclude and replace one another, and PPPasswordCreator.m, which draws   *)
(* the characters.  The screen keeps what it will use (currentNumberType,  *)
(* currentLetterType, isOtherCharacter, the slider) apart from what its    *)
(* switches show.                                                          *)
(*                                                                         *)
(* A type is named by its switch.  A created password is known by its      *)
(* length and by the characters that can be in it.                         *)
(***************************************************************************)
EXTENDS Integers, SequencesExt

CONSTANTS
    NumberArray, LowLetterArray, UpLetterArray, OtherCharacter,  \* sequences
    MinLength, MaxLength,   \* the ends of the slider
    Short, Long             \* the lengths that have a switch

ASSUME LengthAssumption ==
    /\ {MinLength, MaxLength, Short, Long} \subseteq Nat \ {0}
    /\ {Short, Long} \subseteq MinLength .. MaxLength
    /\ Short # Long

NumberSwitches == {"allNumber", "allLetter", "numberAndLetter"}
LetterSwitches == {"upLetter", "lowLetter", "upAndLetter"}
LengthSwitches == {"length8", "length16"}

Arrays == {NumberArray, LowLetterArray, UpLetterArray, OtherCharacter}

Disjoint(a, b) == ToSet(a) \cap ToSet(b) = {}

\* The arrays have more than one character each, and share none.
ASSUME ArrayAssumption ==
    /\ \A a \in Arrays : a \in Seq(ToSet(a)) /\ Len(a) > 1
    /\ \A a \in {LowLetterArray, UpLetterArray, OtherCharacter} : Disjoint(NumberArray, a)
    /\ \A a \in {LowLetterArray, UpLetterArray} : Disjoint(OtherCharacter, a)
    /\ Disjoint(LowLetterArray, UpLetterArray)

VARIABLES
    on,         \* the switches that show as on
    slider,     \* lengthSlider.value, as an integer
    numberType, \* currentNumberType
    letterType, \* currentLetterType
    isOther,    \* isOtherCharacter
    created,    \* the last password
    reset       \* history: allNumberSwitch has set the letter switches since
                \* one of them was tapped

cpVars == <<on, slider, numberType, letterType, isOther, created, reset>>

\* s is on and the rest of its group is off.
Only(group, s) == (on \ group) \cup {s}

(***************************************************************************)
(* The length.                                                             *)
(***************************************************************************)

SwitchOfLength(v) == CASE v = Short -> {"length8"}
                       [] v = Long  -> {"length16"}
                       [] OTHER     -> {}

LengthSliderAction(v) ==
    /\ slider' = v
    /\ on' = (on \ LengthSwitches) \cup SwitchOfLength(v)
    /\ UNCHANGED <<numberType, letterType, isOther, created, reset>>

\* A length that is turned off gives way to the other one.
LengthSwitchAction(s) ==
    /\ LET chosen == IF s \in on THEN CHOOSE o \in LengthSwitches : o # s ELSE s
       IN  /\ on' = Only(LengthSwitches, chosen)
           /\ slider' = IF chosen = "length8" THEN Short ELSE Long
    /\ UNCHANGED <<numberType, letterType, isOther, created, reset>>

(***************************************************************************)
(* The kinds of characters.                                                *)
(***************************************************************************)

\* Mutant: the type stays when the switch is turned off.
AllNumberSwitchAction_OffKeepsType ==
    /\ IF "allNumber" \notin on
         THEN /\ on' = Only(NumberSwitches, "allNumber") \ LetterSwitches
              /\ numberType' = "allNumber"
         ELSE /\ on' = ((on \ NumberSwitches) \ LetterSwitches) \cup {"allLetter", "upLetter"}
              /\ UNCHANGED numberType
    /\ reset' = TRUE
    /\ UNCHANGED <<slider, letterType, isOther, created>>

\* It sets the letter switches too: all off, or the capitals on; the type of
\* letters is left as it is.
AllNumberSwitchAction ==
    /\ IF "allNumber" \notin on
         THEN /\ on' = Only(NumberSwitches, "allNumber") \ LetterSwitches
              /\ numberType' = "allNumber"
         ELSE /\ on' = ((on \ NumberSwitches) \ LetterSwitches) \cup {"allLetter", "upLetter"}
              /\ numberType' = "allLetter"
    /\ reset' = TRUE
    /\ UNCHANGED <<slider, letterType, isOther, created>>

\* allLetterSwitch and numberAndLetterSwitch; one that is turned off gives way
\* to the one named here.
NumberSwitchAction(s) ==
    /\ LET other  == IF s = "allLetter" THEN "allNumber" ELSE "allLetter"
           chosen == IF s \in on THEN other ELSE s
       IN  /\ on' = Only(NumberSwitches, chosen)
           /\ numberType' = chosen
    /\ UNCHANGED <<slider, letterType, isOther, created, reset>>

LetterSwitchAction(s) ==
    /\ LET other  == IF s = "lowLetter" THEN "upLetter" ELSE "lowLetter"
           chosen == IF s \in on THEN other ELSE s
       IN  /\ on' = Only(LetterSwitches, chosen)
           /\ letterType' = chosen
    /\ reset' = FALSE
    /\ UNCHANGED <<slider, numberType, isOther, created>>

OtherCharacterSwitchAction ==
    /\ isOther' = ("other" \notin on)
    /\ on' = IF "other" \in on THEN on \ {"other"} ELSE on \cup {"other"}
    /\ UNCHANGED <<slider, numberType, letterType, created, reset>>

(***************************************************************************)
(* Creation.                                                               *)
(***************************************************************************)

\* The letters a type of letters adds to the array drawn from.
LetterArray(type) == (IF type = "lowLetter" THEN <<>> ELSE UpLetterArray)
                     \o (IF type = "upLetter" THEN <<>> ELSE LowLetterArray)

\* Mutant: numbers only when there is nothing else.
TempArray_NotMixed == (IF isOther THEN OtherCharacter ELSE <<>>)
             \o (IF numberType # "allNumber" THEN <<>> ELSE NumberArray)
             \o (IF numberType = "allNumber" THEN <<>> ELSE LetterArray(letterType))

TempArray == (IF isOther THEN OtherCharacter ELSE <<>>)
             \o (IF numberType = "allLetter" THEN <<>> ELSE NumberArray)
             \o (IF numberType = "allNumber" THEN <<>> ELSE LetterArray(letterType))

\* The index is drawn modulo count - 1: the last character is never drawn.
Drawable == ToSet(Front(TempArray))

\* Mutant: one character less than asked.
PressedCreateButton_OneLess ==
    /\ created' = [length |-> slider - 1, chars |-> Drawable]
    /\ UNCHANGED <<on, slider, numberType, letterType, isOther, reset>>

PressedCreateButton ==
    /\ created' = [length |-> slider, chars |-> Drawable]
    /\ UNCHANGED <<on, slider, numberType, letterType, isOther, reset>>

-----------------------------------------------------------------------------
NotCreated == [length |-> 0, chars |-> {}]

\* viewDidLoad, and the switches of the storyboard.
CPInit ==
    /\ on = {"length8", "numberAndLetter", "upAndLetter"}
    /\ slider = Short
    /\ numberType = "numberAndLetter" /\ letterType = "upAndLetter"
    /\ isOther = FALSE
    /\ created = NotCreated
    /\ reset = FALSE

CPNext ==
    \/ \E v \in MinLength .. MaxLength : LengthSliderAction(v)
    \/ \E s \in LengthSwitches : LengthSwitchAction(s)
    \/ AllNumberSwitchAction
    \/ \E s \in {"allLetter", "numberAndLetter"} : NumberSwitchAction(s)
    \/ \E s \in LetterSwitches : LetterSwitchAction(s)
    \/ OtherCharacterSwitchAction
    \/ PressedCreateButton

CPSpec == CPInit /\ [][CPNext]_cpVars

-----------------------------------------------------------------------------
(***************************************************************************)
(* Properties.                                                             *)
(***************************************************************************)

AllCharacters == UNION {ToSet(a) : a \in Arrays}

CPTypeOK ==
    /\ on \subseteq NumberSwitches \cup LetterSwitches \cup LengthSwitches \cup {"other"}
    /\ slider \in MinLength .. MaxLength
    /\ numberType \in NumberSwitches /\ letterType \in LetterSwitches
    /\ isOther \in BOOLEAN /\ reset \in BOOLEAN
    /\ created.length \in {0} \cup MinLength .. MaxLength
    /\ created.chars \subseteq AllCharacters

\* The switches show what will be used, however they were tapped and slid: the
\* length of the slider, the one kind of password, the special characters, and
\* the letters unless allNumberSwitch has set their switches
\* (CreatePasswordViewController.m:138-263).
SwitchesShowChoice ==
    /\ on \cap LengthSwitches = SwitchOfLength(slider)
    /\ on \cap NumberSwitches = {numberType}
    /\ "other" \in on <=> isOther
    /\ ~reset => on \cap LetterSwitches = {letterType}

\* The arrays a switch promises characters of.
Promised(s) ==
    CASE s = "other"     -> {OtherCharacter}
      [] s = "allNumber" -> {NumberArray}
      [] s = "numberAndLetter" -> {NumberArray}
      [] s = "upLetter"    -> {UpLetterArray}
      [] s = "lowLetter"   -> {LowLetterArray}
      [] s = "upAndLetter" -> {UpLetterArray, LowLetterArray}
      [] OTHER -> {}

\* The arrays of the letters.
LetterArrays == {UpLetterArray, LowLetterArray}

\* Whether a created password draws from an array.
DrawsFrom(c, array) == c.chars \cap ToSet(array) # {}

\* A created password has the length that is shown, and draws from the arrays
\* its switches promise and from no other; of the letters this is said only as
\* long as allNumberSwitch has not set their switches, and when there are any
\* (PPPasswordCreator.m:35-70, CreatePasswordViewController.m:266-271).
CreatedAsShown ==
    [][PressedCreateButton =>
          /\ created'.length = slider
          /\ \A array \in {NumberArray, OtherCharacter} :
                DrawsFrom(created', array)
                <=> \E s \in on \ LetterSwitches : array \in Promised(s)
          /\ \A array \in LetterArrays :
                ~reset => (DrawsFrom(created', array)
                           <=> /\ "allNumber" \notin on
                               /\ \E s \in on : array \in Promised(s))]_cpVars
=============================================================================

------------------------ MODULE CreatePasswordProofs ------------------------
(***************************************************************************)
(* What CreatePassword guarantees for every slider, every two lengths with *)
(* a switch and every four arrays of characters.                           *)
(*                                                                         *)
(* The switches and the choice are tied together by SwitchesShowChoice,    *)
(* which with the types is inductive.  What a password draws from follows  *)
(* from it and from where each array begins in the one drawn from: its     *)
(* first character is never the last one, which is never drawn.            *)
(***************************************************************************)
EXTENDS CreatePassword, SequenceTheorems, TLAPS

IInv == CPTypeOK /\ SwitchesShowChoice

-----------------------------------------------------------------------------
(* The array drawn from.                                                   *)

\* The characters of a concatenation are those of its parts.
LEMMA ConcatSet ==
  ASSUME NEW C, NEW s \in Seq(C), NEW t \in Seq(C)
  PROVE  s \o t \in Seq(C) /\ ToSet(s \o t) = ToSet(s) \cup ToSet(t)
<1> DEFINE u == s \o t
<1>1. /\ u \in Seq(C) /\ Len(s) \in Nat /\ Len(t) \in Nat
      /\ DOMAIN u = 1 .. Len(s) + Len(t)
      /\ DOMAIN s = 1 .. Len(s) /\ DOMAIN t = 1 .. Len(t)
  OBVIOUS
<1>2. \A i \in 1 .. Len(s) + Len(t) :
        u[i] = IF i <= Len(s) THEN s[i] ELSE t[i - Len(s)]
  OBVIOUS
<1>3. ASSUME NEW x \in ToSet(u) PROVE x \in ToSet(s) \cup ToSet(t)
  <2>1. PICK i \in 1 .. Len(s) + Len(t) : x = u[i]
    BY <1>1 DEF ToSet
  <2>2. CASE i <= Len(s)
    BY <1>1, <1>2, <2>1, <2>2 DEF ToSet
  <2>3. CASE ~(i <= Len(s))
    <3>1. i - Len(s) \in DOMAIN t /\ x = t[i - Len(s)]
      BY <1>1, <1>2, <2>1, <2>3
    <3> QED
      BY <3>1 DEF ToSet
  <2> QED
    BY <2>2, <2>3
<1>4. ASSUME NEW i \in DOMAIN s PROVE s[i] \in ToSet(u)
  <2>1. i \in DOMAIN u /\ u[i] = s[i]
    BY <1>1, <1>2
  <2> QED
    BY <2>1 DEF ToSet
<1>5. ASSUME NEW i \in DOMAIN t PROVE t[i] \in ToSet(u)
  <2>1. i + Len(s) \in DOMAIN u /\ u[i + Len(s)] = t[i]
    BY <1>1, <1>2
  <2> QED
    BY <2>1 DEF ToSet
<1> QED
  BY <1>1, <1>3, <1>4, <1>5 DEF ToSet

\* Of an array that is part of another one, a character is drawn from it.
LEMMA PartIsDrawn ==
  ASSUME NEW C, NEW s \in Seq(C), NEW a \in Seq(C), NEW t \in Seq(C), Len(a) > 1
  PROVE  a[1] \in ToSet(Front((s \o a) \o t))
<1> DEFINE u == (s \o a) \o t
           n == Len(s) + 1
<1>1. /\ Len(s) \in Nat /\ Len(a) \in Nat /\ Len(t) \in Nat
      /\ u \in Seq(C) /\ Len(u) = Len(s) + Len(a) + Len(t)
  OBVIOUS
<1>2. n \in 1 .. Len(u) - 1 /\ u[n] = a[1]
  BY <1>1
<1>3. Len(Front(u)) = Len(u) - 1 /\ n \in DOMAIN Front(u) /\ Front(u)[n] = a[1]
  BY <1>1, <1>2 DEF Front
<1> QED
  BY <1>3 DEF ToSet

\* Nothing is drawn that is in no array.
LEMMA FrontSet ==
  ASSUME NEW C, NEW s \in Seq(C)
  PROVE  ToSet(Front(s)) \subseteq ToSet(s)
<1>1. CASE Len(s) = 0
  BY <1>1 DEF Front, ToSet
<1>2. CASE Len(s) > 0
  <2>1. Len(s) \in Nat
    OBVIOUS
  <2>2. DOMAIN Front(s) = 1 .. Len(s) - 1
    BY <1>2, <2>1 DEF Front
  <2>3. \A i \in 1 .. Len(s) - 1 : Front(s)[i] = s[i] /\ i \in DOMAIN s
    BY <1>2, <2>1 DEF Front
  <2> QED
    BY <2>2, <2>3 DEF ToSet
<1> QED
  BY <1>1, <1>2

\* Each array is a sequence of more than one of the characters.
LEMMA ArrayIsSeq ==
  ASSUME NEW a \in Arrays
  PROVE  /\ a \in Seq(AllCharacters) /\ Len(a) > 1
         /\ a[1] \in ToSet(a) /\ ToSet(a) \subseteq AllCharacters
<1>1. a \in Seq(ToSet(a)) /\ Len(a) > 1
  BY ArrayAssumption
<1>2. ToSet(a) \subseteq AllCharacters
  BY DEF AllCharacters
<1>3. a \in Seq(AllCharacters)
  BY <1>1, <1>2
<1>4. 1 \in DOMAIN a
  BY <1>1
<1> QED
  BY <1>1, <1>2, <1>3, <1>4 DEF ToSet

\* No two of the four are the same.
LEMMA ArraysDiffer ==
  /\ NumberArray # LowLetterArray /\ NumberArray # UpLetterArray
  /\ NumberArray # OtherCharacter /\ LowLetterArray # UpLetterArray
  /\ OtherCharacter # LowLetterArray /\ OtherCharacter # UpLetterArray
<1>1. \A a \in Arrays : ToSet(a) # {}
  BY ArrayIsSeq
<1> QED
  BY <1>1, ArrayAssumption DEF Disjoint, Arrays

\* The array drawn from is a part for the special characters, one for the
\* numbers and two for the letters; and what is
\* drawn are characters of the parts, each part's first one among them.
LEMMA DrawnParts ==
  ASSUME NEW C,
         NEW o \in Seq(C), NEW n \in Seq(C), NEW u \in Seq(C), NEW w \in Seq(C)
  PROVE  LET D == ToSet(Front((o \o n) \o (u \o w)))
         IN  /\ D \subseteq ToSet(o) \cup ToSet(n) \cup ToSet(u) \cup ToSet(w)
             /\ Len(o) > 1 => o[1] \in D
             /\ Len(n) > 1 => n[1] \in D
             /\ Len(u) > 1 => u[1] \in D
             /\ Len(w) > 1 => w[1] \in D
<1>1. /\ (o \o n) \o (u \o w) = (<<>> \o o) \o (n \o (u \o w))
      /\ (o \o n) \o (u \o w) = ((o \o n) \o u) \o w
      /\ (o \o n) \o (u \o w) = (((o \o n) \o u) \o w) \o <<>>
  <2> DEFINE uw == u \o w
             on2 == o \o n
  <2>1. uw \in Seq(C) /\ on2 \in Seq(C)
    OBVIOUS
  <2>2. <<>> \o o = o
    BY ConcatEmptySeq
  <2>3. on2 \o uw = o \o (n \o uw)
    <3> HIDE DEF uw
    <3> QED
      BY <2>1, ConcatAssociative
  <2>4. on2 \o uw = (on2 \o u) \o w
    <3> HIDE DEF on2
    <3> QED
      BY <2>1, ConcatAssociative
  <2>5. ((on2 \o u) \o w) \o <<>> = (on2 \o u) \o w
    <3>1. (on2 \o u) \o w \in Seq(C)
      BY <2>1
    <3> QED
      BY <3>1, ConcatEmptySeq
  <2> QED
    BY <2>2, <2>3, <2>4, <2>5
<1> DEFINE T == (o \o n) \o (u \o w)
<1>2. /\ o \o n \in Seq(C) /\ ToSet(o \o n) = ToSet(o) \cup ToSet(n)
      /\ u \o w \in Seq(C) /\ ToSet(u \o w) = ToSet(u) \cup ToSet(w)
  BY ConcatSet
<1>3. T \in Seq(C) /\ ToSet(T) = ToSet(o \o n) \cup ToSet(u \o w)
  <2> DEFINE on1 == o \o n
             uw == u \o w
  <2>1. on1 \in Seq(C) /\ uw \in Seq(C)
    BY <1>2
  <2> HIDE DEF on1, uw
  <2>2. on1 \o uw \in Seq(C) /\ ToSet(on1 \o uw) = ToSet(on1) \cup ToSet(uw)
    BY <2>1, ConcatSet
  <2> QED
    BY <2>2 DEF on1, uw
<1>4. ToSet(Front(T)) \subseteq ToSet(o) \cup ToSet(n) \cup ToSet(u) \cup ToSet(w)
  <2>1. ToSet(Front(T)) \subseteq ToSet(T)
    BY <1>3, FrontSet
  <2> HIDE DEF T
  <2> QED
    BY <2>1, <1>2, <1>3
<1>5. Len(o) > 1 => o[1] \in ToSet(Front(T))
  <2>1. T = (<<>> \o o) \o (n \o (u \o w))
    BY <1>1
  <2>2. n \o (u \o w) \in Seq(C)
    BY <1>2
  <2>3. <<>> \in Seq(C)
    OBVIOUS
  <2>4. Len(o) > 1 => o[1] \in ToSet(Front((<<>> \o o) \o (n \o (u \o w))))
    BY <2>2, <2>3, PartIsDrawn
  <2> QED
    BY <2>1, <2>4
<1>6. Len(n) > 1 => n[1] \in ToSet(Front(T))
  BY <1>2, PartIsDrawn
<1>7. Len(u) > 1 => u[1] \in ToSet(Front(T))
  <2>1. T = ((o \o n) \o u) \o w
    BY <1>1
  <2> QED
    BY <1>2, <2>1, PartIsDrawn
<1>8. Len(w) > 1 => w[1] \in ToSet(Front(T))
  <2>1. T = (((o \o n) \o u) \o w) \o <<>>
    BY <1>1
  <2>2. (o \o n) \o u \in Seq(C)
    BY <1>2
  <2>3. <<>> \in Seq(C)
    OBVIOUS
  <2>4. Len(w) > 1 => w[1] \in ToSet(Front((((o \o n) \o u) \o w) \o <<>>))
    BY <2>2, <2>3, PartIsDrawn
  <2> QED
    BY <2>1, <2>4
<1> QED
  BY <1>4, <1>5, <1>6, <1>7, <1>8

\* A password draws from an array exactly when the choice includes it.
LEMMA DrawsChosen ==
  ASSUME CPTypeOK
  PROVE  /\ Drawable \subseteq AllCharacters
         /\ Drawable \cap ToSet(OtherCharacter) # {} <=> isOther
         /\ Drawable \cap ToSet(NumberArray) # {} <=> numberType # "allLetter"
         /\ Drawable \cap ToSet(UpLetterArray) # {}
               <=> numberType # "allNumber" /\ letterType # "lowLetter"
         /\ Drawable \cap ToSet(LowLetterArray) # {}
               <=> numberType # "allNumber" /\ letterType # "upLetter"
<1> DEFINE o == IF isOther THEN OtherCharacter ELSE <<>>
           n == IF numberType = "allLetter" THEN <<>> ELSE NumberArray
           u == IF numberType = "allNumber" \/ letterType = "lowLetter"
                  THEN <<>> ELSE UpLetterArray
           w == IF numberType = "allNumber" \/ letterType = "upLetter"
                  THEN <<>> ELSE LowLetterArray
<1>1. TempArray = (o \o n) \o (u \o w)
  <2>1. CASE numberType = "allNumber"
    <3>1. u \o w = <<>>
      BY <2>1
    <3> QED
      BY <2>1, <3>1 DEF TempArray
  <2>2. CASE numberType # "allNumber"
    BY <2>2 DEF TempArray, LetterArray
  <2> QED
    BY <2>1, <2>2
<1>2. /\ o \in {OtherCharacter, <<>>} /\ n \in {NumberArray, <<>>}
      /\ u \in {UpLetterArray, <<>>} /\ w \in {LowLetterArray, <<>>}
  OBVIOUS
<1>3. /\ o # <<>> <=> isOther
      /\ n # <<>> <=> numberType # "allLetter"
      /\ u # <<>> <=> numberType # "allNumber" /\ letterType # "lowLetter"
      /\ w # <<>> <=> numberType # "allNumber" /\ letterType # "upLetter"
  <2>1. \A a \in Arrays : a # <<>>
    BY ArrayIsSeq
  <2> QED
    BY <2>1 DEF Arrays
<1> HIDE DEF o, n, u, w
<1>seq. /\ \A p \in {o, n, u, w} : p # <<>> => Len(p) > 1
        /\ o \in Seq(AllCharacters) /\ n \in Seq(AllCharacters)
        /\ u \in Seq(AllCharacters) /\ w \in Seq(AllCharacters)
  <2>1. <<>> \in Seq(AllCharacters)
    OBVIOUS
  <2>2. \A a \in Arrays : a \in Seq(AllCharacters) /\ Len(a) > 1
    BY ArrayIsSeq
  <2> QED
    BY <1>2, <2>1, <2>2 DEF Arrays
<1>4. /\ Drawable \subseteq ToSet(o) \cup ToSet(n) \cup ToSet(u) \cup ToSet(w)
      /\ o # <<>> => o[1] \in Drawable
      /\ n # <<>> => n[1] \in Drawable
      /\ u # <<>> => u[1] \in Drawable
      /\ w # <<>> => w[1] \in Drawable
  BY <1>1, <1>seq, DrawnParts DEF Drawable
<1>5. \A p \in {o, n, u, w} : p = <<>> => ToSet(p) = {}
  BY DEF ToSet
<1>6. /\ \A a \in Arrays : a[1] \in ToSet(a) /\ ToSet(a) \subseteq AllCharacters
      /\ \A a \in {LowLetterArray, UpLetterArray, OtherCharacter} :
            ToSet(NumberArray) \cap ToSet(a) = {}
      /\ \A a \in {LowLetterArray, UpLetterArray} :
            ToSet(OtherCharacter) \cap ToSet(a) = {}
      /\ ToSet(LowLetterArray) \cap ToSet(UpLetterArray) = {}
  BY ArrayIsSeq, ArrayAssumption DEF Disjoint
<1>7. Drawable \subseteq AllCharacters
  BY <1>2, <1>4, <1>5, <1>6 DEF Arrays
<1>8. Drawable \cap ToSet(OtherCharacter) # {} <=> o # <<>>
  BY <1>2, <1>4, <1>5, <1>6 DEF Arrays
<1>9. Drawable \cap ToSet(NumberArray) # {} <=> n # <<>>
  BY <1>2, <1>4, <1>5, <1>6 DEF Arrays
<1>10. Drawable \cap ToSet(UpLetterArray) # {} <=> u # <<>>
  BY <1>2, <1>4, <1>5, <1>6 DEF Arrays
<1>11. Drawable \cap ToSet(LowLetterArray) # {} <=> w # <<>>
  BY <1>2, <1>4, <1>5, <1>6 DEF Arrays
<1> QED
  BY <1>3, <1>7, <1>8, <1>9, <1>10, <1>11

-----------------------------------------------------------------------------
(* The switches.                                                           *)

\* What is chosen among the lengths is one of them.
LEMMA OtherLength ==
  ASSUME NEW s \in LengthSwitches
  PROVE  (CHOOSE o \in LengthSwitches : o # s) \in LengthSwitches
<1>1. \E o \in LengthSwitches : o # s
  BY DEF LengthSwitches
<1> QED
  BY <1>1

\* The slider shows a length by its switch, if it has one.
LEMMA SwitchIsLength ==
  ASSUME NEW v \in MinLength .. MaxLength
  PROVE  /\ SwitchOfLength(v) \subseteq LengthSwitches
         /\ SwitchOfLength(Short) = {"length8"} /\ SwitchOfLength(Long) = {"length16"}
         /\ Short \in MinLength .. MaxLength /\ Long \in MinLength .. MaxLength
  BY LengthAssumption DEF SwitchOfLength, LengthSwitches

LEMMA Initially ==
  CPInit => IInv
<1> SUFFICES ASSUME CPInit PROVE IInv
  OBVIOUS
<1>1. SwitchOfLength(Short) = {"length8"} /\ Short \in MinLength .. MaxLength
  BY LengthAssumption DEF SwitchOfLength
<1>2. CPTypeOK
  BY <1>1 DEF CPInit, CPTypeOK, NotCreated, NumberSwitches, LetterSwitches, LengthSwitches
<1>3. SwitchesShowChoice
  BY <1>1 DEF CPInit, SwitchesShowChoice, NumberSwitches, LetterSwitches, LengthSwitches
<1> QED
  BY <1>2, <1>3 DEF IInv

LEMMA Preserved ==
  IInv /\ [CPNext]_cpVars => IInv'
<1> SUFFICES ASSUME IInv, [CPNext]_cpVars PROVE IInv'
  OBVIOUS
<1> USE DEF IInv
<1>1. ASSUME NEW v \in MinLength .. MaxLength, LengthSliderAction(v) PROVE IInv'
  <2>1. SwitchOfLength(v) \subseteq LengthSwitches
    BY SwitchIsLength
  <2>2. CPTypeOK'
    BY <1>1, <2>1 DEF LengthSliderAction, CPTypeOK
  <2>3. SwitchesShowChoice'
    BY <1>1, <2>1 DEF LengthSliderAction, CPTypeOK, SwitchesShowChoice,
         NumberSwitches, LetterSwitches, LengthSwitches
  <2> QED
    BY <2>2, <2>3
<1>2. ASSUME NEW s \in LengthSwitches, LengthSwitchAction(s) PROVE IInv'
  <2> DEFINE chosen == IF s \in on THEN CHOOSE o \in LengthSwitches : o # s ELSE s
  <2>1. chosen \in LengthSwitches
    BY OtherLength
  <2>2. /\ on' = (on \ LengthSwitches) \cup {chosen}
        /\ slider' = IF chosen = "length8" THEN Short ELSE Long
        /\ UNCHANGED <<numberType, letterType, isOther, created, reset>>
    BY <1>2 DEF LengthSwitchAction, Only
  <2> HIDE DEF chosen
  <2>3. SwitchOfLength(slider') = {chosen} /\ slider' \in MinLength .. MaxLength
    BY <2>1, <2>2, SwitchIsLength, LengthAssumption DEF LengthSwitches, CPTypeOK
  <2>4. CPTypeOK'
    BY <2>1, <2>2, <2>3 DEF CPTypeOK
  <2>5. SwitchesShowChoice'
    BY <2>1, <2>2, <2>3 DEF SwitchesShowChoice, NumberSwitches, LetterSwitches,
         LengthSwitches
  <2> QED
    BY <2>4, <2>5
<1>3. ASSUME AllNumberSwitchAction PROVE IInv'
  <2>1. CPTypeOK'
    BY <1>3 DEF AllNumberSwitchAction, Only, CPTypeOK, NumberSwitches, LetterSwitches
  <2>2. SwitchesShowChoice'
    <3>1. on' \cap LengthSwitches = on \cap LengthSwitches
      BY <1>3 DEF AllNumberSwitchAction, Only, NumberSwitches, LetterSwitches,
           LengthSwitches
    <3>2. on' \cap NumberSwitches = {numberType'}
      BY <1>3 DEF AllNumberSwitchAction, Only, NumberSwitches, LetterSwitches
    <3>3. "other" \in on' <=> "other" \in on
      BY <1>3 DEF AllNumberSwitchAction, Only, NumberSwitches, LetterSwitches
    <3>4. reset' = TRUE /\ slider' = slider /\ isOther' = isOther
      BY <1>3 DEF AllNumberSwitchAction
    <3> QED
      BY <3>1, <3>2, <3>3, <3>4 DEF SwitchesShowChoice
  <2> QED
    BY <2>1, <2>2
<1>4. ASSUME NEW s \in {"allLetter", "numberAndLetter"}, NumberSwitchAction(s)
      PROVE  IInv'
  <2> DEFINE other  == IF s = "allLetter" THEN "allNumber" ELSE "allLetter"
             chosen == IF s \in on THEN other ELSE s
  <2>1. chosen \in NumberSwitches
    BY DEF NumberSwitches
  <2>2. /\ on' = (on \ NumberSwitches) \cup {chosen} /\ numberType' = chosen
        /\ UNCHANGED <<slider, letterType, isOther, created, reset>>
    BY <1>4 DEF NumberSwitchAction, Only
  <2> HIDE DEF chosen
  <2>3. CPTypeOK'
    BY <2>1, <2>2 DEF CPTypeOK
  <2>4. SwitchesShowChoice'
    BY <2>1, <2>2 DEF SwitchesShowChoice, NumberSwitches, LetterSwitches, LengthSwitches
  <2> QED
    BY <2>3, <2>4
<1>5. ASSUME NEW s \in LetterSwitches, LetterSwitchAction(s) PROVE IInv'
  <2> DEFINE other  == IF s = "lowLetter" THEN "upLetter" ELSE "lowLetter"
             chosen == IF s \in on THEN other ELSE s
  <2>1. chosen \in LetterSwitches
    BY DEF LetterSwitches
  <2>2. /\ on' = (on \ LetterSwitches) \cup {chosen} /\ letterType' = chosen
        /\ reset' = FALSE
        /\ UNCHANGED <<slider, numberType, isOther, created>>
    BY <1>5 DEF LetterSwitchAction, Only
  <2> HIDE DEF chosen
  <2>3. CPTypeOK'
    BY <2>1, <2>2 DEF CPTypeOK
  <2>4. SwitchesShowChoice'
    BY <2>1, <2>2 DEF SwitchesShowChoice, NumberSwitches, LetterSwitches, LengthSwitches
  <2> QED
    BY <2>3, <2>4
<1>6. ASSUME OtherCharacterSwitchAction PROVE IInv'
  <2>1. CPTypeOK'
    BY <1>6 DEF OtherCharacterSwitchAction, CPTypeOK
  <2>2. SwitchesShowChoice'
    BY <1>6 DEF OtherCharacterSwitchAction, SwitchesShowChoice, NumberSwitches,
         LetterSwitches, LengthSwitches
  <2> QED
    BY <2>1, <2>2
<1>7. ASSUME PressedCreateButton PROVE IInv'
  <2>1. Drawable \subseteq AllCharacters
    BY DrawsChosen
  <2>2. CPTypeOK'
    BY <1>7, <2>1 DEF PressedCreateButton, CPTypeOK
  <2>3. SwitchesShowChoice'
    BY <1>7 DEF PressedCreateButton, SwitchesShowChoice
  <2> QED
    BY <2>2, <2>3
<1>8. CASE UNCHANGED cpVars
  BY <1>8 DEF cpVars, CPTypeOK, SwitchesShowChoice
<1> QED
  BY <1>1, <1>2, <1>3, <1>4, <1>5, <1>6, <1>7, <1>8 DEF CPNext

-----------------------------------------------------------------------------
(* What the screen guarantees.                                             *)

\* The types and the agreement of switches and choice hold for good.
THEOREM Invariant ==
  CPSpec => []IInv
<1> QED
  BY Initially, Preserved, PTL DEF CPSpec

\* Every value stays of its type: the slider within its ends, what is created
\* within its lengths and its characters.
THEOREM TypeCorrect ==
  CPSpec => []CPTypeOK
<1>1. IInv => CPTypeOK
  BY DEF IInv
<1> QED
  BY <1>1, Invariant, PTL

\* The switches show what will be used, however they were tapped and slid.
THEOREM ShowsChoice ==
  CPSpec => []SwitchesShowChoice
<1>1. IInv => SwitchesShowChoice
  BY DEF IInv
<1> QED
  BY <1>1, Invariant, PTL

\* A created password has the length shown, and draws from the arrays its
\* switches promise and from no other.
THEOREM CreatesAsShown ==
  CPSpec => CreatedAsShown
<1> DEFINE Shown ==
      PressedCreateButton =>
          /\ created'.length = slider
          /\ \A array \in {NumberArray, OtherCharacter} :
                DrawsFrom(created', array)
                <=> \E s \in on \ LetterSwitches : array \in Promised(s)
          /\ \A array \in LetterArrays :
                ~reset => (DrawsFrom(created', array)
                           <=> /\ "allNumber" \notin on
                               /\ \E s \in on : array \in Promised(s))
<1>1. IInv /\ [CPNext]_cpVars => [Shown]_cpVars
  <2> SUFFICES ASSUME IInv, PressedCreateButton PROVE Shown
    OBVIOUS
  <2> USE DEF IInv
  <2>1. created'.length = slider /\ created'.chars = Drawable
    BY DEF PressedCreateButton
  <2>2. /\ on \subseteq NumberSwitches \cup LetterSwitches \cup LengthSwitches \cup {"other"}
        /\ numberType \in NumberSwitches /\ letterType \in LetterSwitches
    BY DEF CPTypeOK
  <2>3. \A s \in NumberSwitches : s \in on <=> s = numberType
    BY <2>2 DEF SwitchesShowChoice
  <2>4. ~reset => \A s \in LetterSwitches : s \in on <=> s = letterType
    BY <2>2 DEF SwitchesShowChoice
  <2>5. /\ Promised("other") = {OtherCharacter}
        /\ Promised("allNumber") = {NumberArray}
        /\ Promised("numberAndLetter") = {NumberArray}
        /\ Promised("upLetter") = {UpLetterArray}
        /\ Promised("lowLetter") = {LowLetterArray}
        /\ Promised("upAndLetter") = {UpLetterArray, LowLetterArray}
        /\ Promised("allLetter") = {}
        /\ Promised("length8") = {} /\ Promised("length16") = {}
    BY DEF Promised
  <2>6. (\E s \in on \ LetterSwitches : NumberArray \in Promised(s))
        <=> numberType # "allLetter"
    BY <2>2, <2>3, <2>5, ArraysDiffer
       DEF NumberSwitches, LetterSwitches, LengthSwitches
  <2>7. (\E s \in on \ LetterSwitches : OtherCharacter \in Promised(s))
        <=> "other" \in on
    BY <2>2, <2>5, ArraysDiffer
       DEF NumberSwitches, LetterSwitches, LengthSwitches
  <2>8. ~reset => ((\E s \in on : UpLetterArray \in Promised(s))
                   <=> letterType # "lowLetter")
    BY <2>2, <2>4, <2>5, ArraysDiffer
       DEF NumberSwitches, LetterSwitches, LengthSwitches
  <2>9. ~reset => ((\E s \in on : LowLetterArray \in Promised(s))
                   <=> letterType # "upLetter")
    BY <2>2, <2>4, <2>5, ArraysDiffer
       DEF NumberSwitches, LetterSwitches, LengthSwitches
  <2>10. "allNumber" \notin on <=> numberType # "allNumber"
    BY <2>3 DEF NumberSwitches
  <2>11. "other" \in on <=> isOther
    BY DEF SwitchesShowChoice
  <2>12. \A a \in Arrays : DrawsFrom(created', a) <=> Drawable \cap ToSet(a) # {}
    BY <2>1 DEF DrawsFrom
  <2>13. /\ DrawsFrom(created', OtherCharacter) <=> isOther
         /\ DrawsFrom(created', NumberArray) <=> numberType # "allLetter"
         /\ DrawsFrom(created', UpLetterArray)
               <=> numberType # "allNumber" /\ letterType # "lowLetter"
         /\ DrawsFrom(created', LowLetterArray)
               <=> numberType # "allNumber" /\ letterType # "upLetter"
    BY <2>12, DrawsChosen DEF Arrays
  <2> QED
    BY <2>1, <2>6, <2>7, <2>8, <2>9, <2>10, <2>11, <2>13 DEF LetterArrays
<1> QED
  BY <1>1, Invariant, PTL DEF CPSpec, CreatedAsShown
=============================================================================

-------------------------- MODULE CardScreensProofs --------------------------
(***************************************************************************)
(* What CardScreens guarantees for every set of numbers and dates, every   *)
(* bound on the ids and on the questions in flight, and every backup.      *)
(*                                                                         *)
(* The screens use the store as PPDataManager specifies it.  The invariant *)
(* adds what holds where nothing is checked: of an edited object, that its *)
(* date and logo are those stored; of a form, that the number asked last   *)
(* is the last one in flight, or the one the logo and, if the user chose   *)
(* none after, the type is of, until an answer is lost or out of order.    *)
(***************************************************************************)
EXTENDS CardScreens, PPDataManagerProofs

Forms == {"edit", "add", "mainAdd"}

ListTypeOK ==
    /\ cards \in [Ids -> Values \cup {NoRow}]
    /\ screen \in Screens
    /\ held \in [id : Ids \cup {0}, val : Values \cup {NoRow}]
    /\ stale \in BOOLEAN

FormTypeOK ==
    /\ form \in Form
    /\ asked \in Seq(Numbers) /\ Len(asked) <= MaxAsked
    /\ inOrder \in BOOLEAN

HandedOut == screen \in {"sheet", "alert", "view", "edit"} => held.id \in Ids /\ held.val \in Values

\* An edit form holds a stored card, but for its number and type.
EditedIsThere ==
    screen = "edit" =>
        /\ form.number \in Numbers
        /\ ~stale => /\ GetAll(BankCard)[held.id] # NoRow
                     /\ held.val.expire = GetAll(BankCard)[held.id].expire
                     /\ held.val.logo = GetAll(BankCard)[held.id].logo

FormAtRest == screen \notin Forms => form = NoForm /\ asked = <<>> /\ inOrder = TRUE

\* What the last answer has set.
Answered ==
    /\ form.logo = form.last
    /\ form.last # Nothing /\ ~form.chosen => CardType[form.last] \in {Nothing, form.type}

LastAsked ==
    inOrder => /\ asked = <<>> => Answered
               /\ asked # <<>> => asked[Len(asked)] = form.last

\* The sheet to add does not cover the list.
AddOverList == screen = "add" => cards = GetAll(BankCard)

AtMain == ~alive => screen = "main"

CSInv ==
    /\ IInv
    /\ ListTypeOK /\ FormTypeOK
    /\ CardsAreStored /\ HeldCardIsStored
    /\ HandedOut /\ EditedIsThere
    /\ FormAtRest /\ LastAsked
    /\ AddOverList /\ AtMain

-----------------------------------------------------------------------------
(* Cards and questions.                                                    *)

\* A card is its four fields, two of which an edit keeps.
With(c, n, t) == [c EXCEPT !.number = n, !.type = t]

LEMMA CardFields ==
  ASSUME NEW c \in Values, NEW n \in Numbers, NEW t \in Types
  PROVE  /\ With(c, n, t) \in Values
         /\ With(c, n, t).expire = c.expire /\ With(c, n, t).logo = c.logo
         /\ \A d \in Values : d.expire = c.expire /\ d.logo = c.logo
                              => With(d, n, t) = With(c, n, t)
  BY CardAssumption DEF With, Card

LEMMA EditedIs == Edited = With(held.val, form.number, form.type)
  BY DEF Edited, With

\* A question that is answered leaves the others, in their order.
LEMMA OthersAsked ==
  ASSUME asked \in Seq(Numbers), NEW k \in DOMAIN asked
  PROVE  /\ Without(k) \in Seq(Numbers)
         /\ Len(Without(k)) = Len(asked) - 1
         /\ k = 1 /\ Len(asked) > 1 => Without(k)[Len(asked) - 1] = asked[Len(asked)]
<1> DEFINE n == Len(asked)
           s == [j \in 1 .. n - 1 |-> IF j < k THEN asked[j] ELSE asked[j + 1]]
<1>1. n \in Nat /\ k \in 1 .. n /\ \A j \in 1 .. n : asked[j] \in Numbers
  OBVIOUS
<1>2. n - 1 \in Nat /\ \A j \in 1 .. n - 1 : j \in 1 .. n /\ j + 1 \in 1 .. n
  BY <1>1
<1> HIDE DEF n
<1>3. \A j \in 1 .. n - 1 : s[j] \in Numbers
  BY <1>1, <1>2
<1>4. s \in [1 .. n - 1 -> Numbers]
  BY <1>3
<1>5. s \in Seq(Numbers) /\ Len(s) = n - 1
  BY <1>2, <1>4
<1>6. k = 1 /\ n > 1 => s[n - 1] = asked[n]
  BY <1>1, <1>2
<1> QED
  BY <1>5, <1>6 DEF Without, n

-----------------------------------------------------------------------------
(* The store.                                                              *)

\* What is confirmed in a form is a card.
LEMMA ConfirmsCards ==
  ASSUME CSInv
  PROVE  /\ screen = "edit" => Edited \in Values
         /\ form.number # Nothing => Added \in Values
<1>1. screen = "edit" => held.val \in Values /\ form.number \in Numbers /\ form.type \in Types
  BY DEF CSInv, HandedOut, EditedIsThere, FormTypeOK, Form
<1>2. screen = "edit" => Edited \in Values
  BY <1>1, CardFields, EditedIs
<1> QED
  BY <1>2, CardAssumption DEF CSInv, FormTypeOK, Form, Added, Card

\* A step of the screens is one of the store, or none.
LEMMA StorePart ==
  CSInv /\ [CSNext]_csVars => [Next]_dmVars
<1> SUFFICES ASSUME CSInv, [CSNext]_csVars PROVE [Next]_dmVars
  OBVIOUS
<1>1. CASE CardLaunch \/ RestoreCompletes \/ CardKill
  BY <1>1 DEF CardLaunch, RestoreCompletes, CardKill, Next, Restore
<1>2. CASE RestoreStep
  BY <1>2, BackupsAssumption DEF RestoreStep, Next, Restore
<1>3. CASE ConfirmDelete
  <2>1. DeleteBackCard(held.id) /\ held.id \in Ids
    BY <1>3 DEF ConfirmDelete, CSInv, HandedOut
  <2> QED
    BY <2>1 DEF Next, Statement
<1>4. CASE ConfirmAdd
  <2>1. InsertBackCard(Added) /\ Added \in Values
    BY <1>4, ConfirmsCards DEF ConfirmAdd
  <2> QED
    BY <2>1 DEF Next, Statement
<1>5. CASE ConfirmEdit
  <2>1. UpdateBackCard(held.id, Edited) /\ held.id \in Ids /\ Edited \in Values
    BY <1>5, ConfirmsCards DEF ConfirmEdit, CSInv, HandedOut
  <2> QED
    BY <2>1 DEF Next, Statement
<1>6. CASE \/ UNCHANGED csVars \/ TabAppears \/ TabLeaves \/ PressedDelete \/ PressedView
           \/ PressedEdit \/ LeaveSheet \/ LeaveView \/ AddCard \/ TextFieldDidEndEditing
           \/ FinishCallBack \/ ConfirmEditFails \/ CancelForm
           \/ \E i \in Ids : SelectRow(i)
           \/ \E n \in Numbers : TypeNumber(n)
           \/ \E e \in Dates : TypeDate(e)
           \/ \E t \in Types : SelectType(t)
           \/ \E k \in 1 .. MaxAsked : CardInfoFails(k) \/ \E bank \in BOOLEAN : CardInfo(k, bank)
  BY <1>6 DEF csVars, TabAppears, TabLeaves, PressedDelete, PressedView, PressedEdit,
     LeaveSheet, LeaveView, AddCard, TextFieldDidEndEditing, FinishCallBack,
     ConfirmEditFails, CancelForm, SelectRow, TypeNumber, TypeDate, SelectType, CardInfo, CardInfoFails
<1> QED
  BY <1>1, <1>2, <1>3, <1>4, <1>5, <1>6 DEF CSNext

-----------------------------------------------------------------------------
(* The invariant.                                                          *)

LEMMA CSInitially ==
  CSInit => CSInv
<1> SUFFICES ASSUME CSInit PROVE CSInv
  OBVIOUS
<1> USE DEF CSInit
<1>1. IInv
  BY InitIInv
<1>2. ListTypeOK
  BY DEF ListTypeOK, NoCards, NoHeld, Screens
<1>3. FormTypeOK /\ LastAsked /\ FormAtRest
  BY AskedAssumption DEF FormTypeOK, Form, Types, LastAsked, Answered, FormAtRest, NoForm
<1>4. /\ CardsAreStored /\ HeldCardIsStored /\ HandedOut /\ EditedIsThere
      /\ AddOverList /\ AtMain
  BY DEF CardsAreStored, HeldCardIsStored, HandedOut, EditedIsThere, AddOverList, AtMain
<1> QED
  BY <1>1, <1>2, <1>3, <1>4 DEF CSInv

LEMMA CSPreserved ==
  CSInv /\ [CSNext]_csVars => CSInv'
<1> SUFFICES ASSUME CSInv, [CSNext]_csVars PROVE CSInv'
  OBVIOUS
<1>inv. /\ IInv /\ ListTypeOK /\ FormTypeOK /\ CardsAreStored /\ HeldCardIsStored
        /\ HandedOut /\ EditedIsThere /\ FormAtRest /\ LastAsked /\ AddOverList /\ AtMain
  BY DEF CSInv
<1>store. IInv'
  BY <1>inv, StorePart, NextIInv
<1>reads. /\ GetAll(BankCard) \in [Ids -> Values \cup {NoRow}]
          /\ GetAll(BankCard)' \in [Ids -> Values \cup {NoRow}]
  <2>1. TablesRead /\ TablesRead'
    BY <1>inv, <1>store, ReadsTable, ReadsTableNext
  <2> QED
    BY <2>1 DEF TablesRead, BankCard, Tables
<1> DEFINE ListRest == /\ ListTypeOK' /\ CardsAreStored' /\ AddOverList' /\ AtMain'
           HeldRest == /\ HeldCardIsStored' /\ HandedOut' /\ EditedIsThere'
           FormRest == /\ FormTypeOK' /\ LastAsked' /\ FormAtRest'
<1>rest. ASSUME ListRest, HeldRest, FormRest PROVE CSInv'
  BY <1>store, <1>rest DEF CSInv
<1>db. ASSUME UNCHANGED dmVars PROVE GetAll(BankCard)' = GetAll(BankCard) /\ (alive' <=> alive)
  BY <1>db DEF dmVars, GetAll, Db
<1>awake. ASSUME alive' PROVE AtMain'
  BY <1>awake DEF AtMain
<1>executed. ASSUME NEW img, ExecuteUpdate(BankCard, img) PROVE alive'
  BY <1>executed DEF ExecuteUpdate, Idle
\* The form stays closed, or as it is.
<1>kept. ASSUME UNCHANGED formVars, screen' \in Forms \/ screen \notin Forms PROVE FormRest
  <2> USE <1>kept DEF formVars
  <2>1. FormTypeOK' /\ LastAsked'
    BY <1>inv DEF FormTypeOK, LastAsked, Answered
  <2>2. FormAtRest'
    BY <1>inv DEF FormAtRest
  <2> QED
    BY <2>1, <2>2
<1>closed. ASSUME CloseForm PROVE FormRest
  BY <1>closed, AskedAssumption DEF CloseForm, FormTypeOK, Form, Types, LastAsked, Answered, FormAtRest, NoForm
\* Nothing that was handed out is in front.
<1>front. ASSUME screen' \notin {"sheet", "alert", "view", "edit"} PROVE HeldRest
  BY <1>front DEF HeldCardIsStored, HandedOut, EditedIsThere
\* The list is read again.
<1>refreshed. ASSUME Refresh, screen' \in Screens, alive',
                     held' \in [id : Ids \cup {0}, val : Values \cup {NoRow}],
                     stale' \in BOOLEAN
              PROVE  ListRest
  <2>1. cards' = GetAll(BankCard)'
    BY <1>refreshed DEF Refresh
  <2>2. ListTypeOK'
    BY <2>1, <1>refreshed, <1>reads DEF ListTypeOK
  <2>3. CardsAreStored' /\ AddOverList'
    BY <2>1 DEF CardsAreStored, AddOverList
  <2> QED
    BY <2>2, <2>3, <1>awake, <1>refreshed
\* The list is as it was, and so are the records it shows.
<1>shown. ASSUME cards' = cards, GetAll(BankCard)' = GetAll(BankCard), screen' \in Screens,
                 screen' \in {"list", "sheet", "alert", "add"}
                    => screen \in {"list", "sheet", "alert", "add"},
                 alive',
                 held' \in [id : Ids \cup {0}, val : Values \cup {NoRow}], stale' \in BOOLEAN
          PROVE  ListRest
  <2>1. ListTypeOK'
    BY <1>shown, <1>inv DEF ListTypeOK
  <2>2. CardsAreStored' /\ AddOverList'
    BY <1>shown, <1>inv DEF CardsAreStored, AddOverList
  <2> QED
    BY <2>1, <2>2, <1>awake, <1>shown
\* What is handed out is as it was, and so is its record.
<1>handed. ASSUME UNCHANGED <<screen, held, stale>>, GetAll(BankCard)' = GetAll(BankCard),
                  screen = "edit" => form'.number \in Numbers
           PROVE  HeldRest
  <2> USE <1>handed
  <2>1. HeldCardIsStored' /\ HandedOut'
    BY <1>inv DEF HeldCardIsStored, HandedOut
  <2>2. EditedIsThere'
    BY <1>inv DEF EditedIsThere
  <2> QED
    BY <2>1, <2>2
<1>types. /\ screen \in Screens /\ stale \in BOOLEAN
          /\ held \in [id : Ids \cup {0}, val : Values \cup {NoRow}]
          /\ NoHeld \in [id : Ids \cup {0}, val : Values \cup {NoRow}]
  BY <1>inv DEF ListTypeOK, NoHeld
<1>letgo. ASSUME LetGo
          PROVE  held' \in [id : Ids \cup {0}, val : Values \cup {NoRow}] /\ stale' \in BOOLEAN
  BY <1>letgo, <1>types DEF LetGo
\* A step in a form.
<1>inForm. ASSUME Editing, UNCHANGED <<dmVars, cards, screen, held, stale>>,
                  form'.number = form.number \/ form'.number \in Numbers,
                  FormTypeOK', LastAsked'
           PROVE  CSInv'
  <2> USE <1>inForm DEF Editing, Idle
  <2>1. GetAll(BankCard)' = GetAll(BankCard) /\ alive'
    BY <1>db
  <2>2. ListRest
    BY <2>1, <1>types, <1>shown
  <2>3. screen = "edit" => form'.number \in Numbers
    BY <1>inv DEF EditedIsThere
  <2>4. HeldRest
    BY <2>1, <2>3, <1>handed
  <2>5. FormAtRest'
    BY DEF FormAtRest, Forms
  <2> QED
    BY <2>2, <2>4, <2>5, <1>rest
<1> HIDE DEF ListRest, HeldRest, FormRest
<1>1. CASE CardLaunch
  <2> USE <1>1 DEF CardLaunch
  <2>1. screen = "main" /\ screen' = "main" /\ UNCHANGED formVars
    BY <1>inv DEF Launch, AtMain
  <2>2. ListRest
    BY <2>1, <1>inv DEF ListRest, ListTypeOK, CardsAreStored, AddOverList, AtMain
  <2>3. HeldRest /\ FormRest
    BY <2>1, <1>front, <1>kept DEF Forms
  <2> QED
    BY <2>2, <2>3, <1>rest
<1>2. CASE RestoreStep
  <2> USE <1>2 DEF RestoreStep
  <2>1. GetAll(BankCard)' = GetAll(BankCard)
    BY <1>inv, RestoreShowsOld, BackupsAssumption DEF BankCard, Tables
  <2>2. alive' = alive
    BY DEF RetrieveRemove, RetrieveWriteFails, RetrieveWrite
  <2>3. UNCHANGED <<cards, screen, held, stale>> /\ UNCHANGED formVars
    OBVIOUS
  <2>4. ListRest
    BY <2>1, <2>2, <2>3, <1>inv DEF ListRest, ListTypeOK, CardsAreStored, AddOverList, AtMain
  <2>5. HeldRest
    <3>1. form' = form
      BY <2>3 DEF formVars
    <3> QED
      BY <2>1, <2>3, <3>1, <1>inv, <1>handed DEF EditedIsThere
  <2>6. FormRest
    BY <2>3, <1>kept
  <2> QED
    BY <2>4, <2>5, <2>6, <1>rest
<1>3. CASE RestoreCompletes
  <2> USE <1>3 DEF RestoreCompletes
  <2>1. alive'
    BY <1>inv DEF ReOpenDB, IInv, ConnectionOnFile
  <2>2. ListRest
    BY <2>1, <1>types, <1>refreshed
  <2>3. screen \in {"sheet", "alert", "view", "edit"} => stale' = TRUE
    <3>1. screen \in {"sheet", "alert", "view", "edit"} => held.id # 0
      BY <1>inv DEF HandedOut, Ids
    <3>2. stale' = (held.id # 0)
      OBVIOUS
    <3> QED
      BY <3>1, <3>2
  <2>4. HeldRest
    <3>1. form' = form
      BY DEF formVars
    <3> QED
      BY <2>3, <3>1, <1>inv DEF HeldRest, HeldCardIsStored, HandedOut, EditedIsThere
  <2>5. FormRest
    BY <1>kept
  <2> QED
    BY <2>2, <2>4, <2>5, <1>rest
<1>4. CASE CardKill
  <2> USE <1>4 DEF CardKill
  <2>1. cards' = NoCards /\ screen' = "main"
    OBVIOUS
  <2>2. ListRest
    BY <2>1, <1>letgo DEF ListRest, ListTypeOK, CardsAreStored, AddOverList, AtMain,
       NoCards, Screens
  <2>3. HeldRest /\ FormRest
    BY <2>1, <1>front, <1>closed
  <2> QED
    BY <2>2, <2>3, <1>rest
<1>5. ASSUME TabAppears \/ FinishCallBack PROVE CSInv'
  <2> USE <1>5 DEF TabAppears, FinishCallBack, Idle
  <2>1. alive' /\ screen' = "list" /\ UNCHANGED <<held, stale>> /\ UNCHANGED formVars
        /\ screen \notin Forms
    BY <1>db DEF Forms
  <2>2. ListRest
    BY <2>1, <1>types, <1>refreshed DEF Screens
  <2>3. HeldRest /\ FormRest
    BY <2>1, <1>front, <1>kept
  <2> QED
    BY <2>2, <2>3, <1>rest
<1>6. ASSUME TabLeaves \/ AddCard PROVE CSInv'
  <2> USE <1>6 DEF TabLeaves, AddCard, Idle
  <2>1. GetAll(BankCard)' = GetAll(BankCard) /\ alive'
    BY <1>db
  <2>2. /\ screen' \in {"main", "add", "mainAdd"} /\ screen \in {"list", "main"}
        /\ screen' = "add" => screen = "list"
        /\ UNCHANGED <<cards, held, stale>> /\ UNCHANGED formVars
    OBVIOUS
  <2>3. ListRest
    BY <2>1, <2>2, <1>types, <1>shown DEF Screens
  <2>4. HeldRest /\ FormRest
    BY <2>2, <1>front, <1>kept DEF Forms
  <2> QED
    BY <2>3, <2>4, <1>rest
<1>7. ASSUME NEW i \in Ids, SelectRow(i) PROVE CSInv'
  <2> USE <1>7 DEF SelectRow, Idle
  <2>1. GetAll(BankCard)' = GetAll(BankCard) /\ alive'
    BY <1>db
  <2>2. /\ screen = "list" /\ screen' = "sheet" /\ cards' = cards
        /\ held' = [id |-> i, val |-> cards[i]] /\ stale' = FALSE /\ UNCHANGED formVars
    OBVIOUS
  <2>3. cards = GetAll(BankCard) /\ cards[i] \in Values /\ cards[i] # NoRow
    BY <1>inv DEF CardsAreStored, ListTypeOK
  <2>4. held' \in [id : Ids \cup {0}, val : Values \cup {NoRow}]
    BY <2>2, <2>3
  <2>5. ListRest
    BY <2>1, <2>2, <2>4, <1>types, <1>shown DEF Screens
  <2>6. HeldRest
    BY <2>1, <2>2, <2>3 DEF HeldRest, HeldCardIsStored, HandedOut, EditedIsThere
  <2>7. FormRest
    BY <2>2, <1>kept DEF Forms
  <2> QED
    BY <2>5, <2>6, <2>7, <1>rest
<1>8. ASSUME PressedDelete \/ PressedView PROVE CSInv'
  <2> USE <1>8 DEF PressedDelete, PressedView, Idle
  <2>1. GetAll(BankCard)' = GetAll(BankCard) /\ alive'
    BY <1>db
  <2>2. /\ screen = "sheet" /\ screen' \in {"alert", "view"}
        /\ UNCHANGED <<cards, held, stale>> /\ UNCHANGED formVars
    OBVIOUS
  <2>3. ListRest
    BY <2>1, <2>2, <1>types, <1>shown DEF Screens
  <2>4. HeldRest
    BY <2>1, <2>2, <1>inv DEF HeldRest, HeldCardIsStored, HandedOut, EditedIsThere
  <2>5. FormRest
    BY <2>2, <1>kept DEF Forms
  <2> QED
    BY <2>3, <2>4, <2>5, <1>rest
<1>9. CASE PressedEdit
  <2> USE <1>9 DEF PressedEdit, Idle
  <2>1. GetAll(BankCard)' = GetAll(BankCard) /\ alive'
    BY <1>db
  <2>2. /\ screen = "sheet" /\ screen' = "edit"
        /\ UNCHANGED <<cards, held, stale>> /\ UNCHANGED <<asked, inOrder>>
        /\ form' = [NoForm EXCEPT !.number = held.val.number, !.expire = held.val.expire,
                                  !.type = held.val.type]
    OBVIOUS
  <2>3. held.id \in Ids /\ held.val \in Values
    BY <2>2, <1>inv DEF HandedOut
  <2>4. /\ held.val.number \in Numbers /\ held.val.expire \in Dates \cup {Nothing}
        /\ held.val.type \in Types
    BY <2>3, CardAssumption DEF Card
  <2>5. /\ form' \in Form
        /\ form'.number = held.val.number
        /\ form'.logo = Nothing /\ form'.last = Nothing
    BY <2>2, <2>4 DEF NoForm, Form
  <2>6. asked = <<>> /\ inOrder = TRUE
    BY <2>2, <1>inv DEF FormAtRest, Forms
  <2>7. ListRest
    BY <2>1, <2>2, <1>types, <1>shown DEF Screens
  <2>8. HeldRest
    BY <2>1, <2>2, <2>3, <2>4, <2>5, <1>inv
       DEF HeldRest, HeldCardIsStored, HandedOut, EditedIsThere
  <2>9. FormRest
    <3>1. FormTypeOK'
      BY <2>2, <2>5, <1>inv DEF FormTypeOK
    <3>2. LastAsked'
      BY <2>2, <2>5, <2>6 DEF LastAsked, Answered
    <3>3. FormAtRest'
      BY <2>2 DEF FormAtRest, Forms
    <3> QED
      BY <3>1, <3>2, <3>3 DEF FormRest
  <2> QED
    BY <2>7, <2>8, <2>9, <1>rest
<1>10. CASE LeaveSheet
  <2> USE <1>10 DEF LeaveSheet, Idle
  <2>1. GetAll(BankCard)' = GetAll(BankCard) /\ alive'
    BY <1>db
  <2>2. /\ screen \in {"sheet", "alert"} /\ screen' = "list" /\ cards' = cards
        /\ UNCHANGED formVars
    OBVIOUS
  <2>3. ListRest
    BY <2>1, <2>2, <1>letgo, <1>shown DEF Screens
  <2>4. HeldRest /\ FormRest
    BY <2>2, <1>front, <1>kept DEF Forms
  <2> QED
    BY <2>3, <2>4, <1>rest
<1>11. CASE LeaveView
  <2> USE <1>11 DEF LeaveView, Idle
  <2>1. alive' /\ screen = "view" /\ screen' = "list" /\ UNCHANGED formVars
    BY <1>db
  <2>2. ListRest
    BY <2>1, <1>letgo, <1>refreshed DEF Screens
  <2>3. HeldRest /\ FormRest
    BY <2>1, <1>front, <1>kept DEF Forms
  <2> QED
    BY <2>2, <2>3, <1>rest
<1>12. CASE ConfirmDelete
  <2> USE <1>12 DEF ConfirmDelete
  <2>1. alive'
    BY <1>executed DEF DeleteBackCard, DeleteRow, BankCard
  <2>2. screen = "alert" /\ screen' = "list" /\ UNCHANGED formVars
    OBVIOUS
  <2>3. ListRest
    BY <2>1, <2>2, <1>letgo, <1>refreshed DEF Screens
  <2>4. HeldRest /\ FormRest
    BY <2>2, <1>front, <1>kept DEF Forms
  <2> QED
    BY <2>3, <2>4, <1>rest
<1>13. CASE ConfirmAdd
  <2> USE <1>13 DEF ConfirmAdd
  <2>1. alive'
    BY <1>executed DEF InsertBackCard, InsertRow, BankCard
  <2>2. screen' \in {"closing", "main"} /\ UNCHANGED <<cards, held, stale>>
    OBVIOUS
  <2>3. ListRest
    BY <2>1, <2>2, <1>inv, <1>awake
       DEF ListRest, ListTypeOK, CardsAreStored, AddOverList, Screens
  <2>4. HeldRest /\ FormRest
    BY <2>2, <1>front, <1>closed
  <2> QED
    BY <2>3, <2>4, <1>rest
<1>14. CASE ConfirmEdit
  <2> USE <1>14 DEF ConfirmEdit
  <2>1. alive'
    BY <1>executed DEF UpdateBackCard, UpdateRow, BankCard
  <2>2. screen' = "list"
    OBVIOUS
  <2>3. ListRest
    BY <2>1, <2>2, <1>letgo, <1>refreshed DEF Screens
  <2>4. HeldRest /\ FormRest
    BY <2>2, <1>front, <1>closed
  <2> QED
    BY <2>3, <2>4, <1>rest
<1>15. CASE ConfirmEditFails
  <2> USE <1>15 DEF ConfirmEditFails, Idle
  <2>1. GetAll(BankCard)' = GetAll(BankCard) /\ alive'
    BY <1>db
  <2>2. /\ screen = "edit" /\ screen' = screen /\ stale' = stale /\ UNCHANGED formVars
        /\ held' = [held EXCEPT !.val = Edited]
        /\ cards' = IF stale THEN cards ELSE [cards EXCEPT ![held.id] = Edited]
    OBVIOUS
  <2>3. held.id \in Ids /\ held.val \in Values /\ form.number \in Numbers /\ form.type \in Types
    BY <2>2, <1>inv DEF HandedOut, EditedIsThere, FormTypeOK, Form
  <2>4. /\ Edited \in Values
        /\ Edited.expire = held.val.expire /\ Edited.logo = held.val.logo
    BY <2>3, CardFields, EditedIs
  <2>5. /\ held' \in [id : Ids \cup {0}, val : Values \cup {NoRow}]
        /\ held'.id = held.id /\ held'.val = Edited
    BY <2>2, <2>4, <1>types
  <2>6. cards' \in [Ids -> Values \cup {NoRow}]
    BY <2>2, <2>4, <1>inv DEF ListTypeOK
  <2>7. ListRest
    BY <2>1, <2>2, <2>5, <2>6, <1>types, <1>awake
       DEF ListRest, ListTypeOK, CardsAreStored, AddOverList
  <2>8. HeldRest
    <3>1. form' = form
      BY <2>2 DEF formVars
    <3> QED
      BY <2>1, <2>2, <2>3, <2>4, <2>5, <3>1, <1>inv
         DEF HeldRest, HeldCardIsStored, HandedOut, EditedIsThere
  <2>9. FormRest
    BY <2>2, <1>kept DEF Forms
  <2> QED
    BY <2>7, <2>8, <2>9, <1>rest
<1>16. CASE CancelForm
  <2> USE <1>16 DEF CancelForm, Editing, Idle
  <2>1. GetAll(BankCard)' = GetAll(BankCard) /\ alive'
    BY <1>db
  <2>2. screen' \in {"main", "list"} /\ (screen = "mainAdd" => screen' = "main")
    OBVIOUS
  <2>3. ASSUME screen = "edit" PROVE ListRest
    BY <2>1, <2>2, <2>3, <1>letgo, <1>refreshed DEF Screens
  <2>4. ASSUME screen # "edit" PROVE ListRest
    BY <2>1, <2>2, <2>4, <1>letgo, <1>shown DEF Screens
  <2>5. HeldRest /\ FormRest
    BY <2>2, <1>front, <1>closed
  <2> QED
    BY <2>3, <2>4, <2>5, <1>rest
<1>17. ASSUME NEW n \in Numbers, TypeNumber(n) PROVE CSInv'
  <2> USE <1>17 DEF TypeNumber
  <2>1. form' = [form EXCEPT !.number = n] /\ UNCHANGED <<asked, inOrder>>
    OBVIOUS
  <2>2. FormTypeOK' /\ LastAsked' /\ form'.number \in Numbers
    BY <2>1, <1>inv DEF FormTypeOK, Form, LastAsked, Answered
  <2> QED
    BY <2>2, <1>inForm
<1>18. ASSUME NEW e \in Dates, TypeDate(e) PROVE CSInv'
  <2> USE <1>18 DEF TypeDate
  <2>1. form' = [form EXCEPT !.expire = e] /\ UNCHANGED <<asked, inOrder>>
    OBVIOUS
  <2>2. FormTypeOK' /\ LastAsked' /\ form'.number = form.number
    BY <2>1, <1>inv DEF FormTypeOK, Form, LastAsked, Answered
  <2> QED
    BY <2>2, <1>inForm
<1>19. ASSUME NEW t \in Types, SelectType(t) PROVE CSInv'
  <2> USE <1>19 DEF SelectType
  <2>1. form' = [form EXCEPT !.type = t, !.chosen = TRUE] /\ UNCHANGED <<asked, inOrder>>
    OBVIOUS
  <2>2. FormTypeOK' /\ form'.number = form.number /\ form'.logo = form.logo
        /\ form'.last = form.last /\ form'.chosen = TRUE
    BY <2>1, <1>inv DEF FormTypeOK, Form
  <2>3. LastAsked'
    BY <2>1, <2>2, <1>inv DEF LastAsked, Answered
  <2> QED
    BY <2>2, <2>3, <1>inForm
<1>20. CASE TextFieldDidEndEditing
  <2> USE <1>20 DEF TextFieldDidEndEditing
  <2>1. /\ form' = [form EXCEPT !.last = form.number] /\ inOrder' = inOrder
        /\ asked' = Append(asked, form.number) /\ form.number # Nothing
    OBVIOUS
  <2>2. form.number \in Numbers /\ asked \in Seq(Numbers)
    BY <2>1, <1>inv DEF FormTypeOK, Form
  <2>3. /\ asked' \in Seq(Numbers) /\ Len(asked') = Len(asked) + 1
        /\ asked'[Len(asked')] = form.number /\ asked' # <<>>
    BY <2>1, <2>2
  <2>4. Len(asked') <= MaxAsked
    BY <2>2, <2>3, AskedAssumption
  <2>5. FormTypeOK' /\ form'.number = form.number /\ form'.last = form.number
    BY <2>1, <2>2, <2>3, <2>4, <1>inv DEF FormTypeOK, Form
  <2>6. LastAsked'
    BY <2>3, <2>5 DEF LastAsked
  <2> QED
    BY <2>5, <2>6, <1>inForm
<1>21. ASSUME NEW k \in 1 .. MaxAsked, NEW bank \in BOOLEAN, CardInfo(k, bank) \/ CardInfoFails(k)
       PROVE  CSInv'
  <2> DEFINE n == asked[k]
             answered == [form EXCEPT !.logo = IF bank THEN n ELSE @,
                                      !.type = Selected(n),
                                      !.chosen = @ /\ CardType[n] = Nothing]
  <2> USE <1>21 DEF CardInfo, CardInfoFails
  <2>1. /\ k \in DOMAIN asked /\ asked' = Without(k)
        /\ \/ form' = answered /\ inOrder' = (inOrder /\ k = 1 /\ bank)
           \/ form' = form /\ inOrder' = FALSE
        /\ Editing /\ UNCHANGED <<dmVars, cards, screen, held, stale>>
    OBVIOUS
  <2>2. asked \in Seq(Numbers) /\ Len(asked) <= MaxAsked /\ inOrder \in BOOLEAN
    BY <1>inv DEF FormTypeOK
  <2>3. /\ asked' \in Seq(Numbers) /\ Len(asked') = Len(asked) - 1
        /\ k = 1 /\ Len(asked) > 1 => asked'[Len(asked) - 1] = asked[Len(asked)]
    BY <2>1, <2>2, OthersAsked
  <2>4. Len(asked') <= MaxAsked /\ asked[k] \in Numbers /\ inOrder' \in BOOLEAN
    <3>1. Len(asked) \in Nat /\ k \in 1 .. Len(asked)
      BY <2>1, <2>2
    <3>2. asked[k] \in Numbers
      BY <2>2, <3>1
    <3>3. Len(asked') <= MaxAsked
      BY <2>2, <2>3, <3>1, AskedAssumption
    <3>4. inOrder' \in BOOLEAN
      BY <2>1, <2>2
    <3> QED
      BY <3>2, <3>3, <3>4
  <2>sel. Selected(n) \in Types
    BY <2>4, <1>inv, TypeAssumption DEF Selected, FormTypeOK, Form
  <2>ans. /\ answered \in Form
          /\ answered.number = form.number /\ answered.last = form.last
          /\ answered.type = Selected(n)
          /\ bank => answered.logo = n
          /\ answered.chosen => CardType[n] = Nothing
    BY <2>4, <2>sel, <1>inv DEF FormTypeOK, Form
  <2> HIDE DEF answered
  <2>5. FormTypeOK' /\ form'.number = form.number /\ form'.last = form.last
    BY <2>1, <2>3, <2>4, <2>ans, <1>inv DEF FormTypeOK
  <2>6. LastAsked'
    <3> SUFFICES ASSUME inOrder'
                 PROVE  /\ asked' = <<>> => Answered'
                        /\ asked' # <<>> => asked'[Len(asked')] = form'.last
      BY DEF LastAsked
    <3>1. inOrder /\ k = 1 /\ bank /\ form' = answered
      BY <2>1
    <3>2. asked # <<>> /\ asked[Len(asked)] = form.last
      BY <2>1, <2>2, <3>1, <1>inv DEF LastAsked
    <3>3. CASE Len(asked) = 1
      <4>1. asked' = <<>>
        BY <2>3, <3>3
      <4>2. n = form'.last
        BY <2>5, <3>1, <3>2, <3>3
      <4>3. form'.logo = n /\ form'.type = Selected(n)
        BY <2>ans, <3>1
      <4>4. Answered'
        BY <4>2, <4>3 DEF Answered, Selected
      <4> QED
        BY <4>1, <4>4
    <3>4. CASE Len(asked) > 1
      <4>1. asked' # <<>>
        BY <2>2, <2>3, <3>4
      <4> QED
        BY <2>3, <2>5, <3>1, <3>2, <3>4, <4>1
    <3>5. Len(asked) = 1 \/ Len(asked) > 1
      <4>1. Len(asked) \in Nat /\ k \in 1 .. Len(asked)
        BY <2>1, <2>2
      <4> DEFINE len == Len(asked)
      <4>2. len \in Nat /\ k \in 1 .. len
        BY <4>1
      <4> HIDE DEF len
      <4>3. len = 1 \/ len > 1
        BY <4>2
      <4> QED
        BY <4>3 DEF len
    <3> QED
      BY <3>3, <3>4, <3>5
  <2> QED
    BY <2>1, <2>5, <2>6, <1>inForm
<1>22. CASE UNCHANGED csVars
  <2> USE <1>22 DEF csVars
  <2>1. GetAll(BankCard)' = GetAll(BankCard) /\ (alive' <=> alive)
    BY <1>db
  <2>2. UNCHANGED <<cards, screen, held, stale>> /\ UNCHANGED formVars /\ form' = form
    BY DEF formVars
  <2>3. ListRest
    BY <2>1, <2>2, <1>inv DEF ListRest, ListTypeOK, CardsAreStored, AddOverList, AtMain
  <2>4. HeldRest
    BY <2>1, <2>2, <1>inv, <1>handed DEF EditedIsThere
  <2>5. FormRest
    BY <2>2, <1>kept
  <2> QED
    BY <2>3, <2>4, <2>5, <1>rest
<1> QED
  BY <1>1, <1>2, <1>3, <1>4, <1>5, <1>6, <1>7, <1>8, <1>9, <1>10, <1>11, <1>12, <1>13, <1>14,
     <1>15, <1>16, <1>17, <1>18, <1>19, <1>20, <1>21, <1>22 DEF CSNext

-----------------------------------------------------------------------------
(* What the screens guarantee.                                             *)

\* The invariant holds for good.
THEOREM CSInvariant ==
  CSSpec => []CSInv
<1> QED
  BY CSInitially, CSPreserved, PTL DEF CSSpec

\* The screens use the store as PPDataManager specifies it.
THEOREM CardsUseStore ==
  CSSpec => Spec
<1>1. CSInit => Init
  BY DEF CSInit
<1> QED
  BY <1>1, StorePart, CSInvariant, PTL DEF CSSpec, Spec

\* Whatever is tapped over the list of the cards, an acknowledged change
\* survives the process but in the middle of a restore
\* (PPDataManager.m:89-116): the refinement of the vault, for the screens.
THEOREM CardsKeepTheVault ==
  CSSpec => ImplementsVault
<1> QED
  BY CardsUseStore, StoreImplementsVault

\* Every value stays of its type; no more questions are in flight than asked.
THEOREM CSTypeCorrect ==
  CSSpec => []CSTypeOK
<1>1. CSInv => CSTypeOK
  BY DEF CSInv, IInv, ListTypeOK, FormTypeOK, CSTypeOK
<1> QED
  BY <1>1, CSInvariant, PTL

\* Whenever the list of cards can be tapped it shows the stored cards.
THEOREM ListShowsCards ==
  CSSpec => []CardsAreStored
<1>1. CSInv => CardsAreStored
  BY DEF CSInv
<1> QED
  BY <1>1, CSInvariant, PTL

\* A sheet, an alert or a view shows a card as it is stored, until a restore.
THEOREM HeldShowsCard ==
  CSSpec => []HeldCardIsStored
<1>1. CSInv => HeldCardIsStored
  BY DEF CSInv
<1> QED
  BY <1>1, CSInvariant, PTL

\* An acknowledged edit changes the number and the type of its card, and
\* nothing else.
THEOREM EditsNumberAndType ==
  CSSpec => EditChangesNumberAndType
<1>1. CSInv /\ [CSNext]_csVars
      => [ConfirmEdit /\ ~stale
            => GetAll(BankCard)' =
                  [GetAll(BankCard) EXCEPT ![held.id].number = form.number,
                                           ![held.id].type = form.type]]_csVars
  <2> SUFFICES ASSUME CSInv, ConfirmEdit, ~stale
               PROVE  GetAll(BankCard)' =
                         [GetAll(BankCard) EXCEPT ![held.id].number = form.number,
                                                  ![held.id].type = form.type]
    OBVIOUS
  <2> DEFINE G == GetAll(BankCard)
             c == G[held.id]
             e == With(c, form.number, form.type)
  <2>1. /\ held.id \in Ids /\ held.val \in Values /\ form.number \in Numbers
        /\ c # NoRow /\ held.val.expire = c.expire /\ held.val.logo = c.logo
    BY DEF CSInv, HandedOut, EditedIsThere, ConfirmEdit
  <2>2. IInv /\ BankCard \in Tables /\ form.type \in Types
    BY DEF CSInv, BankCard, Tables, FormTypeOK, Form
  <2>3. G \in [Ids -> Values \cup {NoRow}]
    BY <2>2, ReadsTable DEF TablesRead
  <2>4. c \in Values
    BY <2>1, <2>3
  <2>5. Edited = e
    BY <2>1, <2>2, <2>4, CardFields, EditedIs
  <2>6. UpdateRow(BankCard, held.id, Edited) /\ Edited \in Values
    BY ConfirmsCards DEF ConfirmEdit, UpdateBackCard, BankCard
  <2>7. G' = [G EXCEPT ![held.id] = Edited]
    BY <2>1, <2>2, <2>6, UpdateIsRead
  <2>8. [G EXCEPT ![held.id] = e]
          = [G EXCEPT ![held.id].number = form.number, ![held.id].type = form.type]
    BY <2>1, <2>3 DEF With
  <2> QED
    BY <2>5, <2>7, <2>8
<1> QED
  BY <1>1, CSInvariant, PTL DEF CSSpec, EditChangesNumberAndType

\* A card is stored with the logo of its own number, and with the type the
\* service named unless the user chose one after, if every answer came, in
\* order, and the number was not typed again after the last question.
THEOREM AnswersMatch ==
  CSSpec => AnswersAreOfNumber
<1> DEFINE Matches(i) ==
             /\ GetAll(BankCard)[i] = NoRow
             /\ GetAll(BankCard)'[i] # NoRow
             /\ GetAll(BankCard)'[i].logo = form.number
             /\ form.chosen \/ CardType[form.number] \in {Nothing, GetAll(BankCard)'[i].type}
<1>1. CSInv /\ [CSNext]_csVars
      => [ConfirmAdd /\ inOrder /\ asked = <<>> /\ form.last = form.number
            => \E i \in Ids : Matches(i)]_csVars
  <2> SUFFICES ASSUME CSInv, ConfirmAdd, inOrder, asked = <<>>, form.last = form.number
               PROVE  \E i \in Ids : Matches(i)
    OBVIOUS
  <2> DEFINE G == GetAll(BankCard)
  <2>1. Answered /\ form.number # Nothing
    BY DEF CSInv, LastAsked, ConfirmAdd
  <2>2. /\ Added \in Values /\ Added.logo = form.number
        /\ form.chosen \/ CardType[form.number] \in {Nothing, Added.type}
    BY <2>1, ConfirmsCards DEF Answered, Added
  <2>3. IInv /\ BankCard \in Tables /\ InsertRow(BankCard, Added)
    BY DEF CSInv, BankCard, Tables, ConfirmAdd, InsertBackCard
  <2>4. PICK i \in Ids : G[i] = NoRow /\ G' = [G EXCEPT ![i] = Added]
    BY <2>2, <2>3, InsertIsRead
  <2>5. G \in [Ids -> Values \cup {NoRow}]
    BY <2>3, ReadsTable DEF TablesRead
  <2>6. G'[i] = Added /\ Added # NoRow
    BY <2>2, <2>4, <2>5, NoRowAssumption
  <2> QED
    BY <2>2, <2>4, <2>6
<1> QED
  BY <1>1, CSInvariant, PTL DEF CSSpec, AnswersAreOfNumber
=============================================================================

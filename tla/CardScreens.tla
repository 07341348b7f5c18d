----------------------------- MODULE CardScreens -----------------------------
(***************************************************************************)
(* The screens of the bank cards over the record store: Bankcard/          *)
(* BankCardViewController.m (the list), PresentBankCardViewController.m    *)
(* (the sheet of a tapped row, and its deletion alert), ShowBankCard-      *)
(* ViewController.m (a card read only) and InputCartViewController.m (the  *)
(* form, to edit or to add), which MainViewController.m presents as well.  *)
(*                                                                         *)
(* The list is read again when its tab appears, when a full-screen form    *)
(* uncovers it, after a deletion, after a restore and in the completion    *)
(* block of the form's dismissal.  The form to add is a sheet that does    *)
(* not cover the list, so nothing reads it again before that block.        *)
(*                                                                         *)
(* The form asks a web service which bank a number belongs to each time    *)
(* the editing of the number ends; the answers come back on the main       *)
(* thread in any order, or not at all, and set the card's logo, which is   *)
(* named here by the number it was found for, and its type, which the user *)
(* chooses as well: whichever comes last counts.                           *)
(***************************************************************************)
EXTENDS PPDataManager, Sequences

CONSTANTS
    Numbers,    \* card numbers
    Dates,      \* expiry dates
    Nothing,    \* an empty text, no logo, or a type that is not known
    CardType,   \* external: the type the service names for a number
    Backups,    \* the databases a restore may bring
    MaxAsked    \* bound: questions in flight together

\* PPBankCardModel.h: the two segments.
Types == {"deposit", "credit"}

Card == [number : Numbers, expire : Dates \cup {Nothing}, type : Types,
         logo : Numbers \cup {Nothing}]

ASSUME CardAssumption == Values = Card /\ Nothing \notin Numbers
ASSUME TypeAssumption == CardType \in [Numbers -> Types \cup {Nothing}]
ASSUME AskedAssumption == MaxAsked \in Nat
ASSUME BackupsAssumption == Backups \subseteq {img \in Image : WellFormed(img)}

VARIABLES
    cards,     \* BankCardViewController.dataArray, by id
    screen,    \* what is in front
    held,      \* the model object handed to the sheet, alert, form or view
    form,      \* the fields of the open form
    asked,     \* numbers asked and not answered yet, oldest first
    stale,     \* history: a restore completed since the object was handed out
    inOrder    \* history: every answer to this form came, in order

csVars == <<dmVars, cards, screen, held, form, asked, stale, inOrder>>
formVars == <<form, asked, inOrder>>

BankCard == "bankcard"
NoCards == [i \in Ids |-> NoRow]
NoHeld == [id |-> 0, val |-> NoRow]

\* last and chosen are history: the number that was asked last, and whether the
\* user chose the type since an answer set it.
Form == [number : Numbers \cup {Nothing}, expire : Dates \cup {Nothing}, type : Types,
         logo : Numbers \cup {Nothing}, last : Numbers \cup {Nothing}, chosen : BOOLEAN]

NoForm == [number |-> Nothing, expire |-> Nothing, type |-> "deposit",
           logo |-> Nothing, last |-> Nothing, chosen |-> FALSE]

Screens == {"list", "sheet", "alert", "edit", "view", "add", "closing", "main", "mainAdd"}

\* refreshData.
Refresh == cards' = GetAll(BankCard)'

LetGo == held' = NoHeld /\ stale' = FALSE

CloseForm == form' = NoForm /\ asked' = <<>> /\ inOrder' = TRUE

(***************************************************************************)
(* The list and the sheet.                                                 *)
(***************************************************************************)

\* viewWillAppear, when the tab of the cards is selected.
TabAppears ==
    /\ Idle /\ screen = "main"
    /\ screen' = "list"
    /\ UNCHANGED <<dmVars, held, stale, formVars>>
    /\ Refresh

TabLeaves ==
    /\ Idle /\ screen = "list"
    /\ screen' = "main"
    /\ UNCHANGED <<dmVars, cards, held, stale, formVars>>

SelectRow(i) ==
    /\ Idle /\ screen = "list"
    /\ cards[i] # NoRow
    /\ screen' = "sheet"
    /\ held' = [id |-> i, val |-> cards[i]]
    /\ stale' = FALSE
    /\ UNCHANGED <<dmVars, cards, formVars>>

\* The buttons of the sheet: delete asks first, view pushes the card.
PressedDelete ==
    /\ Idle /\ screen = "sheet"
    /\ screen' = "alert"
    /\ UNCHANGED <<dmVars, cards, held, stale, formVars>>

PressedView ==
    /\ Idle /\ screen = "sheet"
    /\ screen' = "view"
    /\ UNCHANGED <<dmVars, cards, held, stale, formVars>>

\* The form is filled from the object; its logo is not its logoImageUrl.
PressedEdit ==
    /\ Idle /\ screen = "sheet"
    /\ screen' = "edit"
    /\ form' = [NoForm EXCEPT !.number = held.val.number, !.expire = held.val.expire,
                              !.type = held.val.type]
    /\ UNCHANGED <<dmVars, cards, held, stale, asked, inOrder>>

\* A tap beside the sheet, or the alert's cancel: the list never disappeared.
LeaveSheet ==
    /\ Idle /\ screen \in {"sheet", "alert"}
    /\ screen' = "list"
    /\ LetGo
    /\ UNCHANGED <<dmVars, cards, formVars>>

\* Back from the pushed view: viewWillAppear.
LeaveView ==
    /\ Idle /\ screen = "view"
    /\ screen' = "list"
    /\ UNCHANGED <<dmVars, formVars>>
    /\ Refresh
    /\ LetGo

\* Mutant: a deletion without its callback.
ConfirmDelete_NoCallBack ==
    /\ screen = "alert"
    /\ DeleteBackCard(held.id)
    /\ screen' = "list"
    /\ LetGo
    /\ UNCHANGED <<cards, formVars>>

ConfirmDelete ==
    /\ screen = "alert"
    /\ DeleteBackCard(held.id)
    /\ screen' = "list"
    /\ Refresh
    /\ LetGo
    /\ UNCHANGED formVars

(***************************************************************************)
(* The form.                                                               *)
(***************************************************************************)

Editing == Idle /\ screen \in {"edit", "add", "mainAdd"}

AddCard ==
    /\ Idle /\ screen \in {"list", "main"}
    /\ screen' = IF screen = "list" THEN "add" ELSE "mainAdd"
    /\ UNCHANGED <<dmVars, cards, held, stale, formVars>>

TypeNumber(n) ==
    /\ Editing
    /\ form' = [form EXCEPT !.number = n]
    /\ UNCHANGED <<dmVars, cards, screen, held, stale, asked, inOrder>>

TypeDate(e) ==
    /\ Editing
    /\ form' = [form EXCEPT !.expire = e]
    /\ UNCHANGED <<dmVars, cards, screen, held, stale, asked, inOrder>>

\* A tap on the other segment.
SelectType(t) ==
    /\ Editing
    /\ form.type # t
    /\ form' = [form EXCEPT !.type = t, !.chosen = TRUE]
    /\ UNCHANGED <<dmVars, cards, screen, held, stale, asked, inOrder>>

\* The editing of the number ends, and its bank is asked for.
TextFieldDidEndEditing ==
    /\ Editing
    /\ form.number # Nothing
    /\ Len(asked) < MaxAsked
    /\ asked' = Append(asked, form.number)
    /\ form' = [form EXCEPT !.last = form.number]
    /\ UNCHANGED <<dmVars, cards, screen, held, stale, inOrder>>

Without(k) == [j \in 1 .. Len(asked) - 1 |-> IF j < k THEN asked[j] ELSE asked[j + 1]]

\* The segment an answer about n leaves selected: only DC and CC select one.
Selected(n) == IF CardType[n] = Nothing THEN form.type ELSE CardType[n]

\* Mutant: a logo that has been set is not set again.
CardInfo_FirstOnly(k, bank) ==
    /\ Editing
    /\ k \in DOMAIN asked
    /\ form' = [form EXCEPT !.logo = IF bank /\ @ = Nothing THEN asked[k] ELSE @,
                            !.type = Selected(asked[k]),
                            !.chosen = @ /\ CardType[asked[k]] = Nothing]
    /\ asked' = Without(k)
    /\ inOrder' = (inOrder /\ k = 1 /\ bank)
    /\ UNCHANGED <<dmVars, cards, screen, held, stale>>

\* The service answers about the k-th number, and names its bank or none ...
CardInfo(k, bank) ==
    /\ Editing
    /\ k \in DOMAIN asked
    /\ form' = [form EXCEPT !.logo = IF bank THEN asked[k] ELSE @,
                            !.type = Selected(asked[k]),
                            !.chosen = @ /\ CardType[asked[k]] = Nothing]
    /\ asked' = Without(k)
    /\ inOrder' = (inOrder /\ k = 1 /\ bank)
    /\ UNCHANGED <<dmVars, cards, screen, held, stale>>

\* ... or fails, which ends the request without its completion block.
CardInfoFails(k) ==
    /\ Editing
    /\ k \in DOMAIN asked
    /\ asked' = Without(k)
    /\ inOrder' = FALSE
    /\ UNCHANGED <<dmVars, cards, screen, held, stale, form>>

\* What is added: every field of the form.
Added == [number |-> form.number, expire |-> form.expire, type |-> form.type,
          logo |-> form.logo]

\* Confirm, adding: the sheet over the list closes with its list as it was;
\* the full-screen form of the main tab selects the tab of the cards.
ConfirmAdd ==
    /\ screen \in {"add", "mainAdd"}
    /\ form.number # Nothing
    /\ InsertBackCard(Added)
    /\ screen' = IF screen = "add" THEN "closing" ELSE "main"
    /\ CloseForm
    /\ UNCHANGED <<cards, held, stale>>

\* The completion block of the sheet's dismissal.
FinishCallBack ==
    /\ Idle /\ screen = "closing"
    /\ screen' = "list"
    /\ UNCHANGED <<dmVars, held, stale, formVars>>
    /\ Refresh

\* Mutant: every field of the form is assigned, the logo with them.
Edited_Whole == Added

\* What an edit leaves in the object: the date and the logo are not assigned.
Edited == [held.val EXCEPT !.number = form.number, !.type = form.type]

\* Confirm, editing: the form uncovers the list, which is read again.
ConfirmEdit ==
    /\ screen = "edit"
    /\ UpdateBackCard(held.id, Edited)
    /\ screen' = "list"
    /\ Refresh
    /\ LetGo
    /\ CloseForm

\* The update fails: the form stays, and the object it shares with the list
\* has changed.
ConfirmEditFails ==
    /\ Idle /\ screen = "edit"
    /\ held' = [held EXCEPT !.val = Edited]
    /\ cards' = IF stale THEN cards ELSE [cards EXCEPT ![held.id] = Edited]
    /\ UNCHANGED <<dmVars, screen, stale, formVars>>

\* Mutant: an edit form that does not cover the list.
CancelForm_NoRefresh ==
    /\ Editing
    /\ screen' = IF screen = "mainAdd" THEN "main" ELSE "list"
    /\ LetGo
    /\ CloseForm
    /\ UNCHANGED <<dmVars, cards>>

\* Cancel: only the edit form had covered the list.
CancelForm ==
    /\ Editing
    /\ UNCHANGED dmVars
    /\ screen' = IF screen = "mainAdd" THEN "main" ELSE "list"
    /\ IF screen = "edit" THEN Refresh ELSE cards' = cards
    /\ LetGo
    /\ CloseForm

(***************************************************************************)
(* The rest of the program.                                                *)
(***************************************************************************)

\* A launch shows the main tab; the tab of the cards loads when it is selected.
CardLaunch ==
    /\ Launch
    /\ UNCHANGED <<cards, screen, held, stale, formVars>>

\* The steps of a restore up to the last.
RestoreStep ==
    /\ RetrieveRemove \/ RetrieveWriteFails \/ \E data \in Backups : RetrieveWrite(data)
    /\ UNCHANGED <<cards, screen, held, stale, formVars>>

\* reOpenDB, and the notification the list refreshes on.
RestoreCompletes ==
    /\ ReOpenDB
    /\ Refresh
    /\ stale' = (held.id # 0)
    /\ UNCHANGED <<screen, held, formVars>>

CardKill ==
    /\ Kill
    /\ cards' = NoCards
    /\ screen' = "main"
    /\ LetGo
    /\ CloseForm

-----------------------------------------------------------------------------
CSInit ==
    /\ Init
    /\ cards = NoCards /\ screen = "main"
    /\ held = NoHeld /\ stale = FALSE
    /\ form = NoForm /\ asked = <<>> /\ inOrder = TRUE

CSNext ==
    \/ CardLaunch \/ RestoreStep \/ RestoreCompletes \/ CardKill
    \/ TabAppears \/ TabLeaves \/ \E i \in Ids : SelectRow(i)
    \/ PressedDelete \/ PressedView \/ PressedEdit
    \/ LeaveSheet \/ LeaveView \/ ConfirmDelete
    \/ AddCard \/ \E n \in Numbers : TypeNumber(n) \/ \E e \in Dates : TypeDate(e)
    \/ \E t \in Types : SelectType(t)
    \/ TextFieldDidEndEditing
    \/ \E k \in 1 .. MaxAsked : CardInfoFails(k) \/ \E bank \in BOOLEAN : CardInfo(k, bank)
    \/ ConfirmAdd \/ FinishCallBack \/ ConfirmEdit \/ ConfirmEditFails \/ CancelForm

CSSpec == CSInit /\ [][CSNext]_csVars

-----------------------------------------------------------------------------
(***************************************************************************)
(* Properties.                                                             *)
(***************************************************************************)

CSTypeOK ==
    /\ TypeOK
    /\ cards \in [Ids -> Values \cup {NoRow}]
    /\ screen \in Screens
    /\ held \in [id : Ids \cup {0}, val : Values \cup {NoRow}]
    /\ form \in Form
    /\ asked \in Seq(Numbers) /\ Len(asked) <= MaxAsked
    /\ stale \in BOOLEAN /\ inOrder \in BOOLEAN

\* Whenever the list of cards can be tapped it shows the stored cards, a
\* cancelled form whose saves failed included
\* (BankCardViewController.m:30-34, 49-52, 97-99 and 114-131).
CardsAreStored ==
    screen \in {"list", "sheet", "alert"} => cards = GetAll(BankCard)

\* A sheet, an alert or a view shows a card that is stored under its id,
\* unless a restore has completed since its row was tapped
\* (BankCardViewController.m:90-111).
HeldCardIsStored ==
    screen \in {"sheet", "alert", "view"} /\ ~stale
        => held.val # NoRow /\ held.val = GetAll(BankCard)[held.id]

\* An edit writes the whole object it was given back, and yet changes nothing
\* but what it assigns: the date and the logo stay those that are stored, and
\* so the date that was typed is lost (InputCartViewController.m:134-150).
EditChangesNumberAndType ==
    [][ConfirmEdit /\ ~stale
          => GetAll(BankCard)' =
                [GetAll(BankCard) EXCEPT ![held.id].number = form.number,
                                         ![held.id].type = form.type]]_csVars

\* A card is stored with the logo of its own number, and with the type the
\* service named for it unless the user chose one after, if every answer came,
\* in the order of the questions, and the number was not typed again after the
\* last one (InputCartViewController.m:186-227 and 305-329).
AnswersAreOfNumber ==
    [][ConfirmAdd /\ inOrder /\ asked = <<>> /\ form.last = form.number
          => \E i \in Ids :
                /\ GetAll(BankCard)[i] = NoRow
                /\ GetAll(BankCard)'[i] # NoRow
                /\ GetAll(BankCard)'[i].logo = form.number
                /\ form.chosen \/ CardType[form.number] \in {Nothing, GetAll(BankCard)'[i].type}
      ]_csVars
=============================================================================

----------------------------- MODULE SiteScreens -----------------------------
(***************************************************************************)
(* The screens that show and change the site logins, over the record store *)
(* and the cloud: MainViewController (the list), PresentWebsiteView-       *)
(* Controller (the sheet of a tapped row, and its deletion and password    *)
(* alerts), ShowWebSiteViewController (a site read only) and               *)
(* InputWebsiteViewController (the form, to edit or to add).               *)
(*                                                                         *)
(* The list keeps model objects read from the store; the sheet, the alerts,*)
(* the view and the form hold the very object of the tapped row.  A        *)
(* refresh throws the list's objects away and reads new ones, so an object *)
(* held by a form may be one the list no longer has.  A restore that       *)
(* completes while a form is open changes the records under it: the form   *)
(* then saves by an id that may belong to another record, or to none.      *)
(***************************************************************************)
EXTENDS CloudBackup

VARIABLES
    list,      \* MainViewController.dataArray, by id
    screen,    \* what is in front: the list, a sheet, an alert, a view or a form
    held,      \* the model object the sheet, alert, view or form was given
    stale,     \* history: a restore completed since the object was handed out
    unsaved    \* history: ids the list shows with values that were not saved

uiVars == <<list, screen, held, stale, unsaved>>
ssVars == <<cbVars, uiVars>>

Site == "website"
Row  == [Ids -> Values \cup {NoRow}]

\* listed: the object is one of the list's.
Model == [id : Ids \cup {0}, val : Values \cup {NoRow}, listed : BOOLEAN]
NoModel == [id |-> 0, val |-> NoRow, listed |-> FALSE]

Screens == {"list", "sheet", "edit", "input", "alert", "view", "password"}

Holding == screen \notin {"list", "input"}

\* refreshData: the list is read again, and shares no object any more.
Refresh ==
    /\ list' = GetAll(Site)'
    /\ unsaved' = {}

\* The front screen goes away and leaves the list.
Dismiss ==
    /\ screen' = "list"
    /\ held' = NoModel
    /\ stale' = FALSE

(***************************************************************************)
(* The list and the sheet.                                                 *)
(***************************************************************************)

\* Tapping a row hands its object to the sheet.
SelectRow(i) ==
    /\ Idle
    /\ screen = "list"
    /\ list[i] # NoRow
    /\ screen' = "sheet"
    /\ held' = [id |-> i, val |-> list[i], listed |-> TRUE]
    /\ stale' = FALSE
    /\ UNCHANGED <<cbVars, list, unsaved>>

PressedEdit ==
    /\ Idle
    /\ screen = "sheet"
    /\ screen' = "edit"
    /\ UNCHANGED <<cbVars, list, held, stale, unsaved>>

PressedDelete ==
    /\ Idle
    /\ screen = "sheet"
    /\ screen' = "alert"
    /\ UNCHANGED <<cbVars, list, held, stale, unsaved>>

\* The site is pushed read only.
PressedView ==
    /\ Idle
    /\ screen = "sheet"
    /\ screen' = "view"
    /\ UNCHANGED <<cbVars, list, held, stale, unsaved>>

\* An alert shows the password; its other button copies it.
PressedShowPwd ==
    /\ Idle
    /\ screen = "sheet"
    /\ screen' = "password"
    /\ UNCHANGED <<cbVars, list, held, stale, unsaved>>

\* Mutant: the object is not let go of.
Cancel_KeepsModel ==
    /\ Idle
    /\ screen # "list"
    /\ screen' = "list"
    /\ UNCHANGED <<cbVars, list, held, stale, unsaved>>

\* A tap beside the sheet or on its buttons to launch, copy and share, an
\* alert's or the form's cancel button, the view's way back.
Cancel ==
    /\ Idle
    /\ screen # "list"
    /\ Dismiss
    /\ UNCHANGED <<cbVars, list, unsaved>>

\* Mutant: the sheet stays after its record is gone.
ConfirmDelete_StaysOpen ==
    /\ screen = "alert"
    /\ DeleteWebsite(held.id)
    /\ Refresh
    /\ screen' = "sheet"
    /\ UNCHANGED <<cloudVars, held, stale>>

\* The alert's confirm button: the record of the held id is deleted.
ConfirmDelete ==
    /\ screen = "alert"
    /\ DeleteWebsite(held.id)
    /\ Refresh
    /\ Dismiss
    /\ UNCHANGED cloudVars

\* The deletion fails: nothing is shown but the list as it was.
ConfirmDeleteFails ==
    /\ Idle
    /\ screen = "alert"
    /\ Dismiss
    /\ UNCHANGED <<cbVars, list, unsaved>>

(***************************************************************************)
(* The form.  The account and the password that were typed are one value;  *)
(* an empty one is rejected with a message, which is no step.              *)
(***************************************************************************)

AddSite ==
    /\ Idle
    /\ screen = "list"
    /\ screen' = "input"
    /\ UNCHANGED <<cbVars, list, held, stale, unsaved>>

\* Finish, adding.  When the insertion fails the form stays, with a message.
FinishInput(v) ==
    /\ screen = "input"
    /\ InsertWebsite(v)
    /\ Refresh
    /\ Dismiss
    /\ UNCHANGED cloudVars

\* Finish, editing: the object is changed, then the record of its id.
FinishEdit(v) ==
    /\ screen = "edit"
    /\ UpdateWebsize(held.id, v)
    /\ Refresh
    /\ Dismiss
    /\ UNCHANGED cloudVars

\* The update fails: the form stays, without a message, and the object, which
\* the list may share, keeps what was typed.
FinishEditFails(v) ==
    /\ Idle
    /\ screen = "edit"
    /\ held' = [held EXCEPT !.val = v]
    /\ list' = IF held.listed THEN [list EXCEPT ![held.id] = v] ELSE list
    /\ unsaved' = IF held.listed THEN unsaved \cup {held.id} ELSE unsaved
    /\ UNCHANGED <<cbVars, screen, stale>>

(***************************************************************************)
(* What the rest of the program does to these screens.                     *)
(***************************************************************************)

\* The list is loaded when the program starts.
SiteLaunch ==
    /\ Launch
    /\ Refresh
    /\ UNCHANGED <<cloudVars, screen, held, stale>>

\* Mutant: no notification after a restore.
RestoreCompletes_NoRefresh(d) ==
    /\ DownReOpens(d)
    /\ held' = [held EXCEPT !.listed = FALSE]
    /\ stale' = Holding
    /\ UNCHANGED <<list, unsaved, screen>>

\* reOpenDB is followed by the notification the list refreshes on.
RestoreCompletes(d) ==
    /\ DownReOpens(d)
    /\ Refresh
    /\ held' = [held EXCEPT !.listed = FALSE]
    /\ stale' = Holding
    /\ UNCHANGED screen

SiteKill ==
    /\ CloudKill
    /\ list' = [i \in Ids |-> NoRow]
    /\ unsaved' = {}
    /\ Dismiss

\* Restores up to their last step.  Backups change nothing these screens read,
\* and are left to CloudBackup: what they leave is among the account's images.
\* So is a retrieval that is lost: it never does anything.
CloudStep ==
    /\ \/ OtherDeviceSaves
       \/ \E d \in Downloads :
             \/ DownFromiCloud(d) \/ OpenAnswers(d) \/ CreateAnswers(d)
             \/ DownGivesUp(d) \/ DownRemoves(d) \/ DownWrites(d)
             \/ DownWriteFails(d)
    /\ UNCHANGED uiVars

-----------------------------------------------------------------------------
SSInit ==
    /\ CBInit
    /\ list = [i \in Ids |-> NoRow]
    /\ screen = "list"
    /\ held = NoModel
    /\ stale = FALSE
    /\ unsaved = {}

SSNext ==
    \/ SiteLaunch \/ SiteKill \/ CloudStep
    \/ \E d \in Downloads : RestoreCompletes(d)
    \/ \E i \in Ids : SelectRow(i)
    \/ PressedEdit \/ PressedDelete \/ PressedView \/ PressedShowPwd \/ Cancel \/ AddSite
    \/ ConfirmDelete \/ ConfirmDeleteFails
    \/ \E v \in Values : FinishInput(v) \/ FinishEdit(v) \/ FinishEditFails(v)

SSSpec == SSInit /\ [][SSNext]_ssVars

-----------------------------------------------------------------------------
(***************************************************************************)
(* Properties.                                                             *)
(***************************************************************************)

SSTypeOK ==
    /\ CBTypeOK
    /\ list \in Row
    /\ screen \in Screens
    /\ held \in Model
    /\ Holding <=> held # NoModel
    /\ stale \in BOOLEAN
    /\ unsaved \subseteq Ids

\* The list shows the records the store would answer, through every save,
\* deletion, failure and restore; it differs only where an edit failed after
\* it had changed the list's object (InputWebsiteViewController.m:113-125).
ListIsStored ==
    \A i \in Ids \ unsaved : list[i] = GetAll(Site)[i]

\* A sheet, alert, view or form shows what the store holds under its id, unless a
\* restore has completed since the row was tapped or its own save has failed
\* (MainViewController.m:193-219, SettingViewController.m:441-445).
HeldIsStored ==
    Holding /\ ~stale /\ held.id \notin unsaved
        => held.val # NoRow /\ held.val = GetAll(Site)[held.id]

\* An edit that closes its form is stored under the id of the record that was
\* edited, and changes no other, unless a restore completed while the form was
\* open: then it may be lost, or written over another record, and still be
\* acknowledged (PPDataManager.m:192-198, InputWebsiteViewController.m:120-125).
AcknowledgedEditIsStored ==
    [][\A v \in Values :
          FinishEdit(v) /\ ~stale
          => GetAll(Site)' = [GetAll(Site) EXCEPT ![held.id] = v]]_ssVars
=============================================================================

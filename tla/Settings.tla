------------------------------ MODULE Settings ------------------------------
(***************************************************************************)
(* The settings of the program: AppConfig.m, one archived object that      *)
(* every writer reads whole, changes in one field and writes back whole,   *)
(* and the screens that write it: SettingViewController.m and its four     *)
(* pickers (SetAutoLock-, ClearPasteboard-, SelectTheme- and               *)
(* SelectIconViewController.m).                                            *)
(*                                                                         *)
(* A picker reads the value it offers when it is loaded and writes when    *)
(* the user confirms; a backup or a restore (module CloudBackup) stamps    *)
(* its time whenever its answer comes, with a picker open or not.  The     *)
(* table of settings shows what its last reload read.  Writing the archive *)
(* may fail, which no writer looks at.                                     *)
(***************************************************************************)
EXTENDS Naturals, Sequences, FiniteSets

CONSTANTS
    Options,       \* what a picker offers
    Default,       \* the option each setting has at first
    HasBiometry,   \* canUseFaceID or canUseTouchID
    HasFeedback,   \* isSupportTapFeedBack
    MaxStamp       \* bound: how many time stamps of a kind there are

Pickers  == {"mainTheme", "autoLockDuration", "clearPasteboardDuration", "iconFileName"}
Switches == {"isSharkFeedBack", "userSystemLock"}
Stamps   == {"lastUploadTimeStamp", "lastDownloadTimeStamp"}
Fields   == Pickers \cup Switches \cup Stamps

ASSUME DefaultAssumption == Default \in [Pickers -> Options]
ASSUME DeviceAssumption  == HasBiometry \in BOOLEAN /\ HasFeedback \in BOOLEAN
ASSUME StampAssumption   == MaxStamp \in Nat

VARIABLES
    archive,    \* the file at saveFilePath (NoArchive when there is none)
    shown,      \* what the rows of the table show
    screen,     \* "out" (not loaded yet), "table" or the open picker
    picker,     \* the picker's state
    theme,      \* the theme LEETheme has started, kept across launches
    icon,       \* the application's icon, kept by the system
    iconJob,    \* the icon being set, a set of at most one
    failed      \* history: fields of which a save or its effect has failed

stVars == <<archive, shown, screen, picker, theme, icon, iconJob, failed>>

NoArchive == <<>>

\* [[AppConfig alloc] init]
Defaults == [f \in Fields |-> CASE f \in Pickers  -> Default[f]
                                [] f \in Switches -> TRUE
                                [] f \in Stamps   -> 0]

\* [AppConfig config]
Config == IF archive = NoArchive THEN Defaults ELSE archive

\* The picker's rows: those ticked, the row of lastSelectedCell and the value
\* it will save.
PickerState == [ticks : SUBSET Options, last : Options, value : Options]

PickerOf(v) == [ticks |-> {v}, last |-> v, value |-> v]
NoPicker == [PickerOf(Default["mainTheme"]) EXCEPT !.ticks = {}]

(***************************************************************************)
(* The rows of the table: what they are labelled, and what a tap on them   *)
(* does.  Section 1 has a switch when the device has biometry; its taps    *)
(* are told apart by whether the switch is on.                             *)
(***************************************************************************)
Labels(section) ==
    CASE section = 0 -> (IF HasFeedback THEN <<"isSharkFeedBack">> ELSE <<>>)
                        \o <<"backUp", "down", "email">>
      [] section = 1 -> (IF HasBiometry THEN <<"userSystemLock">> ELSE <<>>)
                        \o <<"autoLockDuration", "clearPasteboardDuration">>
      [] section = 2 -> <<"mainTheme", "iconFileName">>

DidSelectRow(section, row) ==
    CASE section = 0 -> IF row = 1 /\ HasFeedback THEN "nothing" ELSE Labels(0)[row]
      [] section = 1 -> LET startIndex == IF Config["userSystemLock"] THEN 1 ELSE 0
                        IN  IF row = startIndex + 1 THEN "autoLockDuration"
                            ELSE IF row = startIndex + 2 THEN "clearPasteboardDuration"
                            ELSE "nothing"
      [] section = 2 -> Labels(2)[row]

\* [AppConfig saveConfig:], which answers nothing: it may have failed.
SaveConfig(c, f) ==
    \/ archive' = c /\ failed' = failed \ {f}
    \/ archive' = archive /\ failed' = failed \cup {f}

ReloadData == shown' = Config'

(***************************************************************************)
(* The table.                                                              *)
(***************************************************************************)

\* viewDidLoad, when the tab is selected for the first time.
OpenSettings ==
    /\ screen = "out"
    /\ screen' = "table"
    /\ shown' = Config
    /\ UNCHANGED <<archive, picker, theme, icon, iconJob, failed>>

\* The switch of a row.
SwitchCallBack(f) ==
    /\ screen = "table"
    /\ \E section \in {0, 1} : \E row \in DOMAIN Labels(section) : Labels(section)[row] = f
    /\ SaveConfig([Config EXCEPT ![f] = ~shown[f]], f)
    /\ ReloadData
    /\ UNCHANGED <<screen, picker, theme, icon, iconJob>>

\* A tap on a row whose action is a picker presents it; viewDidLoad reads the
\* setting and ticks its row.
TapRow(section, row) ==
    /\ screen = "table"
    /\ row \in DOMAIN Labels(section)
    /\ DidSelectRow(section, row) \in Pickers
    /\ LET f == DidSelectRow(section, row)
       IN  /\ screen' = f
           /\ picker' = PickerOf(Config[f])
    /\ UNCHANGED <<archive, shown, theme, icon, iconJob, failed>>

\* Mutant: no reload after the stamp.
StampTime_NoReload(f) ==
    /\ screen # "out"
    /\ Config[f] < MaxStamp
    /\ SaveConfig([Config EXCEPT ![f] = @ + 1], f)
    /\ UNCHANGED <<shown, screen, picker, theme, icon, iconJob>>

\* The completion block of a backup or a restore that was asked for here.
StampTime(f) ==
    /\ screen # "out"
    /\ Config[f] < MaxStamp
    /\ SaveConfig([Config EXCEPT ![f] = @ + 1], f)
    /\ ReloadData
    /\ UNCHANGED <<screen, picker, theme, icon, iconJob>>

(***************************************************************************)
(* A picker.                                                               *)
(***************************************************************************)

\* Mutant: the row that was ticked first is the one that loses its tick.
PickRow_KeepsLast(v) ==
    /\ screen \in Pickers /\ iconJob = {}
    /\ picker' = [picker EXCEPT !.ticks = (@ \ {picker.last}) \cup {v}, !.value = v]
    /\ UNCHANGED <<archive, shown, screen, theme, icon, iconJob, failed>>

\* The row of lastSelectedCell loses its tick, the tapped one gets it.
PickRow(v) ==
    /\ screen \in Pickers /\ iconJob = {}
    /\ picker' = [picker EXCEPT !.ticks = (@ \ {picker.last}) \cup {v},
                                !.last = v, !.value = v]
    /\ UNCHANGED <<archive, shown, screen, theme, icon, iconJob, failed>>

\* The picker goes away.
Close == screen' = "table" /\ picker' = NoPicker

\* Mutant: the field is set in a configuration made anew.
Confirm_OfDefaults(f) ==
    /\ screen = f
    /\ SaveConfig([Defaults EXCEPT ![f] = picker.value], f)
    /\ theme' = IF f = "mainTheme" THEN picker.value ELSE theme
    /\ Close
    /\ ReloadData
    /\ UNCHANGED <<icon, iconJob>>

\* Confirm: the field is set in the configuration of the moment; the theme
\* has been started before it is saved.
Confirm(f) ==
    /\ screen = f
    /\ SaveConfig([Config EXCEPT ![f] = picker.value], f)
    /\ theme' = IF f = "mainTheme" THEN picker.value ELSE theme
    /\ Close
    /\ ReloadData
    /\ UNCHANGED <<icon, iconJob>>

\* The icon is saved first, then the system is asked to set it; the picker
\* stays until the system, whose alert takes the taps meanwhile, answers.
CompleteIcon ==
    /\ screen = "iconFileName" /\ iconJob = {}
    /\ SaveConfig([Config EXCEPT !["iconFileName"] = picker.value], "iconFileName")
    /\ iconJob' = {picker.value}
    /\ UNCHANGED <<shown, screen, picker, theme, icon>>

\* The system's answer: the picker goes away, with either message.
IconAnswer ==
    /\ \E v \in iconJob :
          \/ icon' = v /\ failed' = failed
          \/ icon' = icon /\ failed' = failed \cup {"iconFileName"}
    /\ iconJob' = {}
    /\ Close
    /\ shown' = Config
    /\ UNCHANGED <<archive, theme>>

\* Mutant: the theme is previewed when its row is tapped.
Cancel_KeepsPreview ==
    /\ screen \in Pickers /\ iconJob = {}
    /\ theme' = IF screen = "mainTheme" THEN picker.value ELSE theme
    /\ Close
    /\ UNCHANGED <<archive, shown, icon, iconJob, failed>>

\* Mutant: the picker may go away while the icon is being set.
Cancel_AnyTime ==
    /\ screen \in Pickers
    /\ Close
    /\ UNCHANGED <<archive, shown, theme, icon, iconJob, failed>>

Cancel ==
    /\ screen \in Pickers /\ iconJob = {}
    /\ Close
    /\ UNCHANGED <<archive, shown, theme, icon, iconJob, failed>>

\* The process ends; it starts again with nothing loaded.  An icon that was
\* being set is set or not.
Kill ==
    /\ screen' = "out"
    /\ icon' \in {icon} \cup iconJob
    /\ failed' = IF iconJob = {} THEN failed ELSE failed \cup {"iconFileName"}
    /\ iconJob' = {}
    /\ picker' = NoPicker
    /\ UNCHANGED <<archive, shown, theme>>

-----------------------------------------------------------------------------
STInit ==
    /\ archive = NoArchive /\ shown = Defaults /\ screen = "out"
    /\ picker = NoPicker
    /\ theme = Default["mainTheme"] /\ icon = Default["iconFileName"]
    /\ iconJob = {} /\ failed = {}

STNext ==
    \/ OpenSettings \/ Kill
    \/ \E f \in Switches : SwitchCallBack(f)
    \/ \E section \in 0 .. 2, row \in 1 .. 4 : TapRow(section, row)
    \/ \E f \in Stamps : StampTime(f)
    \/ \E v \in Options : PickRow(v)
    \/ \E f \in Pickers \ {"iconFileName"} : Confirm(f)
    \/ CompleteIcon \/ IconAnswer \/ Cancel

STSpec == STInit /\ [][STNext]_stVars

-----------------------------------------------------------------------------
(***************************************************************************)
(* Properties.                                                             *)
(***************************************************************************)

STTypeOK ==
    /\ \A f \in Pickers : Config[f] \in Options /\ shown[f] \in Options
    /\ \A f \in Switches : Config[f] \in BOOLEAN /\ shown[f] \in BOOLEAN
    /\ \A f \in Stamps : Config[f] \in 0 .. MaxStamp /\ shown[f] \in 0 .. MaxStamp
    /\ screen \in {"out", "table"} \cup Pickers
    /\ picker \in PickerState
    /\ theme \in Options /\ icon \in Options
    /\ iconJob \subseteq Options /\ Cardinality(iconJob) <= 1
    /\ iconJob # {} => screen = "iconFileName"
    /\ failed \subseteq Fields

\* No writer undoes another one: a step changes one setting at most, even when
\* a backup or a restore stamps its time under an open picker
\* (SetAutoLockViewController.m:145-147, SettingViewController.m:406-408).
OneSettingPerStep ==
    [][Cardinality({f \in Fields : Config'[f] # Config[f]}) <= 1]_stVars

\* The rows show the configuration that is stored, after every save, failed
\* save, late stamp and restart, except while an icon is being set
\* (the saveCallBack blocks and reloadData calls of SettingViewController.m).
TableShowsConfig ==
    screen # "out" /\ iconJob = {} => shown = Config

\* A picker ticks one row, and it is the one that a confirmation will save
\* (SetAutoLockViewController.m:119-137 and its three siblings).
TickIsSaved ==
    screen \in Pickers => picker.ticks = {picker.value}

\* The theme and the icon in use are those of the configuration, unless saving
\* or setting one has failed, or the icon is being set
\* (SelectThemeViewController.m:131-154, SelectIconViewController.m:147-161).
AppearanceIsConfig ==
    /\ "mainTheme" \notin failed => theme = Config["mainTheme"]
    /\ "iconFileName" \notin failed /\ iconJob = {} => icon = Config["iconFileName"]

\* What the label of a row and the comment above the action it should run say:
\* a row does what it is labelled, and a switch row nothing
\* (SettingViewController.m:82-94, 194-243 and 332-345).
RowsDoWhatTheySay ==
    \A section \in 0 .. 2 : \A row \in DOMAIN Labels(section) :
        DidSelectRow(section, row) =
            IF Labels(section)[row] \in Switches THEN "nothing" ELSE Labels(section)[row]
=============================================================================

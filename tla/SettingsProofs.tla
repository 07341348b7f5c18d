--------------------------- MODULE SettingsProofs ---------------------------
(***************************************************************************)
(* What Settings guarantees for every set of options, every device and     *)
(* every number of time stamps.                                            *)
(*                                                                         *)
(* Two facts strengthen the invariants that are checked: the row a picker  *)
(* will untick is the one it will save, and the icon being set is the one  *)
(* of the configuration unless that was not saved.                         *)
(***************************************************************************)
EXTENDS Settings, FiniteSetTheorems, TLAPS

\* The configurations there can be.
Configs == {c \in [Fields -> Options \cup BOOLEAN \cup (0 .. MaxStamp)] :
              /\ \A f \in Pickers  : c[f] \in Options
              /\ \A f \in Switches : c[f] \in BOOLEAN
              /\ \A f \in Stamps   : c[f] \in 0 .. MaxStamp}

Stored == (archive = NoArchive \/ archive \in Configs) /\ shown \in Configs

LastIsValue == screen \in Pickers => picker.last = picker.value

JobIsConfig ==
    "iconFileName" \notin failed => iconJob \subseteq {Config["iconFileName"]}

IInv ==
    /\ STTypeOK
    /\ Stored
    /\ TableShowsConfig
    /\ TickIsSaved
    /\ LastIsValue
    /\ AppearanceIsConfig
    /\ JobIsConfig

-----------------------------------------------------------------------------
(* The archive.                                                            *)

\* The fields are of three kinds, and of one kind each.
LEMMA Kinds ==
  /\ Fields = {"mainTheme", "autoLockDuration", "clearPasteboardDuration",
               "iconFileName", "isSharkFeedBack", "userSystemLock",
               "lastUploadTimeStamp", "lastDownloadTimeStamp"}
  /\ \A f \in Pickers : f \notin Switches /\ f \notin Stamps
  /\ \A f \in Switches : f \notin Pickers /\ f \notin Stamps
  /\ \A f \in Stamps : f \notin Pickers /\ f \notin Switches
  /\ "mainTheme" \in Pickers /\ "iconFileName" \in Pickers
  /\ Pickers \subseteq Fields /\ Switches \subseteq Fields /\ Stamps \subseteq Fields
  BY DEF Fields, Pickers, Switches, Stamps

\* The default configuration is one.
LEMMA DefaultsAreConfigs ==
  Defaults \in Configs
<1> DEFINE first(f) == CASE f \in Pickers  -> Default[f]
                        [] f \in Switches -> TRUE
                        [] f \in Stamps   -> 0
<1>1. \A f \in Pickers : first(f) \in Options
  BY Kinds, DefaultAssumption
<1>2. \A f \in Switches : first(f) \in BOOLEAN
  <2>1. \A f \in Switches : first(f) = TRUE
    BY Kinds
  <2> QED
    BY <2>1
<1>3. \A f \in Stamps : first(f) \in 0 .. MaxStamp
  BY Kinds, StampAssumption
<1>4. Defaults = [f \in Fields |-> first(f)]
  BY DEF Defaults
<1> HIDE DEF first
<1>5. \A f \in Fields : first(f) \in Options \cup BOOLEAN \cup (0 .. MaxStamp)
  BY <1>1, <1>2, <1>3 DEF Fields
<1> QED
  BY <1>1, <1>2, <1>3, <1>4, <1>5, Kinds DEF Configs

\* No configuration is the missing archive.
LEMMA ConfigIsNotMissing ==
  ASSUME NEW c \in Configs
  PROVE  c # NoArchive
<1>1. DOMAIN c = Fields
  BY DEF Configs
<1>2. DOMAIN NoArchive = {}
  BY DEF NoArchive
<1> QED
  BY <1>1, <1>2, Kinds

\* What is read is a configuration.
LEMMA ConfigIsOne ==
  ASSUME Stored
  PROVE  Config \in Configs
  BY DefaultsAreConfigs DEF Stored, Config

\* A configuration with one field set is one.
LEMMA SetField ==
  ASSUME NEW c \in Configs, NEW f \in Fields, NEW v,
         f \in Pickers  => v \in Options,
         f \in Switches => v \in BOOLEAN,
         f \in Stamps   => v \in 0 .. MaxStamp
  PROVE  /\ [c EXCEPT ![f] = v] \in Configs
         /\ [c EXCEPT ![f] = v][f] = v
         /\ \A g \in Fields \ {f} : [c EXCEPT ![f] = v][g] = c[g]
<1> DEFINE d == [c EXCEPT ![f] = v]
<1>1. v \in Options \cup BOOLEAN \cup (0 .. MaxStamp)
  BY DEF Fields
<1>2. /\ DOMAIN c = Fields
      /\ c \in [Fields -> Options \cup BOOLEAN \cup (0 .. MaxStamp)]
      /\ \A g \in Pickers  : c[g] \in Options
      /\ \A g \in Switches : c[g] \in BOOLEAN
      /\ \A g \in Stamps   : c[g] \in 0 .. MaxStamp
  BY DEF Configs
<1>3. /\ d \in [Fields -> Options \cup BOOLEAN \cup (0 .. MaxStamp)]
      /\ d[f] = v /\ \A g \in Fields \ {f} : d[g] = c[g]
  BY <1>1, <1>2
<1>4. /\ \A g \in Pickers  : d[g] \in Options
      /\ \A g \in Switches : d[g] \in BOOLEAN
      /\ \A g \in Stamps   : d[g] \in 0 .. MaxStamp
  BY <1>2, <1>3, Kinds
<1> QED
  BY <1>3, <1>4 DEF Configs

\* A save of one field leaves the configuration or sets that field in it.
LEMMA Saved ==
  ASSUME Stored, NEW f \in Fields, NEW v,
         f \in Pickers  => v \in Options,
         f \in Switches => v \in BOOLEAN,
         f \in Stamps   => v \in 0 .. MaxStamp,
         SaveConfig([Config EXCEPT ![f] = v], f)
  PROVE  /\ archive' = NoArchive \/ archive' \in Configs
         /\ Config' \in Configs
         /\ \A g \in Fields \ {f} : Config'[g] = Config[g]
         /\ f \notin failed' => Config'[f] = v
         /\ failed' \subseteq failed \cup {f}
         /\ \A g \in Fields \ {f} : g \in failed' <=> g \in failed
<1> DEFINE c == [Config EXCEPT ![f] = v]
<1>1. Config \in Configs
  BY ConfigIsOne
<1>2. /\ c \in Configs /\ c[f] = v
      /\ \A g \in Fields \ {f} : c[g] = Config[g]
  BY <1>1, SetField
<1> HIDE DEF c
<1>3. c # NoArchive
  BY <1>2, ConfigIsNotMissing
<1>4. CASE archive' = c /\ failed' = failed \ {f}
  <2>1. Config' = c
    BY <1>3, <1>4 DEF Config
  <2> QED
    BY <1>2, <1>4, <2>1
<1>5. CASE archive' = archive /\ failed' = failed \cup {f}
  <2>1. Config' = Config
    BY <1>5 DEF Config
  <2>2. archive = NoArchive \/ archive \in Configs
    BY DEF Stored
  <2> QED
    BY <1>1, <1>5, <2>1, <2>2
<1> QED
  BY <1>4, <1>5 DEF SaveConfig, c

\* What is not saved is not changed.
LEMMA Unsaved ==
  ASSUME archive' = archive
  PROVE  Config' = Config
  BY DEF Config

\* A picker that ticks a row has its state, and so has none.
LEMMA Picked ==
  /\ \A v \in Options :
        /\ PickerOf(v) \in PickerState
        /\ PickerOf(v).ticks = {v} /\ PickerOf(v).last = v /\ PickerOf(v).value = v
  /\ NoPicker \in PickerState
<1>1. Default["mainTheme"] \in Options
  BY Kinds, DefaultAssumption
<1> QED
  BY <1>1 DEF PickerOf, NoPicker, PickerState

\* The types of the stored settings.
LEMMA StoredTypes ==
  ASSUME Stored
  PROVE  /\ \A f \in Pickers : Config[f] \in Options /\ shown[f] \in Options
         /\ \A f \in Switches : Config[f] \in BOOLEAN /\ shown[f] \in BOOLEAN
         /\ \A f \in Stamps : Config[f] \in 0 .. MaxStamp /\ shown[f] \in 0 .. MaxStamp
<1>1. Config \in Configs /\ shown \in Configs
  BY ConfigIsOne DEF Stored
<1> QED
  BY <1>1 DEF Configs

-----------------------------------------------------------------------------
(* The invariant.                                                          *)

\* What IInv says of the variables besides the archive and the table.
OthersTypeOK ==
    /\ screen \in {"out", "table"} \cup Pickers
    /\ picker \in PickerState
    /\ theme \in Options /\ icon \in Options
    /\ iconJob \subseteq Options /\ Cardinality(iconJob) <= 1
    /\ iconJob # {} => screen = "iconFileName"
    /\ failed \subseteq Fields

\* The parts of the invariant, from those that have to be shown.
LEMMA Parts ==
  ASSUME Stored, OthersTypeOK, TableShowsConfig, TickIsSaved, LastIsValue,
         AppearanceIsConfig, JobIsConfig
  PROVE  IInv
  BY StoredTypes DEF IInv, OthersTypeOK, STTypeOK

LEMMA Initially ==
  STInit => IInv
<1> SUFFICES ASSUME STInit PROVE IInv
  OBVIOUS
<1> USE DEF STInit
<1>1. Config = Defaults /\ Defaults \in Configs
  BY DefaultsAreConfigs DEF Config
<1>2. /\ Default["mainTheme"] \in Options /\ Default["iconFileName"] \in Options
  BY Kinds, DefaultAssumption
<1>3. /\ Defaults["mainTheme"] = Default["mainTheme"]
      /\ Defaults["iconFileName"] = Default["iconFileName"]
  BY Kinds DEF Defaults
<1>4. Stored
  BY <1>1 DEF Stored
<1>5. OthersTypeOK
  BY <1>2, Picked, FS_EmptySet DEF OthersTypeOK
<1>6. TableShowsConfig /\ TickIsSaved /\ LastIsValue
  BY DEF TableShowsConfig, TickIsSaved, LastIsValue, Pickers
<1>7. AppearanceIsConfig
  BY <1>1, <1>3 DEF AppearanceIsConfig
<1>8. JobIsConfig
  BY DEF JobIsConfig
<1> QED
  BY <1>4, <1>5, <1>6, <1>7, <1>8, Parts

LEMMA Preserved ==
  IInv /\ [STNext]_stVars => IInv'
<1> SUFFICES ASSUME IInv, [STNext]_stVars PROVE IInv'
  OBVIOUS
<1>inv. /\ STTypeOK /\ Stored /\ TableShowsConfig /\ TickIsSaved
        /\ LastIsValue /\ AppearanceIsConfig /\ JobIsConfig
  BY DEF IInv
<1>types. OthersTypeOK
  BY <1>inv DEF OthersTypeOK, STTypeOK
<1>config. Config \in Configs
  BY <1>inv, ConfigIsOne
<1>tick. picker.value \in Options
  BY <1>types DEF OthersTypeOK, PickerState
<1>parts. ASSUME Stored', OthersTypeOK', TableShowsConfig', TickIsSaved', LastIsValue',
                 AppearanceIsConfig', JobIsConfig'
          PROVE  IInv'
  <2>1. STTypeOK'
    <3>1. Config' \in Configs
      <4>1. Defaults \in Configs
        BY DefaultsAreConfigs
      <4> QED
        BY <4>1, <1>parts DEF Stored, Config
    <3>2. shown' \in Configs
      BY <1>parts DEF Stored
    <3> QED
      BY <3>1, <3>2, <1>parts DEF STTypeOK, OthersTypeOK, Configs
  <2> QED
    BY <2>1, <1>parts DEF IInv
<1>1. ASSUME OpenSettings PROVE IInv'
  <2> USE <1>1 DEF OpenSettings
  <2>1. Config' = Config
    BY Unsaved
  <2>2. Stored' /\ TableShowsConfig'
    BY <2>1, <1>inv, <1>config DEF Stored, TableShowsConfig
  <2>3. OthersTypeOK'
    BY <1>types DEF OthersTypeOK
  <2>4. TickIsSaved' /\ LastIsValue'
    BY DEF TickIsSaved, LastIsValue, Pickers
  <2>5. AppearanceIsConfig' /\ JobIsConfig'
    BY <2>1, <1>inv DEF AppearanceIsConfig, JobIsConfig
  <2> QED
    BY <2>2, <2>3, <2>4, <2>5, <1>parts
<1>2. ASSUME Kill PROVE IInv'
  <2> USE <1>2 DEF Kill
  <2>1. Config' = Config
    BY Unsaved
  <2>2. Stored' /\ TableShowsConfig'
    BY <1>inv DEF Stored, TableShowsConfig
  <2>3. OthersTypeOK'
    BY <1>types, Picked, Kinds, FS_EmptySet DEF OthersTypeOK
  <2>4. TickIsSaved' /\ LastIsValue'
    BY DEF TickIsSaved, LastIsValue, Pickers
  <2>5. JobIsConfig'
    BY DEF JobIsConfig
  <2>6. AppearanceIsConfig'
    BY <2>1, <1>inv DEF AppearanceIsConfig
  <2> QED
    BY <2>2, <2>3, <2>4, <2>5, <2>6, <1>parts
<1>3. ASSUME NEW f \in Switches, SwitchCallBack(f) PROVE IInv'
  <2> USE <1>3 DEF SwitchCallBack, ReloadData
  <2> DEFINE v == ~shown[f]
  <2>1. f \in Fields /\ f \notin Pickers /\ f \notin Stamps
    BY Kinds
  <2>2. v \in BOOLEAN
    OBVIOUS
  <2>3. SaveConfig([Config EXCEPT ![f] = v], f)
    OBVIOUS
  <2> HIDE DEF v
  <2>4. /\ archive' = NoArchive \/ archive' \in Configs
        /\ Config' \in Configs
        /\ \A g \in Pickers : Config'[g] = Config[g]
        /\ failed' \subseteq failed \cup {f}
        /\ \A g \in Pickers : g \in failed' <=> g \in failed
    BY <2>1, <2>2, <2>3, <1>inv, Saved, Kinds
  <2>5. Stored' /\ TableShowsConfig'
    BY <2>4 DEF Stored, TableShowsConfig
  <2>6. OthersTypeOK'
    BY <2>1, <2>4, <1>types DEF OthersTypeOK
  <2>7. TickIsSaved' /\ LastIsValue'
    BY DEF TickIsSaved, LastIsValue, Pickers
  <2>8. AppearanceIsConfig' /\ JobIsConfig'
    BY <2>4, <1>inv, Kinds DEF AppearanceIsConfig, JobIsConfig
  <2> QED
    BY <2>5, <2>6, <2>7, <2>8, <1>parts
<1>4. ASSUME NEW section \in 0 .. 2, NEW row \in 1 .. 4, TapRow(section, row) PROVE IInv'
  <2> DEFINE f == DidSelectRow(section, row)
  <2>1. /\ screen = "table" /\ f \in Pickers
        /\ screen' = f /\ picker' = PickerOf(Config[f])
        /\ UNCHANGED <<archive, shown, theme, icon, iconJob, failed>>
    BY <1>4 DEF TapRow
  <2> HIDE DEF f
  <2>2. Config' = Config
    BY <2>1, Unsaved
  <2>3. Config[f] \in Options
    BY <2>1, <1>config DEF Configs
  <2>4. Stored' /\ TableShowsConfig'
    BY <2>1, <2>2, <1>inv DEF Stored, TableShowsConfig
  <2>5. iconJob = {}
    BY <2>1, <1>types DEF OthersTypeOK
  <2>6. OthersTypeOK'
    BY <2>1, <2>3, <2>5, <1>types, Picked DEF OthersTypeOK
  <2>7. TickIsSaved' /\ LastIsValue'
    BY <2>1, <2>3, Picked DEF TickIsSaved, LastIsValue
  <2>8. AppearanceIsConfig' /\ JobIsConfig'
    BY <2>1, <2>2, <1>inv DEF AppearanceIsConfig, JobIsConfig
  <2> QED
    BY <2>4, <2>6, <2>7, <2>8, <1>parts
<1>5. ASSUME NEW f \in Stamps, StampTime(f) PROVE IInv'
  <2> USE <1>5 DEF StampTime, ReloadData
  <2> DEFINE v == Config[f] + 1
  <2>1. f \in Fields /\ f \notin Pickers /\ f \notin Switches
    BY Kinds
  <2>2. v \in 0 .. MaxStamp
    <3>1. Config[f] \in 0 .. MaxStamp /\ Config[f] < MaxStamp
      BY <1>config DEF Configs
    <3> QED
      BY <3>1, StampAssumption
  <2>3. SaveConfig([Config EXCEPT ![f] = v], f)
    OBVIOUS
  <2> HIDE DEF v
  <2>4. /\ archive' = NoArchive \/ archive' \in Configs
        /\ Config' \in Configs
        /\ \A g \in Pickers : Config'[g] = Config[g]
        /\ failed' \subseteq failed \cup {f}
        /\ \A g \in Pickers : g \in failed' <=> g \in failed
    BY <2>1, <2>2, <2>3, <1>inv, Saved, Kinds
  <2>5. Stored' /\ TableShowsConfig'
    BY <2>4 DEF Stored, TableShowsConfig
  <2>6. OthersTypeOK'
    BY <2>1, <2>4, <1>types DEF OthersTypeOK
  <2>7. TickIsSaved' /\ LastIsValue'
    BY <1>inv DEF TickIsSaved, LastIsValue
  <2>8. AppearanceIsConfig' /\ JobIsConfig'
    BY <2>4, <1>inv, Kinds DEF AppearanceIsConfig, JobIsConfig
  <2> QED
    BY <2>5, <2>6, <2>7, <2>8, <1>parts
<1>6. ASSUME NEW v \in Options, PickRow(v) PROVE IInv'
  <2> USE <1>6 DEF PickRow
  <2>1. Config' = Config
    BY Unsaved
  <2>2. Stored' /\ TableShowsConfig'
    BY <2>1, <1>inv DEF Stored, TableShowsConfig
  <2>3. /\ picker' \in PickerState
        /\ picker'.ticks = (picker.ticks \ {picker.last}) \cup {v}
        /\ picker'.last = v /\ picker'.value = v
    BY <1>types DEF OthersTypeOK, PickerState
  <2>4. picker.ticks = {picker.last}
    BY <1>inv DEF TickIsSaved, LastIsValue
  <2>5. OthersTypeOK'
    BY <2>3, <1>types DEF OthersTypeOK
  <2>6. TickIsSaved' /\ LastIsValue'
    BY <2>3, <2>4 DEF TickIsSaved, LastIsValue
  <2>7. AppearanceIsConfig' /\ JobIsConfig'
    BY <2>1, <1>inv DEF AppearanceIsConfig, JobIsConfig
  <2> QED
    BY <2>2, <2>5, <2>6, <2>7, <1>parts
<1>7. ASSUME NEW f \in Pickers \ {"iconFileName"}, Confirm(f) PROVE IInv'
  <2> USE <1>7 DEF Confirm, ReloadData, Close
  <2> DEFINE v == picker.value
  <2>1. f \in Fields /\ f \in Pickers /\ f \notin Stamps /\ f \notin Switches
    BY Kinds
  <2>2. SaveConfig([Config EXCEPT ![f] = v], f) /\ v \in Options
    BY <1>tick
  <2> HIDE DEF v
  <2>3. /\ archive' = NoArchive \/ archive' \in Configs
        /\ Config' \in Configs
        /\ \A g \in Fields \ {f} : Config'[g] = Config[g]
        /\ f \notin failed' => Config'[f] = v
        /\ failed' \subseteq failed \cup {f}
        /\ \A g \in Fields \ {f} : g \in failed' <=> g \in failed
    BY <2>1, <2>2, <1>inv, Saved
  <2>4. Stored' /\ TableShowsConfig'
    BY <2>3 DEF Stored, TableShowsConfig
  <2>5. theme' = IF f = "mainTheme" THEN v ELSE theme
    BY DEF v
  <2>6. iconJob = {}
    BY <2>1, <1>types DEF OthersTypeOK
  <2>7. OthersTypeOK'
    BY <2>1, <2>2, <2>3, <2>5, <2>6, <1>types, Picked DEF OthersTypeOK
  <2>8. TickIsSaved' /\ LastIsValue'
    BY DEF TickIsSaved, LastIsValue, Pickers
  <2>9. JobIsConfig'
    BY <2>6 DEF JobIsConfig
  <2>10. AppearanceIsConfig'
    BY <2>1, <2>3, <2>5, <2>6, <1>inv, Kinds DEF AppearanceIsConfig
  <2> QED
    BY <2>4, <2>7, <2>8, <2>9, <2>10, <1>parts
<1>8. ASSUME CompleteIcon PROVE IInv'
  <2> USE <1>8 DEF CompleteIcon
  <2> DEFINE f == "iconFileName"
             v == picker.value
  <2>1. f \in Fields /\ f \in Pickers /\ f \notin Stamps /\ f \notin Switches
    BY Kinds
  <2>2. SaveConfig([Config EXCEPT ![f] = v], f) /\ v \in Options /\ iconJob' = {v}
    BY <1>tick
  <2> HIDE DEF v
  <2>3. /\ archive' = NoArchive \/ archive' \in Configs
        /\ Config' \in Configs
        /\ \A g \in Fields \ {f} : Config'[g] = Config[g]
        /\ f \notin failed' => Config'[f] = v
        /\ failed' \subseteq failed \cup {f}
        /\ \A g \in Fields \ {f} : g \in failed' <=> g \in failed
    <3> HIDE DEF f
    <3> QED
      BY <2>1, <2>2, <1>inv, Saved
  <2>4. Stored' /\ TableShowsConfig'
    BY <2>2, <2>3, <1>inv DEF Stored, TableShowsConfig
  <2>5. OthersTypeOK'
    <3>1. iconJob' \subseteq Options
      BY <2>2
    <3>2. Cardinality(iconJob') <= 1
      <4>1. Cardinality({v}) = 1
        BY FS_Singleton
      <4> QED
        BY <2>2, <4>1
    <3>3. failed' \subseteq Fields
      BY <2>1, <2>3, <1>types DEF OthersTypeOK
    <3> QED
      BY <3>1, <3>2, <3>3, <1>types DEF OthersTypeOK
  <2>6. TickIsSaved' /\ LastIsValue'
    BY <1>inv DEF TickIsSaved, LastIsValue
  <2>7. JobIsConfig'
    BY <2>2, <2>3 DEF JobIsConfig
  <2>8. AppearanceIsConfig'
    BY <2>2, <2>3, <1>inv, Kinds DEF AppearanceIsConfig
  <2> QED
    BY <2>4, <2>5, <2>6, <2>7, <2>8, <1>parts
<1>9. ASSUME IconAnswer PROVE IInv'
  <2> USE <1>9 DEF IconAnswer, Close
  <2>1. Config' = Config
    BY Unsaved
  <2>2. PICK v \in iconJob : \/ icon' = v /\ failed' = failed
                             \/ icon' = icon /\ failed' = failed \cup {"iconFileName"}
    OBVIOUS
  <2>3. v \in Options
    BY <1>types DEF OthersTypeOK
  <2>4. Stored' /\ TableShowsConfig'
    BY <2>1, <1>inv, <1>config DEF Stored, TableShowsConfig
  <2>5. OthersTypeOK'
    <3>1. icon' \in Options
      BY <2>2, <2>3, <1>types DEF OthersTypeOK
    <3>2. failed' \subseteq Fields
      BY <2>2, <1>types, Kinds DEF OthersTypeOK
    <3>3. Cardinality(iconJob') <= 1
      BY FS_EmptySet
    <3> QED
      BY <3>1, <3>2, <3>3, <1>types, Picked DEF OthersTypeOK
  <2>6. TickIsSaved' /\ LastIsValue'
    BY DEF TickIsSaved, LastIsValue, Pickers
  <2>7. JobIsConfig'
    BY DEF JobIsConfig
  <2>8. AppearanceIsConfig'
    BY <2>1, <2>2, <1>inv DEF AppearanceIsConfig, JobIsConfig
  <2> QED
    BY <2>4, <2>5, <2>6, <2>7, <2>8, <1>parts
<1>10. ASSUME Cancel PROVE IInv'
  <2> USE <1>10 DEF Cancel, Close
  <2>1. Config' = Config
    BY Unsaved
  <2>2. screen # "out"
    BY DEF Pickers
  <2>3. Stored' /\ TableShowsConfig'
    BY <2>1, <2>2, <1>inv DEF Stored, TableShowsConfig
  <2>4. OthersTypeOK'
    BY <1>types, Picked DEF OthersTypeOK
  <2>5. TickIsSaved' /\ LastIsValue'
    BY DEF TickIsSaved, LastIsValue, Pickers
  <2>6. AppearanceIsConfig' /\ JobIsConfig'
    BY <2>1, <1>inv DEF AppearanceIsConfig, JobIsConfig
  <2> QED
    BY <2>3, <2>4, <2>5, <2>6, <1>parts
<1>11. CASE UNCHANGED stVars
  <2> USE <1>11 DEF stVars
  <2>1. Config' = Config
    BY Unsaved
  <2>2. /\ Stored' /\ TableShowsConfig' /\ TickIsSaved' /\ LastIsValue'
        /\ AppearanceIsConfig' /\ JobIsConfig'
    BY <2>1, <1>inv DEF Stored, TableShowsConfig, TickIsSaved, LastIsValue,
         AppearanceIsConfig, JobIsConfig
  <2>3. OthersTypeOK'
    BY <1>types DEF OthersTypeOK
  <2> QED
    BY <2>2, <2>3, <1>parts
<1> QED
  BY <1>1, <1>2, <1>3, <1>4, <1>5, <1>6, <1>7, <1>8, <1>9, <1>10, <1>11 DEF STNext

-----------------------------------------------------------------------------
(* What the settings guarantee.                                            *)

\* The types and the four invariants hold for good.
THEOREM Invariant ==
  STSpec => []IInv
<1> QED
  BY Initially, Preserved, PTL DEF STSpec

\* Every value stays of its type, the archive's and those shown among them.
THEOREM TypeCorrect ==
  STSpec => []STTypeOK
<1>1. IInv => STTypeOK
  BY DEF IInv
<1> QED
  BY <1>1, Invariant, PTL

\* The rows show the configuration that is stored.
THEOREM ShowsConfig ==
  STSpec => []TableShowsConfig
<1>1. IInv => TableShowsConfig
  BY DEF IInv
<1> QED
  BY <1>1, Invariant, PTL

\* A picker ticks the one row that a confirmation will save.
THEOREM SavesWhatIsTicked ==
  STSpec => []TickIsSaved
<1>1. IInv => TickIsSaved
  BY DEF IInv
<1> QED
  BY <1>1, Invariant, PTL

\* The theme and the icon in use are those of the configuration, unless a save
\* or the system has failed.
THEOREM AppearsAsConfigured ==
  STSpec => []AppearanceIsConfig
<1>1. IInv => AppearanceIsConfig
  BY DEF IInv
<1> QED
  BY <1>1, Invariant, PTL

\* A step leaves the configuration or changes it in one field.
LEMMA OneField ==
  ASSUME NEW T, NEW f, T \subseteq {f}
  PROVE  Cardinality(T) <= 1
<1>1. T = {} \/ T = {f}
  OBVIOUS
<1> QED
  BY <1>1, FS_EmptySet, FS_Singleton

\* No writer of the archive undoes what another one has written.
THEOREM ChangesOneSetting ==
  STSpec => OneSettingPerStep
<1> DEFINE changed == {f \in Fields : Config'[f] # Config[f]}
<1>1. IInv /\ [STNext]_stVars
      => [Cardinality({f \in Fields : Config'[f] # Config[f]}) <= 1]_stVars
  <2> SUFFICES ASSUME IInv, [STNext]_stVars PROVE Cardinality(changed) <= 1
    OBVIOUS
  <2>inv. Stored /\ picker.value \in Options
    BY DEF IInv, STTypeOK, PickerState
  <2>config. Config \in Configs
    BY <2>inv, ConfigIsOne
  <2>same. ASSUME archive' = archive PROVE Cardinality(changed) <= 1
    <3>1. Config' = Config
      BY <2>same, Unsaved
    <3>2. changed \subseteq {NoArchive}
      BY <3>1
    <3> HIDE DEF changed
    <3> QED
      BY <3>2, OneField
  <2>one. ASSUME NEW f \in Fields, NEW v,
                 f \in Pickers  => v \in Options,
                 f \in Switches => v \in BOOLEAN,
                 f \in Stamps   => v \in 0 .. MaxStamp,
                 SaveConfig([Config EXCEPT ![f] = v], f)
          PROVE  Cardinality(changed) <= 1
    <3>1. \A g \in Fields \ {f} : Config'[g] = Config[g]
      BY <2>inv, <2>one, Saved
    <3>2. changed \subseteq {f}
      BY <3>1
    <3> HIDE DEF changed
    <3> QED
      BY <3>2, OneField
  <2> HIDE DEF changed
  <2>1. CASE \E f \in Switches : SwitchCallBack(f)
    <3>1. PICK f \in Switches : SaveConfig([Config EXCEPT ![f] = ~shown[f]], f)
      BY <2>1 DEF SwitchCallBack
    <3>2. f \in Fields /\ f \notin Pickers /\ f \notin Stamps
      BY Kinds
    <3>3. (~shown[f]) \in BOOLEAN
      OBVIOUS
    <3> QED
      BY <3>1, <3>2, <3>3, <2>one
  <2>2. CASE \E f \in Stamps : StampTime(f)
    <3>1. PICK f \in Stamps : /\ Config[f] < MaxStamp
                              /\ SaveConfig([Config EXCEPT ![f] = Config[f] + 1], f)
      BY <2>2 DEF StampTime
    <3>2. f \in Fields /\ f \notin Pickers /\ f \notin Switches
      BY Kinds
    <3>3. Config[f] \in 0 .. MaxStamp
      BY <2>config DEF Configs
    <3>4. Config[f] + 1 \in 0 .. MaxStamp
      BY <3>1, <3>3, StampAssumption
    <3> QED
      BY <3>1, <3>2, <3>4, <2>one
  <2>3. CASE \E f \in Pickers \ {"iconFileName"} : Confirm(f)
    <3>1. PICK f \in Pickers : SaveConfig([Config EXCEPT ![f] = picker.value], f)
      BY <2>3 DEF Confirm
    <3>2. f \in Fields /\ f \notin Stamps /\ f \notin Switches
      BY Kinds
    <3> QED
      BY <3>1, <3>2, <2>inv, <2>one
  <2>4. CASE CompleteIcon
    <3> DEFINE f == "iconFileName"
    <3>1. SaveConfig([Config EXCEPT ![f] = picker.value], f)
      BY <2>4 DEF CompleteIcon
    <3>2. f \in Fields /\ f \notin Stamps /\ f \notin Switches
      BY Kinds
    <3> HIDE DEF f
    <3> QED
      BY <3>1, <3>2, <2>inv, <2>one
  <2>5. CASE \/ OpenSettings \/ Kill \/ IconAnswer \/ Cancel \/ UNCHANGED stVars
            \/ \E section \in 0 .. 2, row \in 1 .. 4 : TapRow(section, row)
            \/ \E v \in Options : PickRow(v)
    <3>1. archive' = archive
      BY <2>5 DEF OpenSettings, Kill, IconAnswer, Cancel, stVars, TapRow, PickRow
    <3> QED
      BY <3>1, <2>same
  <2> QED
    BY <2>1, <2>2, <2>3, <2>4, <2>5 DEF STNext
<1> QED
  BY <1>1, Invariant, PTL DEF STSpec, OneSettingPerStep
=============================================================================

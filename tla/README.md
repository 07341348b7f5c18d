# A TLA+ development of password_package

`password_package` is an iOS password manager in Objective-C
(`src/password_package/password_package`, about 6 700 lines of implementation). It keeps site
logins and bank cards in one SQLite file, shows them behind a gesture lock, backs the file up to
the user's iCloud container and restores it, and generates passwords. Its tests are the empty
Xcode templates; what it promises is in its screens, its comments and its code.

This directory models the parts of the program that keep state, checks them with TLC on small
instances, and proves with TLAPS, for every instance, what the record store, the pager under it, the
cloud and the screens over it, the lock, the settings, the generator and the catalogue guarantee.

Paths below are relative to `src/password_package/password_package/` unless they start with
`Pods/`, which is `src/password_package/Pods/`.

## 1. Inventory

### Parts, their state and their operations

| Part | Code | State | Operations |
| --- | --- | --- | --- |
| SQLite pager | `Pods/WCDBOptimizedSQLCipher/src/pager.c` | the database file and its rollback journal, synced or not; the page cache; the state of the transaction | open, read, write, spill, commit, roll back, recover |
| Record store | `DataManager/PPDataManager.m` | the SQLite file in Documents; the one `FMDatabase` connection | open at `+load`; insert, update, delete and read sites and cards; `getDBFileData`; `retrieveToDBWithData`; `reOpenDB` |
| Cloud backup | `SettingViewController.m:387-459`, `Pods/iCloudDocumentSync/iCloud/iCloud.m` | the iCloud document; requests in flight; the two time stamps | back up, restore, and their completion blocks |
| Site screens | `MainViewController.m`, `Site/` | the list's array; the object given to a sheet, alert or form | tap, edit, add, delete, refresh on two notifications and a callback |
| Card screens | `Bankcard/` | the list's array; the object given on; the form's fields; bank lookups in flight | the same, and the lookup of the bank of a number |
| Lock | `AppDelegate.m`, `MainViewController.m:105-133`, `WUGestureUnlockView/` | the stored pattern; the screen; tries left; the pending system authentication | create, confirm, validate, authenticate, background and foreground, quick actions |
| Settings | `AppConfig.m`, `SettingViewController.m`, four pickers | the archived configuration; what the table shows; the picker's ticks; theme and icon | switches, pickers, time stamps |
| Password generator | `CreatePasswordViewController.m`, `PPPasswordCreator.m` | ten switches, a slider, and what was chosen | every switch, the slider, create |
| Pasteboard | copy buttons, `Utils/Utils.m` | the general pasteboard | copy; clear later (never called) |
| Site catalogue and search | `SearchItemViewController.m`, PYSearch | the sections; the search results; the rows the table of suggestions has drawn | open, select, search, tap a suggestion, cancel |
| Opening a site's application | `Site/PresentWebsiteViewController.m:63-85`, `:204-277` | none: the site's title names the application | launch |
| E-mail export, cells, cover view, web view, stubs, pods | see `PROJECT.json` | none another part reads | - |

### How they interact

* Everything but the pods' own work runs on the main thread. A method runs to its end; between
  two methods anything may happen: another tap, an answer, the background, the end of the process.
* The screens call the store directly. Lists are caches: the sites refresh on a notification of
  the form, a notification of a restore and the deletion callback; the cards refresh when their view
  appears, on the restore notification and in two callbacks.
* The form and the sheet are given *the same object* the list shows, and write it back whole, by id.
* A restore replaces the file *under* the open connection: remove, write, close, open. Only a kill
  can come in between, but a failing write leaves the sequence half done.
* Backup and restore answer through completion blocks, or, when iCloud goes away at the wrong moment,
  not at all; nothing disables their rows meanwhile.
* The configuration is read whole and written whole by the table, four pickers and two completion
  blocks.
* The lock covers the program; the system's authentication answers it asynchronously, and a quick
  action dismisses whatever is presented.

### What is hard

0. The order of the pager's calls - records, header, sync, pages, sync, deletion of the journal -
   when any of them may fail, be the last one of the process, or be followed by a loss of power that
   keeps any part of what was not synced; and the pages of the free list, which are neither
   journaled nor written like the others.
1. The order of file operations in a restore, with a kill or a failing write between two of them,
   and what the connection reads and writes meanwhile.
2. Several backups and restores in flight, another device of the account, a retrieval that
   creates the document it does not find and reports success, and requests that are dropped without
   an answer.
3. Caches and shared objects: an edit that fails after it changed the object; a restore that
   completes under an open form, sheet or alert; a list refreshed only by a callback.
4. Bank answers out of order.
5. A lock with five exits (pattern, confirmation, authentication, quick action, end of process),
   a cancelled touch that leaves its buttons selected, and a store that happens in the completion
   block of an animation.
6. A table that is reloaded under one condition and answers taps from an array that changes under
   another: the suggestions of the search.
7. Two copies of one fact: a ticked row and the value to save, switches and the chosen type, rows
   built by one condition and tapped by another, an icon saved before it is set.

Every such place is a hazard in `PROJECT.json`, at its line, with the properties that watch it.

### What makes each part correct

* Pager: the file changes by whole transactions; what a connection reads is what is saved.
* Store: an acknowledged change survives the process; an id is never given twice; a deletion stays.
* Cloud: restores do not mix; what is reported as backed up exists; a backup is what is shown.
* Screens: what is shown is what is stored; an edit or deletion acts on what was shown.
* Lock: up from launch until it is left by one of its exits; the stored pattern can be drawn and stays.
* Settings: writers do not undo one another; table, ticks, theme and icon agree with the archive.
* Catalogue: every name is filed once; a suggestion opens what it shows; a site launches its application.
* Generator: what the switches show is what is used.

## 2. Modules

```
Vault  <---- refined by ----  PPDataManager  <---- PPDataManagerProofs
                               |         |
                          CloudBackup  CardScreens
                               |
                          SiteScreens     AppLock   Settings   CreatePassword   SiteCatalogue
```

```
AtomicFile  <---- refined by ----  Pager  <---- PagerProofs
```

Theorems are in a module of their own beside each component, `<component>Proofs`, which extends the
component. The proofs follow the modules: `SiteScreensProofs`, which holds the theorems of
`CloudBackup` too, and `CardScreensProofs` extend `PPDataManagerProofs`. `Pager`, `AppLock`,
`Settings`, `CreatePassword` and `SiteCatalogue` have theirs.

`Pager` is what the store's statements rest on: `PPDataManager` takes a statement as one step
because `Pager` implements `AtomicFile`.

`CloudBackup` and `CardScreens` extend the store: their actions are conjunctions of the store's
actions and their own, so the store's statements are the same steps in every module. `SiteScreens`
extends `CloudBackup`. `AppLock`, `Settings`, `CreatePassword` and `SiteCatalogue` share no state with the rest: the
time stamps in `Settings` are what the completion blocks of `CloudBackup` write. Each component has
an `MC` module with the values of its constants.

### `AtomicFile` - what the pager promises
`saved` and `previous`, the content and the one before the last commit. A step commits a transaction
or, when the power fails, goes back by one. Everything else - reading, spilling, a failed statement,
a rollback, the end of the process, the recovery - is a stutter.

### `Pager` - the rollback journal
One connection, `journal_mode=DELETE`, `synchronous=FULL`: FMDB sets no pragma, and neither does the
program. A volume is what the operating system shows (`db`, `journal`) and what a loss of power may
leave of it (`dbMay` per page: old, new or torn; `journalMay`: with the unsynced header or without,
the deleted journal back). `eState` is `Pager.eState`; `phase` is the next call of the operating
system, so that a process can end, the power fail or a call fail between any two of them. A journal
is known by what a reader finds in it: hot or not, the size of the database, the records its headers
count. `Write` records the original once and changes the cache; `Spill` is `pagerStress`, which syncs
the journal first when the page needs it; `SyncRecords`, `WriteHeader`, `SyncHeader` are
`syncJournal`; `WritePage`, `SyncFile`, `EndCommit` the rest of a commit; `StartRollback`,
`Truncate`, `PlaybackPage`, `SyncPlayback`, `EndRollback` a rollback, and with `SyncHot` before them
the recovery. `CommitFails`, `EntersError`, `RecoveryFails` are the calls that fail. A commit has
changed page 1 (the change counter), which is the guard of `Commit`.

The leaves of the free list hold nothing, and the pager treats them so: a page that was a leaf when
the transaction began may be overwritten without an original in the journal (`Overwrite`: it is only
marked as journaled, `unjournaled`); a page the B-tree puts on the list need not be written
(`DontWrite`, which `WritePage` passes over); and a file that ends in such a page is made long enough
(`GrowFile`). What is saved is therefore the content *up to the leaves* (`Content`; `pager.c:40-50`
and rule 7, `:79-88`), in `Saved` and so in `AtomicFile`: a leaf counts as `Unused`, whatever is in it.
Which pages of an image are leaves is a parameter, `Leaves`; `LeavesAssumption` says that leaves are
pages of the image and that the list is not kept in the leaves, as it is in trunk pages. What the
B-tree owes the pager is `FreeListKept`, a guard of `Commit`: a page not to be written is a leaf
(`btree.c:5943-5950`), and a leaf that is one no more has been written (`:5748-5767`).

### `Vault` - what the store promises
`saved` (records by table and id) and `safe`. A step changes one record while it is safe, or begins
or continues a replacement; only while it is replaced may the content go. Failures, kills and restarts are stutters.

### `PPDataManager` - the record store
`file`, `fileExists` are the file; `conn` is `closed`, `linked` (to the file at the path) or
`orphaned` (on a removed file, which `orphan` holds); `restoring` is how far the completion block of
a restore has come. `ExecuteUpdate` is `executeUpdate:` answering YES: SQLite refuses a statement that
writes when its file is no longer at its path (`databaseIsUnmoved`, `pager.c:4872`), so an orphaned
connection reads what it held and saves nothing; a statement that matches no row writes nothing and
succeeds all the same. `InsertRow` takes the id after the AUTOINCREMENT
counter, which is in the file; `UpdateRow` and `DeleteRow` answer YES without a matching row.
`OpenDB` creates the tables that are missing, each of which may fail, or fails itself; the second
connection it makes (`FMDatabaseQueue`, `PPDataManager.m:128`) may have created the file by then, and
does nothing else.
`RetrieveRemove`, `RetrieveWrite`, `RetrieveWriteFails`, `ReOpenDB` are the four places a restore can
be cut at. `Kill` is the end of the process, at any point. A statement is one step, which is what
`Pager` shows of it.

### `CloudBackup` - backup and restore
`upload[u]` and `download[d]` are the requests in flight, each captured where the code captures it:
an upload holds the file's bytes of the tap, a download what the document held when it was opened.
The pod is modelled as these two rows use it (marked as such in `PROJECT.json`): a save overwrites
and may be reported as failed although it landed; a document that is missing is created empty and
its empty data handed over as a success (`iCloud.m:814`). Not every request is answered: the pod looks
for iCloud again after the row has, and returns without calling the block when it is gone
(`iCloud.m:363`, `:727`), and it swallows an exception raised while a retrieval is started
(`:832-834`). `SaveIsDropped` and `RetrievalIsDropped` are those ways: the request is `lost`, and no step
but the end of the process takes it back. (The model lets a lost request occupy its place among the
ones in flight, so that what becomes of it can be stated; the other restore goes on beside it.)

### `SiteScreens` - the screens of the sites
`list` is the array by id, `held` the object in the sheet, alert, view or form and whether it is one of
the list's objects, `screen` what is in front. `Refresh` is part of each action whose code posts the
notification or calls back. `FinishEditFails` changes the shared object and keeps the form.
`RestoreCompletes` refreshes under whatever is open: the view and the password alert too, which go on
showing and copying the object they were given. `Cancel` is every way back to the list, the sheet's
buttons to launch, copy and share among them. Two history variables name what the user cannot
see: `stale` (a restore completed under the object) and `unsaved` (ids whose failed edit the list
shows). Backups change nothing these screens read and stay in `CloudBackup`.

### `CardScreens` - the screens of the cards
As above, with the differences of the code: an edit form covers the list, which is read again when
it is uncovered; the form to add is a sheet that does not, so only the completion block of its
dismissal reads the list again (`screen = "closing"` until then). `asked` are the bank lookups in
flight; any of them may be answered next. A card is a number, an expiry date, a type and a logo, the
logo named by the number it was found for; an edit assigns the number and the type. The type has two
writers, `SelectType` (the user) and `CardInfo` (an answer, when the service knows it: `CardType`);
`form.chosen` and `form.last` are history.

### `AppLock` - the lock
`proc` is the process, `lock` the screen (`"creating"`, `"validating"` while its dismissal is
animated), `first` the pattern to confirm, `selected` what a cancelled pan left selected, `eval` the
pending authentication. A stroke is an injective sequence of buttons. A pattern is stored by
`CreateCompletion`, not when it is confirmed. `left` is a history variable.

### `Settings` - the configuration
`archive` is the file; `Config` is `[AppConfig config]`, the archive or the defaults; `shown` what
the table last read; `picker` the open picker's ticks, last row and value. `SaveConfig` may fail,
which no caller sees. `Labels` is what the rows are built as, `DidSelectRow` what a tap on them does.
The icon is saved before the system is asked to set it.

### `CreatePassword` - the generator
`on` is the set of switches that show as on; `slider`, `numberType`, `letterType`, `isOther` are what
will be used. A password is known by its length and by the characters that can be in it, which
includes that the last character of a pool is never drawn (`PPPasswordCreator.m:63`).

### `SiteCatalogue` - the name of a site and what it is used for
`folder` is the bundled folder in the order it is enumerated, which nothing promises; `sections` is
`dataDictionary`, made of it a name at a time (`Filed`), and `SortedKeys` the order they are shown in.
`Selected` is the loop of the search. `result` is `resultDataArray`, `rows` what the table of suggestions
has drawn, `hidden` whether PYSearch hides that table. A text that finds nothing empties `result` and
leaves `rows`; the next search screen begins with what the last one left. `OutOfBounds` is the tap, or
the scrolling, on a row whose result is gone. `FinishInput` makes the title the name that was chosen,
`FinishEdit` the text the form shows for it (`descriptionWithName`), and `PressedLaunch` looks the
application up by the title. Names, what is drawn of them, their first characters and their schemes
are constants. `picked` and `renamed` are history variables.

## 3. What is checked

All runs check deadlock; no module can stop, since the process may always be killed or started.

| Run | Instance | Distinct states | What it shows |
| --- | --- | --- | --- |
| `store` | 2 values, ids to 2, two sites and one card | 2 771 | types, `ConnectionOnFile`, `FreshIds`, `DeletedStaysDeleted`, and `ImplementsVault` through every kill and restore |
| `pager` | 2 pages, 2 contents, one of which frees the second page | 909 582 | `WriteAhead`, `ReaderSeesSaved`, `SyncedBeforeDeletion`, and `ImplementsAtomicFile` through failing calls, ends of the process and losses of power |
| `cloud` | 1 site of 2 values, 1 backup and 2 restores in flight, another device | 1.84 M | `OneRestoreOnTheFile`, `ReportedBackupExists`, `BackupIsWhatIsShown`, `EveryRequestGoesOn` |
| `sites` | 2 sites, 2 values, 1 restore, backups of every combination | 584 862 | `ListIsStored`, `HeldIsStored`, `AcknowledgedEditIsStored` |
| `cards` | 1 card, 2 numbers, a date or none, 2 types, 2 lookups in flight | 1.30 M | `CardsAreStored`, `HeldCardIsStored`, `EditChangesNumberAndType`, `AnswersAreOfNumber` |
| `lock` | 3 buttons, patterns of 2 or more, 3 tries, Touch ID | 2 322 | `LockedUntilLeft`, `StoredIsDrawable`, `PatternKept` |
| `settings` | 2 options a picker, 1 stamp of a kind, biometry and feedback | 1.11 M | `OneSettingPerStep`, `TableShowsConfig`, `TickIsSaved`, `AppearanceIsConfig` |
| `generator` | the code's lengths, 2 characters a pool | 552 582 | `SwitchesShowChoice`, `CreatedAsShown` |
| `catalogue` | 4 names, 5 titles, 4 texts | 315 089 | `SectionsAreTheFolder`, `SuggestionIsWhatIsShown`, `LaunchesWhatWasPicked` |
| `lock_return`, `settings_rows` | as above | - | two statements of the program about itself that its code violates (section 6) |
| `cloud_answers` | 1 value, 1 backup, 1 restore | - | a statement of the pod the program relies on that its code violates, under `CBFairness` (section 6) |

### Bounds, and why they are enough

* `MaxPage` = 2, two contents: a transaction can add a page, change one and leave one alone, in any
  order with spills; two transactions differ. `MCLeaves` makes the second page a leaf when the first
  one holds `Freed`: it is put on the free list, taken from it, overwritten and left unwritten, and the
  file grows over it. The proofs lift the bounds and take any `Leaves`.
* `MaxId`, `Limit`: ids a table may hand out. Two ids allow an insert after a deletion, a restore
  that takes an id back, and an id that changes hands or vanishes under a form. Ids and tables do
  not interact beyond that. In `cloud`, where a file is only moved as a whole, one id tells files apart.
* `Values`: two suffice to tell an old value from a new one; no action compares more.
* `Uploads`, `Downloads`: two restores are needed for two answers to meet in one file, one backup to
  run beside them.
* `OtherImages`, `Backups`: what a restore may bring. In `sites` it is every combination of rows.
* `MaxAsked` = 2: the smallest number of lookups that can be answered out of order. `CardType` names
  the type of one number and not of the other, so an answer changes the type or leaves it.
* `Buttons` = 3, `MinPoints` = 2 (9 and 4 in the code): strokes below the minimum, at it and above
  it exist, and several patterns of each length. `Tries` = 3 (5 in the code): a first, a middle and a last try.
* `MaxTime` = 3: an instant before, at and after the automatic lock's.
* `MaxStamp` = 1: a stamp is made or not; its value is compared with nothing.
* The catalogue's names: one that is shown under another title, one that begins with a digit, two
  under one first character, in every order of the folder; texts that find two names, one and none.
* The generator's characters: a pool's last one, which is never drawn, and another one.

Symmetry is used in `store`, `cloud`, `sites` and `lock`, where values, requests or buttons are
only compared for equality and the properties name none; never in `pager`, whose `Freed` is one of
the contents, nor in the run under fairness.

### Fairness

Only `cloud_answers` assumes any: strong fairness of the answers and completion blocks of each request
that has been started (`CBFairness`). The system answers every document operation it has begun, and a
block that is queued on the main queue, first in first out, runs however many other events the thread
handles before it; strong, because a restore in between takes the main thread for a while and so
disables other blocks. Neither the user nor another device owes a step, and nothing forces a restart.
A request that was dropped has no step left, and fairness does not give it one: that is what the run
shows. No passing run assumes fairness. What can be said of every request that was not dropped is a
safety property, `EveryRequestGoesOn`: it has a step of its own to make, or waits for a restore that has one.

### Conditions in the properties

Some properties have a condition, which is what the code does not guarantee: `~stale`, `i \notin
unsaved`, `conn = "orphaned" /\ ~fileExists`, `inOrder`, `form.chosen`, `~reset`, `renamed => Label[picked] = picked`, `db # Blank`. They are named history or state and
each is a weakness a reader should know of: an acknowledged edit may be lost when a restore
completes under its form; the list shows a failed edit; a backup after a restore that failed half
way uploads nothing over the last good one; late bank answers set the logo and the type of another number, and any answer sets the type over the
one the user chose before it (`form.chosen`), in a form to edit too; the
letter switches are wrong after `allNumberSwitch`;
a site that is shown under another title than its name launches nothing after an edit, which stores
the shown title; the journal beside a file of no pages is deleted although the truncation may wait
for its sync, an exception to rule 5 of the pager's comment (`pager.c:73-74`, `:4966`) that loses
nothing, since there was nothing before the first transaction.

Some weaknesses are in the models without a condition, because no property promises otherwise: a
suggestion whose result is gone ends the process when it is tapped (`OutOfBounds`); names that begin
with a digit are in no section unless they are in the first one.

## 4. What is proved

`PPDataManagerProofs` proves, for every set of values, every bound on the ids and every well-formed
backup, assuming only `NoRowAssumption` (the absent row is no value) and `BoundAssumption`:

* `TypeCorrect`: `Spec => []TypeOK`.
* `ConnectionIsOnFile`: `Spec => []ConnectionOnFile`.
* `InsertTakesFreshId`: `Spec => []FreshIds`.
* `DeletedRecordsStayDeleted`: `Spec => DeletedStaysDeleted`.
* `StoreImplementsVault`: `Spec => V!Spec`, the refinement.

The inductive invariant is `IInv == TypeOK /\ ConnectionOnFile /\ FreshIds`. None of the three is
inductive alone. `FreshIds` needs the types, to know that the counter plus one is an id.
`ConnectionOnFile` has parts no screen cares about (an orphan image is blank unless the connection is
orphaned; there is no file after the removal) because the steps need them: opening a connection
abandons `orphan`, and only with those parts does that lose nothing the vault still calls saved. The
refinement maps `saved` to what the program reads, the removed file's rows while the connection
holds it, and `safe` to "not orphaned and no restore under way"; each step is then a commit, the
begin or a continuation of a replacement, or a stutter. Lemmas about images (`BlankImage`,
`CreateTables`, `InsertImage`, `UpdateImage`, `StatementEffect`) carry the data part and are cited by
the steps.

`PagerProofs` proves, for every number of pages, every content and every free list, assuming only
`PageAssumption`, `DataAssumption` (the marks of a missing, a torn and an unused page are no content)
and `LeavesAssumption` (the leaves of an image are pages of it and do not depend on what is in them):

* `TypeCorrect`: `Spec => []TypeOK`.
* `JournalAhead`: `Spec => []WriteAhead`: a page of the file that may differ from what is saved, and was
  no leaf, has its original in every journal a loss of power may leave. A leaf may be overwritten
  without one, which is why the statement is about `Saved` and `Fits`, not about the bytes of the file.
* `ReadsSaved`: `Spec => []ReaderSeesSaved`.
* `Implements`: `Spec => A!Spec`, the refinement of `AtomicFile`.
* `SyncsBeforeDeletion`: `Spec => SyncedBeforeDeletion`, an action property.
* `OnlyAnErrorLeavesAJournal`: a connection that comes to rest leaves a hot journal beside a file that
  has pages only out of the state `ERROR`. It bounds the hazard of a restore beside such a journal,
  which is not modelled (section 5): without a loss of power it takes a call that failed before.
* `Invariant`: `Spec => []IInv`, from which the others follow.

`IInv == TypeOK /\ FileInv /\ ConnInv`. `FileInv` is about the files alone: every journal that a loss
of power may leave recovers, whatever it leaves of the pages, either what is saved, or, while no
page waits for a sync, what was saved before the last commit (`Protected`). That disjunction is why a
deletion that is not synced is no danger: as long as the old journal may be back, the file holds
nothing but the last commit, and the first page that is written after it waits for a sync of the new
journal, which ends the old one. `ConnInv` says of each state and each next call which pages have a
synced original (`OriginalsInv`, `JournalInv`), that cache and file together are the transaction on
the way forward (`CommitInv`) and the saved content, page by page, on the way back (`RollbackInv`).
"Is" here is `Match`: equal where the content says something, any page at all where it has a leaf.
`MatchContent` turns it into what is saved (an image that matches a content amounts to it), which is
where `LeavesAssumption` is used. `Idle` is a page that was a leaf and has not been taken yet: file
and cache may hold anything there. The files change by a handful of calls, and one lemma for each
(`SettleStep`, `SyncStep`, `DeleteStep`, `HeaderStep`, `PutStep`, `GrowStep`, `CommitStep`,
`TruncateStep`, `PowerStep`) says when it keeps
`FileInv` and what becomes of what is saved; the steps of the pager are then one lemma each.

### The users of the store

`SiteScreensProofs` and `CardScreensProofs` first show that their component uses the store as it is
specified: `CloudUsesStore` (`CBSpec => Spec`), `SitesUseCloud` (`SSSpec => CBSpec`), `CardsUseStore`
(`CSSpec => Spec`). What is proved of the store so holds under the screens, whatever they do, the
refinement of `Vault` first: `SitesKeepTheVault` (`SSSpec => ImplementsVault`) and
`CardsKeepTheVault` (`CSSpec => ImplementsVault`). The step that could fail is a restore: the
bytes that are written to the file must be a database, and they came from a tap, an answer, another
device or a retrieval that created an empty document.

* `SiteScreensProofs`, of the cloud, for any number of backups and restores in flight, assuming
  `OtherImagesAssumption` (other devices back up databases): `CBTypeCorrect`, `RestoresDoNotMix`
  (`OneRestoreOnTheFile`), `BackupsAreReported` (`ReportedBackupExists`), `BacksUpWhatIsShown`
  (`BackupIsWhatIsShown`). `CBInv` adds to these that all data in flight are databases
  (`WellFormedData`), which is what `CloudUsesStore` rests on, and that an answer which reports a
  backup was given with a document in the cloud (`AnswerIsTrue`): the time stamp is written a step
  later, when only the answer knows. `RequestsAdvance` and `AnswersAreTakenUp` are what stands behind
  `EveryRequestGoesOn`, for any number of requests: a request never goes back and each of its steps
  takes it nearer to its end (`UploadToGo`, `DownloadToGo`), and an answer that must wait waits for a
  restore that has a step to make, never for another request that waits. That a request ends is not
  claimed: one that was dropped never does.
* `SiteScreensProofs`, of the screens, for any sites, values and restores: `SSTypeCorrect`, `ListShowsStore`
  (`ListIsStored`), `HeldShowsStore` (`HeldIsStored`), `EditsAreStored` (`AcknowledgedEditIsStored`).
  The sheet and the form write back by id, and an `UPDATE` that matches no row succeeds; so
  `SSInv` adds that a listed id has a record, even one whose failed edit the list shows
  (`ListedIsThere`), and that the handed-out object is one of the list's with a record until a restore
  completes (`HeldIsThere`).
* `CardScreensProofs`, for any numbers, dates and questions in flight, assuming `CardAssumption` (a row of
  this component is a card; no number is the empty text), `TypeAssumption`, `AskedAssumption` and `BackupsAssumption`:
  `CSTypeCorrect`, `ListShowsCards` (`CardsAreStored`), `HeldShowsCard` (`HeldCardIsStored`),
  `EditsNumberAndType` (`EditChangesNumberAndType`), `AnswersMatch` (`AnswersAreOfNumber`). `CSInv`
  adds that the date and the logo of an edited object are the stored ones (`EditedIsThere`), for
  `EditsNumberAndType`; and that, as long as answers come in order, the number asked last is the last in
  flight or the one the logo is of, and the type if the user chose none after (`LastAsked`), for
  `AnswersMatch`. `FormAtRest` clears both when a form opens, and `AddOverList`
  says why the list behind the sheet to add is still right when it closes.

### The parts of their own

* `AppLockProofs`, for any buttons, shortest pattern, tries and device, assuming `TriesAssumption`,
  `MinPointsAssumption`, `BiometryAssumption`, `TimeAssumption`: `TypeCorrect`, `StaysLocked`
  (`LockedUntilLeft`), `StoresDrawable` (`StoredIsDrawable`), `KeepsPattern` (`PatternKept`).
  `ScreenInv` is what they need: no stroke holds a button twice, a cancelled one that the next stroke
  goes on from included; a pattern to confirm is long enough; and once the lock is left no screen comes
  back in that process. `KeepsPattern` then follows from `LockedUntilLeft`: the only step that stores is
  the completion of a creation, whose screen is up only where nothing is stored.
* `SettingsProofs`, for any options, device and number of stamps, assuming `DefaultAssumption`,
  `DeviceAssumption`, `StampAssumption`: `TypeCorrect`, `ShowsConfig` (`TableShowsConfig`),
  `SavesWhatIsTicked` (`TickIsSaved`), `AppearsAsConfigured` (`AppearanceIsConfig`),
  `ChangesOneSetting` (`OneSettingPerStep`). `IInv` adds `LastIsValue`, since a picker unticks the row it
  remembers and saves the value it remembers apart from it, and `JobIsConfig`, since an icon is set
  after it was saved and the configuration may have been written again in between.
* `CreatePasswordProofs`, for any slider, any two lengths with a switch and any four arrays, assuming
  `LengthAssumption` and `ArrayAssumption` (two characters or more in each array, and none in two):
  `TypeCorrect`, `ShowsChoice` (`SwitchesShowChoice`), `CreatesAsShown` (`CreatedAsShown`). The
  switches and the choice are inductive with the types. `CreatesAsShown` needs the arrays: the index
  never reaches the last character of the concatenation, so the first character of each array is what
  tells that the array is drawn from (`DrawsChosen`), and disjointness that no other one is
  (`ArraysDiffer`). An array of one character would be chosen and never drawn from, which the
  assumption excludes and the program's arrays satisfy.
* `SiteCatalogueProofs`, for any folder, any names in common use, any table of titles and schemes and
  any texts, assuming `CatalogueAssumption` (finitely many names; their first characters sort before
  the key of the names in common use) and `LabelAssumption` (what is shown for a title is shown as
  itself): `CTTypeCorrect`, `FilingLosesNothing` (`SectionsAreTheFolder`), `OpensWhatIsShown`
  (`SuggestionIsWhatIsShown`), `LaunchesByName` (`LaunchesWhatWasPicked`), `SearchFindsAll`. `CTInv`
  adds to the types that the sections are those of the folder (`SectionsMade`), that the drawn rows
  are the results or there are none left (`DrawnOrEmpty`), which is why a tap is out of bounds or
  right, and that the title is the picked name or what is shown for it (`TitleIsPicked`). What is
  filed and found is a recursive function over the places of the folder, so `FilingLosesNothing` needs
  an induction over data. It is done without the library's induction theorems: `SetInduction` says,
  from the least natural number outside it (`LeastNat`), that a set of numbers with zero and every
  successor has them all; the set is first the places up to which the recursive function exists, then
  those up to which its sections are right (`Filing`, `FilesAll`, `Choosing`). `Sorting` shows in the
  same way that any finite set of keys has an increasing order, so that `SortedKeys` is one
  (`KeysSorted`).

### What is only model-checked

`EveryRequestGoesOn`: it is stated with `ENABLED`, which is out of the prover's reach, as is liveness
under fairness; `RequestsAdvance` and `AnswersAreTakenUp` say in other words what it rests on.
`AtomicFile` and `Vault` have no properties of their own: they are what the others implement.

## 5. What is not modelled

* The columns of a row are one value (sites) or four (cards): the grouping of a number's digits,
  the optional texts and images are left out. `clearTable` is called by nothing.
* The pasteboard: the copy buttons write it, no part of the program reads it, and the method that
  would clear it is called by nothing. The index bar of the catalogue only scrolls.
* The e-mail export, the feedback form, cells, layout, themes' drawing: they keep no state another
  part reads. `SceneDelegate` and `LoginViewController` are stubs that nothing uses.
* SQLite but for the pager: the B-tree, the virtual machine and the ciphering, which is not turned on.
  The B-tree's free list is a parameter of `Pager`, and what the B-tree promises of it an assumption
  and a guard.
  Of the pager: the locks (one process, one connection), savepoints, temporary files, the other
  journal modes and write-ahead logging, which nothing asks for; a header of the journal that is
  itself torn (its checksum and the sync before the first page is written exclude it); and disks that
  answer a sync without doing it. A directory that cannot be opened or synced is passed over by
  `unixSync` (`os_unix.c:3635-3641`), and the journal may then be lost as an entry; the model makes the
  entry durable with the file.
* The `FMDatabaseQueue` that `openDB` also makes on the file, but for the file it may create: its block
  (`PPDataManager.m:133`) uses the first connection, and nothing is read or written through its own.
* A restore that replaces the file beside a hot journal (a hazard in `PROJECT.json`): `Pager` and
  `PPDataManager` are not composed.
* The other pods are vendored; FMDB, the iCloud pod and LEETheme are modelled as the program uses them.
* In `AppLock`, whether the system lock is used is chosen at launch: the settings are behind the lock.

## 6. Where the code and its own statements part

* `lock_return`: `autoLockDuration` is "after how long the screen locks" (`AppConfig.h:35`); on the
  return from the background it is compared and nothing is done (`AppDelegate.m:85-90`).
* `settings_rows`: the rows of the security section are built by what the device can do and their
  taps told apart by whether the system lock is on (`SettingViewController.m:333`), so that without
  biometry a row does what its neighbour says; with biometry and the system lock on the two agree.
  Without biometry the labels are those of `:229-238`, and the taps take the branch of `:338` or `:342`.
* `cloud_answers`: "The completion handler is called when the file is opened or created (either
  successfully or not)" (`Pods/iCloudDocumentSync/iCloud/iCloud.h:226`). `iCloud.m:727` returns without
  calling it when iCloud is gone at its own look, which comes after the row's
  (`SettingViewController.m:422-431`), and `:832-834` swallows an exception likewise. The tap on the row is
  then never answered, with a message or otherwise.

## 7. Plan

Done: the store and its abstraction; the pager under it and its abstraction; the cloud; both families
of screens; the lock; the settings; the generator; the catalogue; and the proofs of all of them.

Next: a restore over the pager, that is, a replacement of the database file beside a hot journal.

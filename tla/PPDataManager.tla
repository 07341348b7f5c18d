---------------------------- MODULE PPDataManager ----------------------------
(***************************************************************************)
(* The record store of the password package: DataManager/PPDataManager.m.  *)
(*                                                                         *)
(* One SQLite file in the Documents directory holds two tables, site       *)
(* logins and bank cards.  A single FMDatabase connection, opened when the *)
(* class is loaded, serves every read and write, all of them on the main   *)
(* thread.  A restore from iCloud replaces the file under that connection: *)
(* it removes the file, writes the downloaded bytes at the same path and   *)
(* only then closes the connection and opens a new one.  Between the       *)
(* removal and the reopening the connection still holds the removed file.  *)
(*                                                                         *)
(* The database image is abstracted to what SQL statements of this class   *)
(* can tell apart: which tables exist, the AUTOINCREMENT counter of each   *)
(* and its rows.  A row's columns are one value.                           *)
(***************************************************************************)
EXTENDS Naturals

CONSTANTS
    Values,   \* what the columns of a record hold, besides its id
    NoRow,    \* no record has this id
    MaxId,    \* bound: the largest id in the model
    Limit     \* bound: Limit[t] is the last id table t hands out

Tables == {"website", "bankcard"}

ASSUME NoRowAssumption == NoRow \notin Values
ASSUME BoundAssumption == /\ MaxId \in Nat
                          /\ Limit \in [Tables -> 0 .. MaxId]

Ids == 1 .. MaxId

(***************************************************************************)
(* A database file, as the statements of this class see it.                *)
(***************************************************************************)
Image == [made : SUBSET Tables,
          seq  : [Tables -> 0 .. MaxId],
          rows : [Tables -> [Ids -> Values \cup {NoRow}]]]

\* A file of no bytes, which SQLite opens as a database with no tables.
Blank == [made |-> {},
          seq  |-> [t \in Tables |-> 0],
          rows |-> [t \in Tables |-> [i \in Ids |-> NoRow]]]

\* An image a history of statements leads to: ids beyond the counter are
\* free, and a table that was never created holds nothing.
WellFormed(img) ==
    \A t \in Tables :
        /\ \A i \in Ids : i > img.seq[t] => img.rows[t][i] = NoRow
        /\ t \notin img.made => img.seq[t] = 0
        /\ img.seq[t] <= Limit[t]

VARIABLES
    alive,       \* the process exists
    fileExists,  \* there is a file at dbFilePath
    file,        \* what it holds (Blank when there is none)
    conn,        \* self.dataBase: "closed", "linked" to the file at the path,
                 \* or "orphaned": it holds a file that has been removed
    orphan,      \* what the removed file holds (Blank unless orphaned)
    restoring    \* how far retrieveToDBWithData and reOpenDB have come

dmVars == <<alive, fileExists, file, conn, orphan, restoring>>

\* The main thread is between two events.
Idle == alive /\ restoring = "no"

(***************************************************************************)
(* What a statement on self.dataBase reads.                                *)
(***************************************************************************)
Db == CASE conn = "linked"   -> file
        [] conn = "orphaned" -> orphan
        [] OTHER             -> Blank

\* getAllWebsite and getAllBackCard: a missing table is an empty answer.
GetAll(t) == IF t \in Db.made THEN Db.rows[t] ELSE Blank.rows[t]

\* getDBFileData reads the file, not the connection.
GetDBFileData == file

(***************************************************************************)
(* A statement that executeUpdate: answers YES to: the connection's file   *)
(* becomes img.  A closed connection or a missing table answers NO and     *)
(* changes nothing, and any statement may fail (a full disk): the callers' *)
(* failure branches are steps of the modules that model the callers.       *)
(* SQLite opens no journal for a file that is no longer at its path        *)
(* (pager.c, databaseIsUnmoved), so a connection on a removed file reads   *)
(* but answers YES only to a statement that has nothing to write.          *)
(***************************************************************************)
ExecuteUpdate(t, img) ==
    /\ Idle
    /\ t \in Db.made
    /\ \/ conn = "linked"   /\ file' = img
       \/ conn = "orphaned" /\ img = orphan /\ file' = file
    /\ UNCHANGED <<alive, fileExists, conn, orphan, restoring>>

\* Mutant: the counter advances twice.
InsertRow_CountsTwice(t, v) ==
    /\ Db.seq[t] < Limit[t]
    /\ ExecuteUpdate(t, [Db EXCEPT !.seq[t] = @ + 2,
                                   !.rows[t][Db.seq[t] + 1] = v])

\* Mutant: a table without AUTOINCREMENT, which keeps no counter.
InsertRow_NoCounter(t, v) ==
    /\ Db.seq[t] < Limit[t]
    /\ ExecuteUpdate(t, [Db EXCEPT !.rows[t][Db.seq[t] + 1] = v])

\* INSERT takes the id after the largest one the table ever used.
InsertRow(t, v) ==
    /\ Db.seq[t] < Limit[t]
    /\ ExecuteUpdate(t, [Db EXCEPT !.seq[t] = @ + 1,
                                   !.rows[t][Db.seq[t] + 1] = v])

\* Mutant: an INSERT OR REPLACE in the place of the UPDATE.
UpdateRow_OrInsert(t, i, v) ==
    ExecuteUpdate(t, [Db EXCEPT !.rows[t][i] = v])

\* Mutant: the WHERE clause names the wrong column, and no row matches.
UpdateRow_NoMatch(t, i, v) == ExecuteUpdate(t, Db)

\* UPDATE ... WHERE id = i answers YES whether or not a row has that id.
UpdateRow(t, i, v) ==
    ExecuteUpdate(t, IF Db.rows[t][i] = NoRow
                       THEN Db
                       ELSE [Db EXCEPT !.rows[t][i] = v])

\* DELETE ... WHERE id = i, likewise.
DeleteRow(t, i) == ExecuteUpdate(t, [Db EXCEPT !.rows[t][i] = NoRow])

InsertWebsite(v)     == InsertRow("website", v)
UpdateWebsize(i, v)  == UpdateRow("website", i, v)
DeleteWebsite(i)     == DeleteRow("website", i)
InsertBackCard(v)    == InsertRow("bankcard", v)
UpdateBackCard(i, v) == UpdateRow("bankcard", i, v)
DeleteBackCard(i)    == DeleteRow("bankcard", i)

\* Mutant: the tables are dropped before they are created.
OpenDB_DropsTables ==
    /\ orphan' = Blank
    /\ conn' = "linked"
    /\ fileExists' = TRUE
    /\ \E created \in SUBSET Tables : file' = [Blank EXCEPT !.made = created]

(***************************************************************************)
(* openDB closes the connection it has and opens one on the file at the    *)
(* path, which SQLite creates when there is none; each missing table is    *)
(* created, or its creation fails.  When opening fails self.dataBase is    *)
(* left without a handle.  The FMDatabaseQueue it also makes on the file is *)
(* a second connection, which nothing reads or writes through; it may have *)
(* created the file when the first one fails.                              *)
(***************************************************************************)
OpenDB ==
    /\ orphan' = Blank
    /\ \/ /\ conn' = "linked"
          /\ fileExists' = TRUE
          /\ \E created \in SUBSET Tables : file' = [file EXCEPT !.made = @ \cup created]
       \/ /\ conn' = "closed"
          /\ fileExists' \in {fileExists, TRUE}
          /\ UNCHANGED file

\* +load: the shared instance is created, and opens the file, at launch.
Launch ==
    /\ ~alive
    /\ alive' = TRUE
    /\ OpenDB
    /\ UNCHANGED restoring

\* Mutant: a restore that runs beside the main thread.
RetrieveRemove_AnyThread ==
    /\ alive
    /\ restoring' = "removed"
    /\ fileExists' = FALSE
    /\ file' = Blank
    /\ conn' = IF conn = "linked" THEN "orphaned" ELSE conn
    /\ orphan' = IF conn = "linked" THEN file ELSE orphan
    /\ UNCHANGED alive

(***************************************************************************)
(* A restore: retrieveToDBWithData and, when it answers no error, reOpenDB,*)
(* in one completion block on the main thread.  Nothing else of the        *)
(* process runs in between, but the process may be killed there.           *)
(***************************************************************************)
RetrieveRemove ==
    /\ Idle
    /\ restoring' = "removed"
    /\ fileExists' = FALSE
    /\ file' = Blank
    /\ conn' = IF conn = "linked" THEN "orphaned" ELSE conn
    /\ orphan' = IF conn = "linked" THEN file ELSE orphan
    /\ UNCHANGED alive

\* The bytes are written to a temporary file that is renamed to the path.
RetrieveWrite(data) ==
    /\ restoring = "removed"
    /\ restoring' = "written"
    /\ fileExists' = TRUE
    /\ file' = data
    /\ UNCHANGED <<alive, conn, orphan>>

\* The write fails: an error is returned and the connection is left alone.
RetrieveWriteFails ==
    /\ restoring = "removed"
    /\ restoring' = "no"
    /\ UNCHANGED <<alive, fileExists, file, conn, orphan>>

\* Mutant: reOpenDB keeps the connection it has, as open: does in FMDB.
ReOpenDB_KeepsConnection ==
    /\ restoring = "written"
    /\ restoring' = "no"
    /\ IF conn = "closed" THEN OpenDB ELSE UNCHANGED <<fileExists, file, conn, orphan>>
    /\ UNCHANGED alive

ReOpenDB ==
    /\ restoring = "written"
    /\ restoring' = "no"
    /\ OpenDB
    /\ UNCHANGED alive

\* The process ends, at any point: a crash, or the system reclaims it.
Kill ==
    /\ alive
    /\ alive' = FALSE
    /\ conn' = "closed"
    /\ orphan' = Blank
    /\ restoring' = "no"
    /\ UNCHANGED <<fileExists, file>>

-----------------------------------------------------------------------------
\* A device on which the program has been installed and not yet run.
Init ==
    /\ alive = FALSE
    /\ fileExists = FALSE
    /\ file = Blank
    /\ conn = "closed"
    /\ orphan = Blank
    /\ restoring = "no"

Statement ==
    \/ \E v \in Values : InsertWebsite(v) \/ InsertBackCard(v)
    \/ \E i \in Ids, v \in Values : UpdateWebsize(i, v) \/ UpdateBackCard(i, v)
    \/ \E i \in Ids : DeleteWebsite(i) \/ DeleteBackCard(i)

\* The downloaded bytes may be any database some installation backed up.
Restore ==
    \/ RetrieveRemove
    \/ \E data \in Image : WellFormed(data) /\ RetrieveWrite(data)
    \/ RetrieveWriteFails
    \/ ReOpenDB

Next == Launch \/ Statement \/ Restore \/ Kill

Spec == Init /\ [][Next]_dmVars

-----------------------------------------------------------------------------
(***************************************************************************)
(* Properties.                                                             *)
(***************************************************************************)

TypeOK ==
    /\ alive \in BOOLEAN
    /\ fileExists \in BOOLEAN
    /\ file \in Image
    /\ conn \in {"closed", "linked", "orphaned"}
    /\ orphan \in Image
    /\ restoring \in {"no", "removed", "written"}

\* The connection is on the file at the path exactly when it can be: a linked
\* connection has a file, no restore is half way under a linked one, and a
\* connection stays on a removed file only as long as no other file has taken
\* its place and been opened.  It is about the order remove, write, close,
\* open (PPDataManager.m:89-142).
ConnectionOnFile ==
    /\ conn = "linked" => alive /\ fileExists /\ restoring = "no"
    /\ conn = "orphaned" => alive /\ (fileExists <=> restoring = "written")
    /\ ~fileExists => file = Blank
    /\ conn # "orphaned" => orphan = Blank
    /\ ~alive => restoring = "no"
    /\ restoring = "removed" => ~fileExists
    /\ restoring = "written" => fileExists

\* An INSERT never takes the id of a record, whatever was deleted and
\* restored before (the AUTOINCREMENT counter travels inside the file).
FreshIds == WellFormed(file) /\ WellFormed(orphan)

\* A deleted record comes back only by a restore or at a restart: no
\* statement gives its id to another record, and no failed step of a restore
\* shows it again.
DeletedStaysDeleted ==
    [][\A t \in Tables, i \in Ids :
          (/\ conn # "closed"
           /\ i <= Db.seq[t]
           /\ Db.rows[t][i] = NoRow
           /\ Db.rows[t][i]' # NoRow)
          => restoring = "written"]_dmVars

\* What has been saved: the removed file while the connection holds it,
\* since that is what the program still shows, else the file.
Saved == IF conn = "orphaned" THEN orphan.rows ELSE file.rows
Safe  == conn # "orphaned" /\ restoring = "no"

V == INSTANCE Vault WITH saved <- Saved, safe <- Safe

\* The store implements the vault: an acknowledged save survives the end of
\* the process at any moment, except while a restore has removed the file
\* under the connection (PPDataManager.m:89-116).
ImplementsVault == V!Spec
=============================================================================

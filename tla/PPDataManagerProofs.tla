------------------------- MODULE PPDataManagerProofs -------------------------
(***************************************************************************)
(* What PPDataManager guarantees for every set of values, every bound on   *)
(* the ids and every well-formed backup.                                   *)
(*                                                                         *)
(* The argument is one inductive invariant, IInv: the variables have their *)
(* types, the connection and the file at the path are related as           *)
(* ConnectionOnFile says, and the ids beyond each counter are free in both *)
(* files.  The action property and the refinement follow from it, one      *)
(* action at a time.                                                       *)
(***************************************************************************)
EXTENDS PPDataManager, TLAPS

IInv == TypeOK /\ ConnectionOnFile /\ FreshIds

-----------------------------------------------------------------------------
(* Images.                                                                 *)

\* A file of no bytes is a database a history of statements can leave.
LEMMA BlankImage == Blank \in Image /\ WellFormed(Blank)
<1>1. Blank \in Image
  BY BoundAssumption DEF Blank, Image, Ids
<1>2. WellFormed(Blank)
  BY BoundAssumption DEF Blank, WellFormed, Tables, Ids
<1> QED
  BY <1>1, <1>2

\* The connection reads a well-formed image.
LEMMA DbImage ==
  ASSUME IInv
  PROVE  Db \in Image /\ WellFormed(Db)
  BY BlankImage DEF IInv, TypeOK, FreshIds, Db

\* Creating tables keeps an image well formed.
LEMMA CreateTables ==
  ASSUME NEW img \in Image, WellFormed(img), NEW created \in SUBSET Tables
  PROVE  /\ [img EXCEPT !.made = @ \cup created] \in Image
         /\ WellFormed([img EXCEPT !.made = @ \cup created])
  BY DEF Image, WellFormed

\* INSERT: the row goes to a free id and the counter moves to it.
LEMMA InsertImage ==
  ASSUME NEW img \in Image, WellFormed(img),
         NEW t \in Tables, NEW v \in Values,
         t \in img.made, img.seq[t] < Limit[t]
  PROVE  LET new == [img EXCEPT !.seq[t] = @ + 1,
                                !.rows[t][img.seq[t] + 1] = v]
         IN  new \in Image /\ WellFormed(new)
<1> DEFINE new == [img EXCEPT !.seq[t] = @ + 1,
                              !.rows[t][img.seq[t] + 1] = v]
<1>1. /\ img.seq[t] \in Nat
      /\ img.seq[t] + 1 \in 0 .. MaxId
      /\ img.seq[t] + 1 \in Ids
      /\ img.seq[t] + 1 <= Limit[t]
  BY BoundAssumption DEF Image, Ids
<1>2. new \in Image
  BY <1>1 DEF Image
<1>3. WellFormed(new)
  BY <1>1, BoundAssumption DEF WellFormed, Image, Ids
<1> QED
  BY <1>2, <1>3

\* UPDATE of an existing row, and DELETE: no id beyond the counter is taken.
LEMMA UpdateImage ==
  ASSUME NEW img \in Image, WellFormed(img),
         NEW t \in Tables, NEW i \in Ids, NEW v \in Values \cup {NoRow},
         v = NoRow \/ img.rows[t][i] # NoRow
  PROVE  LET new == [img EXCEPT !.rows[t][i] = v]
         IN  new \in Image /\ WellFormed(new)
<1> DEFINE new == [img EXCEPT !.rows[t][i] = v]
<1>1. new \in Image
  BY DEF Image
<1>2. WellFormed(new)
  BY DEF WellFormed, Image
<1> QED
  BY <1>1, <1>2

-----------------------------------------------------------------------------
(* The inductive invariant.                                                *)

\* A freshly installed program satisfies the invariant.
LEMMA InitIInv == Init => IInv
  BY BlankImage DEF Init, IInv, TypeOK, ConnectionOnFile, FreshIds

\* A statement that installs a well-formed image keeps the invariant.
LEMMA ExecuteUpdateIInv ==
  ASSUME IInv, NEW t \in Tables, NEW img \in Image, WellFormed(img),
         ExecuteUpdate(t, img)
  PROVE  IInv'
<1>1. TypeOK'
  BY DEF IInv, TypeOK, ExecuteUpdate
<1>2. ConnectionOnFile'
  BY DEF IInv, ConnectionOnFile, ExecuteUpdate
<1>3. FreshIds'
  BY DEF IInv, FreshIds, WellFormed, ExecuteUpdate
<1> QED
  BY <1>1, <1>2, <1>3 DEF IInv

\* What an acknowledged statement does to the image the connection reads:
\* one row of one table changes, and the rows it had keep their ids.
LEMMA StatementEffect ==
  ASSUME IInv, Statement
  PROVE  \E t \in Tables, i \in Ids, v \in Values \cup {NoRow},
            img \in Image :
            /\ WellFormed(img)
            /\ ExecuteUpdate(t, img)
            /\ img.rows = [Db.rows EXCEPT ![t][i] = v]
            /\ Db.rows[t][i] = NoRow /\ v # NoRow => i > Db.seq[t]
<1>db. Db \in Image /\ WellFormed(Db)
  BY DbImage
<1>1. ASSUME NEW t \in Tables, NEW v \in Values, InsertRow(t, v)
      PROVE  \E i \in Ids, img \in Image :
               /\ WellFormed(img)
               /\ ExecuteUpdate(t, img)
               /\ img.rows = [Db.rows EXCEPT ![t][i] = v]
               /\ i > Db.seq[t]
  <2> DEFINE n == Db.seq[t] + 1
             img == [Db EXCEPT !.seq[t] = @ + 1, !.rows[t][Db.seq[t] + 1] = v]
  <2>1. t \in Db.made /\ Db.seq[t] < Limit[t] /\ ExecuteUpdate(t, img)
    BY <1>1 DEF InsertRow, ExecuteUpdate
  <2>2. img \in Image /\ WellFormed(img)
    BY <1>db, <2>1, InsertImage
  <2>3. n \in Ids /\ n > Db.seq[t]
    BY <1>db, <2>1, BoundAssumption DEF Image, Ids
  <2>4. img.rows = [Db.rows EXCEPT ![t][n] = v]
    BY <1>db DEF Image
  <2> QED
    BY <2>1, <2>2, <2>3, <2>4
<1>2. ASSUME NEW t \in Tables, NEW i \in Ids, NEW v \in Values,
             UpdateRow(t, i, v)
      PROVE  \E w \in Values \cup {NoRow}, img \in Image :
               /\ WellFormed(img)
               /\ ExecuteUpdate(t, img)
               /\ img.rows = [Db.rows EXCEPT ![t][i] = w]
               /\ Db.rows[t][i] = NoRow => w = NoRow
  <2>1. CASE Db.rows[t][i] = NoRow
    <3>1. ExecuteUpdate(t, Db)
      BY <1>2, <2>1 DEF UpdateRow
    <3>2. Db.rows = [Db.rows EXCEPT ![t][i] = NoRow]
      BY <1>db, <2>1 DEF Image
    <3> QED
      BY <1>db, <3>1, <3>2
  <2>2. CASE Db.rows[t][i] # NoRow
    <3> DEFINE img == [Db EXCEPT !.rows[t][i] = v]
    <3>1. ExecuteUpdate(t, img)
      BY <1>2, <2>2 DEF UpdateRow
    <3>2. img \in Image /\ WellFormed(img)
      BY <1>db, <2>2, UpdateImage
    <3>3. img.rows = [Db.rows EXCEPT ![t][i] = v]
      BY <1>db DEF Image
    <3> QED
      BY <2>2, <3>1, <3>2, <3>3
  <2> QED
    BY <2>1, <2>2
<1>3. ASSUME NEW t \in Tables, NEW i \in Ids, DeleteRow(t, i)
      PROVE  \E img \in Image :
               /\ WellFormed(img)
               /\ ExecuteUpdate(t, img)
               /\ img.rows = [Db.rows EXCEPT ![t][i] = NoRow]
  <2> DEFINE img == [Db EXCEPT !.rows[t][i] = NoRow]
  <2>1. ExecuteUpdate(t, img)
    BY <1>3 DEF DeleteRow
  <2>2. img \in Image /\ WellFormed(img)
    BY <1>db, UpdateImage
  <2>3. img.rows = [Db.rows EXCEPT ![t][i] = NoRow]
    BY <1>db DEF Image
  <2> QED
    BY <2>1, <2>2, <2>3
<1>4. PICK t \in Tables :
        \/ \E v \in Values : InsertRow(t, v)
        \/ \E i \in Ids, v \in Values : UpdateRow(t, i, v)
        \/ \E i \in Ids : DeleteRow(t, i)
  BY DEF Statement, Tables, InsertWebsite, InsertBackCard, UpdateWebsize,
         UpdateBackCard, DeleteWebsite, DeleteBackCard
<1>5. CASE \E v \in Values : InsertRow(t, v)
  <2>1. PICK v \in Values : InsertRow(t, v)
    BY <1>5
  <2>2. PICK i \in Ids, img \in Image :
           /\ WellFormed(img)
           /\ ExecuteUpdate(t, img)
           /\ img.rows = [Db.rows EXCEPT ![t][i] = v]
           /\ i > Db.seq[t]
    BY <1>1, <2>1
  <2> QED
    BY <2>2
<1>6. CASE \E i \in Ids, v \in Values : UpdateRow(t, i, v)
  <2>1. PICK i \in Ids, v \in Values : UpdateRow(t, i, v)
    BY <1>6
  <2>2. PICK w \in Values \cup {NoRow}, img \in Image :
           /\ WellFormed(img)
           /\ ExecuteUpdate(t, img)
           /\ img.rows = [Db.rows EXCEPT ![t][i] = w]
           /\ Db.rows[t][i] = NoRow => w = NoRow
    BY <1>2, <2>1
  <2> QED
    BY <2>2
<1>7. CASE \E i \in Ids : DeleteRow(t, i)
  <2>1. PICK i \in Ids : DeleteRow(t, i)
    BY <1>7
  <2>2. PICK img \in Image :
           /\ WellFormed(img)
           /\ ExecuteUpdate(t, img)
           /\ img.rows = [Db.rows EXCEPT ![t][i] = NoRow]
    BY <1>3, <2>1
  <2> QED
    BY <2>2
<1> QED
  BY <1>4, <1>5, <1>6, <1>7

\* Opening the file, from a process state with no file open under the path.
LEMMA OpenDBEffect ==
  ASSUME IInv, OpenDB
  PROVE  /\ TypeOK' <=> alive' \in BOOLEAN /\ restoring' \in {"no", "removed", "written"}
         /\ WellFormed(file)' /\ WellFormed(orphan)'
         /\ file'.rows = file.rows
         /\ orphan' = Blank
         /\ conn' \in {"closed", "linked"}
         /\ conn' = "linked" => fileExists'
         /\ ~fileExists' => file' = Blank
<1>1. orphan' = Blank /\ Blank \in Image /\ WellFormed(Blank)
  BY BlankImage DEF OpenDB
<1>2. CASE /\ conn' = "linked"
           /\ fileExists' = TRUE
           /\ \E created \in SUBSET Tables : file' = [file EXCEPT !.made = @ \cup created]
  <2>1. PICK created \in SUBSET Tables : file' = [file EXCEPT !.made = @ \cup created]
    BY <1>2
  <2>2. file' \in Image /\ WellFormed(file')
    BY <2>1, CreateTables DEF IInv, TypeOK, FreshIds
  <2>3. file'.rows = file.rows
    BY <2>1 DEF IInv, TypeOK, Image
  <2> QED
    BY <1>1, <1>2, <2>2, <2>3 DEF TypeOK, WellFormed
<1>3. CASE conn' = "closed" /\ fileExists' \in {fileExists, TRUE} /\ UNCHANGED file
  BY <1>1, <1>3 DEF IInv, TypeOK, ConnectionOnFile, FreshIds, WellFormed
<1> QED
  BY <1>2, <1>3 DEF OpenDB

\* Every step keeps the inductive invariant.
LEMMA NextIInv == IInv /\ [Next]_dmVars => IInv'
<1> SUFFICES ASSUME IInv, [Next]_dmVars
             PROVE  IInv'
  OBVIOUS
<1>1. CASE Launch
  <2>1. TypeOK'
    BY <1>1, OpenDBEffect DEF Launch, IInv, TypeOK
  <2>2. ConnectionOnFile'
    BY <1>1, OpenDBEffect DEF Launch, IInv, ConnectionOnFile
  <2>3. FreshIds'
    BY <1>1, OpenDBEffect DEF Launch, FreshIds
  <2> QED
    BY <2>1, <2>2, <2>3 DEF IInv
<1>2. CASE Statement
  BY <1>2, StatementEffect, ExecuteUpdateIInv
<1>3. CASE RetrieveRemove
  <2>1. TypeOK'
    BY <1>3, BlankImage DEF RetrieveRemove, Idle, IInv, TypeOK
  <2>2. ConnectionOnFile'
    BY <1>3 DEF RetrieveRemove, Idle, IInv, TypeOK, ConnectionOnFile
  <2>3. FreshIds'
    BY <1>3, BlankImage DEF RetrieveRemove, IInv, FreshIds, WellFormed
  <2> QED
    BY <2>1, <2>2, <2>3 DEF IInv
<1>4. ASSUME NEW data \in Image, WellFormed(data), RetrieveWrite(data)
      PROVE  IInv'
  <2>1. TypeOK'
    BY <1>4 DEF RetrieveWrite, IInv, TypeOK
  <2>2. ConnectionOnFile'
    BY <1>4 DEF RetrieveWrite, IInv, TypeOK, ConnectionOnFile
  <2>3. FreshIds'
    BY <1>4 DEF RetrieveWrite, IInv, FreshIds, WellFormed
  <2> QED
    BY <2>1, <2>2, <2>3 DEF IInv
<1>5. CASE RetrieveWriteFails
  BY <1>5 DEF RetrieveWriteFails, IInv, TypeOK, ConnectionOnFile, FreshIds,
              WellFormed
<1>6. CASE ReOpenDB
  <2>1. TypeOK'
    BY <1>6, OpenDBEffect DEF ReOpenDB, IInv, TypeOK
  <2>2. ConnectionOnFile'
    BY <1>6, OpenDBEffect DEF ReOpenDB, IInv, ConnectionOnFile
  <2>3. FreshIds'
    BY <1>6, OpenDBEffect DEF ReOpenDB, FreshIds
  <2> QED
    BY <2>1, <2>2, <2>3 DEF IInv
<1>7. CASE Kill
  BY <1>7, BlankImage
  DEF Kill, IInv, TypeOK, ConnectionOnFile, FreshIds, WellFormed
<1>8. CASE UNCHANGED dmVars
  BY <1>8 DEF dmVars, IInv, TypeOK, ConnectionOnFile, FreshIds, WellFormed
<1> QED
  BY <1>1, <1>2, <1>3, <1>4, <1>5, <1>6, <1>7, <1>8 DEF Next, Restore

\* The inductive invariant holds in every reachable state.
LEMMA Inductive == Spec => []IInv
  BY InitIInv, NextIInv, PTL DEF Spec

-----------------------------------------------------------------------------
(* The theorems.                                                           *)

\* Type correctness of the store (PPDataManager.m as a whole).
THEOREM TypeCorrect == Spec => []TypeOK
  BY Inductive, PTL DEF IInv

\* The connection is on the file at the path unless a restore has removed the
\* file under it (PPDataManager.m:89-142).
THEOREM ConnectionIsOnFile == Spec => []ConnectionOnFile
  BY Inductive, PTL DEF IInv

\* No INSERT takes the id of a record that exists (PPDataManager.m:176-187).
THEOREM InsertTakesFreshId == Spec => []FreshIds
  BY Inductive, PTL DEF IInv

\* After an acknowledged statement the connection reads the image it installed.
LEMMA StatementDb ==
  ASSUME IInv, NEW t \in Tables, NEW img \in Image, ExecuteUpdate(t, img)
  PROVE  Db' = img
  BY DEF IInv, TypeOK, ExecuteUpdate, Db

\* The action part of DeletedStaysDeleted, for one record.
Resurrected(t, i) ==
  /\ conn # "closed"
  /\ i <= Db.seq[t]
  /\ Db.rows[t][i] = NoRow
  /\ Db.rows[t][i]' # NoRow

\* Only the last step of a restore shows a record under an id that was given
\* out before and had none.
LEMMA NoResurrection ==
  ASSUME IInv, [Next]_dmVars, NEW t \in Tables, NEW i \in Ids,
         Resurrected(t, i)
  PROVE  restoring = "written"
<1> USE DEF Resurrected
<1>1. CASE Launch
  BY <1>1 DEF Launch, IInv, TypeOK, ConnectionOnFile
<1>2. CASE Statement
  <2>1. PICK u \in Tables, j \in Ids, v \in Values \cup {NoRow}, img \in Image :
           /\ ExecuteUpdate(u, img)
           /\ img.rows = [Db.rows EXCEPT ![u][j] = v]
           /\ Db.rows[u][j] = NoRow /\ v # NoRow => j > Db.seq[u]
    BY <1>2, StatementEffect
  <2>2. Db' = img
    BY <2>1, StatementDb
  <2>3. Db \in Image
    BY DbImage
  <2>4. t = u /\ i = j
    BY <2>1, <2>2, <2>3 DEF Image
  <2>5. v # NoRow
    BY <2>1, <2>2, <2>3, <2>4 DEF Image
  <2>6. j > Db.seq[u] /\ i <= Db.seq[t]
    BY <2>1, <2>4, <2>5
  <2>7. Db.seq[t] \in Nat /\ i \in Nat
    BY <2>3, BoundAssumption DEF Image, Ids
  <2> QED
    BY <2>4, <2>6, <2>7
<1>3. CASE RetrieveRemove
  <2>1. Db' = Db
    BY <1>3 DEF RetrieveRemove, Db, IInv, TypeOK
  <2> QED
    BY <2>1
<1>4. CASE RetrieveWriteFails \/ UNCHANGED dmVars
  <2>1. Db' = Db
    BY <1>4 DEF RetrieveWriteFails, dmVars, Db
  <2> QED
    BY <2>1
<1>5. ASSUME NEW data \in Image, RetrieveWrite(data)
      PROVE  FALSE
  <2>1. Db' = Db
    BY <1>5 DEF RetrieveWrite, Db, IInv, TypeOK, ConnectionOnFile
  <2> QED
    BY <2>1
<1>6. CASE ReOpenDB
  BY <1>6 DEF ReOpenDB
<1>7. CASE Kill
  <2>1. Db' = Blank
    BY <1>7 DEF Kill, Db
  <2> QED
    BY <2>1 DEF Blank
<1> QED
  BY <1>1, <1>2, <1>3, <1>4, <1>5, <1>6, <1>7 DEF Next, Restore

\* No statement and no failed step of a restore brings a deleted record back,
\* or gives its id to another one (PPDataManager.m:167-187).
THEOREM DeletedRecordsStayDeleted == Spec => DeletedStaysDeleted
<1>1. IInv /\ [Next]_dmVars
        => [\A t \in Tables, i \in Ids :
              (/\ conn # "closed"
               /\ i <= Db.seq[t]
               /\ Db.rows[t][i] = NoRow
               /\ Db.rows[t][i]' # NoRow)
              => restoring = "written"]_dmVars
  BY NoResurrection DEF Resurrected
<1> QED
  BY <1>1, Inductive, PTL DEF Spec, DeletedStaysDeleted

-----------------------------------------------------------------------------
(* The refinement.                                                         *)

\* Every step of the store is a step of the vault, or none.
LEMMA StepImplementsVault ==
  ASSUME IInv, [Next]_dmVars
  PROVE  [V!Next]_(V!vaultVars)
<1> USE DEF V!Next, V!vaultVars
<1>0. Saved' \in V!Content
  <2>1. IInv'
    BY NextIInv
  <2> QED
    BY <2>1 DEF IInv, TypeOK, Saved, V!Content, Image
<1>1. CASE Launch
  <2>1. Saved' = Saved /\ Safe' = Safe
    BY <1>1, OpenDBEffect
    DEF Launch, Saved, Safe, IInv, TypeOK, ConnectionOnFile
  <2> QED
    BY <2>1
<1>2. CASE Statement
  <2>1. PICK t \in Tables, i \in Ids, v \in Values \cup {NoRow}, img \in Image :
           /\ ExecuteUpdate(t, img)
           /\ img.rows = [Db.rows EXCEPT ![t][i] = v]
    BY <1>2, StatementEffect
  <2>2. CASE conn = "linked"
    <3>1. Saved = Db.rows /\ Saved' = img.rows /\ Safe /\ Safe' = Safe
      BY <2>1, <2>2 DEF ExecuteUpdate, Saved, Safe, Db, Idle
    <3>2. V!Commit
      BY <2>1, <3>1 DEF V!Commit
    <3> QED
      BY <3>2
  <2>3. CASE conn = "orphaned"
    <3>1. Saved' = Saved /\ Safe' = Safe
      BY <2>1, <2>3 DEF ExecuteUpdate, Saved, Safe
    <3> QED
      BY <3>1
  <2> QED
    BY <2>1, <2>2, <2>3 DEF ExecuteUpdate
<1>3. CASE RetrieveRemove
  <2>1. ~Safe' /\ Safe' \in BOOLEAN
    BY <1>3 DEF RetrieveRemove, Safe
  <2>2. Saved' \in {Saved, V!Empty}
    BY <1>3 DEF RetrieveRemove, Saved, Blank, V!Empty, IInv, TypeOK
  <2>3. V!BeginReplace \/ V!Replace
    BY <1>0, <2>1, <2>2 DEF V!BeginReplace, V!Replace, Safe
  <2> QED
    BY <2>3
<1>4. ASSUME NEW data \in Image, RetrieveWrite(data)
      PROVE  V!Replace
  BY <1>0, <1>4 DEF RetrieveWrite, Safe, V!Replace
<1>5. CASE RetrieveWriteFails
  BY <1>0, <1>5 DEF RetrieveWriteFails, Safe, V!Replace
<1>6. CASE ReOpenDB
  BY <1>0, <1>6 DEF ReOpenDB, Safe, V!Replace
<1>7. CASE Kill
  <2>1. CASE Safe
    <3>1. Saved' = Saved /\ Safe' = Safe
      BY <1>7, <2>1 DEF Kill, Saved, Safe
    <3> QED
      BY <3>1
  <2>2. CASE ~Safe
    BY <1>0, <2>2 DEF Safe, V!Replace
  <2> QED
    BY <2>1, <2>2
<1>8. CASE UNCHANGED dmVars
  BY <1>8 DEF dmVars, Saved, Safe
<1> QED
  BY <1>1, <1>2, <1>3, <1>4, <1>5, <1>6, <1>7, <1>8 DEF Next, Restore

\* The store implements the vault: what was saved survives the end of the
\* process, unless a restore has removed the file (PPDataManager.m:81-142).
THEOREM StoreImplementsVault == Spec => ImplementsVault
<1>1. Init => V!Init
  BY DEF Init, V!Init, Saved, Safe, Blank, V!Empty
<1>2. IInv /\ [Next]_dmVars => [V!Next]_(V!vaultVars)
  BY StepImplementsVault
<1> QED
  BY <1>1, <1>2, Inductive, PTL DEF Spec, ImplementsVault, V!Spec

-----------------------------------------------------------------------------
(* What the program reads, for the proofs about its screens.               *)

TablesRead == \A t \in Tables : GetAll(t) \in [Ids -> Values \cup {NoRow}]

\* A read answers a row or none for each id, before a step and after it.
LEMMA ReadsTable ==
  IInv => TablesRead
<1> SUFFICES ASSUME IInv, NEW t \in Tables
             PROVE  GetAll(t) \in [Ids -> Values \cup {NoRow}]
  BY DEF TablesRead
<1>1. Db \in Image /\ Blank \in Image
  BY DbImage, BlankImage
<1> QED
  BY <1>1 DEF GetAll, Image

LEMMA ReadsTableNext ==
  IInv' => TablesRead'
  BY ReadsTable, PTL

\* A restore shows the old records until it opens the new file.
LEMMA RestoreShowsOld ==
  ASSUME IInv, RetrieveRemove \/ RetrieveWriteFails \/ \E data \in Image : RetrieveWrite(data)
  PROVE  \A t \in Tables : GetAll(t)' = GetAll(t)
<1>1. CASE RetrieveRemove
  BY <1>1 DEF RetrieveRemove, GetAll, Db, IInv, TypeOK
<1>2. CASE RetrieveWriteFails
  BY <1>2 DEF RetrieveWriteFails, GetAll, Db
<1>3. CASE \E data \in Image : RetrieveWrite(data)
  BY <1>3 DEF RetrieveWrite, GetAll, Db, IInv, ConnectionOnFile
<1> QED
  BY <1>1, <1>2, <1>3

\* The end of the process shows nothing.
LEMMA KillShowsNothing ==
  ASSUME Kill, NEW t \in Tables
  PROVE  GetAll(t)' = [i \in Ids |-> NoRow]
  BY DEF Kill, GetAll, Db, Blank

\* An acknowledged statement is what is read from then on.
LEMMA AcknowledgedIsRead ==
  ASSUME IInv, NEW t \in Tables, NEW img \in Image, ExecuteUpdate(t, img), t \in img.made
  PROVE  GetAll(t) = Db.rows[t] /\ GetAll(t)' = img.rows[t]
<1>1. Db' = img /\ t \in Db.made
  BY StatementDb DEF ExecuteUpdate
<1> QED
  BY <1>1 DEF GetAll

\* UPDATE changes one row, if there is one.
LEMMA UpdateIsRead ==
  ASSUME IInv, NEW t \in Tables, NEW i \in Ids, NEW v \in Values, UpdateRow(t, i, v)
  PROVE  GetAll(t)' = IF GetAll(t)[i] = NoRow THEN GetAll(t)
                                             ELSE [GetAll(t) EXCEPT ![i] = v]
<1> DEFINE img == IF Db.rows[t][i] = NoRow THEN Db ELSE [Db EXCEPT !.rows[t][i] = v]
<1>1. Db \in Image /\ WellFormed(Db) /\ t \in Db.made
  BY DbImage DEF UpdateRow, ExecuteUpdate
<1>2. ExecuteUpdate(t, img)
  BY DEF UpdateRow
<1>3. /\ img \in Image /\ t \in img.made
      /\ img.rows[t] = IF Db.rows[t][i] = NoRow THEN Db.rows[t] ELSE [Db.rows[t] EXCEPT ![i] = v]
  BY <1>1 DEF Image
<1> HIDE DEF img
<1>4. GetAll(t) = Db.rows[t] /\ GetAll(t)' = img.rows[t]
  BY <1>2, <1>3, AcknowledgedIsRead
<1> QED
  BY <1>3, <1>4

\* INSERT fills one row that was free.
LEMMA InsertIsRead ==
  ASSUME IInv, NEW t \in Tables, NEW v \in Values, InsertRow(t, v)
  PROVE  \E i \in Ids : GetAll(t)[i] = NoRow /\ GetAll(t)' = [GetAll(t) EXCEPT ![i] = v]
<1> DEFINE i == Db.seq[t] + 1
           img == [Db EXCEPT !.seq[t] = @ + 1, !.rows[t][Db.seq[t] + 1] = v]
<1>1. /\ Db \in Image /\ WellFormed(Db) /\ t \in Db.made
      /\ Db.seq[t] < Limit[t] /\ ExecuteUpdate(t, img)
  BY DbImage DEF InsertRow, ExecuteUpdate
<1>2. i \in Ids /\ i > Db.seq[t]
  BY <1>1, BoundAssumption DEF Image, Ids
<1>3. Db.rows[t][i] = NoRow
  BY <1>1, <1>2 DEF WellFormed
<1>4. img \in Image
  BY <1>1, InsertImage
<1>5. t \in img.made /\ img.rows[t] = [Db.rows[t] EXCEPT ![i] = v]
  BY <1>1, <1>2 DEF Image
<1> HIDE DEF img
<1>6. GetAll(t) = Db.rows[t] /\ GetAll(t)' = img.rows[t]
  BY <1>1, <1>4, <1>5, AcknowledgedIsRead
<1> QED
  BY <1>2, <1>3, <1>5, <1>6
=============================================================================

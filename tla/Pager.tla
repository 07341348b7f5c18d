-------------------------------- MODULE Pager --------------------------------
(***************************************************************************)
(* The pager of the SQLite that the program links (WCDBOptimizedSQLCipher, *)
(* src/pager.c), on which every statement of the record store rests: one   *)
(* connection, rollback journal, journal_mode=DELETE, synchronous=FULL,    *)
(* which is what FMDB gets when, as here, it sets no pragma.               *)
(*                                                                         *)
(* A transaction is run page by page.  The original of a page is written   *)
(* to the journal before the page is changed in the cache; the journal is  *)
(* synced before the database file is written; the database file is synced *)
(* before the journal is deleted; and the deletion of the journal is the   *)
(* commit.  A journal left behind with a written header is hot: the next   *)
(* reader plays it back.                                                   *)
(*                                                                         *)
(* The pages of a file that hold nothing, the leaves of the free list, are *)
(* excepted: one that was a leaf when the transaction began may be         *)
(* overwritten without an original, and one that is a leaf when it ends    *)
(* need not be written (pager.c:40-50).  What is promised of the file is   *)
(* therefore its content up to the leaves (pager.c:79-88, rule 7).         *)
(*                                                                         *)
(* The process may end between any two calls of the operating system, the  *)
(* power may fail there, and every call may fail.  A file has what the     *)
(* operating system shows of it (db, journal) and what a loss of power may *)
(* leave of it (dbMay, journalMay): any subset of the unsynced pages, each *)
(* old, new or torn; an unsynced header or none; a deleted journal back.   *)
(***************************************************************************)
EXTENDS Naturals

CONSTANTS
    MaxPage,  \* bound: the most pages the file has
    Data,     \* what a transaction writes to a page
    None,     \* no page here, or none in the cache
    Torn,     \* a page of which a part was written, or nothing: zeros
    Unused,   \* what a leaf of the free list holds, as far as it matters
    Leaves    \* of an image, the leaves of its free list

ASSUME PageAssumption == MaxPage \in Nat \ {0}
ASSUME DataAssumption ==
    /\ Data \cap {Torn, None, Unused} = {}
    /\ None # Torn /\ Unused \notin {Torn, None}

Page  == 1 .. MaxPage
Image == [Page -> Data \cup {Torn, None}]
Blank == [p \in Page |-> None]

\* The free list is kept by the B-tree layer, in pages that are not leaves: an
\* image that differs from another in the leaves alone has the same leaves.
ASSUME LeavesAssumption ==
    /\ Leaves \in [Image -> SUBSET Page]
    /\ \A a \in Image : \A p \in Leaves[a] : a[p] # None
    /\ \A a, b \in Image :
          (\A p \in Page : IF p \in Leaves[a] THEN b[p] # None ELSE b[p] = a[p])
             => Leaves[b] = Leaves[a]

\* What a file holds, to which the leaves add nothing (logical equivalence).
Content(img) == [p \in Page |-> IF p \in Leaves[img] THEN Unused ELSE img[p]]

(***************************************************************************)
(* A journal, as a reader that finds it sees it: hot when its first header *)
(* has been written, the size the database had, and the records the        *)
(* headers count.  Cold is a journal without header, or no journal: there  *)
(* is nothing to play back, and the next transaction starts it afresh.     *)
(***************************************************************************)
Journal == [hot : BOOLEAN, orig : 0 .. MaxPage, recs : Image]
Cold    == [hot |-> FALSE, orig |-> 0, recs |-> Blank]

VARIABLES
    db,          \* the database file, page by page
    dbMay,       \* per page, what a loss of power may leave
    journal,     \* the journal file
    journalMay,  \* the journals a loss of power may leave
    previous,    \* history: the content before the last commit
    eState,      \* Pager.eState, or NONE when there is no process
    cache,       \* the page cache
    dirty,       \* the pages of the cache that differ from the file
    dbSize,      \* Pager.dbSize: pages in the database, as the connection sees it
    orig,        \* Pager.dbOrigSize: pages when the transaction began
    recs,        \* the records written to the journal in this transaction
    synced,      \* the pages whose record lies below Pager.journalHdr
    unjournaled, \* the pages set in Pager.pInJournal without a record
    dontWrite,   \* the pages with PGHDR_DONT_WRITE, and what it kept unwritten
    phase,       \* the next call of the operating system
    spilling,    \* it is made by pagerStress, not by a commit
    list         \* the pages it has still to write

files  == <<db, dbMay, journal, journalMay, previous>>
connection == <<eState, cache, dirty, dbSize, orig, recs, synced, unjournaled,
                dontWrite, phase, spilling, list>>
pagerVars == <<files, connection>>

\* What a reader that finds page p holding c beside the journal j reads.
Recovered(c, j, p) ==
    IF ~j.hot THEN c
    ELSE IF p > j.orig THEN None
    ELSE IF j.recs[p] = None THEN c
    ELSE j.recs[p]

\* What is saved: what the next process reads.
Saved == Content([p \in Page |-> Recovered(db[p], journal, p)])

\* What this connection reads; beyond the end of the file that is zeros.
View == [p \in Page |-> IF p > dbSize THEN None
                        ELSE IF cache[p] # None THEN cache[p]
                        ELSE IF db[p] = None THEN Torn
                        ELSE db[p]]

\* A file whose pages are img ends with page n,
EndsAt(img, n) == /\ n > 0 => img[n] # None
                  /\ \A p \in Page : p > n => img[p] = None

\* which is what pagerPagecount answers.
PageCount(img) == CHOOSE n \in 0 .. MaxPage : EndsAt(img, n)

\* A volume on which no write waits for a sync.
Settled(img) == [p \in Page |-> {img[p]}]

\* The connection between two calls, holding no transaction.
AtRest(state) ==
    /\ eState' = state
    /\ dirty' = {}
    /\ recs' = Blank
    /\ synced' = {}
    /\ unjournaled' = {} /\ dontWrite' = {}
    /\ phase' = "none"
    /\ spilling' = FALSE
    /\ list' = {}

Reset == cache' = Blank /\ dbSize' = 0 /\ orig' = 0

\* unixDelete: the directory is not synced, and a loss of power may bring the
\* journal back.
DeleteJournal ==
    /\ journal' = Cold
    /\ journalMay' = journalMay \cup {Cold}

\* unixSync of the journal, and of the directory it is in.  (A directory that
\* cannot be opened or synced is passed over; here the entry is durable.)
SyncJournal == journalMay' = {journal}

-----------------------------------------------------------------------------
(* Reading.                                                                *)

\* sqlite3PagerOpen: a connection that has read nothing.
Open ==
    /\ eState = "NONE"
    /\ AtRest("OPEN") /\ Reset
    /\ UNCHANGED files

(***************************************************************************)
(* sqlite3PagerSharedLock and hasHotJournal.  A journal beside a file of   *)
(* no pages is deleted, if it can be; one without header is ignored; a hot *)
(* one is played back before anything is read.                             *)
(***************************************************************************)
SharedLock ==
    /\ eState = "OPEN" /\ phase = "none"
    /\ \/ /\ journal.hot /\ db # Blank
          /\ phase' = "SyncHot"
          /\ UNCHANGED <<files, eState, cache, dirty, dbSize, orig, recs, synced,
                         unjournaled, dontWrite, spilling, list>>
       \/ /\ ~journal.hot \/ db = Blank
          /\ AtRest("READER")
          /\ dbSize' = PageCount(db)
          /\ \/ db = Blank /\ DeleteJournal
             \/ UNCHANGED <<journal, journalMay>>
          /\ UNCHANGED <<db, dbMay, previous, cache, orig>>

Reading == eState \in {"READER", "WRITER_LOCKED", "WRITER_CACHEMOD", "WRITER_DBMOD"}
           /\ phase = "none"

\* sqlite3PagerGet: a page that is not in the cache is read into it.  (A page
\* that is got to be overwritten is not read: see Overwrite.)
Get(p) ==
    /\ Reading
    /\ p <= dbSize /\ cache[p] = None
    /\ cache' = [cache EXCEPT ![p] = View[p]]
    /\ UNCHANGED <<files, eState, dirty, dbSize, orig, recs, synced, unjournaled,
                   dontWrite, phase, spilling, list>>

\* The cache gives up a clean page.
Recycle(p) ==
    /\ Reading
    /\ p \notin dirty /\ cache[p] # None
    /\ cache' = [cache EXCEPT ![p] = None]
    /\ UNCHANGED <<files, eState, dirty, dbSize, orig, recs, synced, unjournaled,
                   dontWrite, phase, spilling, list>>

(***************************************************************************)
(* pagerUnlockIfUnused: the last page reference is given back.  Out of the *)
(* ERROR state the cache is discarded, and a journal that is still there   *)
(* is left to the next SharedLock.                                         *)
(***************************************************************************)
Unlock ==
    /\ eState \in {"READER", "ERROR"}
    /\ AtRest("OPEN")
    /\ IF eState = "ERROR" THEN Reset ELSE UNCHANGED <<cache, dbSize, orig>>
    /\ UNCHANGED files

-----------------------------------------------------------------------------
(* A write transaction.                                                    *)

\* sqlite3PagerBegin.
Begin ==
    /\ eState = "READER"
    /\ eState' = "WRITER_LOCKED"
    /\ orig' = dbSize
    /\ UNCHANGED <<files, cache, dirty, dbSize, recs, synced, unjournaled,
                   dontWrite, phase, spilling, list>>

Writing == eState \in {"WRITER_LOCKED", "WRITER_CACHEMOD", "WRITER_DBMOD"}
           /\ phase = "none"

\* A page is changed in the cache; sqlite3PcacheMakeDirty takes DONT_WRITE back.
PutInCache(p, v) ==
    /\ cache' = [cache EXCEPT ![p] = v]
    /\ dirty' = dirty \cup {p}
    /\ dontWrite' = dontWrite \ {p}

\* Mutant: every page that is written is counted as an added one.
Write_CountsAll(p, v) ==
    /\ Writing
    /\ p <= dbSize + 1
    /\ eState' = IF eState = "WRITER_LOCKED" THEN "WRITER_CACHEMOD" ELSE eState
    /\ IF eState = "WRITER_LOCKED" THEN DeleteJournal ELSE UNCHANGED <<journal, journalMay>>
    /\ recs' = IF p <= orig /\ recs[p] = None /\ p \notin unjournaled
                 THEN [recs EXCEPT ![p] = View[p]] ELSE recs
    /\ PutInCache(p, v)
    /\ dbSize' = dbSize + 1
    /\ UNCHANGED <<db, dbMay, previous, orig, synced, unjournaled, phase,
                   spilling, list>>

(***************************************************************************)
(* pager_write.  The first one of a transaction opens the journal and      *)
(* writes a header of zeroes (pager_open_journal).  The original of a page *)
(* goes to the journal once, before the page is changed; pages are added   *)
(* one at a time.                                                          *)
(***************************************************************************)
Write(p, v) ==
    /\ Writing
    /\ p <= dbSize + 1
    /\ eState' = IF eState = "WRITER_LOCKED" THEN "WRITER_CACHEMOD" ELSE eState
    /\ IF eState = "WRITER_LOCKED" THEN DeleteJournal ELSE UNCHANGED <<journal, journalMay>>
    /\ recs' = IF p <= orig /\ recs[p] = None /\ p \notin unjournaled
                 THEN [recs EXCEPT ![p] = View[p]] ELSE recs
    /\ PutInCache(p, v)
    /\ dbSize' = IF p > dbSize THEN p ELSE dbSize
    /\ UNCHANGED <<db, dbMay, previous, orig, synced, unjournaled, phase,
                   spilling, list>>

\* Mutant: a page is taken for one that held nothing (btreeGetHasContent).
Overwrite_AnyPage(p, v) ==
    /\ Writing /\ eState # "WRITER_LOCKED"
    /\ p <= orig
    /\ recs[p] = None /\ p \notin unjournaled
    /\ unjournaled' = unjournaled \cup {p}
    /\ PutInCache(p, v)
    /\ UNCHANGED <<files, eState, dbSize, orig, recs, synced, phase, spilling, list>>

(***************************************************************************)
(* sqlite3PagerGet for a page whose content is not wanted, and pager_write *)
(* of it: the B-tree takes a page from the free list (allocateBtreePage),  *)
(* whose trunk it has written.  A page that was a leaf when the            *)
(* transaction began is marked as journaled and gets no record.            *)
(***************************************************************************)
Overwrite(p, v) ==
    /\ Writing /\ eState # "WRITER_LOCKED"
    /\ Saved[p] = Unused
    /\ recs[p] = None /\ p \notin unjournaled
    /\ unjournaled' = unjournaled \cup {p}
    /\ PutInCache(p, v)
    /\ UNCHANGED <<files, eState, dbSize, orig, recs, synced, phase, spilling, list>>

\* sqlite3PagerDontWrite: the B-tree has put a dirty page on the free list.
DontWrite(p) ==
    /\ Writing
    /\ p \in dirty /\ p \in Leaves[View] \ dontWrite
    /\ dontWrite' = dontWrite \cup {p}
    /\ UNCHANGED <<files, eState, cache, dirty, dbSize, orig, recs, synced,
                   unjournaled, phase, spilling, list>>

\* A page waits for a sync of the journal (PGHDR_NEED_SYNC): its record is
\* not synced, or the journal has not been synced in this transaction.
NeedSync(p) == eState = "WRITER_CACHEMOD" \/ (recs[p] # None /\ p \notin synced)

\* pagerStress: a full cache writes a dirty page to the file.
Spill(p) ==
    /\ Writing
    /\ p \in dirty
    /\ phase' = IF NeedSync(p) THEN "SyncRecords" ELSE "WritePages"
    /\ spilling' = TRUE
    /\ list' = {p}
    /\ UNCHANGED <<files, eState, cache, dirty, dbSize, orig, recs, synced,
                   unjournaled, dontWrite>>

\* What the B-tree promises: a page that is not to be written is a leaf, unless
\* it has been written again; a page that is a leaf no more has been written.
FreeListKept ==
    /\ dontWrite \subseteq Leaves[View]
    /\ \A p \in Page \ Leaves[View] :
          Saved[p] = Unused => recs[p] # None \/ p \in unjournaled

(***************************************************************************)
(* sqlite3PagerCommitPhaseOne.  pager_incr_changecounter has written page  *)
(* 1, which is the Write(1, v) its guard asks for.  A transaction that     *)
(* changed nothing ends at once.                                           *)
(***************************************************************************)
Commit ==
    /\ Writing
    /\ \/ /\ eState = "WRITER_LOCKED"
          /\ AtRest("READER")
          /\ UNCHANGED <<files, cache, dbSize, orig>>
       \/ /\ eState # "WRITER_LOCKED"
          /\ orig = 0 \/ recs[1] # None
          /\ FreeListKept
          /\ phase' = "SyncRecords"
          /\ spilling' = FALSE
          /\ list' = dirty
          /\ UNCHANGED <<files, eState, cache, dirty, dbSize, orig, recs, synced,
                         unjournaled, dontWrite>>

Step(now, next) == phase = now /\ phase' = next

\* syncJournal: the records first, so that no header counts a lost one.
SyncRecords ==
    /\ Step("SyncRecords", "WriteHeader")
    /\ SyncJournal
    /\ UNCHANGED <<db, dbMay, journal, previous, eState, cache, dirty, dbSize,
                   orig, recs, synced, unjournaled, dontWrite, spilling, list>>

\* The header that counts the records, with the size of the database.
PutHeader ==
    /\ journal' = [hot |-> TRUE, orig |-> orig, recs |-> recs]
    /\ journalMay' = journalMay \cup {journal'}

WriteHeader ==
    /\ Step("WriteHeader", "SyncHeader")
    /\ PutHeader
    /\ UNCHANGED <<db, dbMay, previous, eState, cache, dirty, dbSize, orig, recs,
                   synced, unjournaled, dontWrite, spilling, list>>

SyncHeader ==
    /\ Step("SyncHeader", "WritePages")
    /\ SyncJournal
    /\ eState' = "WRITER_DBMOD"
    /\ synced' = {p \in Page : recs[p] # None}
    /\ UNCHANGED <<db, dbMay, journal, previous, cache, dirty, dbSize, orig,
                   recs, unjournaled, dontWrite, spilling, list>>

\* A page of the file is overwritten; it may be torn until it is synced.
Put(p, v) ==
    /\ db' = [db EXCEPT ![p] = v]
    /\ dbMay' = [dbMay EXCEPT ![p] = @ \cup {v, Torn}]

\* pager_write_pagelist, one page at a time, but for those with DONT_WRITE.  A
\* spill is over with its page.
WritePage(p) ==
    /\ phase = "WritePages"
    /\ p \in list
    /\ IF p \in dontWrite THEN UNCHANGED <<db, dbMay>> ELSE Put(p, cache[p])
    /\ list' = list \ {p}
    /\ phase' = IF spilling THEN "none" ELSE phase
    /\ dirty' = IF spilling THEN dirty \ {p} ELSE dirty
    /\ spilling' = FALSE
    /\ UNCHANGED <<journal, journalMay, previous, eState, cache, dbSize, orig,
                   recs, synced, unjournaled, dontWrite>>

\* The pages of the database that the file has not got: leaves that were not
\* written, at its end or, where the system reads zeros, before it.
Missing == {p \in 1 .. dbSize : db[p] = None}

\* pager_truncate, by which the file grows to the size of the database.
Grow ==
    /\ db' = [p \in Page |-> IF p \in Missing THEN Torn ELSE db[p]]
    /\ dbMay' = [p \in Page |-> IF p \in Missing THEN dbMay[p] \cup {Torn} ELSE dbMay[p]]

GrowFile ==
    /\ phase = "WritePages" /\ ~spilling
    /\ list = {} /\ Missing # {}
    /\ Grow
    /\ UNCHANGED <<journal, journalMay, previous, connection>>

\* Mutant: the file is not synced (noSync).
SyncFile_NoSync ==
    /\ Step("WritePages", "EndCommit")
    /\ list = {} /\ Missing = {}
    /\ eState' = "WRITER_FINISHED"
    /\ UNCHANGED <<db, dbMay, journal, journalMay, previous, cache, dirty,
                   dbSize, orig, recs, synced, unjournaled, dontWrite, spilling,
                   list>>

\* sqlite3PagerSync, at the end of CommitPhaseOne.
SyncFile ==
    /\ Step("WritePages", "EndCommit")
    /\ list = {} /\ Missing = {}
    /\ dbMay' = Settled(db)
    /\ eState' = "WRITER_FINISHED"
    /\ UNCHANGED <<db, journal, journalMay, previous, cache, dirty, dbSize, orig,
                   recs, synced, unjournaled, dontWrite, spilling, list>>

\* sqlite3PagerCommitPhaseTwo: the deletion of the journal is the commit.
EndCommit ==
    /\ phase = "EndCommit"
    /\ DeleteJournal
    /\ previous' = Saved
    /\ AtRest("READER")
    /\ UNCHANGED <<db, dbMay, cache, dbSize, orig>>

-----------------------------------------------------------------------------
(* Rolling back.                                                           *)

\* sqlite3PagerRollback, from state e.  What the file has not seen is undone
\* in the cache alone; a journal that was never opened needs no deletion.
StartRollback(e) ==
    /\ phase' = IF e = "WRITER_CACHEMOD" THEN "EndRollback" ELSE "Truncate"
    /\ spilling' = FALSE
    /\ list' = IF e = "WRITER_CACHEMOD" THEN {} ELSE synced

\* A statement fails: a constraint, or a page that cannot be journaled.
Rollback ==
    /\ Writing
    /\ \/ /\ eState = "WRITER_LOCKED"
          /\ AtRest("READER")
          /\ UNCHANGED <<files, cache, dbSize, orig>>
       \/ /\ eState # "WRITER_LOCKED"
          /\ StartRollback(eState)
          /\ UNCHANGED <<files, eState, cache, dirty, dbSize, orig, recs, synced,
                         unjournaled, dontWrite>>

\* Mutant: a hot journal is played back as it was found.
SyncHot_Skipped ==
    /\ Step("SyncHot", "Truncate")
    /\ list' = {p \in Page : journal.recs[p] # None}
    /\ UNCHANGED <<files, eState, cache, dirty, dbSize, orig, recs, synced,
                   unjournaled, dontWrite, spilling>>

\* pagerSyncHotJournal: the process that left the journal may not have.
SyncHot ==
    /\ Step("SyncHot", "Truncate")
    /\ SyncJournal
    /\ list' = {p \in Page : journal.recs[p] # None}
    /\ UNCHANGED <<db, dbMay, journal, previous, eState, cache, dirty, dbSize,
                   orig, recs, synced, unjournaled, dontWrite, spilling>>

\* pager_playback gives the file back its size,
Truncate ==
    /\ Step("Truncate", "Playback")
    /\ db' = [p \in Page |-> IF p > journal.orig THEN None ELSE db[p]]
    /\ dbMay' = [p \in Page |-> IF p > journal.orig THEN dbMay[p] \cup {None}
                                                    ELSE dbMay[p]]
    /\ UNCHANGED <<journal, journalMay, previous, eState, cache, dirty, dbSize,
                   orig, recs, synced, unjournaled, dontWrite, spilling, list>>

\* writes back the pages whose record is synced,
PlaybackPage(p) ==
    /\ phase = "Playback"
    /\ p \in list
    /\ Put(p, journal.recs[p])
    /\ list' = list \ {p}
    /\ UNCHANGED <<journal, journalMay, previous, eState, cache, dirty, dbSize,
                   orig, recs, synced, unjournaled, dontWrite, phase, spilling>>

\* syncs the file,
SyncPlayback ==
    /\ Step("Playback", "EndRollback")
    /\ list = {}
    /\ dbMay' = Settled(db)
    /\ UNCHANGED <<db, journal, journalMay, previous, eState, cache, dirty,
                   dbSize, orig, recs, synced, unjournaled, dontWrite, spilling,
                   list>>

\* The cache after a rollback: the pages that were there, as they were.
RolledBack == [p \in Page |-> IF p > orig \/ cache[p] = None THEN None
                              ELSE IF recs[p] # None THEN recs[p]
                              ELSE cache[p]]

\* Mutant: the pages of the cache are left as the statement made them.
EndRollback_KeepsCache ==
    /\ phase = "EndRollback"
    /\ DeleteJournal
    /\ AtRest("READER")
    /\ dbSize' = IF eState = "OPEN" THEN PageCount(db) ELSE orig
    /\ UNCHANGED <<db, dbMay, previous, cache, orig>>

\* and deletes the journal.  A hot journal leaves an empty cache.
EndRollback ==
    /\ phase = "EndRollback"
    /\ DeleteJournal
    /\ AtRest("READER")
    /\ IF eState = "OPEN"
         THEN cache' = Blank /\ dbSize' = PageCount(db)
         ELSE cache' = RolledBack /\ dbSize' = orig
    /\ UNCHANGED <<db, dbMay, previous, orig>>

-----------------------------------------------------------------------------
(* What goes wrong.                                                        *)

\* What a call that fails may have done all the same.
Partial ==
    \/ UNCHANGED files
    \/ phase = "WriteHeader" /\ PutHeader /\ UNCHANGED <<db, dbMay, previous>>
    \/ /\ \/ phase = "WritePages" /\ \E p \in list \ dontWrite : Put(p, Torn)
          \/ phase = "WritePages" /\ ~spilling /\ list = {} /\ Grow
          \/ phase = "Playback" /\ \E p \in list : Put(p, Torn)
       /\ UNCHANGED <<journal, journalMay, previous>>

\* Before the end of CommitPhaseOne the transaction is rolled back.
CommitFails ==
    /\ phase \in {"SyncRecords", "WriteHeader", "SyncHeader", "WritePages"}
    /\ ~spilling
    /\ Partial
    /\ StartRollback(eState)
    /\ UNCHANGED <<eState, cache, dirty, dbSize, orig, recs, synced, unjournaled,
                   dontWrite>>

\* pager_error: after a spill, the deletion of the journal or a step of a
\* rollback that fails the cache cannot be trusted.
EntersError ==
    /\ \/ spilling
       \/ phase \in {"EndCommit", "Truncate", "Playback", "EndRollback"} /\ eState # "OPEN"
    /\ Partial
    /\ AtRest("ERROR")
    /\ UNCHANGED <<cache, dbSize, orig>>

\* A hot journal that cannot be played back stays; nothing is read.
RecoveryFails ==
    /\ phase # "none" /\ eState = "OPEN"
    /\ Partial
    /\ AtRest("OPEN") /\ Reset

\* The process ends: what it handed to the operating system is there.
Kill ==
    /\ eState # "NONE"
    /\ AtRest("NONE") /\ Reset
    /\ UNCHANGED files

\* The power fails: what was not synced is there or not.  A page below the
\* last one is in the file, whatever it holds.
PowerLoss ==
    /\ \E img \in Image, n \in 0 .. MaxPage :
          /\ \A p \in Page : img[p] \in dbMay[p]
          /\ EndsAt(img, n)
          /\ db' = [p \in Page |-> IF p <= n /\ img[p] = None THEN Torn ELSE img[p]]
    /\ dbMay' = Settled(db')
    /\ journal' \in journalMay
    /\ journalMay' = {journal'}
    /\ previous' = Saved'
    /\ AtRest("NONE") /\ Reset

-----------------------------------------------------------------------------
Init ==
    /\ db = Blank
    /\ dbMay = Settled(Blank)
    /\ journal = Cold
    /\ journalMay = {Cold}
    /\ previous = Blank
    /\ eState = "NONE"
    /\ cache = Blank
    /\ dirty = {}
    /\ dbSize = 0
    /\ orig = 0
    /\ recs = Blank
    /\ synced = {}
    /\ unjournaled = {}
    /\ dontWrite = {}
    /\ phase = "none"
    /\ spilling = FALSE
    /\ list = {}

Read == Open \/ SharedLock \/ Unlock \/ \E p \in Page : Get(p) \/ Recycle(p)

Transact ==
    \/ Begin \/ Commit \/ Rollback
    \/ \E p \in Page : \/ Spill(p) \/ DontWrite(p)
                      \/ \E v \in Data : Write(p, v) \/ Overwrite(p, v)

Synchronise ==
    \/ SyncRecords \/ WriteHeader \/ SyncHeader
    \/ \E p \in Page : WritePage(p)
    \/ GrowFile \/ SyncFile \/ EndCommit

PlayBack ==
    \/ SyncHot \/ Truncate
    \/ \E p \in Page : PlaybackPage(p)
    \/ SyncPlayback \/ EndRollback

Fault == CommitFails \/ EntersError \/ RecoveryFails \/ Kill \/ PowerLoss

Next == Read \/ Transact \/ Synchronise \/ PlayBack \/ Fault

Spec == Init /\ [][Next]_pagerVars

-----------------------------------------------------------------------------
(***************************************************************************)
(* Properties.                                                             *)
(***************************************************************************)

TypeOK ==
    /\ db \in Image
    /\ dbMay \in [Page -> SUBSET (Data \cup {Torn, None})]
    /\ journal \in Journal
    /\ journalMay \in SUBSET Journal
    /\ previous \in [Page -> Data \cup {Torn, None, Unused}]
    /\ eState \in {"NONE", "OPEN", "READER", "WRITER_LOCKED", "WRITER_CACHEMOD",
                   "WRITER_DBMOD", "WRITER_FINISHED", "ERROR"}
    /\ cache \in Image
    /\ dirty \in SUBSET Page
    /\ dbSize \in 0 .. MaxPage
    /\ orig \in 0 .. MaxPage
    /\ recs \in Image
    /\ synced \in SUBSET Page
    /\ unjournaled \in SUBSET Page
    /\ dontWrite \in SUBSET Page
    /\ phase \in {"none", "SyncRecords", "WriteHeader", "SyncHeader", "WritePages",
                  "EndCommit", "SyncHot", "Truncate", "Playback", "EndRollback"}
    /\ spilling \in BOOLEAN
    /\ list \in SUBSET Page

\* Page content c is what is saved, s, or stands where a leaf does.
Fits(c, s) == c = s \/ (s = Unused /\ c # None)

\* A page of the file that may differ from what is saved, now or after a loss
\* of power, and was no leaf, has its original in every journal a loss of power
\* may leave, once a transaction has committed (pager.c:40-63, rules 1 and 2).
WriteAhead ==
    Saved # Blank => \A p \in Page :
        (\E c \in dbMay[p] \cup {db[p]} : ~Fits(c, Saved[p])) =>
            \A j \in journalMay : \A c \in dbMay[p] \cup {db[p]} :
                Fits(Recovered(c, j, p), Saved[p])

\* A connection that is about to read or write on reads what is saved, also
\* after a failed statement whose pages it has in its cache (pager.c:2212 on,
\* the cache in pager_playback_one_page, and pager_unlock).
ReaderSeesSaved ==
    eState \in {"READER", "WRITER_LOCKED"} => Content(View) = Saved

A == INSTANCE AtomicFile WITH saved <- Saved, Data <- Data \cup {Unused}

\* The file changes by whole transactions, whatever fails and wherever the
\* process or the power ends, and a loss of power costs the last one at most
\* (pager.c:1958-2085: the journal is deleted, not synced away).
ImplementsAtomicFile == A!Spec

\* "All writes to the database file are synced prior to the rollback journal
\* being deleted" (pager.c:73-74, rule 5).  The code keeps its rule but for a
\* file of no pages, whose journal hasHotJournal deletes although the truncation
\* may wait for its sync (pager.c:4955-4970).
SyncedBeforeDeletion ==
    [][journal.hot /\ ~journal'.hot /\ db # Blank /\ eState' # "NONE"
          => dbMay = Settled(db)]_pagerVars
=============================================================================

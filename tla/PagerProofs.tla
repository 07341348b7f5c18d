----------------------------- MODULE PagerProofs -----------------------------
(***************************************************************************)
(* What Pager guarantees for every number of pages and every content.      *)
(*                                                                         *)
(* The argument is one inductive invariant.  FileInv is about the files    *)
(* alone: whatever a loss of power leaves of them is recovered to what is  *)
(* saved, or to what was before the last commit while nothing has been     *)
(* written since.  ConnInv is about the connection: which pages have their *)
(* original in the synced journal, and what the cache holds, in each state *)
(* and before each call.  The files change only by a handful of calls, and *)
(* one lemma for each says when it keeps FileInv and what is saved.        *)
(*                                                                         *)
(* What is saved says nothing of the leaves of the free list.  A file, a   *)
(* record or a page of the cache therefore matches it where it says        *)
(* something, and is a page at all where it does not; MatchContent says    *)
(* that an image that matches a content amounts to it.                     *)
(***************************************************************************)
EXTENDS Pager, TLAPS

\* The image img is cont, up to what stands where cont has a leaf.
Match(img, cont) == \A p \in Page : Fits(img[p], cont[p])

\* What an image may amount to.
Contents == {Content(img) : img \in Image}

\* The size of an image is n.
Ends(img, n) == \A p \in Page : img[p] = None <=> p > n

\* The journal j gives back cont, whatever of the unsynced pages is lost.
RecoversTo(j, cont) ==
    /\ \A p \in Page : \A c \in dbMay[p] : Fits(Recovered(c, j, p), cont[p])
    /\ j.hot => Ends(cont, j.orig)

\* Nothing waits for a sync, and the file is what is saved.
Quiet == \A p \in Page : dbMay[p] = {db[p]} /\ Fits(db[p], Saved[p])

Sure == \A j \in journalMay : RecoversTo(j, Saved)

\* While a part of a transaction may be in the file every journal undoes it;
\* while none is, one may be left that undoes the last commit.
Protected ==
    \/ Sure
    \/ Quiet /\ \A j \in journalMay : RecoversTo(j, Saved) \/ RecoversTo(j, previous)

FileInv ==
    /\ \A p \in Page : db[p] \in dbMay[p]
    /\ journal \in journalMay
    /\ \A j \in journalMay : \A p \in Page :
          /\ j.recs[p] # None => p <= j.orig
          /\ j.hot /\ p <= j.orig => None \notin dbMay[p]
    /\ \A p \in Page : Saved[p] # None => None \notin dbMay[p]
    /\ previous \in Contents
    /\ \E n \in 0 .. MaxPage : Ends(Saved, n)
    /\ Saved = Blank => \A j \in journalMay : j.hot => j.orig = 0
    /\ Saved # Blank => Protected /\ (~journal.hot => Quiet)

\* The file is what is saved, and synced once a transaction has committed.
Still == Match(db, Saved) /\ (Saved # Blank => Quiet)

\* A page of the cache is what is saved.
CacheFits(p) == cache[p] = None \/ Fits(cache[p], Saved[p])

\* There is no transaction.
RestInv ==
    /\ eState \in {"NONE", "READER", "WRITER_LOCKED", "ERROR"} => phase = "none"
    /\ eState \in {"NONE", "OPEN", "READER", "WRITER_LOCKED", "ERROR"} =>
          /\ dirty = {} /\ recs = Blank /\ synced = {} /\ spilling = FALSE
          /\ unjournaled = {} /\ dontWrite = {}
    /\ eState \in {"READER", "WRITER_LOCKED"} =>
          /\ Still /\ Ends(db, dbSize)
          /\ \A p \in Page : CacheFits(p)
          /\ ~journal.hot \/ db = Blank
          /\ list = {}
    /\ eState = "WRITER_LOCKED" => orig = dbSize

\* A hot journal is played back.
HotInv ==
    eState = "OPEN" =>
        /\ phase \in {"none", "SyncHot", "Truncate", "Playback", "EndRollback"}
        /\ phase # "none" => journal.hot
        /\ cache = Blank \/ /\ phase = "none" /\ ~journal.hot
                            /\ \A p \in Page : CacheFits(p)
        /\ phase \in {"Truncate", "Playback", "EndRollback"} => journalMay = {journal}
        /\ phase = "Truncate" => list = {p \in Page : journal.recs[p] # None}
        /\ phase = "Playback" => \A p \in list : journal.recs[p] # None

Active == eState \in {"WRITER_CACHEMOD", "WRITER_DBMOD", "WRITER_FINISHED"}

\* Every page of the transaction has its original, or was a leaf.
OriginalsInv ==
    Active =>
        /\ Ends(Saved, orig) /\ dbSize > 0
        /\ \A p \in Page :
              /\ recs[p] # None => p <= orig /\ Fits(recs[p], Saved[p])
              /\ p <= orig /\ recs[p] = None /\ p \notin unjournaled =>
                    p \notin dirty /\ CacheFits(p)
              /\ p <= orig /\ p \notin synced => \A c \in dbMay[p] : Fits(c, Saved[p])
              /\ p \in unjournaled => Saved[p] = Unused
              /\ p \in synced => recs[p] # None
              /\ p \in dirty => cache[p] # None /\ p <= dbSize

\* The journal of the transaction.
JournalInv ==
    /\ eState = "WRITER_CACHEMOD" =>
          /\ phase \in {"none", "SyncRecords", "WriteHeader", "SyncHeader", "EndRollback"}
          /\ synced = {} /\ Still
    /\ eState = "WRITER_DBMOD" =>
          phase \in {"none", "SyncRecords", "WriteHeader", "SyncHeader", "WritePages",
                     "Truncate", "Playback", "EndRollback"}
    /\ eState = "WRITER_FINISHED" => phase = "EndCommit"
    /\ Active /\ phase = "SyncHeader" =>
          journal = [hot |-> TRUE, orig |-> orig, recs |-> recs]
    /\ eState \in {"WRITER_DBMOD", "WRITER_FINISHED"} => \A j \in journalMay :
          /\ j.hot /\ j.orig = orig
          /\ \A p \in Page : j.recs[p] \in {None, recs[p]}
          /\ \A p \in synced : j.recs[p] = recs[p]

Forward == Active /\ phase \in {"none", "SyncRecords", "WriteHeader", "SyncHeader",
                                "WritePages", "EndCommit"}

\* A leaf that the transaction has not touched: the cache may hold of it what a
\* transaction that was undone has written.
Idle(p) == Saved[p] = Unused /\ recs[p] = None /\ p \notin unjournaled

\* The file has page p as the connection has it, or need not have it.
InFile(p) == cache[p] \in {None, db[p]} \/ p \in dontWrite \/ Idle(p)

\* On the way to a commit, cache and file together are the transaction.
CommitInv ==
    Forward =>
        /\ \A p \in Page :
              /\ p \notin dirty => InFile(p)
              /\ p <= dbSize /\ p \notin dirty /\ p \notin dontWrite => db[p] # None
              /\ cache[p] # None \/ p \in dontWrite => p <= dbSize
              /\ p > dbSize => db[p] = None
        /\ list \subseteq dirty
        /\ spilling => phase # "none" /\ list # {} /\ \A p, q \in list : p = q
        /\ phase # "none" /\ ~spilling => FreeListKept
        /\ phase \in {"SyncRecords", "WriteHeader", "SyncHeader"} /\ ~spilling => list = dirty
        /\ phase = "WritePages" =>
              /\ \A p \in list : p > orig \/ p \in synced \/ p \in unjournaled
              /\ ~spilling => \A p \in dirty \ list : db[p] = cache[p] \/ p \in dontWrite
        /\ phase = "EndCommit" =>
              /\ \A p \in dirty : db[p] = cache[p] \/ p \in dontWrite
              /\ \A p \in Page : p <= dbSize => db[p] # None
              /\ dbMay = Settled(db) /\ ~spilling

\* On the way back, the pages that have been played back are as they were.
RollbackInv ==
    /\ Active /\ phase = "Truncate" => list = synced
    /\ Active /\ phase = "Playback" => list \subseteq synced
    /\ phase = "Playback" => \A p \in Page \ list : Fits(db[p], Saved[p])
    /\ phase = "EndRollback" => Still

ConnInv == RestInv /\ HotInv /\ OriginalsInv /\ JournalInv /\ CommitInv /\ RollbackInv

IInv == TypeOK /\ FileInv /\ ConnInv

-----------------------------------------------------------------------------
(* Contents.                                                               *)

\* Where a page fits there is one, and where there is none none is saved.
LEMMA FitsNone ==
  ASSUME NEW c, NEW s, Fits(c, s)
  PROVE  c = None <=> s = None
  BY DataAssumption DEF Fits

\* An image that matches a content has its pages.
LEMMA MatchEnds ==
  ASSUME NEW img, NEW cont, Match(img, cont), NEW n
  PROVE  Ends(img, n) <=> Ends(cont, n)
  BY FitsNone DEF Match, Ends

\* What a page of a content may be.
Cell == Data \cup {Torn, None}

\* An image matches what it amounts to.
LEMMA ContentMatches ==
  ASSUME NEW img \in Image
  PROVE  /\ Content(img) \in Contents
         /\ Content(img) \in [Page -> Cell \cup {Unused}]
         /\ Match(img, Content(img))
<1>1. \A p \in Leaves[img] : img[p] # None
  BY LeavesAssumption
<1>2. \A p \in Page : img[p] \in Cell
  BY DEF Image, Cell
<1>3. \A p \in Page : Content(img)[p] = IF p \in Leaves[img] THEN Unused ELSE img[p]
  BY DEF Content
<1>4. Match(img, Content(img))
  BY <1>1, <1>3 DEF Match, Fits
<1>5. Content(img) \in [Page -> Cell \cup {Unused}]
  BY <1>2 DEF Content
<1> QED
  BY <1>4, <1>5 DEF Contents

\* An image that matches a content amounts to it.
LEMMA MatchContent ==
  ASSUME NEW img \in Image, NEW cont \in Contents, Match(img, cont)
  PROVE  Content(img) = cont
<1>1. PICK old \in Image : cont = Content(old)
  BY DEF Contents
<1>2. \A p \in Page : old[p] # Unused
  BY DataAssumption DEF Image
<1>3. \A p \in Page : Content(old)[p] = IF p \in Leaves[old] THEN Unused ELSE old[p]
  BY DEF Content
<1>4. \A p \in Page : IF p \in Leaves[old] THEN img[p] # None ELSE img[p] = old[p]
  <2> SUFFICES ASSUME NEW p \in Page
               PROVE  IF p \in Leaves[old] THEN img[p] # None ELSE img[p] = old[p]
    OBVIOUS
  <2>1. Fits(img[p], Content(old)[p])
    BY <1>1 DEF Match
  <2>2. CASE p \in Leaves[old]
    <3>1. img[p] \in Cell
      BY DEF Image, Cell
    <3> QED
      BY <1>3, <2>1, <2>2, <3>1, DataAssumption DEF Fits, Cell
  <2>3. CASE p \notin Leaves[old]
    BY <1>2, <1>3, <2>1, <2>3 DEF Fits
  <2> QED
    BY <2>2, <2>3
<1>5. Leaves[img] = Leaves[old]
  BY <1>4, LeavesAssumption
<1> QED
  BY <1>1, <1>4, <1>5 DEF Content

-----------------------------------------------------------------------------
(* Steps of the files.                                                     *)

\* What a reader recovers, page by page.
Found == [p \in Page |-> Recovered(db[p], journal, p)]

\* What is saved is what it amounts to.
LEMMA SavedPages ==
  ASSUME TypeOK
  PROVE  /\ Found \in Image /\ \A p \in Page : Found[p] = Recovered(db[p], journal, p)
         /\ Saved = Content(Found)
         /\ Saved \in Contents /\ Saved \in [Page -> Cell \cup {Unused}]
         /\ Match(Found, Saved)
<1>1. Found \in Image
  BY DEF TypeOK, Found, Recovered, Image, Journal
<1>2. Saved = Content(Found)
  BY DEF Saved, Found
<1> QED
  BY <1>1, <1>2, ContentMatches DEF Found

\* The next reader finds what matches what was saved.
LEMMA SameSaved ==
  ASSUME TypeOK, Found' \in Image, Match(Found', Saved)
  PROVE  Saved' = Saved
<1>1. Saved' = Content(Found')
  BY DEF Saved, Found
<1> QED
  BY <1>1, MatchContent, SavedPages

\* A file of which some page is saved is not blank.
LEMMA NotBlank ==
  ASSUME TypeOK
  PROVE  Saved # Blank <=> \E p \in Page : Saved[p] # None
  BY SavedPages DEF Blank

\* A file that is what is saved has its pages.
LEMMA BlankFile ==
  ASSUME TypeOK, Match(db, Saved)
  PROVE  db = Blank <=> Saved = Blank
<1>1. db = Blank <=> \A p \in Page : db[p] = None
  BY DEF TypeOK, Image, Blank
<1>2. Saved = Blank <=> \A p \in Page : Saved[p] = None
  BY NotBlank
<1> QED
  BY <1>1, <1>2, FitsNone DEF Match

\* A step that leaves the files alone.
LEMMA FilesUnchanged ==
  ASSUME FileInv, UNCHANGED files
  PROVE  FileInv' /\ Saved' = Saved /\ (Still => Still')
<1>1. Saved' = Saved
  BY DEF files, Saved, Recovered
<1>2. UNCHANGED <<db, dbMay, journal, journalMay, previous>>
  BY DEF files
<1>3. \A j, img : RecoversTo(j, img) => RecoversTo(j, img)'
  BY <1>2 DEF RecoversTo, Recovered, Ends
<1>4. Quiet => Quiet'
  BY <1>1, <1>2 DEF Quiet
<1>5. Protected => Protected'
  BY <1>1, <1>2, <1>3, <1>4 DEF Protected, Sure
<1> QED
  BY <1>1, <1>2, <1>4, <1>5 DEF FileInv, Ends, Still, Match

\* What is recovered with certainty while nothing waits for a sync.
LEMMA QuietJournal ==
  ASSUME TypeOK, FileInv, Saved # Blank
  PROVE  RecoversTo(journal, Saved)
<1>1. CASE Sure
  BY <1>1 DEF FileInv, Sure
<1>2. CASE RecoversTo(journal, previous)
  <2>1. Match(Found, previous)
    BY <1>2, SavedPages DEF RecoversTo, FileInv, Match
  <2>2. Saved = previous
    BY <2>1, SavedPages, MatchContent DEF FileInv
  <2> QED
    BY <1>2, <2>2
<1> QED
  BY <1>1, <1>2 DEF FileInv, Protected

\* The database file is synced.
LEMMA SettleStep ==
  ASSUME TypeOK, FileInv, dbMay' = Settled(db),
         UNCHANGED <<db, journal, journalMay, previous>>
  PROVE  FileInv' /\ Saved' = Saved /\ (Match(db, Saved) => Still')
<1>1. Saved' = Saved
  BY DEF Saved, Recovered
<1>2. \A p \in Page : dbMay[p]' = {db[p]} /\ dbMay[p]' \subseteq dbMay[p]
  BY DEF FileInv, Settled
<1>3. \A j, cont : RecoversTo(j, cont) => RecoversTo(j, cont)'
  BY <1>2 DEF RecoversTo, Recovered, Ends
<1>4. Quiet => Quiet'
  BY <1>1, <1>2 DEF Quiet
<1>5. Protected => Protected'
  BY <1>1, <1>3, <1>4 DEF Protected, Sure
<1>6. FileInv'
  BY <1>1, <1>2, <1>4, <1>5 DEF FileInv, Ends
<1>7. ASSUME Match(db, Saved)
      PROVE  Still'
  BY <1>1, <1>2, <1>7 DEF Still, Quiet, Match
<1> QED
  BY <1>1, <1>6, <1>7

\* The journal is synced.
LEMMA SyncStep ==
  ASSUME TypeOK, FileInv, SyncJournal, UNCHANGED <<db, dbMay, journal, previous>>
  PROVE  FileInv' /\ Saved' = Saved /\ (Still => Still') /\ journalMay' = {journal}
<1>1. Saved' = Saved /\ journalMay' = {journal}
  BY DEF Saved, Recovered, SyncJournal
<1>2. \A j, cont : RecoversTo(j, cont) => RecoversTo(j, cont)'
  BY DEF RecoversTo, Recovered, Ends
<1>3. Quiet => Quiet'
  BY <1>1 DEF Quiet
<1>4. Saved # Blank => Protected'
  BY <1>1, <1>2, QuietJournal DEF Protected, Sure
<1>5. FileInv'
  BY <1>1, <1>3, <1>4 DEF FileInv, Ends, Blank
<1> QED
  BY <1>1, <1>3, <1>5 DEF Still, Match

\* The journal is deleted while the file is what is saved.
LEMMA DeleteStep ==
  ASSUME TypeOK, FileInv, Still, DeleteJournal, UNCHANGED <<db, dbMay, previous>>
  PROVE  FileInv' /\ Saved' = Saved /\ Still'
<1>1. Found' = db
  BY DEF Found, Recovered, DeleteJournal, Cold, TypeOK, Image
<1>2. Saved' = Saved
  BY <1>1, SameSaved DEF Still, TypeOK
<1>3. journalMay' = journalMay \cup {Cold} /\ journal' = Cold
  BY DEF DeleteJournal
<1>4. \A j, cont : RecoversTo(j, cont) => RecoversTo(j, cont)'
  BY DEF RecoversTo, Recovered, Ends
<1>5. Quiet => Quiet'
  BY <1>2 DEF Quiet
<1>6. Saved # Blank => RecoversTo(Cold, Saved)'
  BY <1>2 DEF Still, Quiet, RecoversTo, Recovered, Cold
<1>7. Saved # Blank => Protected'
  BY <1>2, <1>3, <1>4, <1>5, <1>6 DEF FileInv, Protected, Sure
<1>8. FileInv'
  BY <1>2, <1>3, <1>5, <1>7 DEF FileInv, Still, Ends, Cold, Blank
<1> QED
  BY <1>2, <1>5, <1>8 DEF Still, Blank, Match

\* A header is written over records of what is saved.
LEMMA HeaderStep ==
  ASSUME TypeOK, FileInv, PutHeader, UNCHANGED <<db, dbMay, previous>>,
         Ends(Saved, orig),
         \A p \in Page :
            /\ recs[p] # None => p <= orig /\ Fits(recs[p], Saved[p])
            /\ p <= orig /\ recs[p] = None => \A c \in dbMay[p] : Fits(c, Saved[p])
  PROVE  FileInv' /\ Saved' = Saved /\ (Still => Still')
<1> DEFINE new == [hot |-> TRUE, orig |-> orig, recs |-> recs]
<1>1. journal' = new /\ journalMay' = journalMay \cup {new}
  BY DEF PutHeader
<1>2. \A p \in Page : \A c \in dbMay[p] : Fits(Recovered(c, new, p), Saved[p])
  <2> SUFFICES ASSUME NEW p \in Page, NEW c \in dbMay[p]
               PROVE  Fits(Recovered(c, new, p), Saved[p])
    OBVIOUS
  <2>1. new.hot /\ new.orig = orig /\ new.recs = recs
    OBVIOUS
  <2>2. p > orig \/ p <= orig
    BY PageAssumption DEF Page, TypeOK
  <2>3. CASE p > orig
    BY <2>1, <2>3 DEF Recovered, Ends, Fits
  <2>4. CASE p <= orig
    <3>1. ~(p > orig)
      BY <2>4, PageAssumption DEF Page, TypeOK
    <3> QED
      BY <2>1, <2>4, <3>1 DEF Recovered
  <2> QED
    BY <2>2, <2>3, <2>4
<1>3. Saved' = Saved
  <2>1. \A p \in Page : db[p] \in dbMay[p]
    BY DEF FileInv
  <2>2. Found' = [p \in Page |-> Recovered(db[p], new, p)]
    BY <1>1 DEF Found, Recovered
  <2>3. Found' \in Image
    BY <2>2 DEF TypeOK, Recovered, Image
  <2>4. Match(Found', Saved)
    BY <1>2, <2>1, <2>2 DEF Match
  <2> QED
    BY <2>3, <2>4, SameSaved
<1>4. \A j, cont : RecoversTo(j, cont) => RecoversTo(j, cont)'
  BY DEF RecoversTo, Recovered, Ends
<1>5. Quiet => Quiet'
  BY <1>3 DEF Quiet
<1>6. RecoversTo(journal, Saved)'
  BY <1>1, <1>2, <1>3 DEF RecoversTo, Recovered, Ends
<1>7. Protected => Protected'
  BY <1>1, <1>3, <1>4, <1>5, <1>6 DEF Protected, Sure
<1>8. Saved = Blank => orig = 0
  BY PageAssumption DEF Ends, Blank, Page, TypeOK
<1>9. \A j \in journalMay' : \A p \in Page :
         /\ j.recs[p] # None => p <= j.orig
         /\ j.hot /\ p <= j.orig => None \notin dbMay[p]
  <2>1. \A p \in Page : p <= orig => None \notin dbMay[p]
    BY PageAssumption DEF FileInv, Ends, Page, TypeOK
  <2>2. \A j \in journalMay : \A p \in Page :
           /\ j.recs[p] # None => p <= j.orig
           /\ j.hot /\ p <= j.orig => None \notin dbMay[p]
    BY DEF FileInv
  <2> QED
    BY <1>1, <2>1, <2>2
<1>10. FileInv'
  BY <1>1, <1>3, <1>7, <1>8, <1>9 DEF FileInv, Ends, Blank
<1> QED
  BY <1>3, <1>5, <1>10 DEF Still, Blank, Match

\* Pages of the file change which every journal that may be left restores, or
\* which were leaves.
LEMMA PutStep ==
  ASSUME TypeOK, TypeOK', FileInv, UNCHANGED <<journal, journalMay, previous>>,
         Saved # Blank => Sure,
         NEW S \in SUBSET Page,
         \A p \in Page \ S : db[p]' = db[p] /\ dbMay[p]' = dbMay[p],
         \A p \in S :
            /\ db[p]' \in dbMay[p]'
            /\ None \in dbMay[p]' => \A j \in journalMay : p > j.orig
            /\ \A j \in journalMay :
                  j.hot /\ (p > j.orig \/ j.recs[p] # None \/ Saved[p] = Unused)
  PROVE  FileInv' /\ Saved' = Saved
<1>1. \A j \in journalMay : j \in Journal
  BY DEF TypeOK
<1>2. ASSUME NEW j \in journalMay, NEW p \in S, NEW c \in dbMay[p]', NEW d \in dbMay[p],
             Fits(Recovered(d, j, p), Saved[p])
      PROVE  Fits(Recovered(c, j, p), Saved[p])
  <2>1. CASE p > j.orig \/ j.recs[p] # None
    BY <1>2, <2>1 DEF Recovered
  <2>2. CASE ~(p > j.orig) /\ Saved[p] = Unused
    <3>1. None \notin dbMay[p]'
      BY <2>2
    <3> QED
      BY <1>2, <2>2, <3>1 DEF Recovered, Fits
  <2> QED
    BY <2>1, <2>2
<1>3. Saved' = Saved
  <2>1. Found' \in Image
    BY DEF TypeOK, Found, Recovered, Image, Journal
  <2>2. \A p \in Page : db[p] \in dbMay[p] /\ db[p]' \in dbMay[p]'
    BY DEF FileInv
  <2>3. \A p \in Page : Found'[p] = Recovered(db[p]', journal, p)
    BY DEF Found, Recovered
  <2>4. \A p \in Page : Fits(Recovered(db[p], journal, p), Saved[p])
    BY SavedPages DEF Match
  <2>5. \A p \in Page : Fits(Recovered(db[p]', journal, p), Saved[p])
    BY <1>2, <2>2, <2>4 DEF FileInv
  <2> QED
    BY <2>1, <2>3, <2>5, SameSaved DEF Match
<1>4. \A j \in journalMay : RecoversTo(j, Saved) => RecoversTo(j, Saved)'
  <2> SUFFICES ASSUME NEW j \in journalMay, RecoversTo(j, Saved)
               PROVE  RecoversTo(j, Saved)'
    OBVIOUS
  <2>1. \A p \in Page : \A c \in dbMay[p]' : Fits(Recovered(c, j, p), Saved[p])
    BY <1>2 DEF FileInv, RecoversTo
  <2> QED
    BY <1>3, <2>1 DEF RecoversTo, Recovered, Ends
<1>5. Saved # Blank => Protected'
  BY <1>3, <1>4 DEF Protected, Sure
<1>6. \A p \in S : None \in dbMay[p]' => Saved[p] = None
  <2> SUFFICES ASSUME NEW p \in S, None \in dbMay[p]'
               PROVE  Saved[p] = None
    OBVIOUS
  <2>1. Found[p] = None
    BY SavedPages DEF Recovered, FileInv
  <2> QED
    BY <2>1, SavedPages, FitsNone DEF Match
<1>7. \A j \in journalMay : \A p \in Page :
         j.hot /\ p <= j.orig => None \notin dbMay[p]'
  BY PageAssumption DEF FileInv, TypeOK, Journal, Page
<1>8. Quiet /\ ~journal.hot => Quiet'
  <2>1. ~journal.hot => S = {}
    BY DEF FileInv
  <2> QED
    BY <1>3, <2>1 DEF Quiet
<1>9. FileInv'
  BY <1>3, <1>5, <1>6, <1>7, <1>8 DEF FileInv, Ends, Blank
<1> QED
  BY <1>3, <1>9

\* The journal is deleted when the transaction is in the file, and synced.
LEMMA CommitStep ==
  ASSUME TypeOK, FileInv, Sure, DeleteJournal, previous' = Saved, UNCHANGED <<db, dbMay>>,
         dbMay = Settled(db), db # Blank,
         NEW n \in 0 .. MaxPage, Ends(db, n)
  PROVE  FileInv' /\ Still' /\ Saved' = Content(db)
<1>1. Found' = db
  BY DEF Found, Recovered, DeleteJournal, Cold, TypeOK, Image
<1>2. Saved' = Content(db) /\ db \in Image
  BY <1>1 DEF Saved, Found, TypeOK
<1>3. Match(db, Saved')
  BY <1>2, ContentMatches
<1>4. journalMay' = journalMay \cup {Cold} /\ journal' = Cold
  BY DEF DeleteJournal
<1>5. \A p \in Page : dbMay[p]' = {db[p]} /\ db[p]' = db[p]
  BY DEF Settled
<1>6. RecoversTo(Cold, Saved)'
  BY <1>3, <1>5 DEF RecoversTo, Recovered, Cold, Match
<1>7. \A j \in journalMay : RecoversTo(j, previous)'
  BY DEF Sure, RecoversTo, Recovered, Ends
<1>8. \A j \in journalMay' : RecoversTo(j, Saved)' \/ RecoversTo(j, previous)'
  BY <1>4, <1>6, <1>7
<1>9. Quiet'
  BY <1>3, <1>5 DEF Quiet, Match
<1>10. Ends(Saved', n) /\ (\A p \in Page : Saved'[p] = None <=> db[p] = None)
  BY <1>3, MatchEnds, FitsNone DEF Match
<1>11. Saved' # Blank
  <2>1. \E p \in Page : db[p] # None
    BY DEF TypeOK, Image, Blank
  <2> QED
    BY <1>10, <2>1 DEF Blank
<1>12. previous' \in Contents
  BY SavedPages
<1>13. FileInv'
  BY <1>4, <1>5, <1>8, <1>9, <1>10, <1>11, <1>12 DEF FileInv, Protected, Cold, Blank, Ends
<1> QED
  BY <1>2, <1>3, <1>9, <1>13 DEF Still, Match

\* The file is cut back to its size, as every journal that may be left does.
LEMMA TruncateStep ==
  ASSUME TypeOK, TypeOK', FileInv, UNCHANGED <<journal, journalMay, previous>>,
         Saved # Blank => Sure,
         \A j \in journalMay : j.hot /\ j.orig = journal.orig,
         Truncate
  PROVE  FileInv' /\ Saved' = Saved
<1> DEFINE S == {p \in Page : p > journal.orig}
<1>1. \A p \in Page \ S : db[p]' = db[p] /\ dbMay[p]' = dbMay[p]
  BY DEF Truncate
<1>2. \A p \in S : /\ db[p]' \in dbMay[p]'
                  /\ \A j \in journalMay : j.hot /\ p > j.orig
  BY DEF Truncate
<1> QED
  BY <1>1, <1>2, PutStep

\* The power fails.
LEMMA PowerStep ==
  ASSUME TypeOK, TypeOK', FileInv, PowerLoss
  PROVE  /\ FileInv'
         /\ Saved' \in {Saved, previous} \/ Saved = Blank
<1>1. PICK img \in Image, n \in 0 .. MaxPage :
        /\ \A p \in Page : img[p] \in dbMay[p]
        /\ EndsAt(img, n)
        /\ db' = [p \in Page |-> IF p <= n /\ img[p] = None THEN Torn ELSE img[p]]
  BY DEF PowerLoss
<1>2. /\ journal' \in journalMay /\ journalMay' = {journal'}
      /\ \A p \in Page : dbMay[p]' = {db[p]'}
      /\ journal' \in Journal
      /\ journal' \in journalMay'
  BY DEF PowerLoss, Settled, TypeOK
<1>3. /\ Found' \in Image
      /\ \A p \in Page : Found'[p] = Recovered(db[p]', journal', p)
      /\ Saved' = Content(Found')
  BY DEF TypeOK, Saved, Found, Recovered, Image, Journal
<1>4. /\ Saved' \in Contents
      /\ Match(Found', Saved')
      /\ \A p \in Page : Saved'[p] = None <=> Found'[p] = None
  BY <1>3, ContentMatches, FitsNone DEF Match
<1>5. \A p \in Page : db[p]' = None => img[p] = None /\ p > n
  BY <1>1, DataAssumption, PageAssumption DEF Page
<1>6. \A p \in Page : p > n => db[p]' = None
  BY <1>1, PageAssumption DEF Page, EndsAt
<1>7. \A p \in Page : journal'.hot /\ p <= journal'.orig => db[p]' # None
  BY <1>1, <1>2, <1>5 DEF FileInv
<1>8. \A p \in Page : journal'.recs[p] # None => p <= journal'.orig
  BY <1>2 DEF FileInv
<1>9. RecoversTo(journal, Saved)' /\ (\A p \in Page : Saved[p]' # None => None \notin dbMay[p]')
  <2>1. \A p \in Page : \A c \in dbMay[p]' : Fits(Recovered(c, journal', p), Saved'[p])
    BY <1>2, <1>3, <1>4 DEF Match
  <2>2. journal'.hot => \A p \in Page : Found'[p] = None <=> p > journal'.orig
    BY <1>2, <1>3, <1>7, PageAssumption DEF Recovered, Page, Journal
  <2>3. \A p \in Page : Found'[p] # None => db[p]' # None
    BY <1>2, <1>3, <1>7, PageAssumption DEF Recovered, Page, Journal
  <2> QED
    BY <1>2, <1>4, <2>1, <2>2, <2>3 DEF RecoversTo, Recovered, Ends
<1>10. \E m \in 0 .. MaxPage : Ends(Saved, m)'
  <2>1. CASE journal'.hot
    BY <1>2, <1>9, <2>1 DEF RecoversTo, Ends, Journal
  <2>2. CASE ~journal'.hot
    BY <1>3, <1>4, <1>5, <1>6, <2>2 DEF Recovered, Ends
  <2> QED
    BY <2>1, <2>2
<1>11. Saved' = Blank => (journal'.hot => journal'.orig = 0)
  <2> SUFFICES ASSUME Saved' = Blank, journal'.hot, journal'.orig # 0
               PROVE  FALSE
    OBVIOUS
  <2>1. 1 \in Page /\ 1 <= journal'.orig
    BY <1>2, PageAssumption DEF Journal, Page
  <2>2. Saved[1]' # None
    BY <1>2, <1>9, <2>1, PageAssumption DEF RecoversTo, Ends, Journal
  <2> QED
    BY <2>1, <2>2 DEF Blank
<1>12. ~journal'.hot => Quiet'
  BY <1>2, <1>3, <1>4 DEF Quiet, Recovered, Match
<1>13. previous' \in Contents
  BY <1>4 DEF PowerLoss
<1>14. FileInv'
  BY <1>2, <1>7, <1>8, <1>9, <1>10, <1>11, <1>12, <1>13 DEF FileInv, Protected, Sure
<1>15. ASSUME Saved # Blank
       PROVE  Saved' \in {Saved, previous}
  <2>1. PICK X \in {Saved, previous} : RecoversTo(journal', X)
    BY <1>2, <1>15 DEF FileInv, Protected, Sure
  <2>2. \A p \in Page : Recovered(db[p]', journal', p) = Recovered(img[p], journal', p)
    <3>1. CASE journal'.hot
      BY <1>1, <1>7, <3>1, <1>2, PageAssumption DEF Recovered, Page, Journal, FileInv
    <3>2. CASE ~journal'.hot
      <4>1. \A p \in Page : Fits(img[p], Saved[p])
        BY <1>1, <1>2, <1>15, <3>2 DEF FileInv, Protected, Sure, Quiet, RecoversTo, Recovered
      <4>2. PICK m \in 0 .. MaxPage : Ends(Saved, m)
        BY DEF FileInv
      <4>3. Ends(img, m)
        BY <4>1, <4>2, MatchEnds DEF Match
      <4>4. \A p \in Page : p <= n => img[p] # None
        BY <1>1, <4>3, PageAssumption DEF Ends, EndsAt, Page
      <4>5. \A p \in Page : db[p]' = img[p]
        BY <1>1, <4>4
      <4> QED
        BY <4>5
    <3> QED
      BY <3>1, <3>2
  <2>3. Match(Found', X)
    BY <1>1, <1>3, <2>1, <2>2 DEF RecoversTo, Match
  <2>4. X \in Contents
    BY SavedPages DEF FileInv
  <2> QED
    BY <1>3, <2>1, <2>3, <2>4, MatchContent
<1> QED
  BY <1>14, <1>15

-----------------------------------------------------------------------------
(* Facts about a state.                                                    *)

\* pagerPagecount answers the size of a file whose pages are without a gap.
LEMMA Counted ==
  ASSUME NEW img \in Image, NEW n \in 0 .. MaxPage, Ends(img, n)
  PROVE  PageCount(img) = n
<1>1. EndsAt(img, n)
  BY PageAssumption DEF Ends, EndsAt, Page
<1>2. ASSUME NEW m \in 0 .. MaxPage, EndsAt(img, m)
      PROVE  m = n
  <2>1. ~(m > n)
    BY <1>2, PageAssumption DEF Ends, EndsAt, Page
  <2>2. ~(n > m)
    BY <1>2, PageAssumption DEF Ends, EndsAt, Page
  <2> QED
    BY <2>1, <2>2, PageAssumption
<1> QED
  BY <1>1, <1>2 DEF PageCount

\* The size of what is saved is the size of the file when nothing is undone.
LEMMA CountedSaved ==
  ASSUME TypeOK, FileInv, Match(db, Saved)
  PROVE  PageCount(db) \in 0 .. MaxPage /\ Ends(db, PageCount(db))
<1>1. PICK n \in 0 .. MaxPage : Ends(Saved, n)
  BY DEF FileInv
<1>2. Ends(db, n)
  BY <1>1, MatchEnds
<1> QED
  BY <1>2, Counted DEF TypeOK

\* There is nothing to play back, and no journal that would undo anything.
LEMMA ColdJournal ==
  ASSUME TypeOK, FileInv, ~journal.hot \/ db = Blank
  PROVE  Still
<1>1. CASE ~journal.hot
  <2>1. Match(db, Saved)
    BY <1>1, SavedPages DEF Recovered, Match
  <2> QED
    BY <1>1, <2>1 DEF Still, FileInv
<1>2. CASE db = Blank /\ journal.hot
  <2>1. \A p \in Page : p > journal.orig
    BY <1>2, PageAssumption DEF FileInv, Blank, Page, TypeOK, Journal
  <2>2. \A p \in Page : Found[p] = None
    BY <1>2, <2>1, SavedPages DEF Recovered
  <2>3. \A p \in Page : Saved[p] = None
    BY <2>2, SavedPages, FitsNone DEF Match
  <2>4. Saved = Blank
    BY <2>3, NotBlank
  <2> QED
    BY <1>2, <2>3, <2>4 DEF Still, Match, Fits, Blank
<1> QED
  BY <1>1, <1>2

\* Once a page of a transaction may be in the file, its journal is synced.
LEMMA Undoable ==
  ASSUME TypeOK, FileInv, OriginalsInv, JournalInv,
         eState \in {"WRITER_DBMOD", "WRITER_FINISHED"}
  PROVE  Sure
<1> SUFFICES ASSUME NEW j \in journalMay
             PROVE  RecoversTo(j, Saved)
  BY DEF Sure
<1>1. j.hot /\ j.orig = orig /\ Ends(Saved, orig)
  BY DEF JournalInv, OriginalsInv, Active
<1>2. ASSUME NEW p \in Page, NEW c \in dbMay[p]
      PROVE  Fits(Recovered(c, j, p), Saved[p])
  <2>1. CASE p > orig
    BY <1>1, <2>1 DEF Recovered, Ends, Fits
  <2>2. CASE p <= orig /\ j.recs[p] # None
    <3>1. j.recs[p] = recs[p] /\ Fits(recs[p], Saved[p])
      BY <2>2 DEF OriginalsInv, JournalInv, Active
    <3>2. ~(p > j.orig)
      BY <1>1, <2>2, PageAssumption DEF Page, TypeOK
    <3> QED
      BY <1>1, <2>2, <3>1, <3>2 DEF Recovered
  <2>3. CASE p <= orig /\ j.recs[p] = None
    <3>1. p \notin synced
      BY <2>3 DEF OriginalsInv, JournalInv, Active
    <3>2. Fits(c, Saved[p])
      BY <2>3, <3>1 DEF OriginalsInv, Active
    <3>3. ~(p > j.orig)
      BY <1>1, <2>3, PageAssumption DEF Page, TypeOK
    <3> QED
      BY <1>1, <2>3, <3>2, <3>3 DEF Recovered
  <2> QED
    BY <2>1, <2>2, <2>3, PageAssumption DEF Page, TypeOK
<1> QED
  BY <1>1, <1>2 DEF RecoversTo

\* A commit is under way in a transaction that has changed something.
LEMMA UnderWay ==
  ASSUME TypeOK, ConnInv,
         phase \in {"SyncRecords", "WriteHeader", "SyncHeader", "WritePages", "EndCommit"}
  PROVE  /\ Active /\ Forward
         /\ phase = "WritePages" => eState = "WRITER_DBMOD"
         /\ phase = "EndCommit" => eState = "WRITER_FINISHED"
         /\ phase # "EndCommit" => eState \in {"WRITER_CACHEMOD", "WRITER_DBMOD"}
  BY DEF TypeOK, ConnInv, RestInv, HotInv, JournalInv, Active, Forward

\* The pages the file had when the transaction began are in it, and in the
\* database as the connection sees it.
LEMMA OldPages ==
  ASSUME TypeOK, FileInv, ConnInv, Forward, NEW p \in Page, Saved[p] # None
  PROVE  p <= orig /\ p <= dbSize /\ db[p] # None
<1>1. p <= orig
  BY PageAssumption DEF ConnInv, OriginalsInv, Forward, Ends, Page, TypeOK
<1>2. db[p] # None
  BY DEF FileInv
<1>3. ~(p > dbSize)
  BY <1>2 DEF ConnInv, CommitInv
<1> QED
  BY <1>1, <1>2, <1>3, PageAssumption DEF Page, TypeOK

\* The B-tree's promise is about what the connection reads.
LEMMA ListKept ==
  ASSUME FreeListKept, Saved' = Saved, View' = View,
         UNCHANGED <<recs, unjournaled, dontWrite>>
  PROVE  FreeListKept'
  BY DEF FreeListKept

\* A connection at rest.
LEMMA AtRestStep ==
  ASSUME NEW s \in {"NONE", "OPEN", "READER", "ERROR"}, AtRest(s),
         s = "READER" => /\ Still' /\ Ends(db, dbSize)'
                         /\ \A p \in Page : CacheFits(p)'
                         /\ ~journal'.hot \/ db' = Blank,
         s = "OPEN" => cache' = Blank \/ (~journal'.hot /\ \A p \in Page : CacheFits(p)')
  PROVE  ConnInv'
  BY DEF AtRest, ConnInv, RestInv, HotInv, OriginalsInv, JournalInv, CommitInv,
         RollbackInv, Active, Forward

-----------------------------------------------------------------------------
(* Types.                                                                  *)

\* The images a connection forms are images.
LEMMA Images ==
  /\ Blank \in Image
  /\ \A img \in Image, p \in Page, v \in Cell : [img EXCEPT ![p] = v] \in Image
  /\ \A img \in Image, p \in Page : img[p] \in Cell
  BY DEF Image, Blank, Cell

\* The journals it forms are journals.
LEMMA Journals ==
  /\ Cold \in Journal
  /\ \A n \in 0 .. MaxPage, img \in Image : [hot |-> TRUE, orig |-> n, recs |-> img] \in Journal
  /\ \A j \in Journal : j.recs \in Image /\ j.orig \in 0 .. MaxPage /\ j.hot \in BOOLEAN
<1>1. Cold \in Journal
  BY Images, PageAssumption DEF Journal, Cold
<1>2. \A n \in 0 .. MaxPage, img \in Image : [hot |-> TRUE, orig |-> n, recs |-> img] \in Journal
  BY DEF Journal
<1>3. \A j \in Journal : j.recs \in Image /\ j.orig \in 0 .. MaxPage /\ j.hot \in BOOLEAN
  BY DEF Journal
<1> QED
  BY <1>1, <1>2, <1>3

\* The types of the files.
FilesOK == /\ db \in Image /\ dbMay \in [Page -> SUBSET Cell]
           /\ journal \in Journal /\ journalMay \in SUBSET Journal
           /\ previous \in [Page -> Cell \cup {Unused}]

\* The types of the rest.
ConnectionOK ==
    /\ eState \in {"NONE", "OPEN", "READER", "WRITER_LOCKED", "WRITER_CACHEMOD",
                   "WRITER_DBMOD", "WRITER_FINISHED", "ERROR"}
    /\ cache \in Image /\ dirty \in SUBSET Page
    /\ dbSize \in 0 .. MaxPage /\ orig \in 0 .. MaxPage
    /\ recs \in Image /\ synced \in SUBSET Page
    /\ unjournaled \in SUBSET Page /\ dontWrite \in SUBSET Page
    /\ phase \in {"none", "SyncRecords", "WriteHeader", "SyncHeader", "WritePages",
                  "EndCommit", "SyncHot", "Truncate", "Playback", "EndRollback"}
    /\ spilling \in BOOLEAN /\ list \in SUBSET Page

\* Together they are the types of the module.
LEMMA Types == TypeOK <=> FilesOK /\ ConnectionOK
<1>1. Cell \cup {Unused} = Data \cup {Torn, None, Unused}
  BY DEF Cell
<1> QED
  BY <1>1 DEF TypeOK, FilesOK, ConnectionOK, Cell

\* Every call keeps the types of the files.
LEMMA FilesTyped ==
  ASSUME FilesOK, ConnectionOK
  PROVE  /\ UNCHANGED files => FilesOK'
         /\ UNCHANGED <<journal, journalMay>> => (journal \in Journal /\ journalMay \in SUBSET Journal)'
         /\ DeleteJournal => (journal \in Journal /\ journalMay \in SUBSET Journal)'
         /\ SyncJournal /\ UNCHANGED <<db, dbMay, journal, previous>> => FilesOK'
         /\ PutHeader /\ UNCHANGED <<db, dbMay, previous>> => FilesOK'
         /\ dbMay' = Settled(db) /\ UNCHANGED <<db, journal, journalMay, previous>> => FilesOK'
         /\ \A p \in Page, v \in Cell :
               Put(p, v) /\ UNCHANGED <<journal, journalMay, previous>> => FilesOK'
         /\ Grow /\ UNCHANGED <<journal, journalMay, previous>> => FilesOK'
<1>1. UNCHANGED files => FilesOK'
  BY DEF files, FilesOK
<1>2. DeleteJournal => (journal \in Journal /\ journalMay \in SUBSET Journal)'
  BY Journals DEF FilesOK, DeleteJournal
<1>3. SyncJournal /\ UNCHANGED <<db, dbMay, journal, previous>> => FilesOK'
  BY DEF FilesOK, SyncJournal
<1>4. PutHeader /\ UNCHANGED <<db, dbMay, previous>> => FilesOK'
  BY Journals DEF FilesOK, ConnectionOK, PutHeader
<1>5. dbMay' = Settled(db) /\ UNCHANGED <<db, journal, journalMay, previous>> => FilesOK'
  BY Images DEF FilesOK, Settled
<1>6. ASSUME NEW p \in Page, NEW v \in Cell, Put(p, v),
             UNCHANGED <<journal, journalMay, previous>>
      PROVE  FilesOK'
  <2>1. db' \in Image
    BY <1>6, Images DEF FilesOK, Put
  <2>2. dbMay' \in [Page -> SUBSET Cell]
    BY <1>6 DEF FilesOK, Put, Cell
  <2> QED
    BY <1>6, <2>1, <2>2 DEF FilesOK
<1>7. ASSUME Grow, UNCHANGED <<journal, journalMay, previous>>
      PROVE  FilesOK'
  <2>1. db' \in Image
    BY <1>7 DEF FilesOK, Grow, Image
  <2>2. dbMay' \in [Page -> SUBSET Cell]
    BY <1>7 DEF FilesOK, Grow, Cell
  <2> QED
    BY <1>7, <2>1, <2>2 DEF FilesOK
<1> QED
  BY <1>1, <1>2, <1>3, <1>4, <1>5, <1>6, <1>7 DEF FilesOK

\* At rest the types are those of the cache and of the sizes.
LEMMA RestTyped ==
  ASSUME NEW s \in {"NONE", "OPEN", "READER", "ERROR"}, AtRest(s),
         cache' \in Image, dbSize' \in 0 .. MaxPage, orig' \in 0 .. MaxPage
  PROVE  ConnectionOK'
  BY Images DEF AtRest, ConnectionOK

\* A connection that has read nothing has its types.
LEMMA ResetTyped ==
  ASSUME NEW s \in {"NONE", "OPEN", "READER", "ERROR"}, AtRest(s), Reset
  PROVE  ConnectionOK'
  BY Images, RestTyped, PageAssumption DEF Reset

\* Every variable keeps its type.
LEMMA Typed ==
  ASSUME IInv, Next
  PROVE  TypeOK'
<1>0. FilesOK /\ ConnectionOK /\ FileInv /\ ConnInv
  BY Types DEF IInv
<1>a. SUFFICES FilesOK' /\ ConnectionOK'
  <2>1. Cell \cup {Unused} = Data \cup {Torn, None, Unused}
    BY DEF Cell
  <2> QED
    BY <2>1 DEF TypeOK, FilesOK, ConnectionOK, Cell
<1>b. \A p \in Page : View[p] \in Cell
  BY <1>0, Images DEF View, ConnectionOK, FilesOK, Cell
<1>1. CASE Open
  BY <1>0, <1>1, FilesTyped, ResetTyped DEF Open
<1>2. CASE SharedLock
  <2>1. CASE journal.hot /\ db # Blank
    BY <1>0, <1>2, <2>1, FilesTyped DEF SharedLock, ConnectionOK, files
  <2>2. CASE ~journal.hot \/ db = Blank
    <3>1. PageCount(db) \in 0 .. MaxPage
      BY <2>2, ColdJournal, CountedSaved DEF IInv, Still
    <3>2. FilesOK'
      BY <1>0, <1>2, <2>2, FilesTyped DEF SharedLock, FilesOK, files
    <3>3. AtRest("READER") /\ cache' \in Image /\ dbSize' \in 0 .. MaxPage /\ orig' \in 0 .. MaxPage
      BY <1>0, <1>2, <2>2, <3>1 DEF SharedLock, ConnectionOK
    <3> QED
      BY <3>2, <3>3, RestTyped
  <2> QED
    BY <2>1, <2>2
<1>3. CASE Unlock
  BY <1>0, <1>3, FilesTyped, RestTyped, ResetTyped DEF Unlock, ConnectionOK
<1>4. ASSUME NEW p \in Page, Get(p) \/ Recycle(p)
      PROVE  FilesOK' /\ ConnectionOK'
  <2>1. cache' \in Image
    BY <1>0, <1>4, <1>b, Images DEF Get, Recycle, ConnectionOK, Cell
  <2> QED
    BY <1>0, <1>4, <2>1, FilesTyped DEF Get, Recycle, ConnectionOK
<1>5. CASE Begin
  BY <1>0, <1>5, FilesTyped DEF Begin, ConnectionOK
<1>6. CASE Commit \/ Rollback
  <2>1. CASE AtRest("READER") /\ UNCHANGED <<files, cache, dbSize, orig>>
    BY <1>0, <2>1, FilesTyped, RestTyped DEF ConnectionOK
  <2>2. CASE UNCHANGED <<files, eState, cache, dirty, dbSize, orig, recs, synced,
                         unjournaled, dontWrite>>
    BY <1>0, <1>6, <2>2, FilesTyped
    DEF Commit, Rollback, StartRollback, ConnectionOK, AtRest
  <2> QED
    BY <1>6, <2>1, <2>2 DEF Commit, Rollback
<1>7. ASSUME NEW p \in Page, Spill(p) \/ DontWrite(p)
      PROVE  FilesOK' /\ ConnectionOK'
  BY <1>0, <1>7, FilesTyped DEF Spill, DontWrite, ConnectionOK
<1>8. ASSUME NEW p \in Page, NEW v \in Data, Write(p, v)
      PROVE  FilesOK' /\ ConnectionOK'
  <2>1. dbSize' \in 0 .. MaxPage
    BY <1>0, <1>8, PageAssumption DEF Write, Page, ConnectionOK
  <2>2. recs' \in Image /\ cache' \in Image
    BY <1>0, <1>8, <1>b, Images DEF Write, PutInCache, ConnectionOK, Cell
  <2>3. FilesOK'
    BY <1>0, <1>8, FilesTyped DEF Write, FilesOK
  <2> QED
    BY <1>0, <1>8, <2>1, <2>2, <2>3 DEF Write, PutInCache, ConnectionOK
<1>9. ASSUME NEW p \in Page, NEW v \in Data, Overwrite(p, v)
      PROVE  FilesOK' /\ ConnectionOK'
  <2>1. cache' \in Image
    BY <1>0, <1>9, Images DEF Overwrite, PutInCache, ConnectionOK, Cell
  <2> QED
    BY <1>0, <1>9, <2>1, FilesTyped DEF Overwrite, PutInCache, ConnectionOK
<1>10. CASE SyncRecords \/ SyncHeader \/ SyncHot
  <2>1. FilesOK'
    BY <1>0, <1>10, FilesTyped DEF SyncRecords, SyncHeader, SyncHot
  <2> QED
    BY <1>0, <1>10, <2>1 DEF SyncRecords, SyncHeader, SyncHot, Step, ConnectionOK
<1>11. CASE WriteHeader
  <2>1. FilesOK'
    BY <1>0, <1>11, FilesTyped DEF WriteHeader
  <2> QED
    BY <1>0, <1>11, <2>1 DEF WriteHeader, Step, ConnectionOK
<1>12. ASSUME NEW p \in Page, WritePage(p)
       PROVE  FilesOK' /\ ConnectionOK'
  <2>1. FilesOK'
    BY <1>0, <1>12, FilesTyped, Images DEF WritePage, ConnectionOK, files
  <2> QED
    BY <1>0, <1>12, <2>1 DEF WritePage, ConnectionOK
<1>13. CASE GrowFile
  <2>1. FilesOK'
    BY <1>0, <1>13, FilesTyped DEF GrowFile
  <2> QED
    BY <1>0, <1>13, <2>1 DEF GrowFile, ConnectionOK, connection
<1>14. CASE SyncFile \/ SyncPlayback
  <2>1. FilesOK'
    BY <1>0, <1>14, FilesTyped DEF SyncFile, SyncPlayback
  <2> QED
    BY <1>0, <1>14, <2>1 DEF SyncFile, SyncPlayback, Step, ConnectionOK
<1>15. CASE EndCommit
  <2>1. FilesOK'
    BY <1>0, <1>15, FilesTyped, SavedPages DEF EndCommit, FilesOK, IInv
  <2> QED
    BY <1>0, <1>15, <2>1, RestTyped DEF EndCommit, ConnectionOK
<1>16. CASE Truncate
  <2>1. FilesOK'
    BY <1>0, <1>16 DEF Truncate, FilesOK, Image, Cell
  <2> QED
    BY <1>0, <1>16, <2>1 DEF Truncate, Step, ConnectionOK
<1>17. ASSUME NEW p \in Page, PlaybackPage(p)
       PROVE  FilesOK' /\ ConnectionOK'
  <2>1. FilesOK'
    BY <1>0, <1>17, FilesTyped, Images, Journals DEF PlaybackPage, FilesOK
  <2> QED
    BY <1>0, <1>17, <2>1 DEF PlaybackPage, ConnectionOK
<1>18. CASE EndRollback
  <2>1. PageCount(db) \in 0 .. MaxPage
    BY <1>18, CountedSaved DEF EndRollback, IInv, ConnInv, RollbackInv, Still
  <2>2. RolledBack \in Image
    BY <1>0 DEF ConnectionOK, RolledBack, Image
  <2>3. FilesOK'
    BY <1>0, <1>18, FilesTyped DEF EndRollback, FilesOK
  <2>4. cache' \in Image /\ dbSize' \in 0 .. MaxPage /\ orig' \in 0 .. MaxPage
    BY <1>0, <1>18, <2>1, <2>2, Images DEF EndRollback, ConnectionOK
  <2> QED
    BY <1>18, <2>3, <2>4, RestTyped DEF EndRollback
<1>19. CASE Partial /\ (CommitFails \/ EntersError \/ RecoveryFails)
  <2>1. FilesOK'
    BY <1>0, <1>19, FilesTyped DEF Partial, Cell, ConnectionOK
  <2>2. CASE CommitFails
    BY <1>0, <2>1, <2>2 DEF CommitFails, StartRollback, ConnectionOK
  <2>3. CASE EntersError
    BY <1>0, <2>1, <2>3, RestTyped DEF EntersError, ConnectionOK
  <2>4. CASE RecoveryFails
    BY <2>1, <2>4, ResetTyped DEF RecoveryFails
  <2> QED
    BY <1>19, <2>2, <2>3, <2>4
<1>20. CASE Kill
  BY <1>0, <1>20, FilesTyped, ResetTyped DEF Kill
<1>21. CASE PowerLoss
  <2>1. db' \in Image
    BY <1>21 DEF PowerLoss, Image
  <2>2. dbMay' = Settled(db)' /\ journal' \in Journal /\ journalMay' \in SUBSET Journal
    BY <1>0, <1>21 DEF PowerLoss, Settled, FilesOK
  <2>3. Found' \in Image
    BY <2>1, <2>2, Journals, Images DEF Found, Recovered, Image
  <2>4. Saved' \in [Page -> Cell \cup {Unused}]
    BY <2>3, ContentMatches DEF Saved, Found
  <2>5. FilesOK'
    BY <1>21, <2>1, <2>2, <2>4, Images DEF PowerLoss, FilesOK, Settled
  <2> QED
    BY <1>21, <2>5, ResetTyped DEF PowerLoss
<1>22. CASE Read
  BY <1>22, <1>1, <1>2, <1>3, <1>4 DEF Read
<1>23. CASE Transact
  BY <1>23, <1>5, <1>6, <1>7, <1>8, <1>9 DEF Transact
<1>24. CASE Synchronise
  BY <1>24, <1>10, <1>11, <1>12, <1>13, <1>14, <1>15 DEF Synchronise
<1>25. CASE PlayBack
  BY <1>25, <1>10, <1>14, <1>16, <1>17, <1>18 DEF PlayBack
<1>26. CASE Fault
  BY <1>26, <1>19, <1>20, <1>21 DEF Fault, CommitFails, EntersError, RecoveryFails
<1> QED
  BY <1>22, <1>23, <1>24, <1>25, <1>26 DEF Next

-----------------------------------------------------------------------------
(* Steps of the whole: each keeps the invariant, and what is saved.        *)

Kept == FileInv' /\ ConnInv' /\ Saved' = Saved /\ previous' = previous

\* Reading a page into the cache, or giving one up.
LEMMA CacheKeeps ==
  ASSUME IInv, NEW p \in Page, Get(p) \/ Recycle(p)
  PROVE  Kept
<1> USE DEF IInv
<1>1. /\ Reading /\ phase = "none"
      /\ UNCHANGED <<db, dbMay, journal, journalMay, previous, eState, dirty, dbSize,
                     orig, recs, synced, unjournaled, dontWrite, phase, spilling, list>>
      /\ UNCHANGED files
  BY DEF Get, Recycle, Reading, files
<1>2. /\ \A q \in Page : q # p => cache'[q] = cache[q]
      /\ \/ cache'[p] = None /\ p \notin dirty
         \/ /\ p <= dbSize /\ cache[p] = None
            /\ cache'[p] = IF db[p] = None THEN Torn ELSE db[p]
  BY PageAssumption DEF Get, Recycle, View, TypeOK, Image, Page
<1>3. FileInv' /\ Saved' = Saved /\ (Still => Still')
  BY <1>1, FilesUnchanged
<1>4. RestInv' /\ HotInv'
  <2>1. ASSUME eState \in {"READER", "WRITER_LOCKED"}
        PROVE  \A q \in Page : CacheFits(q)'
    <3>1. Match(db, Saved) /\ Ends(db, dbSize) /\ \A q \in Page : CacheFits(q)
      BY <2>1 DEF ConnInv, RestInv, Still
    <3>2. p <= dbSize => db[p] # None
      BY <3>1, PageAssumption DEF Ends, Page, TypeOK
    <3>3. cache'[p] = None \/ Fits(cache'[p], Saved[p])
      BY <1>2, <3>1, <3>2 DEF Match
    <3> QED
      BY <1>2, <1>3, <3>1, <3>3 DEF CacheFits
  <2>2. RestInv'
    BY <1>1, <1>3, <2>1 DEF ConnInv, RestInv, Ends, Blank
  <2>3. HotInv'
    BY <1>1 DEF HotInv, Reading
  <2> QED
    BY <2>2, <2>3
<1>5. OriginalsInv'
  <2> SUFFICES ASSUME Active, NEW q \in Page, q <= orig, recs[q] = None, q \notin unjournaled
               PROVE  CacheFits(q)'
    <3>1. Active => \A q \in Page : q \in dirty => cache'[q] = cache[q]
      BY <1>1, <1>2 DEF ConnInv, OriginalsInv
    <3> QED
      BY <1>1, <1>3, <3>1 DEF ConnInv, OriginalsInv, Active, Ends
  <2>1. CacheFits(q) /\ q \notin synced /\ Saved[q] # None
    BY PageAssumption DEF Active, ConnInv, OriginalsInv, Ends, Page, TypeOK
  <2>2. Fits(db[q], Saved[q]) /\ db[q] # None
    BY <2>1 DEF Active, ConnInv, OriginalsInv, FileInv
  <2> QED
    BY <1>2, <1>3, <2>1, <2>2 DEF CacheFits
<1>6. JournalInv'
  BY <1>1, <1>3 DEF ConnInv, JournalInv, Active
<1>7. CommitInv'
  <2> SUFFICES ASSUME Forward
               PROVE  /\ \A q \in Page : q \notin dirty => InFile(q)'
                      /\ \A q \in Page : cache'[q] # None => q <= dbSize
    BY <1>1, <1>3 DEF ConnInv, CommitInv, Forward, Active, InFile, Idle
  <2>1. \A q \in Page : q \notin dirty => InFile(q)'
    <3>1. \A q \in Page : q \notin dirty => InFile(q)
      BY DEF ConnInv, CommitInv
    <3>2. p <= dbSize /\ p \notin dirty /\ db[p] = None => p \in dontWrite
      BY DEF ConnInv, CommitInv
    <3> QED
      BY <1>1, <1>2, <1>3, <3>1, <3>2 DEF InFile, Idle
  <2>2. \A q \in Page : cache'[q] # None => q <= dbSize
    BY <1>2 DEF ConnInv, CommitInv
  <2> QED
    BY <2>1, <2>2
<1>8. RollbackInv'
  BY <1>1, <1>3 DEF ConnInv, RollbackInv, Active
<1> QED
  BY <1>1, <1>3, <1>4, <1>5, <1>6, <1>7, <1>8 DEF Kept, ConnInv

\* Reading changes nothing that is saved.
LEMMA ReadKeeps ==
  ASSUME IInv, Read
  PROVE  Kept
<1> USE DEF IInv
<1>1. CASE Open
  BY <1>1, FilesUnchanged, AtRestStep DEF Open, Kept, Reset, files
<1>2. CASE SharedLock /\ journal.hot /\ db # Blank
  <2>1. /\ eState = "OPEN" /\ phase = "none" /\ phase' = "SyncHot"
        /\ UNCHANGED <<files, eState, cache, dirty, dbSize, orig, recs, synced,
                       unjournaled, dontWrite, spilling, list>>
    BY <1>2 DEF SharedLock
  <2>2. FileInv' /\ Saved' = Saved
    BY <2>1, FilesUnchanged
  <2>3. cache = Blank
    BY <1>2, <2>1 DEF ConnInv, HotInv
  <2>4. ConnInv'
    BY <1>2, <2>1, <2>3 DEF ConnInv, RestInv, HotInv, OriginalsInv, JournalInv, CommitInv,
       RollbackInv, Active, Forward, files
  <2> QED
    BY <2>1, <2>2, <2>4 DEF Kept, files
<1>3. CASE SharedLock /\ (~journal.hot \/ db = Blank)
  <2>1. /\ eState = "OPEN" /\ phase = "none" /\ AtRest("READER") /\ dbSize' = PageCount(db)
        /\ (db = Blank /\ DeleteJournal) \/ UNCHANGED <<journal, journalMay>>
        /\ UNCHANGED <<db, dbMay, previous, cache, orig>>
    BY <1>3 DEF SharedLock
  <2>2. Still
    BY <1>3, ColdJournal
  <2>3. FileInv' /\ Saved' = Saved /\ Still'
    BY <2>1, <2>2, DeleteStep, FilesUnchanged DEF files
  <2>4. Ends(db, dbSize)'
    BY <2>1, <2>2, CountedSaved DEF Still, Ends
  <2>5. \A p \in Page : CacheFits(p)'
    BY <2>1, <2>3 DEF ConnInv, HotInv, Blank, CacheFits
  <2>6. ~journal'.hot \/ db' = Blank
    BY <1>3, <2>1 DEF DeleteJournal, Cold
  <2> QED
    BY <2>1, <2>3, <2>4, <2>5, <2>6, AtRestStep DEF Kept
<1>4. CASE Unlock
  <2>1. FileInv' /\ Saved' = Saved /\ previous' = previous
    BY <1>4, FilesUnchanged DEF Unlock, files
  <2>2. cache' = Blank \/ (~journal'.hot /\ \A p \in Page : CacheFits(p)')
    <3>1. CASE eState = "ERROR"
      BY <1>4, <3>1 DEF Unlock, Reset
    <3>2. CASE eState = "READER"
      <4>0. Still /\ (\A p \in Page : CacheFits(p)) /\ cache' = cache /\ journal' = journal
            /\ (~journal.hot \/ db = Blank)
        BY <1>4, <3>2 DEF Unlock, files, ConnInv, RestInv
      <4>1. CASE ~journal.hot
        BY <2>1, <4>0, <4>1 DEF CacheFits
      <4>2. CASE db = Blank
        <5>1. Saved = Blank
          BY <4>0, <4>2, BlankFile DEF Still
        <5>2. \A p \in Page : cache[p] = None
          BY <4>0, <5>1, DataAssumption DEF CacheFits, Fits, Blank
        <5>3. cache = Blank
          BY <5>2 DEF Blank, TypeOK, Image
        <5> QED
          BY <4>0, <5>3
      <4> QED
        BY <4>0, <4>1, <4>2
    <3> QED
      BY <1>4, <3>1, <3>2 DEF Unlock
  <2> QED
    BY <1>4, <2>1, <2>2, AtRestStep DEF Unlock, Kept
<1> QED
  BY <1>1, <1>2, <1>3, <1>4, CacheKeeps DEF Read

\* In a transaction that has not changed anything yet the file is at rest.
LEMMA EndsAtOnce ==
  ASSUME IInv, eState = "WRITER_LOCKED", AtRest("READER"),
         UNCHANGED <<files, cache, dbSize, orig>>
  PROVE  Kept
<1>1. FileInv' /\ Saved' = Saved /\ (Still => Still')
  BY FilesUnchanged DEF IInv
<1>2. Still /\ Ends(db, dbSize) /\ (~journal.hot \/ db = Blank)
      /\ \A p \in Page : CacheFits(p)
  BY DEF IInv, ConnInv, RestInv
<1>3. \A p \in Page : CacheFits(p)'
  BY <1>1, <1>2 DEF CacheFits
<1>4. ConnInv'
  BY <1>1, <1>2, <1>3, AtRestStep DEF files, Ends
<1> QED
  BY <1>1, <1>4 DEF Kept, files

\* The first write of a transaction opens the journal.
LEMMA FirstWriteKeeps ==
  ASSUME IInv, NEW p \in Page, NEW v \in Data, Write(p, v), eState = "WRITER_LOCKED"
  PROVE  Kept
<1> USE DEF IInv
<1>1. /\ db' = db /\ dbMay' = dbMay /\ previous' = previous /\ orig' = orig
      /\ UNCHANGED <<synced, unjournaled, phase, spilling, list>>
      /\ phase = "none" /\ p <= dbSize + 1 /\ dirty' = dirty \cup {p}
      /\ dontWrite' = dontWrite \ {p} /\ eState' = "WRITER_CACHEMOD"
      /\ dbSize' = IF p > dbSize THEN p ELSE dbSize
  BY DEF Write, Writing, PutInCache
<1>2. \A q \in Page : cache[q]' = IF q = p THEN v ELSE cache[q]
  BY DEF Write, PutInCache, TypeOK, Image
<1>3. /\ Still /\ Ends(db, dbSize) /\ Match(db, Saved) /\ Ends(Saved, orig) /\ orig = dbSize
      /\ dirty = {} /\ recs = Blank /\ synced = {} /\ spilling = FALSE /\ list = {}
      /\ unjournaled = {} /\ dontWrite = {}
      /\ \A q \in Page : CacheFits(q)
  BY MatchEnds DEF ConnInv, RestInv, Still
<1>4. \A q \in Page : recs[q]' = IF q = p /\ p <= orig THEN View[p] ELSE None
  BY <1>3 DEF Write, TypeOK, Image, Blank
<1>5. dbSize' > 0 /\ (\A q \in Page : q <= dbSize' /\ q # p => q <= dbSize)
      /\ (\A q \in Page : q > dbSize' => q > dbSize /\ q # p) /\ p <= dbSize'
      /\ (\A q \in Page : q <= dbSize => q <= dbSize')
  BY <1>1, PageAssumption DEF Page, TypeOK
<1>6. v # None
  BY DataAssumption
<1>7. FileInv' /\ Saved' = Saved /\ Still'
  BY <1>1, <1>3, DeleteStep DEF Write
<1>8. \A q \in Page : q <= orig => /\ Saved[q] # None /\ db[q] # None
                                   /\ \A c \in dbMay[q] : Fits(c, Saved[q])
  <2> SUFFICES ASSUME NEW q \in Page, q <= orig
               PROVE  /\ Saved[q] # None /\ db[q] # None
                      /\ \A c \in dbMay[q] : Fits(c, Saved[q])
    OBVIOUS
  <2>1. Saved[q] # None /\ db[q] # None
    BY <1>3, PageAssumption DEF Ends, Page, TypeOK
  <2>2. Quiet
    BY <1>3, <2>1, NotBlank DEF Still
  <2> QED
    BY <2>1, <2>2 DEF Quiet
<1>9. p <= orig => View[p] # None /\ Fits(View[p], Saved[p])
  BY <1>3, <1>8, FitsNone, PageAssumption DEF View, Page, TypeOK, CacheFits, Match
<1>10. OriginalsInv'
  <2>1. Ends(Saved, orig)'
    BY <1>1, <1>3, <1>7 DEF Ends
  <2>2. \A q \in Page : /\ recs[q]' # None => q <= orig /\ Fits(recs[q]', Saved[q])
                        /\ q <= orig /\ recs[q]' = None => q # p /\ CacheFits(q)'
    BY <1>2, <1>3, <1>4, <1>7, <1>9 DEF CacheFits
  <2>3. \A q \in Page : q \in dirty' => cache[q]' # None /\ q <= dbSize'
    BY <1>1, <1>2, <1>3, <1>5, <1>6
  <2> QED
    BY <1>1, <1>3, <1>5, <1>7, <1>8, <2>1, <2>2, <2>3 DEF OriginalsInv
<1>11. RestInv' /\ HotInv' /\ JournalInv' /\ RollbackInv'
  BY <1>1, <1>3, <1>7 DEF RestInv, HotInv, JournalInv, RollbackInv, Active
<1>12. CommitInv'
  <2>1. ASSUME NEW q \in Page, q \notin dirty'
        PROVE  InFile(q)' /\ (q <= dbSize' => db[q] # None)
    <3>1. q # p /\ recs[q]' = None /\ cache[q]' = cache[q]
      BY <1>1, <1>2, <1>4, <2>1
    <3>2. InFile(q)'
      BY <1>1, <1>3, <1>7, <3>1 DEF InFile, Idle, CacheFits, Match, Fits
    <3> QED
      BY <1>1, <1>3, <1>5, <1>8, <3>1, <3>2
  <2>2. \A q \in Page : cache[q]' # None => q <= dbSize'
    <3>1. \A q \in Page : cache[q] # None => Saved[q] # None
      BY <1>3, FitsNone DEF CacheFits
    <3>2. \A q \in Page : cache[q] # None => q <= dbSize
      BY <1>3, <3>1, PageAssumption DEF Ends, Page, TypeOK
    <3> QED
      BY <1>2, <1>5, <3>2
  <2>3. \A q \in Page : q > dbSize' => db[q] = None
    BY <1>3, <1>5 DEF Ends
  <2> QED
    BY <1>1, <1>3, <2>1, <2>2, <2>3 DEF CommitInv
<1> QED
  BY <1>1, <1>7, <1>10, <1>11, <1>12 DEF Kept, ConnInv

\* The ones after it, with a record or without.
LEMMA WriteKeeps ==
  ASSUME IInv, NEW p \in Page, NEW v \in Data, Write(p, v) \/ Overwrite(p, v)
  PROVE  Kept
<1> USE DEF IInv
<1>1. CASE eState = "WRITER_LOCKED"
  BY <1>1, FirstWriteKeeps DEF Overwrite
<1>2. CASE eState # "WRITER_LOCKED"
  <2>1. /\ UNCHANGED files /\ UNCHANGED <<db, dbMay, journal, journalMay, previous>>
        /\ UNCHANGED <<eState, orig, synced, phase, spilling, list>>
        /\ phase = "none" /\ dirty' = dirty \cup {p} /\ dontWrite' = dontWrite \ {p}
        /\ eState \in {"WRITER_CACHEMOD", "WRITER_DBMOD"}
    BY <1>2 DEF Write, Overwrite, Writing, PutInCache, files
  <2>2. \A q \in Page : cache[q]' = IF q = p THEN v ELSE cache[q]
    BY DEF Write, Overwrite, PutInCache, TypeOK, Image
  <2>3. v # None
    BY DataAssumption
  <2>4. FileInv' /\ Saved' = Saved /\ (Still => Still') /\ Active /\ Forward
    BY <2>1, FilesUnchanged DEF Active, Forward
  <2>5. /\ Ends(Saved, orig) /\ dbSize > 0
        /\ \A q \in Page :
              /\ recs[q] # None => q <= orig /\ Fits(recs[q], Saved[q])
              /\ q <= orig /\ recs[q] = None /\ q \notin unjournaled =>
                    q \notin dirty /\ CacheFits(q)
              /\ q <= orig /\ q \notin synced => \A c \in dbMay[q] : Fits(c, Saved[q])
              /\ q \in unjournaled => Saved[q] = Unused
              /\ q \in synced => recs[q] # None
              /\ q \in dirty => cache[q] # None /\ q <= dbSize
    BY <2>4 DEF ConnInv, OriginalsInv
  <2>6. /\ dbSize' > 0 /\ p <= dbSize'
        /\ \A q \in Page : /\ q <= dbSize' /\ q # p => q <= dbSize
                           /\ q > dbSize' => q > dbSize
                           /\ q <= dbSize => q <= dbSize'
    <3>1. CASE Write(p, v)
      BY <3>1, <2>5, PageAssumption DEF Write, Page, TypeOK
    <3>2. CASE Overwrite(p, v)
      <4>1. p <= dbSize
        BY <2>4, <3>2, OldPages, DataAssumption DEF Overwrite
      <4> QED
        BY <3>2, <4>1, <2>5, PageAssumption DEF Overwrite, Page, TypeOK
    <3> QED
      BY <3>1, <3>2
  <2>7. ASSUME p <= orig, recs[p] = None, p \notin unjournaled
        PROVE  View[p] # None /\ Fits(View[p], Saved[p])
    <3>1. Saved[p] # None
      BY <2>5, <2>7, PageAssumption DEF Ends, Page, TypeOK
    <3>2. CacheFits(p) /\ Fits(db[p], Saved[p])
      BY <2>5, <2>7 DEF FileInv
    <3>3. p <= dbSize /\ db[p] # None
      BY <2>4, <3>1, OldPages
    <3> QED
      BY <3>2, <3>3, PageAssumption DEF View, CacheFits, Page, TypeOK
  <2>8. /\ \A q \in Page : recs[q]' = recs[q] \/ (recs[q] = None /\ q = p)
        /\ \A q \in Page : q \in unjournaled' <=> q \in unjournaled \/ (q = p /\ Overwrite(p, v))
        /\ recs[p]' # None => p <= orig /\ Fits(recs[p]', Saved[p])
        /\ p <= orig => recs[p]' # None \/ p \in unjournaled'
        /\ p \in unjournaled' => Saved[p] = Unused
    <3>1. CASE Write(p, v)
      <4>1. ~Overwrite(p, v) \/ p \in unjournaled \/ Overwrite(p, v)
        OBVIOUS
      <4>2. unjournaled' = unjournaled
        BY <3>1 DEF Write
      <4>3. \A q \in Page : recs[q]' = IF q = p /\ p <= orig /\ recs[p] = None /\ p \notin unjournaled
                                       THEN View[p] ELSE recs[q]
        BY <3>1 DEF Write, TypeOK, Image
      <4>4. Overwrite(p, v) => p \in unjournaled
        BY <4>2 DEF Overwrite
      <4> QED
        BY <2>5, <2>7, <4>2, <4>3, <4>4
    <3>2. CASE Overwrite(p, v)
      BY <2>5, <3>2 DEF Overwrite
    <3> QED
      BY <3>1, <3>2
  <2>9. OriginalsInv'
    <3>1. Ends(Saved, orig)'
      BY <2>1, <2>4, <2>5 DEF Ends
    <3>2. \A q \in Page :
              /\ recs[q]' # None => q <= orig /\ Fits(recs[q]', Saved[q])
              /\ q <= orig /\ recs[q]' = None /\ q \notin unjournaled' =>
                    q \notin dirty' /\ CacheFits(q)'
              /\ q \in unjournaled' => Saved[q] = Unused
              /\ q \in synced => recs[q]' # None
      BY <2>1, <2>2, <2>4, <2>5, <2>8 DEF CacheFits
    <3>3. \A q \in Page : q \in dirty' => cache[q]' # None /\ q <= dbSize'
      BY <2>1, <2>2, <2>3, <2>5, <2>6
    <3> QED
      BY <2>1, <2>4, <2>5, <2>6, <3>1, <3>2, <3>3 DEF OriginalsInv
  <2>10. RestInv' /\ HotInv' /\ RollbackInv'
    BY <2>1 DEF RestInv, HotInv, RollbackInv, Active
  <2>11. JournalInv'
    <3>1. ASSUME eState = "WRITER_DBMOD", NEW j \in journalMay
          PROVE  /\ j.hot /\ j.orig = orig
                 /\ \A q \in Page : j.recs[q] \in {None, recs[q]'}
                 /\ \A q \in synced : j.recs[q] = recs[q]'
      <4>1. \A q \in synced : q \in Page /\ recs[q] # None
        BY <2>5 DEF TypeOK
      <4>2. /\ j.hot /\ j.orig = orig
            /\ \A q \in Page : j.recs[q] \in {None, recs[q]}
            /\ \A q \in synced : j.recs[q] = recs[q]
        BY <3>1 DEF ConnInv, JournalInv
      <4> QED
        BY <2>8, <4>1, <4>2
    <3> QED
      BY <2>1, <2>4, <3>1 DEF ConnInv, JournalInv, Active
  <2>12. CommitInv'
    <3>1. \A q \in Page :
              /\ q \notin dirty => InFile(q)
              /\ q <= dbSize /\ q \notin dirty /\ q \notin dontWrite => db[q] # None
              /\ cache[q] # None \/ q \in dontWrite => q <= dbSize
              /\ q > dbSize => db[q] = None
      BY <2>4 DEF ConnInv, CommitInv
    <3>2. \A q \in Page : q \notin dirty' => InFile(q)'
      BY <2>1, <2>2, <2>4, <2>8, <3>1 DEF InFile, Idle
    <3>3. \A q \in Page :
              /\ q <= dbSize' /\ q \notin dirty' /\ q \notin dontWrite' => db[q] # None
              /\ cache[q]' # None \/ q \in dontWrite' => q <= dbSize'
              /\ q > dbSize' => db[q] = None
      BY <2>1, <2>2, <2>6, <3>1
    <3> QED
      BY <2>1, <2>4, <3>2, <3>3 DEF ConnInv, CommitInv
  <2> QED
    BY <2>1, <2>4, <2>9, <2>10, <2>11, <2>12 DEF Kept, ConnInv
<1> QED
  BY <1>1, <1>2

\* A statement at work: nothing of it is in the file before its originals are
\* in the synced journal.
LEMMA TransactKeeps ==
  ASSUME IInv, Transact
  PROVE  Kept
<1> USE DEF IInv
<1>1. CASE Begin
  <2>1. FileInv' /\ Saved' = Saved /\ (Still => Still')
    BY <1>1, FilesUnchanged DEF Begin
  <2>2. /\ eState = "READER" /\ eState' = "WRITER_LOCKED" /\ orig' = dbSize
        /\ UNCHANGED <<db, dbMay, journal, journalMay, previous, cache, dirty, dbSize, recs,
                       synced, unjournaled, dontWrite, phase, spilling, list>>
    BY <1>1 DEF Begin, files
  <2>3. RestInv'
    BY <2>1, <2>2 DEF ConnInv, RestInv, Ends, CacheFits
  <2>4. HotInv' /\ OriginalsInv' /\ JournalInv' /\ CommitInv' /\ RollbackInv'
    BY <2>1, <2>2 DEF ConnInv, RestInv, HotInv, OriginalsInv, JournalInv, CommitInv,
       RollbackInv, Active, Forward
  <2> QED
    BY <2>1, <2>2, <2>3, <2>4 DEF Kept, ConnInv
<1>2. CASE Commit /\ eState = "WRITER_LOCKED"
  BY <1>2, EndsAtOnce DEF Commit
<1>3. CASE Commit /\ eState # "WRITER_LOCKED"
  <2>1. FileInv' /\ Saved' = Saved /\ (Still => Still')
    BY <1>3, FilesUnchanged DEF Commit
  <2>2. /\ eState \in {"WRITER_CACHEMOD", "WRITER_DBMOD"} /\ phase = "none" /\ FreeListKept
        /\ phase' = "SyncRecords" /\ spilling' = FALSE /\ list' = dirty
        /\ UNCHANGED <<db, dbMay, journal, journalMay, previous, eState, cache, dirty,
                       dbSize, orig, recs, synced, unjournaled, dontWrite>>
    BY <1>3 DEF Commit, Writing, files
  <2>3. RestInv' /\ HotInv' /\ JournalInv' /\ RollbackInv'
    BY <2>1, <2>2 DEF ConnInv, RestInv, HotInv, JournalInv, RollbackInv, Active
  <2>4. FreeListKept'
    BY <2>1, <2>2, ListKept DEF View
  <2>5. OriginalsInv'
    BY <2>1, <2>2 DEF ConnInv, OriginalsInv, Active, Ends, CacheFits
  <2>6. CommitInv'
    BY <2>1, <2>2, <2>4 DEF ConnInv, CommitInv, Active, Forward, InFile, Idle
  <2> QED
    BY <2>1, <2>2, <2>3, <2>5, <2>6 DEF Kept, ConnInv
<1>4. CASE Rollback /\ eState = "WRITER_LOCKED"
  BY <1>4, EndsAtOnce DEF Rollback
<1>5. CASE Rollback /\ eState # "WRITER_LOCKED"
  <2>1. FileInv' /\ Saved' = Saved /\ (Still => Still')
    BY <1>5, FilesUnchanged DEF Rollback
  <2>2. /\ eState \in {"WRITER_CACHEMOD", "WRITER_DBMOD"} /\ phase = "none"
        /\ phase' = IF eState = "WRITER_CACHEMOD" THEN "EndRollback" ELSE "Truncate"
        /\ spilling' = FALSE
        /\ list' = IF eState = "WRITER_CACHEMOD" THEN {} ELSE synced
        /\ UNCHANGED <<db, dbMay, journal, journalMay, previous, eState, cache, dirty,
                       dbSize, orig, recs, synced, unjournaled, dontWrite>>
    BY <1>5 DEF Rollback, Writing, StartRollback, files
  <2>3. RestInv' /\ HotInv' /\ JournalInv' /\ CommitInv' /\ RollbackInv'
    BY <2>1, <2>2 DEF ConnInv, RestInv, HotInv, JournalInv, CommitInv, RollbackInv, Active,
       Forward
  <2>4. OriginalsInv'
    BY <2>1, <2>2 DEF ConnInv, OriginalsInv, Active, Ends, CacheFits
  <2> QED
    BY <2>1, <2>2, <2>3, <2>4 DEF Kept, ConnInv
<1>6. ASSUME NEW p \in Page, Spill(p)
      PROVE  Kept
  <2>1. FileInv' /\ Saved' = Saved /\ (Still => Still')
    BY <1>6, FilesUnchanged DEF Spill
  <2>2. /\ eState \in {"WRITER_LOCKED", "WRITER_CACHEMOD", "WRITER_DBMOD"} /\ phase = "none"
        /\ p \in dirty /\ spilling' = TRUE /\ list' = {p}
        /\ phase' = IF NeedSync(p) THEN "SyncRecords" ELSE "WritePages"
        /\ UNCHANGED <<db, dbMay, journal, journalMay, previous, eState, cache, dirty,
                       dbSize, orig, recs, synced, unjournaled, dontWrite>>
    BY <1>6 DEF Spill, Writing, files
  <2>3. eState \in {"WRITER_CACHEMOD", "WRITER_DBMOD"} /\ Active /\ Forward
    BY <2>2 DEF ConnInv, RestInv, Active, Forward
  <2>4. phase' = "WritePages" =>
            eState = "WRITER_DBMOD" /\ (p > orig \/ p \in synced \/ p \in unjournaled)
    BY <2>2, <2>3, PageAssumption DEF NeedSync, ConnInv, OriginalsInv, Page, TypeOK
  <2>5. RestInv' /\ HotInv' /\ JournalInv' /\ RollbackInv'
    BY <2>1, <2>2, <2>3, <2>4 DEF ConnInv, RestInv, HotInv, JournalInv, RollbackInv, Active
  <2>6. OriginalsInv'
    BY <2>1, <2>2, <2>3 DEF ConnInv, OriginalsInv, Active, Ends, CacheFits
  <2>7. CommitInv'
    BY <2>1, <2>2, <2>3, <2>4 DEF ConnInv, CommitInv, Forward, InFile, Idle
  <2> QED
    BY <2>1, <2>2, <2>5, <2>6, <2>7 DEF Kept, ConnInv
<1>7. ASSUME NEW p \in Page, DontWrite(p)
      PROVE  Kept
  <2>1. FileInv' /\ Saved' = Saved /\ (Still => Still')
    BY <1>7, FilesUnchanged DEF DontWrite
  <2>2. /\ eState \in {"WRITER_LOCKED", "WRITER_CACHEMOD", "WRITER_DBMOD"} /\ phase = "none"
        /\ p \in dirty /\ dontWrite' = dontWrite \cup {p}
        /\ UNCHANGED <<db, dbMay, journal, journalMay, previous, eState, cache, dirty,
                       dbSize, orig, recs, synced, unjournaled, phase, spilling, list>>
    BY <1>7 DEF DontWrite, Writing, files
  <2>3. eState \in {"WRITER_CACHEMOD", "WRITER_DBMOD"} /\ Active /\ Forward
    BY <2>2 DEF ConnInv, RestInv, Active, Forward
  <2>4. RestInv' /\ HotInv' /\ JournalInv' /\ RollbackInv'
    BY <2>1, <2>2, <2>3 DEF ConnInv, RestInv, HotInv, JournalInv, RollbackInv, Active
  <2>5. OriginalsInv'
    BY <2>1, <2>2, <2>3 DEF ConnInv, OriginalsInv, Active, Ends, CacheFits
  <2>6. p <= dbSize
    BY <2>2, <2>3 DEF ConnInv, OriginalsInv
  <2>7. CommitInv'
    BY <2>1, <2>2, <2>3, <2>6 DEF ConnInv, CommitInv, Forward, InFile, Idle
  <2> QED
    BY <2>1, <2>2, <2>4, <2>5, <2>7 DEF Kept, ConnInv
<1> QED
  BY <1>1, <1>2, <1>3, <1>4, <1>5, <1>6, <1>7, WriteKeeps DEF Transact

\* The calls before the file is written.
LEMMA JournalKeeps ==
  ASSUME IInv, SyncRecords \/ WriteHeader \/ SyncHeader
  PROVE  Kept
<1> USE DEF IInv
<1>1. /\ Active /\ Forward /\ eState \in {"WRITER_CACHEMOD", "WRITER_DBMOD"}
      /\ Ends(Saved, orig)
      /\ phase \in {"SyncRecords", "WriteHeader", "SyncHeader"}
  BY UnderWay DEF SyncRecords, WriteHeader, SyncHeader, Step, ConnInv, OriginalsInv
<1>2. UNCHANGED <<db, dbMay, previous, cache, dirty, dbSize, orig, recs, unjournaled,
                  dontWrite, spilling, list>>
  BY DEF SyncRecords, WriteHeader, SyncHeader
<1>3. ASSUME Saved' = Saved, synced' = synced, Active', phase' \in {"WriteHeader", "SyncHeader"}
      PROVE  OriginalsInv' /\ CommitInv'
  <2>1. OriginalsInv'
    BY <1>1, <1>2, <1>3 DEF ConnInv, OriginalsInv, Ends, CacheFits
  <2>2. FreeListKept => FreeListKept'
    BY <1>2, <1>3, ListKept DEF View
  <2>3. CommitInv'
    BY <1>1, <1>2, <1>3, <2>2 DEF ConnInv, CommitInv, InFile, Idle
  <2> QED
    BY <2>1, <2>3
<1>4. CASE SyncRecords
  <2>1. FileInv' /\ Saved' = Saved /\ (Still => Still') /\ journalMay' = {journal}
        /\ journal' = journal /\ journal \in journalMay
    BY <1>4, SyncStep DEF SyncRecords, FileInv
  <2>2. phase' = "WriteHeader" /\ eState' = eState /\ synced' = synced
    BY <1>4 DEF SyncRecords, Step
  <2>3. RestInv' /\ HotInv' /\ JournalInv' /\ RollbackInv'
    BY <1>1, <1>2, <2>1, <2>2
    DEF ConnInv, RestInv, HotInv, JournalInv, RollbackInv, Active
  <2>4. OriginalsInv' /\ CommitInv'
    BY <1>1, <1>3, <2>1, <2>2 DEF Active
  <2> QED
    BY <1>2, <2>1, <2>3, <2>4 DEF Kept, ConnInv
<1>5. CASE WriteHeader
  <2>1. \A p \in Page :
           /\ recs[p] # None => p <= orig /\ Fits(recs[p], Saved[p])
           /\ p <= orig /\ recs[p] = None => \A c \in dbMay[p] : Fits(c, Saved[p])
    BY <1>1 DEF ConnInv, OriginalsInv
  <2>2. FileInv' /\ Saved' = Saved /\ (Still => Still')
    BY <1>1, <1>2, <1>5, <2>1, HeaderStep DEF WriteHeader
  <2>3. phase' = "SyncHeader" /\ eState' = eState /\ synced' = synced
    BY <1>5 DEF WriteHeader, Step
  <2>4. /\ journal' = [hot |-> TRUE, orig |-> orig, recs |-> recs]
        /\ journalMay' = journalMay \cup {journal'}
    BY <1>5 DEF WriteHeader, PutHeader
  <2>5. JournalInv'
    BY <1>1, <1>2, <2>2, <2>3, <2>4 DEF ConnInv, JournalInv, Active, TypeOK
  <2>6. RestInv' /\ HotInv' /\ RollbackInv'
    BY <1>1, <1>2, <2>2, <2>3 DEF ConnInv, RestInv, HotInv, RollbackInv, Active
  <2>7. OriginalsInv' /\ CommitInv'
    BY <1>1, <1>3, <2>2, <2>3 DEF Active
  <2> QED
    BY <1>2, <2>2, <2>5, <2>6, <2>7 DEF Kept, ConnInv
<1>6. CASE SyncHeader
  <2>1. FileInv' /\ Saved' = Saved /\ journalMay' = {journal} /\ journal' = journal
    BY <1>6, SyncStep DEF SyncHeader
  <2>2. /\ phase = "SyncHeader" /\ phase' = "WritePages" /\ eState' = "WRITER_DBMOD"
        /\ synced' = {p \in Page : recs[p] # None}
    BY <1>6 DEF SyncHeader, Step
  <2>3. journal = [hot |-> TRUE, orig |-> orig, recs |-> recs]
    BY <1>1, <2>2 DEF ConnInv, JournalInv
  <2>4. JournalInv'
    BY <1>2, <2>1, <2>2, <2>3 DEF JournalInv, Active
  <2>5. RestInv' /\ HotInv' /\ RollbackInv'
    BY <1>1, <2>2 DEF RestInv, HotInv, RollbackInv, Active
  <2>6. OriginalsInv'
    BY <1>1, <1>2, <2>1, <2>2 DEF ConnInv, OriginalsInv, Ends, CacheFits
  <2>7. \A p \in list : p > orig \/ p \in synced' \/ p \in unjournaled
    BY <1>1, <2>2, PageAssumption
    DEF ConnInv, OriginalsInv, CommitInv, Page, TypeOK
  <2>8. FreeListKept => FreeListKept'
    BY <1>2, <2>1, ListKept DEF View
  <2>9. CommitInv'
    BY <1>1, <1>2, <2>1, <2>2, <2>7, <2>8 DEF ConnInv, CommitInv, Forward, Active, InFile, Idle
  <2> QED
    BY <1>2, <2>1, <2>4, <2>5, <2>6, <2>9 DEF Kept, ConnInv
<1> QED
  BY <1>4, <1>5, <1>6

\* A page of the transaction is written to the file.
LEMMA WritePageKeeps ==
  ASSUME IInv, TypeOK', NEW p \in Page, WritePage(p)
  PROVE  Kept
<1> USE DEF IInv
<1>1. /\ phase = "WritePages" /\ p \in list /\ list' = list \ {p} /\ spilling' = FALSE
      /\ phase' = IF spilling THEN "none" ELSE phase
      /\ dirty' = IF spilling THEN dirty \ {p} ELSE dirty
      /\ UNCHANGED <<journal, journalMay, previous, eState, cache, dbSize, orig, recs, synced,
                     unjournaled, dontWrite>>
  BY DEF WritePage
<1>2. /\ \A q \in Page \ {p} : db[q]' = db[q] /\ dbMay[q]' = dbMay[q]
      /\ p \in dontWrite => UNCHANGED <<db, dbMay>>
      /\ p \notin dontWrite => db[p]' = cache[p] /\ dbMay[p]' = dbMay[p] \cup {cache[p], Torn}
  BY DEF WritePage, Put, TypeOK, Image
<1>3. Active /\ Forward /\ eState = "WRITER_DBMOD" /\ Sure
  BY <1>1, UnderWay, Undoable DEF ConnInv
<1>4. /\ p \in dirty /\ cache[p] # None /\ p <= dbSize /\ list \subseteq dirty
      /\ p > orig \/ p \in synced \/ p \in unjournaled
      /\ spilling => list = {p}
      /\ ~spilling => FreeListKept /\ \A q \in dirty \ list : db[q] = cache[q] \/ q \in dontWrite
  BY <1>1, <1>3 DEF ConnInv, CommitInv, OriginalsInv
<1>5. \A j \in journalMay : /\ j.hot /\ (p > j.orig \/ j.recs[p] # None \/ Saved[p] = Unused)
                            /\ None \in dbMay[p] => p > j.orig
  <2>1. \A j \in journalMay : j.hot /\ (p > j.orig \/ j.recs[p] # None \/ Saved[p] = Unused)
    BY <1>3, <1>4 DEF ConnInv, JournalInv, OriginalsInv
  <2>2. \A j \in journalMay : None \in dbMay[p] => ~(p <= j.orig)
    BY <2>1 DEF FileInv
  <2>3. \A j \in journalMay : ~(p <= j.orig) => p > j.orig
    BY PageAssumption DEF Page, TypeOK, Journal
  <2> QED
    BY <2>1, <2>2, <2>3
<1>6. FileInv' /\ Saved' = Saved
  <2>1. CASE p \in dontWrite
    BY <1>1, <1>2, <2>1, FilesUnchanged DEF files
  <2>2. CASE p \notin dontWrite
    <3>1. db[p]' \in dbMay[p]' /\ {p} \in SUBSET Page
      BY <1>2, <2>2
    <3>2. None \in dbMay[p]' => None \in dbMay[p]
      BY <1>2, <1>4, <2>2, DataAssumption
    <3>3. \A q \in {p} :
             /\ db[q]' \in dbMay[q]'
             /\ None \in dbMay[q]' => \A j \in journalMay : q > j.orig
             /\ \A j \in journalMay :
                   j.hot /\ (q > j.orig \/ j.recs[q] # None \/ Saved[q] = Unused)
      BY <1>5, <3>1, <3>2
    <3> QED
      BY <1>1, <1>2, <1>3, <3>1, <3>3, PutStep
  <2> QED
    BY <2>1, <2>2
<1>7. JournalInv' /\ RestInv' /\ HotInv' /\ RollbackInv'
  BY <1>1, <1>3 DEF ConnInv, JournalInv, RestInv, HotInv, RollbackInv, Active
<1>8. OriginalsInv'
  <2>1. ASSUME NEW q \in Page, q <= orig, q \notin synced
        PROVE  \A c \in dbMay[q]' : Fits(c, Saved[q])
    <3>1. \A c \in dbMay[q] : Fits(c, Saved[q])
      BY <1>3, <2>1 DEF ConnInv, OriginalsInv
    <3>2. ASSUME q = p, p \notin dontWrite
          PROVE  \A c \in dbMay[q]' : Fits(c, Saved[q])
      <4>1. p \in unjournaled
        BY <1>4, <2>1, <3>2, PageAssumption DEF Page, TypeOK
      <4>2. Saved[p] = Unused
        BY <1>3, <4>1 DEF ConnInv, OriginalsInv
      <4> QED
        BY <1>2, <1>4, <3>1, <3>2, <4>2, DataAssumption DEF Fits
    <3> QED
      BY <1>2, <3>1, <3>2
  <2>2. dirty' \subseteq dirty
    BY <1>1
  <2> QED
    BY <1>1, <1>3, <1>6, <2>1, <2>2 DEF ConnInv, OriginalsInv, Active, Ends, CacheFits
<1>9. CommitInv'
  <2>1. \A q \in Page :
          /\ q \notin dirty => InFile(q)
          /\ q <= dbSize /\ q \notin dirty /\ q \notin dontWrite => db[q] # None
          /\ cache[q] # None \/ q \in dontWrite => q <= dbSize
          /\ q > dbSize => db[q] = None
    BY <1>3 DEF ConnInv, CommitInv
  <2>2. ~(p > dbSize)
    BY <1>4, PageAssumption DEF Page, TypeOK
  <2>3. \A q \in Page :
          /\ q \notin dirty' => InFile(q)'
          /\ q <= dbSize /\ q \notin dirty' /\ q \notin dontWrite => db[q]' # None
          /\ q > dbSize => db[q]' = None
    BY <1>1, <1>2, <1>4, <1>6, <2>1, <2>2 DEF InFile, Idle
  <2>4. \A q \in list' : q > orig \/ q \in synced \/ q \in unjournaled
    BY <1>1, <1>3 DEF ConnInv, CommitInv
  <2>5. phase' = "WritePages" => \A q \in dirty' \ list' : db[q]' = cache[q] \/ q \in dontWrite
    BY <1>1, <1>2, <1>4 DEF TypeOK
  <2>6. list' \subseteq dirty' /\ phase' \in {"none", "WritePages"}
    BY <1>1, <1>4
  <2>7. phase' # "none" => FreeListKept'
    <3>1. View' = View
      <4>1. ASSUME NEW q \in Page
            PROVE  (IF q > dbSize THEN None ELSE IF cache[q] # None THEN cache[q]
                    ELSE IF db'[q] = None THEN Torn ELSE db'[q])
                   = IF q > dbSize THEN None ELSE IF cache[q] # None THEN cache[q]
                     ELSE IF db[q] = None THEN Torn ELSE db[q]
        BY <1>2, <1>4
      <4> QED
        BY <1>1, <4>1 DEF View
    <3> QED
      BY <1>1, <1>4, <1>6, <3>1, ListKept
  <2> QED
    BY <1>1, <2>1, <2>3, <2>4, <2>5, <2>6, <2>7 DEF CommitInv
<1> QED
  BY <1>1, <1>6, <1>7, <1>8, <1>9 DEF Kept, ConnInv

\* The pages the file has not got are beyond those it had when the transaction
\* began, and every journal that may be left cuts them off.
LEMMA GrowStep ==
  ASSUME IInv, TypeOK', phase = "WritePages", Grow,
         UNCHANGED <<journal, journalMay, previous>>
  PROVE  /\ FileInv' /\ Saved' = Saved
         /\ Missing \subseteq Page /\ \A q \in Missing : q > orig
         /\ \A q \in Page :
              IF q \in Missing THEN db[q]' = Torn /\ dbMay[q]' = dbMay[q] \cup {Torn}
                               ELSE db[q]' = db[q] /\ dbMay[q]' = dbMay[q]
<1> USE DEF IInv
<1>1. Active /\ Forward /\ eState = "WRITER_DBMOD" /\ Sure
  BY UnderWay, Undoable DEF ConnInv
<1>2. Missing \subseteq Page /\ \A q \in Page : q \in Missing <=> q <= dbSize /\ db[q] = None
  BY PageAssumption DEF Missing, Page, TypeOK
<1>3. \A q \in Page :
         IF q \in Missing THEN db[q]' = Torn /\ dbMay[q]' = dbMay[q] \cup {Torn}
                          ELSE db[q]' = db[q] /\ dbMay[q]' = dbMay[q]
  BY DEF Grow
<1>4. \A q \in Missing : q > orig
  <2>1. \A q \in Missing : Saved[q] = None
    BY <1>1, <1>2, OldPages
  <2> QED
    BY <1>1, <1>2, <2>1 DEF ConnInv, OriginalsInv, Ends
<1>5. \A q \in Missing : \A j \in journalMay : j.hot /\ q > j.orig
  BY <1>1, <1>4 DEF ConnInv, JournalInv
<1>6. \A q \in Page \ Missing : db[q]' = db[q] /\ dbMay[q]' = dbMay[q]
  BY <1>3
<1>7. \A q \in Missing : db[q]' \in dbMay[q]'
  BY <1>2, <1>3
<1>8. FileInv' /\ Saved' = Saved
  BY <1>1, <1>2, <1>5, <1>6, <1>7, PutStep
<1> QED
  BY <1>2, <1>3, <1>4, <1>8

\* The file grows to the size of the database.
LEMMA GrowFileKeeps ==
  ASSUME IInv, TypeOK', GrowFile
  PROVE  Kept
<1> USE DEF IInv
<1>1. /\ phase = "WritePages" /\ ~spilling /\ list = {} /\ Grow
      /\ UNCHANGED <<journal, journalMay, previous, eState, cache, dirty, dbSize, orig, recs,
                     synced, unjournaled, dontWrite, phase, spilling, list>>
  BY DEF GrowFile, connection
<1>2. Active /\ Forward /\ eState = "WRITER_DBMOD"
  BY <1>1, UnderWay DEF ConnInv
<1>3. Missing \subseteq Page /\ \A q \in Page : q \in Missing <=> q <= dbSize /\ db[q] = None
  BY PageAssumption DEF Missing, Page, TypeOK
<1>4. \A q \in Page :
         IF q \in Missing THEN db[q]' = Torn /\ dbMay[q]' = dbMay[q] \cup {Torn}
                          ELSE db[q]' = db[q] /\ dbMay[q]' = dbMay[q]
  BY <1>1, GrowStep
<1>5. FileInv' /\ Saved' = Saved
  BY <1>1, GrowStep
<1>6. JournalInv' /\ RestInv' /\ HotInv' /\ RollbackInv'
  BY <1>1, <1>2 DEF ConnInv, JournalInv, RestInv, HotInv, RollbackInv, Active
<1>7. OriginalsInv'
  <2>1. \A q \in Page : q <= orig => q \notin Missing
    BY <1>1, GrowStep, PageAssumption DEF Page, TypeOK
  <2> QED
    BY <1>1, <1>2, <1>4, <1>5, <2>1 DEF ConnInv, OriginalsInv, Active, Ends, CacheFits
<1>8. CommitInv'
  <2>1. \A q \in Missing : q \in dontWrite
    <3>1. ASSUME NEW q \in Missing
          PROVE  q \in dontWrite
      <4>1. CASE q \in dirty
        BY <1>1, <1>2, <1>3, <4>1 DEF ConnInv, CommitInv, OriginalsInv
      <4>2. CASE q \notin dirty
        BY <1>2, <1>3, <4>2 DEF ConnInv, CommitInv
      <4> QED
        BY <4>1, <4>2
    <3> QED
      BY <3>1
  <2>2. ASSUME NEW q \in Page
        PROVE  /\ q \notin dirty => InFile(q)'
               /\ q <= dbSize /\ q \notin dirty /\ q \notin dontWrite => db[q]' # None
               /\ cache[q] # None \/ q \in dontWrite => q <= dbSize
               /\ q > dbSize => db[q]' = None
               /\ q \in dirty => db[q]' = cache[q] \/ q \in dontWrite
    <3>1. /\ q \notin dirty => InFile(q)
          /\ q <= dbSize /\ q \notin dirty /\ q \notin dontWrite => db[q] # None
          /\ cache[q] # None \/ q \in dontWrite => q <= dbSize
          /\ q > dbSize => db[q] = None
          /\ q \in dirty => db[q] = cache[q] \/ q \in dontWrite
      BY <1>1, <1>2 DEF ConnInv, CommitInv
    <3>2. q > dbSize => ~(q <= dbSize)
      BY PageAssumption DEF Page, TypeOK
    <3> QED
      BY <1>1, <1>3, <1>4, <1>5, <2>1, <3>1, <3>2 DEF InFile, Idle
  <2>3. FreeListKept'
    <3>1. \A q \in Page : q \in Missing => q <= dbSize
      BY <1>3
    <3>2. ASSUME NEW q \in Page
          PROVE  (IF q > dbSize THEN None ELSE IF cache[q] # None THEN cache[q]
                  ELSE IF db'[q] = None THEN Torn ELSE db'[q])
                 = IF q > dbSize THEN None ELSE IF cache[q] # None THEN cache[q]
                   ELSE IF db[q] = None THEN Torn ELSE db[q]
      BY <1>3, <1>4, DataAssumption
    <3>3. View' = View
      BY <1>1, <3>2 DEF View
    <3> QED
      BY <1>1, <1>2, <1>5, <3>3, ListKept DEF ConnInv, CommitInv
  <2>4. dirty \subseteq Page
    BY DEF TypeOK
  <2> QED
    BY <1>1, <2>2, <2>3, <2>4 DEF CommitInv
<1> QED
  BY <1>1, <1>5, <1>6, <1>7, <1>8 DEF Kept, ConnInv

\* The file is synced: everything the transaction wrote is there to stay.
LEMMA SyncFileKeeps ==
  ASSUME IInv, SyncFile
  PROVE  Kept
<1> USE DEF IInv
<1>1. /\ phase = "WritePages" /\ phase' = "EndCommit" /\ list = {} /\ Missing = {}
      /\ dbMay' = Settled(db) /\ eState' = "WRITER_FINISHED"
      /\ UNCHANGED <<db, journal, journalMay, previous, cache, dirty, dbSize, orig, recs,
                     synced, unjournaled, dontWrite, spilling, list>>
  BY DEF SyncFile, Step
<1>2. FileInv' /\ Saved' = Saved
  BY <1>1, SettleStep
<1>3. Active /\ Forward /\ eState = "WRITER_DBMOD" /\ spilling = FALSE
  BY <1>1, UnderWay DEF ConnInv, CommitInv, TypeOK
<1>4. RestInv' /\ HotInv' /\ RollbackInv'
  BY <1>1 DEF RestInv, HotInv, RollbackInv
<1>5. JournalInv'
  BY <1>1, <1>3 DEF ConnInv, JournalInv
<1>6. \A p \in Page : dbMay[p]' = {db[p]}
  BY <1>1 DEF Settled
<1>7. OriginalsInv'
  <2>1. \A p \in Page : p <= orig /\ p \notin synced => \A c \in dbMay[p]' : Fits(c, Saved[p])
    BY <1>3, <1>6 DEF ConnInv, OriginalsInv, FileInv
  <2> QED
    BY <1>1, <1>2, <1>3, <2>1 DEF ConnInv, OriginalsInv, Ends, CacheFits
<1>8. CommitInv'
  <2>1. dbMay' = Settled(db)'
    BY <1>1 DEF Settled
  <2>2. FreeListKept'
    BY <1>1, <1>2, <1>3, ListKept DEF ConnInv, CommitInv, View
  <2>3. \A p \in Page : p <= dbSize => db[p] # None
    BY <1>1, PageAssumption DEF Missing, Page, TypeOK
  <2>4. \A p \in Page :
          /\ p \notin dirty => InFile(p)'
          /\ cache[p] # None \/ p \in dontWrite => p <= dbSize
          /\ p > dbSize => db[p] = None
          /\ p \in dirty => db[p] = cache[p] \/ p \in dontWrite
    BY <1>1, <1>2, <1>3 DEF ConnInv, CommitInv, InFile, Idle
  <2>5. dirty \subseteq Page
    BY DEF TypeOK
  <2> QED
    BY <1>1, <1>3, <2>1, <2>2, <2>3, <2>4, <2>5 DEF CommitInv
<1> QED
  BY <1>1, <1>2, <1>4, <1>5, <1>7, <1>8 DEF Kept, ConnInv

\* The commit: what the file holds is what is saved from now on, and what the
\* connection reads.
LEMMA EndCommitKeeps ==
  ASSUME IInv, EndCommit
  PROVE  FileInv' /\ ConnInv'
<1> USE DEF IInv
<1>1. /\ phase = "EndCommit" /\ DeleteJournal /\ previous' = Saved /\ AtRest("READER")
      /\ UNCHANGED <<db, dbMay, cache, dbSize, orig>>
  BY DEF EndCommit
<1>2. Active /\ Forward /\ eState = "WRITER_FINISHED" /\ Sure
  BY <1>1, UnderWay, Undoable DEF ConnInv
<1>3. /\ \A p \in Page : cache[p] \in {None, db[p]} \/ p \in dontWrite \/ Idle(p)
      /\ \A p \in Page : p <= dbSize => db[p] # None
      /\ \A p \in Page : p > dbSize => db[p] = None
      /\ \A p \in Page : cache[p] # None => p <= dbSize
      /\ dbMay = Settled(db) /\ dbSize > 0 /\ FreeListKept
  BY <1>1, <1>2 DEF ConnInv, CommitInv, OriginalsInv, InFile
<1>4. Ends(db, dbSize)
  BY <1>3, PageAssumption DEF Ends, Page, TypeOK
<1>5. db # Blank
  <2>1. 1 \in Page /\ ~(1 > dbSize)
    BY <1>3, PageAssumption DEF Page, TypeOK
  <2> QED
    BY <1>4, <2>1 DEF Ends, Blank
<1>6. FileInv' /\ Still' /\ Saved' = Content(db)
  BY <1>1, <1>2, <1>3, <1>4, <1>5, CommitStep DEF TypeOK
<1>7. \A p \in Page : View[p] = IF p > dbSize THEN None
                                ELSE IF cache[p] # None THEN cache[p] ELSE db[p]
  BY <1>3, PageAssumption DEF View, Page, TypeOK
<1>8. View \in Image /\ db \in Image
  BY DEF View, TypeOK, Image
<1>9. Match(View, Content(View)) /\ Content(View) \in Contents
  BY <1>8, ContentMatches
<1>10. Match(db, Content(View))
  <2>1. ASSUME NEW p \in Page
        PROVE  Fits(db[p], Content(View)[p])
    <3>1. Fits(View[p], Content(View)[p])
      BY <1>9 DEF Match
    <3>2. CASE p > dbSize
      BY <1>3, <1>7, <3>1, <3>2
    <3>3. CASE ~(p > dbSize) /\ cache[p] \in {None, db[p]}
      BY <1>7, <3>1, <3>3
    <3>4. CASE ~(p > dbSize) /\ (p \in dontWrite \/ Idle(p))
      <4>1. p \in Leaves[View]
        BY <1>3, <3>4 DEF FreeListKept, Idle
      <4>2. Content(View)[p] = Unused
        BY <4>1 DEF Content
      <4>3. db[p] # None
        BY <1>3, <3>4, PageAssumption DEF Page, TypeOK
      <4> QED
        BY <4>2, <4>3 DEF Fits
    <3> QED
      BY <1>3, <3>2, <3>3, <3>4
  <2> QED
    BY <2>1 DEF Match
<1>11. Saved' = Content(View)
  BY <1>6, <1>8, <1>9, <1>10, MatchContent
<1>12. \A p \in Page : CacheFits(p)'
  <2>1. \A p \in Page : cache[p] # None => ~(p > dbSize)
    BY <1>3, PageAssumption DEF Page, TypeOK
  <2> QED
    BY <1>1, <1>7, <1>9, <1>11, <2>1 DEF CacheFits, Match
<1>13. Ends(db, dbSize)' /\ ~journal'.hot
  BY <1>1, <1>4 DEF Ends, DeleteJournal, Cold
<1> QED
  BY <1>1, <1>6, <1>12, <1>13, AtRestStep

\* Who rolls back: a transaction, or a reader that found a hot journal.
LEMMA GoingBack ==
  ASSUME IInv, phase \in {"Truncate", "Playback", "EndRollback"}
  PROVE  /\ \/ eState = "OPEN" /\ ~Active /\ cache = Blank /\ journalMay = {journal} /\ journal.hot
            \/ Active /\ eState \in {"WRITER_CACHEMOD", "WRITER_DBMOD"}
         /\ Active /\ phase # "EndRollback" => eState = "WRITER_DBMOD"
         /\ ~Forward
         /\ phase # "EndRollback" =>
               /\ Saved # Blank => Sure
               /\ \A j \in journalMay : j.hot /\ j.orig = journal.orig
<1> USE DEF IInv
<1>1. \/ eState = "OPEN" /\ ~Active /\ cache = Blank /\ journalMay = {journal} /\ journal.hot
      \/ Active /\ eState \in {"WRITER_CACHEMOD", "WRITER_DBMOD"}
  BY DEF TypeOK, ConnInv, RestInv, HotInv, JournalInv, Active
<1>2. Active /\ phase # "EndRollback" => eState = "WRITER_DBMOD"
  BY <1>1 DEF ConnInv, JournalInv
<1>3. ~Forward
  BY DEF Forward
<1>4. ASSUME eState = "OPEN", phase # "EndRollback"
      PROVE  /\ Saved # Blank => Sure
             /\ \A j \in journalMay : j.hot /\ j.orig = journal.orig
  BY <1>1, <1>4, QuietJournal DEF Sure, Active
<1>5. ASSUME eState = "WRITER_DBMOD"
      PROVE  /\ Saved # Blank => Sure
             /\ \A j \in journalMay : j.hot /\ j.orig = journal.orig
  BY <1>5, Undoable DEF ConnInv, JournalInv, FileInv
<1> QED
  BY <1>1, <1>2, <1>3, <1>4, <1>5

\* A hot journal is synced before it is played back.
LEMMA SyncHotKeeps ==
  ASSUME IInv, SyncHot
  PROVE  Kept
<1> USE DEF IInv
<1>1. /\ phase = "SyncHot" /\ phase' = "Truncate" /\ list' = {p \in Page : journal.recs[p] # None}
      /\ UNCHANGED <<db, dbMay, journal, previous, eState, cache, dirty, dbSize, orig, recs,
                     synced, unjournaled, dontWrite, spilling>>
  BY DEF SyncHot, Step
<1>2. FileInv' /\ Saved' = Saved /\ journalMay' = {journal}
  BY SyncStep DEF SyncHot
<1>3. eState = "OPEN" /\ journal.hot /\ cache = Blank
  BY <1>1 DEF ConnInv, RestInv, HotInv, JournalInv, TypeOK
<1>4. ConnInv'
  BY <1>1, <1>2, <1>3 DEF ConnInv, RestInv, HotInv, OriginalsInv, JournalInv, CommitInv,
     RollbackInv, Active, Forward
<1> QED
  BY <1>1, <1>2, <1>4 DEF Kept

\* A page the journal has no record of, and does not cut off, is as it was.
LEMMA NotInJournal ==
  ASSUME IInv, phase = "Truncate", NEW p \in Page, p \notin list, p <= journal.orig
  PROVE  Fits(db[p], Saved[p])
<1> USE DEF IInv
<1>1. CASE eState = "OPEN"
  <2>1. journal.recs[p] = None
    BY <1>1 DEF ConnInv, HotInv
  <2>2. Found[p] = db[p]
    BY <2>1, SavedPages, PageAssumption DEF Recovered, Page, TypeOK, Journal
  <2> QED
    BY <2>2, SavedPages DEF Match
<1>2. CASE eState = "WRITER_DBMOD"
  <2>1. p \notin synced /\ p <= orig
    BY <1>2 DEF ConnInv, RollbackInv, JournalInv, FileInv, Active
  <2> QED
    BY <1>2, <2>1 DEF ConnInv, OriginalsInv, Active, FileInv
<1> QED
  BY <1>1, <1>2, GoingBack

\* The file gets its size back.
LEMMA TruncateKeeps ==
  ASSUME IInv, TypeOK', Truncate
  PROVE  Kept
<1> USE DEF IInv
<1>1. /\ phase = "Truncate" /\ phase' = "Playback"
      /\ UNCHANGED <<journal, journalMay, previous, eState, cache, dirty, dbSize, orig, recs,
                     synced, unjournaled, dontWrite, spilling, list>>
  BY DEF Truncate, Step
<1>2. FileInv' /\ Saved' = Saved
  BY <1>1, GoingBack, TruncateStep
<1>3. \A p \in Page : /\ p > journal.orig => db[p]' = None
                      /\ ~(p > journal.orig) => db[p]' = db[p] /\ dbMay[p]' = dbMay[p]
  BY DEF Truncate
<1>4. \A p \in Page : p > journal.orig => Saved[p] = None
  <2>1. \A p \in Page : p > journal.orig => Found[p] = None
    BY <1>1, GoingBack, SavedPages DEF Recovered, FileInv
  <2> QED
    BY <2>1, SavedPages, FitsNone DEF Match
<1>5. \A p \in Page : p > journal.orig \/ p <= journal.orig
  BY PageAssumption DEF Page, TypeOK, Journal
<1>6. \A p \in Page \ list : Fits(db[p]', Saved[p])
  <2>1. \A p \in Page : p > journal.orig => Fits(db[p]', Saved[p])
    BY <1>3, <1>4 DEF Fits
  <2> QED
    BY <1>1, <1>3, <1>5, <2>1, NotInJournal
<1>7. RollbackInv'
  BY <1>1, <1>2, <1>6 DEF ConnInv, RollbackInv, Active
<1>8. RestInv' /\ HotInv' /\ CommitInv'
  BY <1>1, GoingBack DEF ConnInv, RestInv, HotInv, CommitInv, Active, Forward
<1>9. JournalInv'
  BY <1>1, GoingBack DEF ConnInv, JournalInv, Active
<1>10. OriginalsInv'
  <2>1. ASSUME Active, NEW p \in Page, p <= orig, p \notin synced
        PROVE  \A c \in dbMay[p]' : Fits(c, Saved[p])
    <3>1. ~(p > journal.orig)
      BY <1>1, <2>1, GoingBack, PageAssumption
      DEF ConnInv, JournalInv, FileInv, Page, TypeOK, Journal
    <3> QED
      BY <1>3, <2>1, <3>1 DEF ConnInv, OriginalsInv
  <2> QED
    BY <1>1, <1>2, <2>1 DEF ConnInv, OriginalsInv, Active, Ends, CacheFits
<1> QED
  BY <1>1, <1>2, <1>7, <1>8, <1>9, <1>10 DEF Kept, ConnInv

\* What may be in a page that is being played back, when the call fails too.
LEMMA PlaybackPut ==
  ASSUME IInv, TypeOK', phase = "Playback", NEW p \in list, NEW v \in Cell,
         v # None, Put(p, v), UNCHANGED <<journal, journalMay, previous>>
  PROVE  FileInv' /\ Saved' = Saved
<1> USE DEF IInv
<1>1. p \in Page /\ {p} \in SUBSET Page
  BY DEF TypeOK
<1>2. \A j \in journalMay : j.recs[p] # None /\ j.hot
  <2>1. CASE eState = "OPEN"
    BY <2>1, GoingBack DEF ConnInv, HotInv, Active
  <2>2. CASE eState = "WRITER_DBMOD"
    <3>1. p \in synced
      BY <2>2 DEF ConnInv, RollbackInv, Active
    <3> QED
      BY <1>1, <2>2, <3>1 DEF ConnInv, JournalInv, OriginalsInv, Active
  <2> QED
    BY <2>1, <2>2, GoingBack
<1>3. /\ \A q \in Page \ {p} : db[q]' = db[q] /\ dbMay[q]' = dbMay[q]
      /\ db[p]' = v /\ dbMay[p]' = dbMay[p] \cup {v, Torn}
  BY <1>1 DEF Put, TypeOK, Image
<1>4. None \in dbMay[p]' => \A j \in journalMay : p > j.orig
  <2>1. None \in dbMay[p]' => None \in dbMay[p]
    BY <1>3, DataAssumption
  <2>2. \A j \in journalMay : None \in dbMay[p] => ~(p <= j.orig)
    BY <1>1, <1>2 DEF FileInv
  <2>3. \A j \in journalMay : ~(p <= j.orig) => p > j.orig
    BY <1>1, PageAssumption DEF Page, TypeOK, Journal
  <2> QED
    BY <2>1, <2>2, <2>3
<1>5. Saved # Blank => Sure
  BY GoingBack
<1>6. \A q \in {p} :
         /\ db[q]' \in dbMay[q]'
         /\ None \in dbMay[q]' => \A j \in journalMay : q > j.orig
         /\ \A j \in journalMay : j.hot /\ (q > j.orig \/ j.recs[q] # None \/ Saved[q] = Unused)
  BY <1>2, <1>3, <1>4
<1> QED
  BY <1>1, <1>3, <1>5, <1>6, PutStep

\* A page is played back.
LEMMA PlaybackPageKeeps ==
  ASSUME IInv, TypeOK', NEW p \in Page, PlaybackPage(p)
  PROVE  Kept
<1> USE DEF IInv
<1>1. /\ phase = "Playback" /\ p \in list /\ list' = list \ {p} /\ Put(p, journal.recs[p])
      /\ UNCHANGED <<journal, journalMay, previous, eState, cache, dirty, dbSize, orig, recs,
                     synced, unjournaled, dontWrite, phase, spilling>>
  BY DEF PlaybackPage
<1>2. journal.recs[p] # None /\ journal.hot /\ ~(p > journal.orig)
  <2>1. journal.recs[p] # None /\ journal.hot
    BY <1>1, GoingBack
    DEF ConnInv, HotInv, RollbackInv, JournalInv, OriginalsInv, Active, FileInv
  <2>2. p <= journal.orig
    BY <2>1 DEF FileInv
  <2> QED
    BY <2>1, <2>2, PageAssumption DEF Page, TypeOK, Journal
<1>3. journal.recs[p] \in Cell
  BY DEF TypeOK, Journal, Image, Cell
<1>4. FileInv' /\ Saved' = Saved
  BY <1>1, <1>2, <1>3, PlaybackPut
<1>5. Fits(db[p]', Saved[p])
  <2>1. Found[p] = journal.recs[p]
    BY <1>2, SavedPages DEF Recovered
  <2>2. db[p]' = journal.recs[p]
    BY <1>1 DEF Put, TypeOK, Image
  <2> QED
    BY <2>1, <2>2, SavedPages DEF Match
<1>6. \A q \in Page : q # p => db[q]' = db[q] /\ dbMay[q]' = dbMay[q]
  BY <1>1 DEF Put, TypeOK, Image
<1>7. RollbackInv'
  BY <1>1, <1>4, <1>5, <1>6 DEF ConnInv, RollbackInv, Active
<1>8. RestInv' /\ HotInv' /\ CommitInv'
  BY <1>1, GoingBack DEF ConnInv, RestInv, HotInv, CommitInv, Active, Forward
<1>9. JournalInv'
  BY <1>1, GoingBack DEF ConnInv, JournalInv, Active
<1>10. OriginalsInv'
  <2>1. Active => p \in synced
    BY <1>1 DEF ConnInv, RollbackInv
  <2> QED
    BY <1>1, <1>4, <1>6, <2>1 DEF ConnInv, OriginalsInv, Active, Ends, CacheFits
<1> QED
  BY <1>1, <1>4, <1>7, <1>8, <1>9, <1>10 DEF Kept, ConnInv

\* The file that has been played back is synced.
LEMMA SyncPlaybackKeeps ==
  ASSUME IInv, SyncPlayback
  PROVE  Kept
<1> USE DEF IInv
<1>1. /\ phase = "Playback" /\ phase' = "EndRollback" /\ list = {} /\ dbMay' = Settled(db)
      /\ UNCHANGED <<db, journal, journalMay, previous, eState, cache, dirty, dbSize, orig,
                     recs, synced, unjournaled, dontWrite, spilling, list>>
  BY DEF SyncPlayback, Step
<1>2. Match(db, Saved)
  BY <1>1 DEF ConnInv, RollbackInv, Match
<1>3. FileInv' /\ Saved' = Saved /\ Still'
  BY <1>1, <1>2, SettleStep
<1>4. RollbackInv' /\ RestInv' /\ HotInv' /\ CommitInv' /\ JournalInv'
  BY <1>1, <1>3, GoingBack
  DEF ConnInv, RollbackInv, RestInv, HotInv, CommitInv, JournalInv, Active, Forward
<1>5. OriginalsInv'
  <2>1. \A p \in Page : \A c \in dbMay[p]' : Fits(c, Saved[p])
    BY <1>1, <1>2 DEF Settled, Match
  <2> QED
    BY <1>1, <1>3, <2>1 DEF ConnInv, OriginalsInv, Active, Ends, CacheFits
<1> QED
  BY <1>1, <1>3, <1>4, <1>5 DEF Kept, ConnInv

\* The end of a rollback: the cache is what the file is.
LEMMA EndRollbackKeeps ==
  ASSUME IInv, EndRollback
  PROVE  Kept
<1> USE DEF IInv
<1>1. /\ phase = "EndRollback" /\ DeleteJournal /\ AtRest("READER")
      /\ UNCHANGED <<db, dbMay, previous, orig>>
  BY DEF EndRollback
<1>2. Still
  BY <1>1 DEF ConnInv, RollbackInv
<1>3. FileInv' /\ Saved' = Saved /\ Still'
  BY <1>1, <1>2, DeleteStep
<1>4. Ends(db, dbSize)' /\ \A p \in Page : CacheFits(p)'
  <2>1. CASE eState = "OPEN"
    <3>1. cache' = Blank /\ dbSize' = PageCount(db)
      BY <2>1 DEF EndRollback
    <3> QED
      BY <1>1, <1>2, <3>1, CountedSaved DEF Still, Ends, Blank, CacheFits
  <2>2. CASE Active
    <3>1. cache' = RolledBack /\ dbSize' = orig
      BY <2>2 DEF EndRollback, Active
    <3>2. \A p \in Page : RolledBack[p] = None \/ Fits(RolledBack[p], Saved[p])
      <4> SUFFICES ASSUME NEW p \in Page
                   PROVE  RolledBack[p] = None \/ Fits(RolledBack[p], Saved[p])
        OBVIOUS
      <4>1. RolledBack[p] = IF p > orig \/ cache[p] = None THEN None
                            ELSE IF recs[p] # None THEN recs[p] ELSE cache[p]
        BY DEF RolledBack
      <4>2. p > orig \/ p <= orig
        BY PageAssumption DEF Page, TypeOK
      <4>3. recs[p] # None => Fits(recs[p], Saved[p])
        BY <2>2 DEF ConnInv, OriginalsInv
      <4>4. p <= orig /\ recs[p] = None => CacheFits(p) \/ Saved[p] = Unused
        BY <2>2 DEF ConnInv, OriginalsInv
      <4> QED
        BY <4>1, <4>2, <4>3, <4>4 DEF CacheFits, Fits
    <3>3. Ends(db, orig)
      BY <1>2, <2>2, MatchEnds DEF Still, ConnInv, OriginalsInv
    <3> QED
      BY <1>1, <1>3, <3>1, <3>2, <3>3 DEF Ends, CacheFits
  <2> QED
    BY <1>1, <2>1, <2>2, GoingBack
<1>5. ~journal'.hot
  BY <1>1 DEF DeleteJournal, Cold
<1> QED
  BY <1>1, <1>3, <1>4, <1>5, AtRestStep DEF Kept

\* A call that fails leaves the files as good as it found them.
LEMMA PartialStep ==
  ASSUME IInv, TypeOK', Partial
  PROVE  /\ FileInv' /\ Saved' = Saved /\ previous' = previous
         /\ phase # "WritePages" /\ phase # "Playback" => (Still => Still')
         /\ Active => \A q \in Page : q <= orig /\ q \notin synced =>
               \A c \in dbMay[q]' : Fits(c, Saved[q])
         /\ \A j \in journalMay' :
               \/ j \in journalMay
               \/ phase = "WriteHeader" /\ j = [hot |-> TRUE, orig |-> orig, recs |-> recs]
<1> USE DEF IInv
<1>1. Active => \A q \in Page : q <= orig /\ q \notin synced =>
          \A c \in dbMay[q] : Fits(c, Saved[q])
  BY DEF ConnInv, OriginalsInv
<1>2. CASE UNCHANGED files
  BY <1>1, <1>2, FilesUnchanged DEF files
<1>3. CASE phase = "WriteHeader" /\ PutHeader /\ UNCHANGED <<db, dbMay, previous>>
  <2>1. Ends(Saved, orig) /\ \A p \in Page :
           /\ recs[p] # None => p <= orig /\ Fits(recs[p], Saved[p])
           /\ p <= orig /\ recs[p] = None => \A c \in dbMay[p] : Fits(c, Saved[p])
    BY <1>3, UnderWay DEF ConnInv, JournalInv, OriginalsInv
  <2>2. FileInv' /\ Saved' = Saved /\ (Still => Still')
    BY <1>3, <2>1, HeaderStep
  <2> QED
    BY <1>1, <1>3, <2>2 DEF PutHeader
<1>4. ASSUME phase = "WritePages", NEW p \in list \ dontWrite, Put(p, Torn),
             UNCHANGED <<journal, journalMay, previous>>
      PROVE  /\ FileInv' /\ Saved' = Saved
             /\ \A q \in Page : q <= orig /\ q \notin synced =>
                   \A c \in dbMay[q]' : Fits(c, Saved[q])
  <2>1. p \in Page /\ {p} \in SUBSET Page
    BY DEF TypeOK
  <2>2. /\ \A q \in Page \ {p} : db[q]' = db[q] /\ dbMay[q]' = dbMay[q]
        /\ db[p]' = Torn /\ dbMay[p]' = dbMay[p] \cup {Torn}
    BY <1>4, <2>1 DEF Put, TypeOK, Image
  <2>3. Active /\ Forward /\ eState = "WRITER_DBMOD" /\ Sure
    BY <1>4, UnderWay, Undoable DEF ConnInv
  <2>4. p > orig \/ p \in synced \/ p \in unjournaled
    BY <1>4, <2>3 DEF ConnInv, CommitInv
  <2>5. \A j \in journalMay : j.hot /\ (p > j.orig \/ j.recs[p] # None \/ Saved[p] = Unused)
    BY <2>1, <2>3, <2>4 DEF ConnInv, JournalInv, OriginalsInv
  <2>6. ASSUME None \in dbMay[p]', NEW j \in journalMay
        PROVE  p > j.orig
    <3>1. ~(p <= j.orig)
      BY <2>1, <2>2, <2>5, <2>6, DataAssumption DEF FileInv
    <3> QED
      BY <2>1, <3>1, PageAssumption DEF Page, TypeOK, Journal
  <2>7. \A q \in {p} :
           /\ db[q]' \in dbMay[q]'
           /\ None \in dbMay[q]' => \A j \in journalMay : q > j.orig
           /\ \A j \in journalMay : j.hot /\ (q > j.orig \/ j.recs[q] # None \/ Saved[q] = Unused)
    BY <2>2, <2>5, <2>6
  <2>8. FileInv' /\ Saved' = Saved
    BY <1>4, <2>1, <2>2, <2>3, <2>7, PutStep
  <2>9. p <= orig /\ p \notin synced => Saved[p] = Unused
    BY <2>1, <2>3, <2>4, PageAssumption DEF ConnInv, OriginalsInv, Page, TypeOK
  <2> QED
    BY <1>1, <2>2, <2>3, <2>8, <2>9, DataAssumption DEF Fits
<1>5. ASSUME phase = "WritePages", Grow, UNCHANGED <<journal, journalMay, previous>>
      PROVE  /\ FileInv' /\ Saved' = Saved
             /\ \A q \in Page : q <= orig => dbMay[q]' = dbMay[q]
  <2>1. \A q \in Page : q <= orig => q \notin Missing
    BY <1>5, GrowStep, PageAssumption DEF Page, TypeOK
  <2> QED
    BY <1>5, <2>1, GrowStep
<1>6. ASSUME phase = "Playback", NEW p \in list, Put(p, Torn),
             UNCHANGED <<journal, journalMay, previous>>
      PROVE  /\ FileInv' /\ Saved' = Saved
             /\ Active => \A q \in Page : q <= orig /\ q \notin synced => dbMay[q]' = dbMay[q]
  <2>1. Torn \in Cell /\ Torn # None /\ p \in Page
    BY DataAssumption DEF Cell, TypeOK
  <2>2. Active => p \in synced
    BY <1>6 DEF ConnInv, RollbackInv
  <2>3. FileInv' /\ Saved' = Saved
    BY <1>6, <2>1, PlaybackPut
  <2>4. \A q \in Page : q # p => dbMay[q]' = dbMay[q]
    BY <1>6, <2>1 DEF Put, TypeOK
  <2> QED
    BY <2>2, <2>3, <2>4
<1> QED
  BY <1>1, <1>2, <1>3, <1>4, <1>5, <1>6 DEF Partial

\* A commit that fails goes back.
LEMMA CommitFailsKeeps ==
  ASSUME IInv, TypeOK', CommitFails
  PROVE  Kept
<1> USE DEF IInv
<1>1. /\ phase \in {"SyncRecords", "WriteHeader", "SyncHeader", "WritePages"} /\ ~spilling
      /\ phase' = IF eState = "WRITER_CACHEMOD" THEN "EndRollback" ELSE "Truncate"
      /\ list' = IF eState = "WRITER_CACHEMOD" THEN {} ELSE synced
      /\ UNCHANGED <<eState, cache, dirty, dbSize, orig, recs, synced, unjournaled, dontWrite>>
      /\ Partial
  BY DEF CommitFails, StartRollback
<1>2. Active /\ eState \in {"WRITER_CACHEMOD", "WRITER_DBMOD"}
      /\ (phase = "WritePages" => eState = "WRITER_DBMOD")
  BY <1>1, UnderWay
<1>3. FileInv' /\ Saved' = Saved /\ previous' = previous
  BY <1>1, PartialStep
<1>4. eState = "WRITER_CACHEMOD" => Still'
  BY <1>1, <1>2, PartialStep DEF ConnInv, JournalInv
<1>5. RestInv' /\ HotInv' /\ CommitInv' /\ RollbackInv'
  BY <1>1, <1>2, <1>4 DEF RestInv, HotInv, CommitInv, RollbackInv, Active, Forward
<1>6. OriginalsInv'
  <2>1. \A p \in Page : p <= orig /\ p \notin synced => \A c \in dbMay[p]' : Fits(c, Saved[p])
    BY <1>1, <1>2, PartialStep
  <2> QED
    BY <1>1, <1>2, <1>3, <2>1 DEF ConnInv, OriginalsInv, Active, Ends, CacheFits
<1>7. JournalInv'
  <2>1. ASSUME eState = "WRITER_DBMOD", NEW j \in journalMay'
        PROVE  /\ j.hot /\ j.orig = orig
               /\ \A p \in Page : j.recs[p] \in {None, recs[p]}
               /\ \A p \in synced : j.recs[p] = recs[p]
    BY <1>1, <2>1, PartialStep DEF ConnInv, JournalInv, TypeOK
  <2> QED
    BY <1>1, <1>2, <1>4, <2>1 DEF ConnInv, JournalInv, Active
<1> QED
  BY <1>3, <1>5, <1>6, <1>7 DEF Kept, ConnInv

\* The other failures leave the connection at rest.
LEMMA FaultKeeps ==
  ASSUME IInv, TypeOK', CommitFails \/ EntersError \/ RecoveryFails \/ Kill
  PROVE  Kept
<1> USE DEF IInv
<1>1. CASE EntersError
  BY <1>1, PartialStep, AtRestStep DEF EntersError, Kept
<1>2. CASE RecoveryFails
  BY <1>2, PartialStep, AtRestStep DEF RecoveryFails, Reset, Kept
<1>3. CASE Kill
  BY <1>3, FilesUnchanged, AtRestStep DEF Kill, Kept, files
<1> QED
  BY <1>1, <1>2, <1>3, CommitFailsKeeps

-----------------------------------------------------------------------------
(* The invariant, and what follows from it.                                *)

\* A step keeps what is saved, or commits, or loses power.
LEMMA StepKeeps ==
  ASSUME IInv, Next
  PROVE  IInv' /\ (Kept \/ EndCommit \/ PowerLoss)
<1>1. TypeOK'
  BY Typed
<1>2. CASE Read
  BY <1>1, <1>2, ReadKeeps DEF IInv, Kept
<1>3. CASE Transact
  BY <1>1, <1>3, TransactKeeps DEF IInv, Kept
<1>4. CASE Synchronise
  BY <1>1, <1>4, JournalKeeps, WritePageKeeps, GrowFileKeeps, SyncFileKeeps, EndCommitKeeps
  DEF Synchronise, IInv, Kept
<1>5. CASE PlayBack
  BY <1>1, <1>5, SyncHotKeeps, TruncateKeeps, PlaybackPageKeeps, SyncPlaybackKeeps,
     EndRollbackKeeps DEF PlayBack, IInv, Kept
<1>6. CASE Fault /\ ~PowerLoss
  BY <1>1, <1>6, FaultKeeps DEF Fault, IInv, Kept
<1>7. CASE PowerLoss
  <2>1. FileInv'
    BY <1>1, <1>7, PowerStep DEF IInv
  <2>2. ConnInv'
    BY <1>7, AtRestStep DEF PowerLoss
  <2> QED
    BY <1>1, <1>7, <2>1, <2>2 DEF IInv
<1> QED
  BY <1>2, <1>3, <1>4, <1>5, <1>6, <1>7 DEF Next

\* A step that changes nothing.
LEMMA StutterKeeps ==
  ASSUME IInv, UNCHANGED pagerVars
  PROVE  IInv' /\ Saved' = Saved /\ previous' = previous
<1>1. UNCHANGED files /\ UNCHANGED connection
  BY DEF pagerVars
<1>2. FileInv' /\ Saved' = Saved /\ (Still => Still')
  BY <1>1, FilesUnchanged DEF IInv
<1>3. TypeOK'
  BY <1>1 DEF files, connection, IInv, TypeOK
<1>4. RestInv' /\ HotInv' /\ JournalInv'
  BY <1>1, <1>2 DEF files, connection, IInv, ConnInv, RestInv, HotInv, JournalInv, Ends, Active,
     CacheFits
<1>5. OriginalsInv' /\ RollbackInv'
  BY <1>1, <1>2
  DEF files, connection, IInv, ConnInv, OriginalsInv, RollbackInv, Ends, Active, CacheFits
<1>6. FreeListKept => FreeListKept'
  BY <1>1, <1>2, ListKept DEF files, connection, View
<1>7. CommitInv'
  BY <1>1, <1>2, <1>6
  DEF files, connection, IInv, ConnInv, CommitInv, Active, Forward, Settled, InFile, Idle
<1> QED
  BY <1>1, <1>2, <1>3, <1>4, <1>5, <1>7 DEF IInv, ConnInv, files

\* Nothing has been written.
LEMMA InitIInv == Init => IInv /\ Saved = Blank
<1> SUFFICES ASSUME Init
             PROVE  IInv /\ Saved = Blank
  OBVIOUS
<1>1. TypeOK
  <2>1. FilesOK
    BY Images, Journals DEF Init, FilesOK, Settled, Cell, Blank
  <2>2. ConnectionOK
    <3>1. Blank \in Image /\ 0 \in 0 .. MaxPage
      BY Images, PageAssumption
    <3> QED
      BY <3>1 DEF Init, ConnectionOK
  <2> QED
    BY <2>1, <2>2, Types
<1>2. Saved = Blank
  <2>1. \A p \in Page : Found[p] = None
    BY DEF Init, Found, Recovered, Cold, Blank
  <2>2. \A p \in Page : Saved[p] = None
    BY <1>1, <2>1, SavedPages, FitsNone DEF Match
  <2> QED
    BY <1>1, <2>2, NotBlank
<1>3. FileInv
  <2>1. Ends(Saved, 0)
    BY <1>2, PageAssumption DEF Ends, Blank, Page
  <2>2. previous \in Contents
    BY <1>1, <1>2, SavedPages DEF Init
  <2> QED
    BY <1>2, <2>1, <2>2, PageAssumption DEF Init, FileInv, Settled, Cold, Blank
<1>4. ConnInv
  BY DEF Init, ConnInv, RestInv, HotInv, OriginalsInv, JournalInv, CommitInv, RollbackInv,
     Active, Forward
<1> QED
  BY <1>1, <1>2, <1>3, <1>4 DEF IInv

\* The invariant of the pager holds in every state, whatever fails and wherever
\* the process or the power ends.
THEOREM Invariant == Spec => []IInv
<1>1. IInv /\ [Next]_pagerVars => IInv'
  BY StepKeeps, StutterKeeps
<1> QED
  BY <1>1, InitIInv, PTL DEF Spec

\* Every variable of the pager and of its files has its type.
THEOREM TypeCorrect == Spec => []TypeOK
<1>1. IInv => TypeOK
  BY DEF IInv
<1> QED
  BY <1>1, Invariant, PTL

\* A page that may differ from what is saved, and was no leaf of the free list,
\* has its original in every journal a loss of power may leave (pager.c:40-63,
\* rules 1 and 2).
THEOREM JournalAhead == Spec => []WriteAhead
<1>1. IInv => WriteAhead
  <2> SUFFICES ASSUME IInv, Saved # Blank, NEW p \in Page,
                      NEW d \in dbMay[p] \cup {db[p]}, ~Fits(d, Saved[p])
               PROVE  \A j \in journalMay : \A c \in dbMay[p] \cup {db[p]} :
                         Fits(Recovered(c, j, p), Saved[p])
    BY DEF WriteAhead
  <2>1. db[p] \in dbMay[p] /\ ~Quiet
    BY DEF IInv, FileInv, Quiet
  <2>2. Sure
    BY <2>1 DEF IInv, FileInv, Protected
  <2> QED
    BY <2>1, <2>2 DEF Sure, RecoversTo
<1> QED
  BY <1>1, Invariant, PTL

\* A connection that is about to read, or to write on, reads what is saved.
THEOREM ReadsSaved == Spec => []ReaderSeesSaved
<1>1. IInv => ReaderSeesSaved
  <2> SUFFICES ASSUME IInv, eState \in {"READER", "WRITER_LOCKED"}
               PROVE  Content(View) = Saved
    BY DEF ReaderSeesSaved
  <2>1. TypeOK /\ Match(db, Saved) /\ Ends(db, dbSize) /\ \A p \in Page : CacheFits(p)
    BY DEF IInv, ConnInv, RestInv, Still
  <2>2. \A p \in Page : Fits(View[p], Saved[p])
    <3> SUFFICES ASSUME NEW p \in Page
                 PROVE  Fits(View[p], Saved[p])
      OBVIOUS
    <3>1. Fits(db[p], Saved[p]) /\ CacheFits(p) /\ (db[p] = None <=> p > dbSize)
      BY <2>1 DEF Match, Ends
    <3> QED
      BY <3>1 DEF View, CacheFits
  <2>3. View \in Image
    BY <2>1 DEF View, TypeOK, Image
  <2> QED
    BY <2>1, <2>2, <2>3, SavedPages, MatchContent DEF Match
<1> QED
  BY <1>1, Invariant, PTL

\* The pager implements the file that changes by whole transactions.
THEOREM Implements == Spec => ImplementsAtomicFile
<1>1. Init => A!Init
  BY InitIInv DEF Init, A!Init, A!Empty, Blank
<1>2. ASSUME IInv, Next
      PROVE  A!Next \/ (Saved' = Saved /\ previous' = previous)
  <2>1. Saved' \in A!Image
    <3>1. Saved' \in [Page -> Cell \cup {Unused}]
      <4>1. Found' \in Image
        BY <1>2, Typed DEF TypeOK, Found, Recovered, Image, Journal
      <4> QED
        BY <4>1, ContentMatches DEF Saved, Found
    <3> QED
      BY <3>1 DEF A!Image, Page, Cell
  <2>2. CASE EndCommit
    BY <2>1, <2>2 DEF EndCommit, A!Next, A!Commit
  <2>3. CASE PowerLoss
    <3>1. Saved' \in {Saved, previous} \/ Saved = A!Empty
      BY <1>2, <2>3, Typed, PowerStep DEF IInv, A!Empty, Blank, Page
    <3>2. previous' = Saved'
      BY <2>3 DEF PowerLoss
    <3> QED
      BY <2>1, <3>1, <3>2 DEF A!Next, A!LosePower
  <2> QED
    BY <1>2, <2>2, <2>3, StepKeeps DEF Kept
<1>3. IInv /\ [Next]_pagerVars => [A!Next]_(A!atomicVars)
  BY <1>2, StutterKeeps DEF A!atomicVars
<1> QED
  BY <1>1, <1>3, Invariant, PTL DEF Spec, ImplementsAtomicFile, A!Spec

\* A hot journal is deleted when the file it protects is synced, unless the file
\* has no pages.
THEOREM SyncsBeforeDeletion == Spec => SyncedBeforeDeletion
<1>1. ASSUME IInv, Next, journal.hot, ~journal'.hot, db # Blank, eState' # "NONE"
      PROVE  dbMay = Settled(db)
  <2>1. CASE Read
    BY <1>1, <2>1 DEF Read, Open, SharedLock, Unlock, Get, Recycle, files, AtRest
  <2>2. CASE Transact
    <3>1. CASE \/ Begin \/ Commit \/ Rollback
               \/ \E p \in Page : \/ Spill(p) \/ DontWrite(p)
                                 \/ \E v \in Data : Overwrite(p, v)
      BY <1>1, <3>1 DEF Begin, Commit, Rollback, Spill, DontWrite, Overwrite, files
    <3>2. CASE \E p \in Page : \E v \in Data : Write(p, v)
      BY <1>1, <3>2 DEF Write, DeleteJournal, IInv, ConnInv, RestInv
    <3> QED
      BY <2>2, <3>1, <3>2 DEF Transact
  <2>3. CASE Synchronise
    <3>1. CASE EndCommit
      BY <1>1, <3>1 DEF EndCommit, IInv, ConnInv, CommitInv, JournalInv, HotInv, RestInv,
         Forward, Active, TypeOK
    <3>2. CASE ~EndCommit
      BY <1>1, <2>3, <3>2 DEF Synchronise, SyncRecords, WriteHeader, SyncHeader, WritePage,
         GrowFile, SyncFile, PutHeader
    <3> QED
      BY <3>1, <3>2
  <2>4. CASE PlayBack
    <3>1. CASE EndRollback
      <4>1. Still
        BY <1>1, <3>1 DEF EndRollback, IInv, ConnInv, RollbackInv
      <4>2. Saved # Blank
        BY <1>1, <4>1, BlankFile DEF Still, IInv
      <4>3. \A p \in Page : dbMay[p] = {db[p]}
        BY <4>1, <4>2 DEF Still, Quiet
      <4> QED
        BY <1>1, <4>3 DEF IInv, TypeOK, Settled
    <3>2. CASE ~EndRollback
      BY <1>1, <2>4, <3>2 DEF PlayBack, SyncHot, Truncate, PlaybackPage, SyncPlayback, files
    <3> QED
      BY <3>1, <3>2
  <2>5. CASE Fault
    BY <1>1, <2>5 DEF Fault, CommitFails, EntersError, RecoveryFails, Kill, PowerLoss, Partial,
       PutHeader, AtRest, files
  <2> QED
    BY <1>1, <2>1, <2>2, <2>3, <2>4, <2>5 DEF Next
<1>2. IInv /\ [Next]_pagerVars =>
        [journal.hot /\ ~journal'.hot /\ db # Blank /\ eState' # "NONE"
            => dbMay = Settled(db)]_pagerVars
  BY <1>1
<1> QED
  BY <1>2, Invariant, PTL DEF Spec, SyncedBeforeDeletion

\* A journal that is hot beside a file that has pages when a connection comes to
\* rest is what an error has left: a statement that commits, or is undone, leaves none.
THEOREM OnlyAnErrorLeavesAJournal ==
    Spec => [][eState \notin {"NONE", "OPEN"} /\ eState' = "OPEN" /\ journal'.hot /\ db' # Blank
                  => eState = "ERROR"]_pagerVars
<1>1. ASSUME IInv, Next, eState \notin {"NONE", "OPEN"}, eState' = "OPEN",
             journal'.hot, db' # Blank
      PROVE  eState = "ERROR"
  <2>1. CASE Read
    BY <1>1, <2>1 DEF Read, Open, SharedLock, Unlock, Get, Recycle, files, AtRest, IInv, ConnInv, RestInv
  <2>2. CASE Transact
    BY <1>1, <2>2 DEF Transact, Begin, Write, Overwrite, DontWrite, Spill, Commit, Rollback,
       AtRest, Writing
  <2>3. CASE Synchronise
    BY <1>1, <2>3 DEF Synchronise, SyncRecords, WriteHeader, SyncHeader, WritePage, GrowFile,
       SyncFile, EndCommit, AtRest, connection
  <2>4. CASE PlayBack
    BY <1>1, <2>4 DEF PlayBack, SyncHot, Truncate, PlaybackPage, SyncPlayback, EndRollback, AtRest
  <2>5. CASE Fault
    BY <1>1, <2>5 DEF Fault, CommitFails, EntersError, RecoveryFails, Kill, PowerLoss, AtRest
  <2> QED
    BY <1>1, <2>1, <2>2, <2>3, <2>4, <2>5 DEF Next
<1>2. IInv /\ [Next]_pagerVars =>
        [eState \notin {"NONE", "OPEN"} /\ eState' = "OPEN" /\ journal'.hot /\ db' # Blank
            => eState = "ERROR"]_pagerVars
  BY <1>1
<1> QED
  BY <1>2, Invariant, PTL DEF Spec
=============================================================================

-------------------------- MODULE SiteScreensProofs --------------------------
(***************************************************************************)
(* What CloudBackup and, over it, SiteScreens guarantee for every set of   *)
(* values, every number of sites and of backups and restores in flight,    *)
(* and whatever other devices back up.                                     *)
(*                                                                         *)
(* First the cloud.  Every step of the backups and restores is one of the  *)
(* record store or none for it, as long as the data in flight are          *)
(* databases: so CloudBackup implements PPDataManager, and what is proved  *)
(* of the store holds here.  The invariant adds to the store's that the    *)
(* data are databases, and that an answer which reports a backup was given *)
(* when the document was there.                                            *)
(*                                                                         *)
(* Then the screens, which use the store and the cloud as CloudBackup      *)
(* specifies them, so its invariant holds under them.  To the invariants   *)
(* that are checked the proof adds what ties the handed-out object to the  *)
(* store: until a restore completes it is one of the list's and its id has *)
(* a record.                                                               *)
(***************************************************************************)
EXTENDS SiteScreens, PPDataManagerProofs

-----------------------------------------------------------------------------
(***************************************************************************)
(* The cloud: its invariant.                                               *)
(***************************************************************************)

\* What is in the cloud and in flight is of its type, and a database.
CloudTypeOK ==
    /\ cloud \in [exists : BOOLEAN, image : Image]
    /\ upload \in [Uploads -> Upload]
    /\ download \in [Downloads -> Download]
    /\ config \in [lastUpload : BOOLEAN, lastDownload : BOOLEAN]

WellFormedData ==
    /\ WellFormed(cloud.image)
    /\ \A u \in Uploads : WellFormed(upload[u].data)
    /\ \A d \in Downloads : WellFormed(download[d].data)

\* A request that has not been answered reports nothing, and one that reports
\* a backup has made it.
AnswerIsTrue ==
    \A u \in Uploads :
        /\ upload[u].st = "saving" => ~upload[u].ok
        /\ upload[u].st = "answer" /\ upload[u].ok => cloud.exists

CBInv ==
    /\ IInv
    /\ CloudTypeOK
    /\ WellFormedData
    /\ OneRestoreOnTheFile
    /\ AnswerIsTrue
    /\ ReportedBackupExists

-----------------------------------------------------------------------------
(* The store.                                                              *)

\* A step of the backups and restores is a step of the store, or none.
LEMMA StoreStep ==
  CBInv /\ [CBNext]_cbVars => [Next]_dmVars
<1> SUFFICES ASSUME CBInv, [CBNext]_cbVars PROVE [Next]_dmVars
  OBVIOUS
<1>1. CASE \E d \in Downloads : DownWrites(d)
  <2>1. PICK d \in Downloads : RetrieveWrite(download[d].data)
    BY <1>1 DEF DownWrites
  <2>2. download[d].data \in Image /\ WellFormed(download[d].data)
    BY DEF CBInv, CloudTypeOK, WellFormedData, Download
  <2> QED
    BY <2>1, <2>2 DEF Next, Restore
<1>2. CASE (Launch \/ Statement) /\ UNCHANGED cloudVars
  BY <1>2 DEF Next
<1>3. CASE CloudKill
  BY <1>3 DEF CloudKill, Next
<1>4. CASE \E d \in Downloads : DownRemoves(d) \/ DownWriteFails(d) \/ DownReOpens(d)
  BY <1>4 DEF DownRemoves, DownWriteFails, DownReOpens, Next, Restore
<1>5. CASE \/ OtherDeviceSaves
           \/ \E u \in Uploads : BackUpToiCloud(u) \/ SaveIsDropped(u) \/ UploadStep(u)
           \/ \E d \in Downloads : \/ DownFromiCloud(d) \/ RetrievalIsDropped(d)
                                   \/ OpenAnswers(d) \/ CreateAnswers(d)
                                   \/ DownGivesUp(d)
  BY <1>5 DEF OtherDeviceSaves, BackUpToiCloud, SaveIsDropped, UploadStep, SaveLands, SaveFails,
     BackUpCompletion, DownFromiCloud, RetrievalIsDropped, OpenAnswers, CreateAnswers, DownGivesUp
<1>6. CASE UNCHANGED cbVars
  BY <1>6 DEF cbVars
<1> QED
  BY <1>1, <1>2, <1>3, <1>4, <1>5, <1>6 DEF CBNext, DownloadStep

-----------------------------------------------------------------------------
(* The invariant.                                                          *)

LEMMA NoRequestIsOne ==
  NoRequest \in Upload /\ NoRequest \in Download
  BY BlankImage DEF NoRequest, Upload, Download

LEMMA CBInitially ==
  CBInit => CBInv
<1> SUFFICES ASSUME CBInit PROVE CBInv
  OBVIOUS
<1>1. IInv
  BY InitIInv DEF CBInit
<1>2. /\ cloud = [exists |-> FALSE, image |-> Blank]
      /\ upload = [u \in Uploads |-> NoRequest]
      /\ download = [d \in Downloads |-> NoRequest]
      /\ config = [lastUpload |-> FALSE, lastDownload |-> FALSE]
      /\ restoring = "no"
  BY DEF CBInit, CloudInit, Init
<1>3. /\ NoRequest.st = "none" /\ NoRequest.data = Blank
  BY DEF NoRequest
<1>4. CloudTypeOK
  BY <1>2, NoRequestIsOne, BlankImage DEF CloudTypeOK
<1>5. WellFormedData
  BY <1>2, <1>3, BlankImage DEF WellFormedData
<1>6. OneRestoreOnTheFile /\ AnswerIsTrue /\ ReportedBackupExists
  BY <1>2, <1>3 DEF OneRestoreOnTheFile, AnswerIsTrue, ReportedBackupExists
<1> QED
  BY <1>1, <1>4, <1>5, <1>6 DEF CBInv

\* The requests, whatever the store does meanwhile.
LEMMA Requests ==
  ASSUME CBInv, [CBNext]_cbVars
  PROVE  CloudTypeOK' /\ WellFormedData' /\ AnswerIsTrue' /\ ReportedBackupExists'
<1> DEFINE P == CloudTypeOK' /\ WellFormedData' /\ AnswerIsTrue' /\ ReportedBackupExists'
<1>inv. CloudTypeOK /\ WellFormedData /\ AnswerIsTrue /\ ReportedBackupExists /\ IInv
  BY DEF CBInv
<1>none. /\ NoRequest \in Upload /\ NoRequest \in Download
         /\ NoRequest.st = "none" /\ NoRequest.data = Blank
         /\ Blank \in Image /\ WellFormed(Blank)
  BY NoRequestIsOne, BlankImage DEF NoRequest
<1>1. CASE UNCHANGED cloudVars
  BY <1>1, <1>inv DEF cloudVars, CloudTypeOK, WellFormedData, AnswerIsTrue, ReportedBackupExists
<1>2. CASE CloudKill
  <2> USE <1>2 DEF CloudKill
  <2>1. CloudTypeOK'
    BY <1>inv, <1>none DEF CloudTypeOK
  <2>2. WellFormedData'
    BY <1>inv, <1>none DEF WellFormedData
  <2>3. AnswerIsTrue' /\ ReportedBackupExists'
    BY <1>inv, <1>none DEF AnswerIsTrue, ReportedBackupExists
  <2> QED
    BY <2>1, <2>2, <2>3
<1>3. CASE OtherDeviceSaves
  <2> USE <1>3 DEF OtherDeviceSaves
  <2>1. PICK img \in OtherImages : cloud' = [exists |-> TRUE, image |-> img]
    OBVIOUS
  <2>2. img \in Image /\ WellFormed(img)
    BY OtherImagesAssumption
  <2>3. CloudTypeOK'
    BY <2>1, <2>2, <1>inv DEF CloudTypeOK
  <2>4. WellFormedData'
    BY <2>1, <2>2, <1>inv DEF WellFormedData
  <2>5. AnswerIsTrue' /\ ReportedBackupExists'
    BY <2>1, <1>inv DEF AnswerIsTrue, ReportedBackupExists
  <2> QED
    BY <2>3, <2>4, <2>5
<1>4. ASSUME NEW u \in Uploads, BackUpToiCloud(u) PROVE P
  <2> USE <1>4 DEF BackUpToiCloud, GetDBFileData
  <2> DEFINE r == [st |-> "saving", data |-> file, ok |-> FALSE]
  <2>1. file \in Image /\ WellFormed(file)
    BY <1>inv DEF IInv, TypeOK, FreshIds
  <2>2. r \in Upload /\ r.st = "saving" /\ r.data = file /\ ~r.ok
    BY <2>1 DEF Upload
  <2>3. upload' = [upload EXCEPT ![u] = r]
    OBVIOUS
  <2> HIDE DEF r
  <2>4. CloudTypeOK'
    <3>1. upload' \in [Uploads -> Upload]
      BY <2>2, <2>3, <1>inv DEF CloudTypeOK
    <3> QED
      BY <3>1, <1>inv DEF CloudTypeOK
  <2>5. WellFormedData'
    BY <2>1, <2>2, <2>3, <1>inv DEF WellFormedData, CloudTypeOK
  <2>6. AnswerIsTrue' /\ ReportedBackupExists'
    BY <2>2, <2>3, <1>inv DEF AnswerIsTrue, ReportedBackupExists, CloudTypeOK
  <2> QED
    BY <2>4, <2>5, <2>6
<1>5. ASSUME NEW u \in Uploads, SaveLands(u) PROVE P
  <2> USE <1>5 DEF SaveLands
  <2>1. PICK ok \in BOOLEAN : upload' = [upload EXCEPT ![u].st = "answer", ![u].ok = ok]
    OBVIOUS
  <2>2. upload[u] \in Upload /\ upload[u].data \in Image /\ WellFormed(upload[u].data)
    BY <1>inv DEF CloudTypeOK, WellFormedData, Upload
  <2>3. cloud' = [exists |-> TRUE, image |-> upload[u].data]
    OBVIOUS
  <2> DEFINE r == [st |-> "answer", data |-> upload[u].data, ok |-> ok]
  <2>4. upload' = [upload EXCEPT ![u] = r]
    BY <2>1, <2>2, <1>inv DEF CloudTypeOK, Upload
  <2>5. r \in Upload /\ r.st = "answer" /\ r.data = upload[u].data
    BY <2>2 DEF Upload
  <2> HIDE DEF r
  <2>6. CloudTypeOK'
    <3>1. upload' \in [Uploads -> Upload]
      BY <2>4, <2>5, <1>inv DEF CloudTypeOK
    <3>2. cloud' \in [exists : BOOLEAN, image : Image]
      BY <2>2, <2>3
    <3> QED
      BY <3>1, <3>2, <1>inv DEF CloudTypeOK
  <2>7. WellFormedData'
    BY <2>2, <2>3, <2>4, <2>5, <1>inv DEF WellFormedData, CloudTypeOK
  <2>8. AnswerIsTrue' /\ ReportedBackupExists'
    BY <2>3, <2>4, <2>5, <1>inv DEF AnswerIsTrue, ReportedBackupExists, CloudTypeOK
  <2> QED
    BY <2>6, <2>7, <2>8
<1>6. ASSUME NEW u \in Uploads, SaveFails(u) PROVE P
  <2> USE <1>6 DEF SaveFails
  <2>1. upload[u] \in Upload /\ WellFormed(upload[u].data) /\ ~upload[u].ok
    BY <1>inv DEF CloudTypeOK, WellFormedData, AnswerIsTrue
  <2> DEFINE r == [upload[u] EXCEPT !.st = "answer"]
  <2>2. upload' = [upload EXCEPT ![u] = r]
    BY <2>1, <1>inv DEF CloudTypeOK, Upload
  <2>3. r \in Upload /\ r.st = "answer" /\ r.data = upload[u].data /\ ~r.ok
    BY <2>1 DEF Upload
  <2> HIDE DEF r
  <2>4. CloudTypeOK'
    <3>1. upload' \in [Uploads -> Upload]
      BY <2>2, <2>3, <1>inv DEF CloudTypeOK
    <3> QED
      BY <3>1, <1>inv DEF CloudTypeOK
  <2>5. WellFormedData'
    BY <2>1, <2>2, <2>3, <1>inv DEF WellFormedData, CloudTypeOK
  <2>6. AnswerIsTrue' /\ ReportedBackupExists'
    BY <2>2, <2>3, <1>inv DEF AnswerIsTrue, ReportedBackupExists, CloudTypeOK
  <2> QED
    BY <2>4, <2>5, <2>6
<1>d. ASSUME NEW u \in Uploads, SaveIsDropped(u) PROVE P
  <2> USE <1>d DEF SaveIsDropped
  <2> DEFINE r == [upload[u] EXCEPT !.st = "lost"]
  <2>1. upload[u] \in Upload /\ WellFormed(upload[u].data)
    BY <1>inv DEF CloudTypeOK, WellFormedData
  <2>2. upload' = [upload EXCEPT ![u] = r]
    BY <2>1, <1>inv DEF CloudTypeOK, Upload
  <2>3. r \in Upload /\ r.st = "lost" /\ r.data = upload[u].data /\ r.ok = upload[u].ok
    BY <2>1 DEF Upload
  <2> HIDE DEF r
  <2>4. CloudTypeOK'
    <3>1. upload' \in [Uploads -> Upload]
      BY <2>2, <2>3, <1>inv DEF CloudTypeOK
    <3> QED
      BY <3>1, <1>inv DEF CloudTypeOK
  <2>5. WellFormedData'
    BY <2>1, <2>2, <2>3, <1>inv DEF WellFormedData, CloudTypeOK
  <2>6. AnswerIsTrue' /\ ReportedBackupExists'
    BY <2>2, <2>3, <1>inv DEF AnswerIsTrue, ReportedBackupExists, CloudTypeOK
  <2> QED
    BY <2>4, <2>5, <2>6
<1>7. ASSUME NEW u \in Uploads, BackUpCompletion(u) PROVE P
  <2> USE <1>7 DEF BackUpCompletion
  <2>1. CloudTypeOK'
    <3>1. upload[u].ok \in BOOLEAN
      BY <1>inv DEF CloudTypeOK, Upload
    <3>2. config' \in [lastUpload : BOOLEAN, lastDownload : BOOLEAN]
      BY <3>1, <1>inv DEF CloudTypeOK
    <3> QED
      BY <3>2, <1>inv, <1>none DEF CloudTypeOK
  <2>2. WellFormedData'
    BY <1>inv, <1>none DEF WellFormedData, CloudTypeOK
  <2>3. AnswerIsTrue'
    BY <1>inv, <1>none DEF AnswerIsTrue, CloudTypeOK
  <2>4. ReportedBackupExists'
    <3>1. config'.lastUpload => config.lastUpload \/ upload[u].ok
      BY <1>inv DEF CloudTypeOK
    <3>2. cloud' = cloud
      OBVIOUS
    <3> QED
      BY <3>1, <3>2, <1>inv DEF ReportedBackupExists, AnswerIsTrue
  <2> QED
    BY <2>1, <2>2, <2>3, <2>4
<1>8. ASSUME NEW d \in Downloads, NEW r \in Download, WellFormed(r.data),
             download' = [download EXCEPT ![d] = r], upload' = upload,
             cloud' \in [exists : BOOLEAN, image : Image], WellFormed(cloud'.image),
             cloud.exists => cloud'.exists,
             config' \in [lastUpload : BOOLEAN, lastDownload : BOOLEAN],
             config'.lastUpload = config.lastUpload
      PROVE  P
  <2>1. CloudTypeOK'
    BY <1>8, <1>inv DEF CloudTypeOK
  <2>2. WellFormedData'
    BY <1>8, <1>inv DEF WellFormedData, CloudTypeOK
  <2>3. AnswerIsTrue' /\ ReportedBackupExists'
    BY <1>8, <1>inv DEF AnswerIsTrue, ReportedBackupExists
  <2> QED
    BY <2>1, <2>2, <2>3
<1> HIDE DEF P
<1>cloud. /\ cloud \in [exists : BOOLEAN, image : Image] /\ WellFormed(cloud.image)
          /\ cloud.image \in Image
          /\ config \in [lastUpload : BOOLEAN, lastDownload : BOOLEAN]
          /\ \A d \in Downloads : /\ download[d] \in Download
                                  /\ WellFormed(download[d].data)
  BY <1>inv DEF CloudTypeOK, WellFormedData
<1>set. \A d \in Downloads : \A s \in {"lost", "opening", "creating", "answer", "restoring"} :
          LET r == [download[d] EXCEPT !.st = s]
          IN  /\ r \in Download /\ WellFormed(r.data)
              /\ [download EXCEPT ![d].st = s] = [download EXCEPT ![d] = r]
  BY <1>cloud, <1>inv DEF Download, CloudTypeOK
<1>9. ASSUME NEW d \in Downloads, DownFromiCloud(d) PROVE P
  <2> DEFINE s == IF cloud.exists THEN "opening" ELSE "creating"
  <2>1. download' = [download EXCEPT ![d].st = s] /\ UNCHANGED <<cloud, upload, config>>
    BY <1>9 DEF DownFromiCloud
  <2>2. s \in {"lost", "opening", "creating", "answer", "restoring"}
    OBVIOUS
  <2> HIDE DEF s
  <2> QED
    BY <2>1, <2>2, <1>set, <1>cloud, <1>8
<1>l. ASSUME NEW d \in Downloads, RetrievalIsDropped(d) PROVE P
  <2>1. download' = [download EXCEPT ![d].st = "lost"] /\ UNCHANGED <<cloud, upload, config>>
    BY <1>l DEF RetrievalIsDropped
  <2> QED
    BY <2>1, <1>set, <1>cloud, <1>8
<1>10. ASSUME NEW d \in Downloads, OpenAnswers(d) PROVE P
  <2> DEFINE a == [st |-> "answer", data |-> cloud.image, ok |-> TRUE]
  <2>1. /\ download' = [download EXCEPT ![d] = a] \/ download' = [download EXCEPT ![d].st = "answer"]
        /\ UNCHANGED <<cloud, upload, config>>
    BY <1>10 DEF OpenAnswers
  <2>2. a \in Download /\ WellFormed(a.data)
    BY <1>cloud DEF Download
  <2> HIDE DEF a
  <2>3. CASE download' = [download EXCEPT ![d] = a]
    BY <2>1, <2>2, <2>3, <1>cloud, <1>8
  <2>4. CASE download' = [download EXCEPT ![d].st = "answer"]
    BY <2>1, <2>4, <1>set, <1>cloud, <1>8
  <2> QED
    BY <2>1, <2>3, <2>4
<1>11. ASSUME NEW d \in Downloads, CreateAnswers(d) PROVE P
  <2> DEFINE a == [st |-> "answer", data |-> Blank, ok |-> TRUE]
             empty == [exists |-> TRUE, image |-> Blank]
  <2>1. /\ download' = [download EXCEPT ![d] = a]
        /\ cloud' \in {cloud, empty}
        /\ UNCHANGED <<upload, config>>
    BY <1>11 DEF CreateAnswers
  <2>2. a \in Download /\ WellFormed(a.data)
    BY <1>none DEF Download
  <2>3. /\ empty \in [exists : BOOLEAN, image : Image] /\ WellFormed(empty.image)
        /\ empty.exists
    BY <1>none
  <2> HIDE DEF a, empty
  <2>4. /\ cloud' \in [exists : BOOLEAN, image : Image] /\ WellFormed(cloud'.image)
        /\ cloud.exists => cloud'.exists
    BY <2>1, <2>3, <1>cloud
  <2> QED
    BY <2>1, <2>2, <2>4, <1>cloud, <1>8
<1>12. ASSUME NEW d \in Downloads, DownGivesUp(d) \/ DownWriteFails(d) PROVE P
  <2>1. download' = [download EXCEPT ![d] = NoRequest] /\ UNCHANGED <<cloud, upload, config>>
    BY <1>12 DEF DownGivesUp, DownWriteFails
  <2> QED
    BY <2>1, <1>none, <1>cloud, <1>8
<1>13. ASSUME NEW d \in Downloads, DownRemoves(d) PROVE P
  <2>1. download' = [download EXCEPT ![d].st = "restoring"] /\ UNCHANGED <<cloud, upload, config>>
    BY <1>13 DEF DownRemoves
  <2> QED
    BY <2>1, <1>set, <1>cloud, <1>8
<1>14. ASSUME NEW d \in Downloads, DownReOpens(d) PROVE P
  <2>1. /\ download' = [download EXCEPT ![d] = NoRequest] /\ UNCHANGED <<cloud, upload>>
        /\ config' = [config EXCEPT !.lastDownload = TRUE]
    BY <1>14 DEF DownReOpens
  <2>2. /\ config' \in [lastUpload : BOOLEAN, lastDownload : BOOLEAN]
        /\ config'.lastUpload = config.lastUpload
    BY <2>1, <1>cloud
  <2> QED
    BY <2>1, <2>2, <1>none, <1>cloud, <1>8
<1>15. CASE UNCHANGED cbVars
  <2>1. UNCHANGED cloudVars
    BY <1>15 DEF cbVars
  <2> QED
    BY <2>1, <1>1 DEF P
<1>16. ASSUME NEW d \in Downloads, DownWrites(d) PROVE P
  <2>1. UNCHANGED cloudVars
    BY <1>16 DEF DownWrites
  <2> QED
    BY <2>1, <1>1 DEF P
<1>17. P
  BY <1>1, <1>2, <1>3, <1>4, <1>d, <1>5, <1>6, <1>7, <1>9, <1>l, <1>10, <1>11, <1>12, <1>13,
     <1>14, <1>15, <1>16 DEF CBNext, UploadStep, DownloadStep, P
<1> QED
  BY <1>17 DEF P

\* The restore that goes through the file.
LEMMA OneRestore ==
  ASSUME CBInv, [CBNext]_cbVars
  PROVE  OneRestoreOnTheFile'
<1>inv. OneRestoreOnTheFile /\ IInv /\ download \in [Downloads -> Download]
  BY DEF CBInv, CloudTypeOK
<1>0. NoRequest.st = "none"
  BY DEF NoRequest
<1>1. ASSUME restoring' = restoring, restoring = "written" => file' = file,
             \A d \in Downloads :
                /\ download'[d].st = "restoring" <=> download[d].st = "restoring"
                /\ download[d].st = "restoring" => download'[d].data = download[d].data
      PROVE  OneRestoreOnTheFile'
  BY <1>1, <1>inv DEF OneRestoreOnTheFile
<1>2. ASSUME NEW d \in Downloads, NEW r, download' = [download EXCEPT ![d] = r],
             download[d].st # "restoring", r.st # "restoring", UNCHANGED dmVars
      PROVE  OneRestoreOnTheFile'
  <2>1. \A e \in Downloads :
           /\ download'[e].st = "restoring" <=> download[e].st = "restoring"
           /\ download[e].st = "restoring" => download'[e].data = download[e].data
    BY <1>2, <1>inv
  <2> QED
    BY <1>1, <1>2, <2>1 DEF dmVars
<1>3. CASE (Launch \/ Statement) /\ UNCHANGED cloudVars
  <2>1. restoring' = restoring /\ restoring = "no"
    <3>1. CASE Launch
      BY <3>1, <1>inv DEF Launch, IInv, ConnectionOnFile
    <3>2. CASE Statement
      BY <3>2, <1>inv, StatementEffect DEF ExecuteUpdate, Idle
    <3> QED
      BY <3>1, <3>2, <1>3
  <2> QED
    BY <1>1, <1>3, <2>1 DEF cloudVars
<1>4. CASE CloudKill
  <2>1. restoring' = "no" /\ \A d \in Downloads : download'[d] = NoRequest
    BY <1>4 DEF CloudKill, Kill
  <2> QED
    BY <2>1, <1>0 DEF OneRestoreOnTheFile
<1>5. CASE \/ UNCHANGED cbVars \/ OtherDeviceSaves
           \/ \E u \in Uploads : BackUpToiCloud(u) \/ SaveIsDropped(u) \/ UploadStep(u)
  <2>1. UNCHANGED <<dmVars, download>>
    BY <1>5 DEF cbVars, cloudVars, OtherDeviceSaves, BackUpToiCloud, SaveIsDropped, UploadStep,
       SaveLands, SaveFails, BackUpCompletion
  <2> QED
    BY <1>1, <2>1 DEF dmVars
<1>6. ASSUME NEW d \in Downloads, NEW s \in {"lost", "opening", "creating", "answer"},
             download' = [download EXCEPT ![d].st = s], UNCHANGED dmVars,
             download[d].st # "restoring"
      PROVE  OneRestoreOnTheFile'
  <2>1. \A e \in Downloads :
           /\ download'[e].st = "restoring" <=> download[e].st = "restoring"
           /\ download[e].st = "restoring" => download'[e].data = download[e].data
    BY <1>6, <1>inv DEF Download
  <2> QED
    BY <1>1, <1>6, <2>1 DEF dmVars
<1>7. ASSUME NEW d \in Downloads, DownFromiCloud(d) \/ RetrievalIsDropped(d)
      PROVE  OneRestoreOnTheFile'
  BY <1>6, <1>7 DEF DownFromiCloud, RetrievalIsDropped
<1>8. ASSUME NEW d \in Downloads, OpenAnswers(d) PROVE OneRestoreOnTheFile'
  <2> DEFINE a == [st |-> "answer", data |-> cloud.image, ok |-> TRUE]
  <2>1. /\ \/ download' = [download EXCEPT ![d] = a]
           \/ download' = [download EXCEPT ![d].st = "answer"]
        /\ download[d].st = "opening" /\ UNCHANGED dmVars
    BY <1>8 DEF OpenAnswers
  <2>2. a.st = "answer"
    OBVIOUS
  <2> HIDE DEF a
  <2>3. CASE download' = [download EXCEPT ![d] = a]
    BY <1>2, <2>1, <2>2, <2>3
  <2>4. CASE download' = [download EXCEPT ![d].st = "answer"]
    BY <1>6, <2>1, <2>4
  <2> QED
    BY <2>1, <2>3, <2>4
<1>9. ASSUME NEW d \in Downloads, CreateAnswers(d) PROVE OneRestoreOnTheFile'
  <2> DEFINE a == [st |-> "answer", data |-> Blank, ok |-> TRUE]
  <2>1. /\ download' = [download EXCEPT ![d] = a]
        /\ download[d].st = "creating" /\ UNCHANGED dmVars
    BY <1>9 DEF CreateAnswers
  <2>2. a.st = "answer"
    OBVIOUS
  <2> HIDE DEF a
  <2> QED
    BY <1>2, <2>1, <2>2
<1>10. ASSUME NEW d \in Downloads, DownGivesUp(d) PROVE OneRestoreOnTheFile'
  <2>1. /\ download' = [download EXCEPT ![d] = NoRequest]
        /\ download[d].st = "answer" /\ UNCHANGED dmVars
    BY <1>10 DEF DownGivesUp
  <2> QED
    BY <1>0, <1>2, <2>1
<1>11. ASSUME NEW d \in Downloads, DownRemoves(d) PROVE OneRestoreOnTheFile'
  <2>1. /\ restoring = "no" /\ restoring' = "removed"
        /\ download' = [download EXCEPT ![d].st = "restoring"]
    BY <1>11 DEF DownRemoves, RetrieveRemove, Idle
  <2>2. \A e \in Downloads : download[e].st # "restoring"
    BY <2>1, <1>inv DEF OneRestoreOnTheFile
  <2>3. \A e \in Downloads : download'[e].st = "restoring" <=> e = d
    BY <2>1, <2>2, <1>inv DEF Download
  <2> QED
    BY <2>1, <2>3 DEF OneRestoreOnTheFile
<1>12. ASSUME NEW d \in Downloads, DownWrites(d) PROVE OneRestoreOnTheFile'
  <2>1. /\ restoring = "removed" /\ restoring' = "written"
        /\ file' = download[d].data /\ download' = download
        /\ download[d].st = "restoring"
    BY <1>12 DEF DownWrites, RetrieveWrite, cloudVars
  <2> QED
    BY <2>1, <1>inv DEF OneRestoreOnTheFile
<1>13. ASSUME NEW d \in Downloads, DownWriteFails(d) \/ DownReOpens(d)
       PROVE  OneRestoreOnTheFile'
  <2>1. /\ restoring' = "no" /\ download[d].st = "restoring"
        /\ download' = [download EXCEPT ![d] = NoRequest]
    BY <1>13 DEF DownWriteFails, DownReOpens, RetrieveWriteFails, ReOpenDB
  <2>2. \A e \in Downloads : download[e].st = "restoring" => e = d
    BY <2>1, <1>inv DEF OneRestoreOnTheFile
  <2>3. \A e \in Downloads : download'[e].st # "restoring"
    BY <2>1, <2>2, <1>0, <1>inv
  <2> QED
    BY <2>1, <2>3 DEF OneRestoreOnTheFile
<1> QED
  BY <1>3, <1>4, <1>5, <1>7, <1>8, <1>9, <1>10, <1>11, <1>12, <1>13
     DEF CBNext, DownloadStep

LEMMA CBPreserved ==
  CBInv /\ [CBNext]_cbVars => CBInv'
<1> SUFFICES ASSUME CBInv, [CBNext]_cbVars PROVE CBInv'
  OBVIOUS
<1>1. IInv'
  BY StoreStep, NextIInv DEF CBInv
<1> QED
  BY <1>1, Requests, OneRestore DEF CBInv

-----------------------------------------------------------------------------
(* What the backups and restores guarantee.                                *)

\* The invariant holds for good.
THEOREM CBInvariant ==
  CBSpec => []CBInv
<1> QED
  BY CBInitially, CBPreserved, PTL DEF CBSpec

\* Backing up and restoring is a use of the record store as PPDataManager
\* specifies it: to the store, everything else is stuttering.
THEOREM CloudUsesStore ==
  CBSpec => Spec
<1>1. CBInit => Init
  BY DEF CBInit
<1> QED
  BY <1>1, StoreStep, CBInvariant, PTL DEF CBSpec, Spec

\* Every value stays of its type, what is in flight and in the cloud included.
THEOREM CBTypeCorrect ==
  CBSpec => []CBTypeOK
<1>1. CBInv => CBTypeOK
  BY DEF CBInv, IInv, CloudTypeOK, CBTypeOK
<1> QED
  BY <1>1, CBInvariant, PTL

\* However many restores are in flight, one at a time goes through the file,
\* and what is in the file is its data.
THEOREM RestoresDoNotMix ==
  CBSpec => []OneRestoreOnTheFile
<1>1. CBInv => OneRestoreOnTheFile
  BY DEF CBInv
<1> QED
  BY <1>1, CBInvariant, PTL

\* A time stamp of a backup is never shown without a backup in the cloud.
THEOREM BackupsAreReported ==
  CBSpec => []ReportedBackupExists
<1>1. CBInv => ReportedBackupExists
  BY DEF CBInv
<1> QED
  BY <1>1, CBInvariant, PTL

\* A tap captures the records the program shows, save for a connection that
\* was never opened or that a failed restore has left on a removed file.
THEOREM BacksUpWhatIsShown ==
  CBSpec => BackupIsWhatIsShown
<1>1. CBInv /\ [CBNext]_cbVars
      => [\A u \in Uploads :
            upload[u].st = "none" /\ upload'[u].st = "saving"
            => \/ upload'[u].data.rows = [t \in Tables |-> GetAll(t)]
               \/ conn = "closed"
               \/ conn = "orphaned" /\ ~fileExists]_cbVars
  <2> SUFFICES ASSUME CBInv, [CBNext]_cbVars, NEW u \in Uploads,
                      upload[u].st = "none", upload'[u].st = "saving"
               PROVE  \/ upload'[u].data.rows = [t \in Tables |-> GetAll(t)]
                      \/ conn = "closed"
                      \/ conn = "orphaned" /\ ~fileExists
    OBVIOUS
  <2>inv. upload \in [Uploads -> Upload] /\ IInv
    BY DEF CBInv, CloudTypeOK
  <2>1. \E w \in Uploads : BackUpToiCloud(w)
    <3>0. ASSUME NEW w \in Uploads, SaveIsDropped(w)
          PROVE  FALSE
      BY <3>0, <2>inv DEF SaveIsDropped, Upload
    <3>1. CASE UNCHANGED upload
      BY <3>1
    <3>2. CASE CloudKill
      BY <3>2 DEF CloudKill, NoRequest
    <3>3. ASSUME NEW w \in Uploads, UploadStep(w)
          PROVE  FALSE
      <4>1. CASE SaveLands(w)
        <5>1. PICK ok \in BOOLEAN : upload' = [upload EXCEPT ![w].st = "answer", ![w].ok = ok]
          BY <4>1 DEF SaveLands
        <5> QED
          BY <5>1, <2>inv DEF Upload
      <4>2. CASE SaveFails(w)
        BY <4>2, <2>inv DEF SaveFails, Upload
      <4>3. CASE BackUpCompletion(w)
        BY <4>3, <2>inv DEF BackUpCompletion, NoRequest
      <4> QED
        BY <3>3, <4>1, <4>2, <4>3 DEF UploadStep
    <3>4. CASE \/ UNCHANGED cbVars \/ OtherDeviceSaves
               \/ (Launch \/ Statement) /\ UNCHANGED cloudVars
               \/ \E d \in Downloads : DownFromiCloud(d) \/ RetrievalIsDropped(d) \/ DownloadStep(d)
      <4>1. UNCHANGED upload
        BY <3>4 DEF cbVars, cloudVars, OtherDeviceSaves, DownFromiCloud, RetrievalIsDropped,
           DownloadStep, OpenAnswers, CreateAnswers, DownGivesUp, DownRemoves, DownWrites,
           DownWriteFails, DownReOpens
      <4> QED
        BY <4>1, <3>1
    <3> QED
      BY <3>0, <3>2, <3>3, <3>4 DEF CBNext
  <2>2. PICK w \in Uploads : BackUpToiCloud(w)
    BY <2>1
  <2>3. w = u
    BY <2>2, <2>inv DEF BackUpToiCloud
  <2>4. upload'[u].data = file /\ Idle
    BY <2>2, <2>3, <2>inv DEF BackUpToiCloud, GetDBFileData
  <2>5. CASE conn = "linked"
    <3>1. Db = file /\ file \in Image /\ WellFormed(file)
      BY <2>5, <2>inv DEF Db, IInv, TypeOK, FreshIds
    <3>2. \A t \in Tables : GetAll(t) = file.rows[t]
      <4> TAKE t \in Tables
      <4>1. CASE t \in file.made
        BY <3>1, <4>1 DEF GetAll
      <4>2. CASE t \notin file.made
        <5>1. file.seq[t] = 0 /\ \A i \in Ids : i > 0 /\ file.rows[t][i] = NoRow
          BY <3>1, <4>2 DEF WellFormed, Ids
        <5>2. file.rows[t] = [i \in Ids |-> NoRow]
          BY <3>1, <5>1 DEF Image
        <5>3. Blank.rows[t] = [i \in Ids |-> NoRow]
          BY DEF Blank
        <5> QED
          BY <3>1, <4>2, <5>2, <5>3 DEF GetAll
      <4> QED
        BY <4>1, <4>2
    <3> QED
      BY <2>4, <3>1, <3>2 DEF Image
  <2>6. CASE conn = "orphaned"
    BY <2>4, <2>6, <2>inv DEF Idle, IInv, ConnectionOnFile
  <2> QED
    BY <2>5, <2>6, <2>inv DEF IInv, TypeOK
<1> QED
  BY <1>1, CBInvariant, PTL DEF CBSpec, BackupIsWhatIsShown

-----------------------------------------------------------------------------
(* Why a request that was started ends, beside fairness.                   *)

\* How many steps a request may have before it; one that was lost has none.
UploadToGo(u) == CASE upload[u].st \in {"none", "lost"} -> 0
                   [] upload[u].st = "answer" -> 1
                   [] upload[u].st = "saving" -> 2
DownloadToGo(d) == CASE download[d].st \in {"none", "lost"} -> 0
                     [] download[d].st = "restoring" -> IF restoring = "written" THEN 1 ELSE 2
                     [] download[d].st = "answer"    -> 3
                     [] OTHER                        -> 4

LEMMA UploadsAdvance ==
  ASSUME CBInv, [CBNext]_cbVars, NEW u \in Uploads, upload[u].st \notin {"none", "lost"}
  PROVE  /\ UploadToGo(u)' <= UploadToGo(u)
         /\ UploadStep(u) => UploadToGo(u)' < UploadToGo(u)
<1>1. upload \in [Uploads -> Upload] /\ upload[u].st \in {"saving", "answer"}
  BY DEF CBInv, CloudTypeOK, Upload
<1>2. ASSUME UploadStep(u) PROVE UploadToGo(u)' < UploadToGo(u)
  <2>1. CASE SaveLands(u) \/ SaveFails(u)
    <3>1. upload[u].st = "saving" /\ upload'[u].st = "answer"
      BY <1>1, <2>1 DEF SaveLands, SaveFails, Upload
    <3> QED
      BY <3>1 DEF UploadToGo
  <2>2. CASE BackUpCompletion(u)
    <3>1. upload[u].st = "answer" /\ upload'[u].st = "none"
      BY <1>1, <2>2 DEF BackUpCompletion, NoRequest
    <3> QED
      BY <3>1 DEF UploadToGo
  <2> QED
    BY <1>2, <2>1, <2>2 DEF UploadStep
<1>3. UploadToGo(u) \in Nat /\ UploadToGo(u) > 0
  BY <1>1 DEF UploadToGo
<1>4. CASE UploadStep(u)
  <2>1. UploadToGo(u)' \in Nat
    <3>1. upload'[u].st \in {"none", "answer"}
      BY <1>1, <1>4 DEF UploadStep, SaveLands, SaveFails, BackUpCompletion, NoRequest, Upload
    <3> QED
      BY <3>1 DEF UploadToGo
  <2> QED
    BY <1>2, <1>3, <1>4, <2>1
<1>5. CASE upload'[u] = upload[u] /\ ~ UploadStep(u)
  <2>1. UploadToGo(u)' = UploadToGo(u)
    BY <1>5 DEF UploadToGo
  <2> QED
    BY <1>3, <1>5, <2>1
<1>6. CASE upload'[u].st = "none" /\ ~ UploadStep(u)
  <2>1. UploadToGo(u)' = 0
    BY <1>6 DEF UploadToGo
  <2> QED
    BY <1>3, <1>6, <2>1
<1>7. UploadStep(u) \/ upload'[u] = upload[u] \/ upload'[u].st = "none"
  <2>1. CASE CloudKill
    BY <2>1 DEF CloudKill, NoRequest
  <2>2. ASSUME NEW w \in Uploads, BackUpToiCloud(w) \/ SaveIsDropped(w)
        PROVE  upload'[u] = upload[u]
    BY <1>1, <2>2 DEF BackUpToiCloud, SaveIsDropped
  <2>3. ASSUME NEW w \in Uploads, UploadStep(w), w # u PROVE upload'[u] = upload[u]
    BY <1>1, <2>3 DEF UploadStep, SaveLands, SaveFails, BackUpCompletion
  <2>4. CASE \/ UNCHANGED cbVars \/ OtherDeviceSaves
             \/ (Launch \/ Statement) /\ UNCHANGED cloudVars
             \/ \E d \in Downloads : DownFromiCloud(d) \/ RetrievalIsDropped(d) \/ DownloadStep(d)
    <3>1. UNCHANGED upload
      BY <2>4 DEF cbVars, cloudVars, OtherDeviceSaves, DownFromiCloud, RetrievalIsDropped,
         DownloadStep, OpenAnswers, CreateAnswers, DownGivesUp, DownRemoves, DownWrites,
         DownWriteFails, DownReOpens
    <3> QED
      BY <3>1
  <2> QED
    BY <2>1, <2>2, <2>3, <2>4 DEF CBNext
<1> QED
  BY <1>4, <1>5, <1>6, <1>7

LEMMA DownloadsAdvance ==
  ASSUME CBInv, [CBNext]_cbVars, NEW d \in Downloads, download[d].st \notin {"none", "lost"}
  PROVE  /\ DownloadToGo(d)' <= DownloadToGo(d)
         /\ DownloadStep(d) => DownloadToGo(d)' < DownloadToGo(d)
<1>1. /\ download \in [Downloads -> Download]
      /\ download[d].st \in {"opening", "creating", "answer", "restoring"}
  BY DEF CBInv, CloudTypeOK, Download
<1>2. /\ restoring # "no" <=> \E e \in Downloads : download[e].st = "restoring"
      /\ \A e \in Downloads :
            download[d].st = "restoring" /\ download[e].st = "restoring" => d = e
  BY DEF CBInv, OneRestoreOnTheFile
<1>3. DownloadToGo(d) \in 1 .. 4
  BY <1>1 DEF DownloadToGo
<1>4. ASSUME DownloadStep(d)
      PROVE  DownloadToGo(d)' \in Nat /\ DownloadToGo(d)' < DownloadToGo(d)
  <2>1. CASE OpenAnswers(d) \/ CreateAnswers(d)
    <3>1. download[d].st \in {"opening", "creating"} /\ download'[d].st = "answer"
      BY <1>1, <2>1 DEF OpenAnswers, CreateAnswers, Download
    <3> QED
      BY <3>1 DEF DownloadToGo
  <2>2. CASE DownRemoves(d)
    <3>1. download[d].st = "answer" /\ download'[d].st = "restoring" /\ restoring' = "removed"
      BY <1>1, <2>2 DEF DownRemoves, RetrieveRemove, Download
    <3> QED
      BY <3>1 DEF DownloadToGo
  <2>3. CASE DownWrites(d)
    <3>1. /\ download[d].st = "restoring" /\ download' = download
          /\ restoring = "removed" /\ restoring' = "written"
      BY <2>3 DEF DownWrites, RetrieveWrite, cloudVars
    <3> QED
      BY <3>1 DEF DownloadToGo
  <2>4. CASE DownGivesUp(d) \/ DownWriteFails(d) \/ DownReOpens(d)
    <3>1. download'[d].st = "none"
      BY <1>1, <2>4 DEF DownGivesUp, DownWriteFails, DownReOpens, NoRequest
    <3>2. DownloadToGo(d)' = 0
      BY <3>1 DEF DownloadToGo
    <3> QED
      BY <1>3, <3>2
  <2> QED
    BY <1>4, <2>1, <2>2, <2>3, <2>4 DEF DownloadStep
<1>5. ASSUME download'[d] = download[d], download[d].st = "restoring" => restoring' = restoring
      PROVE  DownloadToGo(d)' <= DownloadToGo(d)
  BY <1>1, <1>5 DEF DownloadToGo
<1>6. ASSUME download'[d].st = "none"
      PROVE  DownloadToGo(d)' <= DownloadToGo(d)
  <2>1. DownloadToGo(d)' = 0
    BY <1>6 DEF DownloadToGo
  <2> QED
    BY <1>3, <2>1
<1>7. \/ DownloadStep(d)
      \/ download'[d].st = "none"
      \/ download'[d] = download[d] /\ (download[d].st = "restoring" => restoring' = restoring)
  <2>1. CASE CloudKill
    BY <2>1 DEF CloudKill, NoRequest
  <2>2. CASE Launch /\ UNCHANGED cloudVars
    BY <2>2 DEF Launch, cloudVars
  <2>3. CASE Statement /\ UNCHANGED cloudVars
    BY <2>3 DEF Statement, InsertWebsite, UpdateWebsize, DeleteWebsite, InsertBackCard,
       UpdateBackCard, DeleteBackCard, InsertRow, UpdateRow, DeleteRow, ExecuteUpdate, cloudVars
  <2>4. CASE \/ UNCHANGED cbVars \/ OtherDeviceSaves
             \/ \E u \in Uploads : BackUpToiCloud(u) \/ SaveIsDropped(u) \/ UploadStep(u)
    <3>1. UNCHANGED <<download, restoring>>
      BY <2>4 DEF cbVars, dmVars, cloudVars, OtherDeviceSaves, BackUpToiCloud, SaveIsDropped,
         UploadStep, SaveLands, SaveFails, BackUpCompletion
    <3> QED
      BY <3>1
  <2>5. ASSUME NEW e \in Downloads, DownFromiCloud(e) \/ RetrievalIsDropped(e), e # d
        PROVE  download'[d] = download[d] /\ restoring' = restoring
    BY <1>1, <2>5 DEF DownFromiCloud, RetrievalIsDropped, dmVars
  <2>6. ASSUME NEW e \in Downloads, DownloadStep(e), e # d
        PROVE  download'[d] = download[d] /\ (download[d].st = "restoring" => restoring' = restoring)
    <3>1. CASE OpenAnswers(e) \/ CreateAnswers(e) \/ DownGivesUp(e)
      BY <1>1, <2>6, <3>1 DEF OpenAnswers, CreateAnswers, DownGivesUp, dmVars
    <3>2. CASE DownRemoves(e)
      BY <1>1, <1>2, <2>6, <3>2 DEF DownRemoves, RetrieveRemove, Idle
    <3>3. CASE DownWrites(e)
      BY <1>2, <2>6, <3>3 DEF DownWrites, cloudVars
    <3>4. CASE DownWriteFails(e) \/ DownReOpens(e)
      BY <1>1, <1>2, <2>6, <3>4 DEF DownWriteFails, DownReOpens
    <3> QED
      BY <2>6, <3>1, <3>2, <3>3, <3>4 DEF DownloadStep
  <2>7. ~ DownFromiCloud(d) /\ ~ RetrievalIsDropped(d)
    BY DEF DownFromiCloud, RetrievalIsDropped
  <2> QED
    BY <2>1, <2>2, <2>3, <2>4, <2>5, <2>6, <2>7 DEF CBNext
<1> QED
  BY <1>3, <1>4, <1>5, <1>6, <1>7

\* A request that was started never goes back, whatever else happens, and each
\* of its own steps takes it nearer to its end: it has four at most
\* (SettingViewController.m:387-459).  One that was lost has no step.
THEOREM RequestsAdvance ==
  CBSpec =>
    [][/\ \A u \in Uploads : upload[u].st \notin {"none", "lost"} =>
             /\ UploadToGo(u)' <= UploadToGo(u)
             /\ UploadStep(u) => UploadToGo(u)' < UploadToGo(u)
       /\ \A d \in Downloads : download[d].st \notin {"none", "lost"} =>
             /\ DownloadToGo(d)' <= DownloadToGo(d)
             /\ DownloadStep(d) => DownloadToGo(d)' < DownloadToGo(d)]_cbVars
<1> DEFINE Advance ==
      /\ \A u \in Uploads : upload[u].st \notin {"none", "lost"} =>
            /\ UploadToGo(u)' <= UploadToGo(u)
            /\ UploadStep(u) => UploadToGo(u)' < UploadToGo(u)
      /\ \A d \in Downloads : download[d].st \notin {"none", "lost"} =>
            /\ DownloadToGo(d)' <= DownloadToGo(d)
            /\ DownloadStep(d) => DownloadToGo(d)' < DownloadToGo(d)
<1>1. CBInv /\ [CBNext]_cbVars => [Advance]_cbVars
  BY UploadsAdvance, DownloadsAdvance
<1> QED
  BY <1>1, CBInvariant, PTL DEF CBSpec

\* No request outlives its process.
EndWithProcess ==
    /\ \A u \in Uploads : upload[u].st # "none" => alive
    /\ \A d \in Downloads : download[d].st # "none" => alive

LEMMA EndsWithProcess ==
  CBInv /\ EndWithProcess /\ [CBNext]_cbVars => EndWithProcess'
<1> SUFFICES ASSUME CBInv, EndWithProcess, [CBNext]_cbVars PROVE EndWithProcess'
  OBVIOUS
<1>1. upload \in [Uploads -> Upload] /\ download \in [Downloads -> Download]
  BY DEF CBInv, CloudTypeOK
<1>2. CASE CloudKill
  BY <1>2 DEF CloudKill, NoRequest, EndWithProcess
<1>3. CASE \/ UNCHANGED cbVars \/ OtherDeviceSaves
           \/ (Launch \/ Statement) /\ UNCHANGED cloudVars
  <2>1. UNCHANGED <<upload, download>>
    BY <1>3 DEF cbVars, cloudVars, OtherDeviceSaves
  <2>2. alive => alive'
    <3>1. CASE UNCHANGED cbVars \/ OtherDeviceSaves \/ Launch
      BY <3>1 DEF cbVars, dmVars, OtherDeviceSaves, Launch
    <3>2. CASE Statement
      BY <3>2 DEF Statement, InsertWebsite, UpdateWebsize, DeleteWebsite, InsertBackCard,
         UpdateBackCard, DeleteBackCard, InsertRow, UpdateRow, DeleteRow, ExecuteUpdate
    <3> QED
      BY <1>3, <3>1, <3>2
  <2> QED
    BY <2>1, <2>2 DEF EndWithProcess
<1>4. ASSUME NEW u \in Uploads, BackUpToiCloud(u) \/ SaveIsDropped(u) \/ UploadStep(u) PROVE EndWithProcess'
  <2>1. UNCHANGED <<download, alive>> /\ alive
    BY <1>4, <1>1 DEF BackUpToiCloud, SaveIsDropped, UploadStep, SaveLands, SaveFails, BackUpCompletion,
       dmVars, Idle, EndWithProcess
  <2> QED
    BY <2>1 DEF EndWithProcess
<1>5. ASSUME NEW d \in Downloads, DownFromiCloud(d) \/ RetrievalIsDropped(d) \/ DownloadStep(d) PROVE EndWithProcess'
  <2>1. UNCHANGED <<upload, alive>>
    BY <1>5 DEF DownFromiCloud, RetrievalIsDropped, DownloadStep, OpenAnswers, CreateAnswers, DownGivesUp,
       DownRemoves, DownWrites, DownWriteFails, DownReOpens, RetrieveRemove, RetrieveWrite,
       RetrieveWriteFails, ReOpenDB, cloudVars, dmVars
  <2>2. alive
    BY <1>5 DEF DownFromiCloud, RetrievalIsDropped, DownloadStep, OpenAnswers, CreateAnswers, DownGivesUp,
       DownRemoves, DownWrites, DownWriteFails, DownReOpens, Idle, EndWithProcess
  <2> QED
    BY <2>1, <2>2 DEF EndWithProcess
<1> QED
  BY <1>2, <1>3, <1>4, <1>5 DEF CBNext

RestoreRuns == \E d \in Downloads : download[d].st = "restoring" /\ restoring \in {"removed", "written"}

\* An answer that the main thread cannot take up yet waits for a restore that
\* has a step to make, and for nothing else: requests cannot hold each other
\* up for good (SettingViewController.m:402-457).
THEOREM AnswersAreTakenUp ==
  CBSpec => [](/\ \A u \in Uploads : upload[u].st # "none" => Idle \/ RestoreRuns
               /\ \A d \in Downloads : download[d].st # "none" => Idle \/ RestoreRuns)
<1>1. CBInit => EndWithProcess
  BY DEF CBInit, CloudInit, NoRequest, EndWithProcess
<1>2. CBInv /\ EndWithProcess =>
        /\ \A u \in Uploads : upload[u].st # "none" => Idle \/ RestoreRuns
        /\ \A d \in Downloads : download[d].st # "none" => Idle \/ RestoreRuns
  BY DEF CBInv, IInv, TypeOK, OneRestoreOnTheFile, EndWithProcess, Idle, RestoreRuns
<1> QED
  BY <1>1, <1>2, EndsWithProcess, CBInvariant, PTL DEF CBSpec

-----------------------------------------------------------------------------
(***************************************************************************)
(* The screens: their invariant.                                           *)
(***************************************************************************)

ScreensTypeOK ==
    /\ list \in Row
    /\ screen \in Screens
    /\ held \in Model
    /\ Holding <=> held # NoModel
    /\ stale \in BOOLEAN
    /\ unsaved \subseteq Ids

\* Every listed id has a record, with the values that are shown or others.
ListedIsThere == \A i \in Ids : list[i] # NoRow => GetAll(Site)[i] # NoRow

\* The object that was handed out.
HeldIsThere ==
    Holding => /\ held.id \in Ids
               /\ held.val \in Values
               /\ held.listed <=> ~stale
               /\ ~stale => GetAll(Site)[held.id] # NoRow

AtRest == ~alive => ~Holding

SSInv ==
    /\ CBInv
    /\ ScreensTypeOK
    /\ ListIsStored
    /\ HeldIsStored
    /\ ListedIsThere
    /\ HeldIsThere
    /\ AtRest

-----------------------------------------------------------------------------
(* The store and the cloud.                                                *)

\* A step of the screens is one of the backups and restores, or none.
LEMMA CloudPart ==
  SSInv /\ [SSNext]_ssVars => [CBNext]_cbVars
<1> SUFFICES ASSUME SSInv, [SSNext]_ssVars PROVE [CBNext]_cbVars
  OBVIOUS
<1>1. CASE SiteLaunch
  BY <1>1 DEF SiteLaunch, CBNext
<1>2. CASE SiteKill
  BY <1>2 DEF SiteKill, CBNext
<1>3. CASE CloudStep
  BY <1>3 DEF CloudStep, CBNext, DownloadStep
<1>4. CASE \E d \in Downloads : RestoreCompletes(d)
  BY <1>4 DEF RestoreCompletes, CBNext, DownloadStep
<1>5. CASE \/ UNCHANGED ssVars \/ PressedEdit \/ PressedDelete \/ PressedView
           \/ PressedShowPwd \/ Cancel \/ AddSite
           \/ ConfirmDeleteFails
           \/ \E i \in Ids : SelectRow(i)
           \/ \E v \in Values : FinishEditFails(v)
  BY <1>5 DEF ssVars, PressedEdit, PressedDelete, PressedView, PressedShowPwd,
     Cancel, AddSite, ConfirmDeleteFails,
     SelectRow, FinishEditFails
<1>6. Holding => held.id \in Ids
  BY DEF SSInv, HeldIsThere
<1>7. CASE ConfirmDelete
  <2>1. DeleteWebsite(held.id) /\ held.id \in Ids /\ UNCHANGED cloudVars
    BY <1>6, <1>7 DEF ConfirmDelete, Holding
  <2> QED
    BY <2>1 DEF CBNext, Statement
<1>8. ASSUME NEW v \in Values, FinishEdit(v) PROVE CBNext
  <2>1. UpdateWebsize(held.id, v) /\ held.id \in Ids /\ UNCHANGED cloudVars
    BY <1>6, <1>8 DEF FinishEdit, Holding
  <2> QED
    BY <2>1 DEF CBNext, Statement
<1>9. ASSUME NEW v \in Values, FinishInput(v) PROVE CBNext
  BY <1>9 DEF FinishInput, CBNext, Statement
<1> QED
  BY <1>1, <1>2, <1>3, <1>4, <1>5, <1>7, <1>8, <1>9 DEF SSNext

\* A restore that has not come to its last step shows the old records, and
\* brings no process to life.
LEMMA CloudStepReads ==
  ASSUME SSInv, CloudStep
  PROVE  GetAll(Site)' = GetAll(Site) /\ (alive' <=> alive)
<1> USE DEF Site, Tables
<1>inv. IInv /\ CloudTypeOK
  BY DEF SSInv, CBInv
<1>1. CASE \E d \in Downloads : DownRemoves(d)
  <2>1. RetrieveRemove
    BY <1>1 DEF DownRemoves
  <2>2. GetAll(Site)' = GetAll(Site)
    BY <2>1, <1>inv, RestoreShowsOld
  <2>3. alive' = alive
    BY <2>1 DEF RetrieveRemove
  <2> QED
    BY <2>2, <2>3
<1>2. CASE \E d \in Downloads : DownWriteFails(d)
  <2>1. RetrieveWriteFails
    BY <1>2 DEF DownWriteFails
  <2>2. GetAll(Site)' = GetAll(Site)
    BY <2>1, <1>inv, RestoreShowsOld
  <2>3. alive' = alive
    BY <2>1 DEF RetrieveWriteFails
  <2> QED
    BY <2>2, <2>3
<1>3. ASSUME NEW d \in Downloads, DownWrites(d)
      PROVE  GetAll(Site)' = GetAll(Site) /\ (alive' <=> alive)
  <2>1. download[d].data \in Image /\ RetrieveWrite(download[d].data)
    BY <1>3, <1>inv DEF DownWrites, CloudTypeOK, Download
  <2>2. GetAll(Site)' = GetAll(Site)
    BY <2>1, <1>inv, RestoreShowsOld
  <2>3. alive' = alive
    BY <2>1 DEF RetrieveWrite
  <2> QED
    BY <2>2, <2>3
<1>4. CASE \/ OtherDeviceSaves
           \/ \E d \in Downloads : \/ DownFromiCloud(d) \/ OpenAnswers(d)
                                   \/ CreateAnswers(d) \/ DownGivesUp(d)
  <2>1. UNCHANGED dmVars
    BY <1>4 DEF OtherDeviceSaves, DownFromiCloud, OpenAnswers, CreateAnswers, DownGivesUp
  <2> QED
    BY <2>1 DEF dmVars, GetAll, Db
<1> QED
  BY <1>1, <1>2, <1>3, <1>4 DEF CloudStep

-----------------------------------------------------------------------------
(* The invariant.                                                          *)

LEMMA SSInitially ==
  SSInit => SSInv
<1> SUFFICES ASSUME SSInit PROVE SSInv
  OBVIOUS
<1> USE DEF SSInit
<1>1. CBInv
  BY CBInitially
<1>2. GetAll(Site) = [i \in Ids |-> NoRow]
  BY DEF CBInit, Init, GetAll, Db, Blank, Site, Tables
<1>3. ScreensTypeOK
  BY DEF ScreensTypeOK, Screens, Row, Model, NoModel, Holding
<1>4. ListIsStored /\ HeldIsStored /\ ListedIsThere /\ HeldIsThere /\ AtRest
  BY <1>2 DEF ListIsStored, HeldIsStored, ListedIsThere, HeldIsThere, AtRest, Holding
<1> QED
  BY <1>1, <1>3, <1>4 DEF SSInv

LEMMA SSPreserved ==
  SSInv /\ [SSNext]_ssVars => SSInv'
<1> SUFFICES ASSUME SSInv, [SSNext]_ssVars PROVE SSInv'
  OBVIOUS
<1>inv. /\ CBInv /\ IInv /\ ScreensTypeOK /\ ListIsStored /\ HeldIsStored
        /\ ListedIsThere /\ HeldIsThere /\ AtRest
  BY DEF SSInv, CBInv
<1>cb. CBInv'
  BY <1>inv, CloudPart, CBPreserved
<1>reads. GetAll(Site) \in Row /\ GetAll(Site)' \in Row
  <2>1. IInv /\ IInv'
    BY <1>inv, <1>cb DEF CBInv
  <2>2. TablesRead /\ TablesRead'
    BY <2>1, ReadsTable, ReadsTableNext
  <2> QED
    BY <2>2 DEF TablesRead, Row, Site, Tables
<1> DEFINE Rest == /\ ScreensTypeOK' /\ ListIsStored' /\ HeldIsStored'
                   /\ ListedIsThere' /\ HeldIsThere' /\ AtRest'
<1>rest. ASSUME Rest PROVE SSInv'
  BY <1>cb, <1>rest DEF SSInv
\* The list is read again and the front screen goes away.
<1>back. ASSUME Refresh, Dismiss PROVE Rest
  <2> USE <1>back DEF Refresh, Dismiss
  <2>1. ScreensTypeOK'
    BY <1>reads DEF ScreensTypeOK, Screens, Model, NoModel, Holding
  <2>2. ListIsStored' /\ HeldIsStored' /\ ListedIsThere' /\ HeldIsThere' /\ AtRest'
    BY DEF ListIsStored, HeldIsStored, ListedIsThere, HeldIsThere, AtRest, Holding
  <2> QED
    BY <2>1, <2>2
\* The front screen goes away.
<1>leave. ASSUME Dismiss, UNCHANGED <<list, unsaved>>, GetAll(Site)' = GetAll(Site) PROVE Rest
  <2> USE <1>leave DEF Dismiss
  <2>1. ScreensTypeOK'
    BY <1>inv DEF ScreensTypeOK, Screens, Model, NoModel, Holding
  <2>2. HeldIsStored' /\ HeldIsThere' /\ AtRest'
    BY DEF HeldIsStored, HeldIsThere, AtRest, Holding
  <2>3. ListIsStored' /\ ListedIsThere'
    BY <1>inv DEF ListIsStored, ListedIsThere
  <2> QED
    BY <2>1, <2>2, <2>3
\* Neither the screens nor the records change.
<1>same. ASSUME UNCHANGED uiVars, GetAll(Site)' = GetAll(Site), alive' <=> alive PROVE Rest
  <2> USE <1>same DEF uiVars
  <2>1. ScreensTypeOK'
    BY <1>inv DEF ScreensTypeOK, Screens, Holding
  <2>2. ListIsStored' /\ HeldIsStored' /\ ListedIsThere'
    BY <1>inv DEF ListIsStored, HeldIsStored, ListedIsThere, Holding
  <2>3. HeldIsThere' /\ AtRest'
    BY <1>inv DEF HeldIsThere, AtRest, Holding
  <2> QED
    BY <2>1, <2>2, <2>3
<1>db. ASSUME UNCHANGED cbVars PROVE GetAll(Site)' = GetAll(Site) /\ (alive' <=> alive)
  BY <1>db DEF cbVars, dmVars, GetAll, Db
<1>1. CASE SiteLaunch
  <2> USE <1>1 DEF SiteLaunch, Refresh
  <2>1. ~Holding
    BY <1>inv DEF Launch, AtRest
  <2>2. ScreensTypeOK'
    BY <1>reads, <1>inv DEF ScreensTypeOK, Screens, Holding
  <2>3. ListIsStored' /\ HeldIsStored' /\ ListedIsThere' /\ HeldIsThere' /\ AtRest'
    BY <2>1 DEF ListIsStored, HeldIsStored, ListedIsThere, HeldIsThere, AtRest, Holding
  <2> QED
    BY <2>2, <2>3, <1>rest
<1>2. CASE SiteKill
  <2> USE <1>2 DEF SiteKill, Dismiss
  <2>1. GetAll(Site)' = [i \in Ids |-> NoRow]
    BY KillShowsNothing DEF CloudKill, Site, Tables
  <2>2. ScreensTypeOK'
    BY DEF ScreensTypeOK, Screens, Row, Model, NoModel, Holding
  <2>3. ListIsStored' /\ HeldIsStored' /\ ListedIsThere' /\ HeldIsThere' /\ AtRest'
    BY <2>1 DEF ListIsStored, HeldIsStored, ListedIsThere, HeldIsThere, AtRest, Holding
  <2> QED
    BY <2>2, <2>3, <1>rest
<1>3. CASE CloudStep
  <2>1. GetAll(Site)' = GetAll(Site) /\ (alive' <=> alive)
    BY <1>3, CloudStepReads
  <2>2. UNCHANGED uiVars
    BY <1>3 DEF CloudStep
  <2> QED
    BY <2>1, <2>2, <1>same, <1>rest
<1>4. ASSUME NEW d \in Downloads, RestoreCompletes(d) PROVE SSInv'
  <2> USE <1>4 DEF RestoreCompletes, Refresh
  <2>1. held' = [held EXCEPT !.listed = FALSE] /\ stale' = Holding /\ screen' = screen
    OBVIOUS
  <2>2. held \in Model /\ (Holding <=> held # NoModel)
    BY <1>inv DEF ScreensTypeOK, Screens
  <2>3. held' \in Model /\ held'.id = held.id /\ held'.val = held.val /\ ~held'.listed
    BY <2>1, <2>2 DEF Model
  <2>4. Holding => held'.id # 0
    BY <2>3, <1>inv DEF HeldIsThere, Ids
  <2>5. ~Holding => held' = NoModel
    <3>1. /\ NoModel \in Model /\ NoModel.id = 0 /\ NoModel.val = NoRow
          /\ NoModel.listed = FALSE
      BY DEF Model, NoModel
    <3>2. ASSUME NEW m \in Model, m.id = 0, m.val = NoRow, m.listed = FALSE
          PROVE  m = NoModel
      BY <3>2 DEF Model, NoModel
    <3>3. ~Holding => held'.id = 0 /\ held'.val = NoRow /\ held'.listed = FALSE
      BY <2>2, <2>3, <3>1 DEF Model
    <3> QED
      BY <2>3, <3>2, <3>3
  <2>6. ScreensTypeOK'
    <3>1. Holding' <=> held' # NoModel
      BY <2>1, <2>4, <2>5 DEF Holding, NoModel
    <3>2. stale' \in BOOLEAN
      BY <2>1 DEF Holding
    <3> QED
      BY <2>1, <2>3, <3>1, <3>2, <1>reads, <1>inv DEF ScreensTypeOK, Screens
  <2>7. HeldIsThere'
    <3>1. Holding' <=> Holding
      BY <2>1 DEF Holding
    <3> QED
      BY <2>1, <2>3, <3>1, <1>inv DEF HeldIsThere
  <2>8. HeldIsStored'
    BY <2>1 DEF HeldIsStored, Holding
  <2>9. ListIsStored' /\ ListedIsThere'
    BY DEF ListIsStored, ListedIsThere
  <2>10. AtRest'
    <3>1. restoring = "written" /\ alive' = alive
      BY DEF DownReOpens, ReOpenDB
    <3>2. alive
      BY <3>1, <1>inv DEF IInv, ConnectionOnFile
    <3> QED
      BY <3>1, <3>2 DEF AtRest
  <2> QED
    BY <2>6, <2>7, <2>8, <2>9, <2>10, <1>rest
<1>5. ASSUME NEW i \in Ids, SelectRow(i) PROVE SSInv'
  <2> USE <1>5 DEF SelectRow
  <2>1. GetAll(Site)' = GetAll(Site)
    BY <1>db
  <2>2. held' = [id |-> i, val |-> list[i], listed |-> TRUE]
    OBVIOUS
  <2>3. list[i] \in Values
    BY <1>inv DEF ScreensTypeOK, Screens, Row
  <2>4. ScreensTypeOK'
    <3>1. held' \in Model /\ held' # NoModel
      BY <2>2, <2>3 DEF Model, NoModel, Ids
    <3> QED
      BY <3>1, <1>inv DEF ScreensTypeOK, Screens, Holding
  <2>5. ListIsStored' /\ ListedIsThere'
    BY <2>1, <1>inv DEF ListIsStored, ListedIsThere
  <2>6. HeldIsStored'
    BY <2>1, <2>2, <1>inv DEF HeldIsStored, ListIsStored
  <2>7. HeldIsThere'
    BY <2>1, <2>2, <2>3, <1>inv DEF HeldIsThere, ListedIsThere
  <2>8. AtRest'
    <3>1. alive' = alive /\ alive
      BY DEF Idle, cbVars, dmVars
    <3> QED
      BY <3>1 DEF AtRest
  <2> QED
    BY <2>4, <2>5, <2>6, <2>7, <2>8, <1>rest
<1>6. ASSUME PressedEdit \/ PressedDelete \/ PressedView \/ PressedShowPwd PROVE SSInv'
  <2> USE <1>6 DEF PressedEdit, PressedDelete, PressedView, PressedShowPwd
  <2>1. GetAll(Site)' = GetAll(Site) /\ (alive' <=> alive)
    BY <1>db
  <2>2. Holding /\ Holding' /\ screen' \in {"edit", "alert", "view", "password"}
    BY DEF Holding
  <2>3. ScreensTypeOK'
    BY <2>2, <1>inv DEF ScreensTypeOK, Screens
  <2>4. ListIsStored' /\ ListedIsThere'
    BY <2>1, <1>inv DEF ListIsStored, ListedIsThere
  <2>5. HeldIsStored'
    BY <2>1, <2>2, <1>inv DEF HeldIsStored
  <2>6. HeldIsThere'
    BY <2>1, <2>2, <1>inv DEF HeldIsThere
  <2>7. AtRest'
    BY <2>1, <2>2, <1>inv DEF AtRest
  <2> QED
    BY <2>3, <2>4, <2>5, <2>6, <2>7, <1>rest
<1>7. ASSUME Cancel \/ ConfirmDeleteFails PROVE SSInv'
  <2>1. Dismiss /\ UNCHANGED <<list, unsaved>> /\ UNCHANGED cbVars
    BY <1>7 DEF Cancel, ConfirmDeleteFails
  <2> QED
    BY <2>1, <1>db, <1>leave, <1>rest
<1>8. CASE AddSite
  <2> USE <1>8 DEF AddSite
  <2>1. GetAll(Site)' = GetAll(Site) /\ (alive' <=> alive)
    BY <1>db
  <2>2. ~Holding /\ ~Holding'
    BY DEF Holding
  <2>3. ScreensTypeOK'
    BY <2>2, <1>inv DEF ScreensTypeOK, Screens
  <2>4. ListIsStored' /\ ListedIsThere'
    BY <2>1, <1>inv DEF ListIsStored, ListedIsThere
  <2>5. HeldIsStored' /\ HeldIsThere' /\ AtRest'
    BY <2>2 DEF HeldIsStored, HeldIsThere, AtRest
  <2> QED
    BY <2>3, <2>4, <2>5, <1>rest
<1>9. ASSUME \/ ConfirmDelete
             \/ \E v \in Values : FinishInput(v) \/ FinishEdit(v)
      PROVE  SSInv'
  <2>1. Refresh /\ Dismiss
    BY <1>9 DEF ConfirmDelete, FinishInput, FinishEdit
  <2> QED
    BY <2>1, <1>back, <1>rest
<1>10. ASSUME NEW v \in Values, FinishEditFails(v) PROVE SSInv'
  <2> USE <1>10 DEF FinishEditFails
  <2>1. GetAll(Site)' = GetAll(Site) /\ (alive' <=> alive)
    BY <1>db
  <2>2. Holding /\ Holding' /\ screen' = screen /\ stale' = stale
    BY DEF Holding
  <2>3. held \in Model /\ held.id \in Ids /\ (held.listed <=> ~stale)
    BY <2>2, <1>inv DEF ScreensTypeOK, Screens, HeldIsThere
  <2>4. held' = [held EXCEPT !.val = v]
    OBVIOUS
  <2>5. /\ held' \in Model /\ held'.id = held.id /\ held'.val = v
        /\ held'.listed = held.listed /\ held'.id # 0
    BY <2>3, <2>4 DEF Model, Ids
  <2>6. list' \in Row /\ unsaved' \subseteq Ids
    BY <2>3, <1>inv DEF ScreensTypeOK, Screens, Row
  <2>7. ScreensTypeOK'
    BY <2>2, <2>5, <2>6, <1>inv DEF ScreensTypeOK, Screens, NoModel
  <2>8. \A i \in Ids : list'[i] = list[i] \/ (i = held.id /\ held.listed)
    BY <2>3, <1>inv DEF ScreensTypeOK, Screens, Row
  <2>9. unsaved \subseteq unsaved' /\ (held.listed => held.id \in unsaved')
    OBVIOUS
  <2>10. ListIsStored'
    BY <2>1, <2>8, <2>9, <1>inv DEF ListIsStored
  <2>11. ListedIsThere'
    BY <2>1, <2>2, <2>3, <2>8, <1>inv DEF ListedIsThere, HeldIsThere
  <2>12. HeldIsStored'
    BY <2>2, <2>3, <2>5, <2>9 DEF HeldIsStored
  <2>13. HeldIsThere'
    BY <2>1, <2>2, <2>3, <2>5, <1>inv DEF HeldIsThere
  <2>14. AtRest'
    BY <2>1, <2>2, <1>inv DEF AtRest
  <2> QED
    BY <2>7, <2>10, <2>11, <2>12, <2>13, <2>14, <1>rest
<1>11. CASE UNCHANGED ssVars
  <2>1. UNCHANGED uiVars /\ UNCHANGED cbVars
    BY <1>11 DEF ssVars
  <2> QED
    BY <2>1, <1>db, <1>same, <1>rest
<1> QED
  BY <1>1, <1>2, <1>3, <1>4, <1>5, <1>6, <1>7, <1>8, <1>9, <1>10, <1>11 DEF SSNext

-----------------------------------------------------------------------------
(* What the screens guarantee.                                             *)

\* The invariant holds for good.
THEOREM SSInvariant ==
  SSSpec => []SSInv
<1> QED
  BY SSInitially, SSPreserved, PTL DEF SSSpec

\* The screens use the cloud, and with it the store, as CloudBackup and
\* PPDataManager specify them.
THEOREM SitesUseCloud ==
  SSSpec => CBSpec
<1>1. SSInit => CBInit
  BY DEF SSInit
<1> QED
  BY <1>1, CloudPart, SSInvariant, PTL DEF SSSpec, CBSpec

\* Whatever is tapped, backed up and restored over the list of the sites, an
\* acknowledged change survives the process but in the middle of a restore
\* (PPDataManager.m:89-116): the refinement of the vault, for the screens.
THEOREM SitesKeepTheVault ==
  SSSpec => ImplementsVault
<1> QED
  BY SitesUseCloud, CloudUsesStore, StoreImplementsVault

\* Every value stays of its type; what was handed out is known while a sheet, an
\* alert or a form is open and only then.
THEOREM SSTypeCorrect ==
  SSSpec => []SSTypeOK
<1>1. SSInv => SSTypeOK
  BY DEF SSInv, CBInv, IInv, CloudTypeOK, CBTypeOK, ScreensTypeOK, SSTypeOK
<1> QED
  BY <1>1, SSInvariant, PTL

\* The list shows what is stored, save for edits that failed.
THEOREM ListShowsStore ==
  SSSpec => []ListIsStored
<1>1. SSInv => ListIsStored
  BY DEF SSInv
<1> QED
  BY <1>1, SSInvariant, PTL

\* A sheet, alert, view or form shows what is stored under its id, save for edits
\* that failed and restores that completed under it.
THEOREM HeldShowsStore ==
  SSSpec => []HeldIsStored
<1>1. SSInv => HeldIsStored
  BY DEF SSInv
<1> QED
  BY <1>1, SSInvariant, PTL

\* An acknowledged edit is stored, under the id of the record that was edited
\* and no other, unless a restore completed under its form.
THEOREM EditsAreStored ==
  SSSpec => AcknowledgedEditIsStored
<1>1. SSInv /\ [SSNext]_ssVars
      => [\A v \in Values :
            FinishEdit(v) /\ ~stale
            => GetAll(Site)' = [GetAll(Site) EXCEPT ![held.id] = v]]_ssVars
  <2> SUFFICES ASSUME SSInv, NEW v \in Values, FinishEdit(v), ~stale
               PROVE  GetAll(Site)' = [GetAll(Site) EXCEPT ![held.id] = v]
    OBVIOUS
  <2>1. held.id \in Ids /\ GetAll(Site)[held.id] # NoRow
    BY DEF SSInv, HeldIsThere, FinishEdit, Holding
  <2>2. UpdateRow(Site, held.id, v)
    BY DEF FinishEdit, UpdateWebsize, Site
  <2>3. IInv /\ Site \in Tables
    BY DEF SSInv, CBInv, Site, Tables
  <2> QED
    BY <2>1, <2>2, <2>3, UpdateIsRead
<1> QED
  BY <1>1, SSInvariant, PTL DEF SSSpec, AcknowledgedEditIsStored
=============================================================================

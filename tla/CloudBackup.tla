----------------------------- MODULE CloudBackup -----------------------------
(***************************************************************************)
(* Backing the database up to iCloud and restoring it: the two rows of     *)
(* SettingViewController.m that call the iCloudDocumentSync pod.           *)
(*                                                                         *)
(* The whole database file is one document in the user's iCloud container. *)
(* A tap captures the file and starts a save, or starts a retrieval; the   *)
(* answer comes back on the main thread some time later, after any number  *)
(* of other events.  Nothing disables the rows meanwhile, so several       *)
(* requests may be in flight, and the document may be written by another   *)
(* device of the same account.  A tap while iCloud is unavailable only     *)
(* shows an alert, and is no step here.                                    *)
(*                                                                         *)
(* The pod (Pods/iCloudDocumentSync/iCloud/iCloud.m) is modelled as these  *)
(* two methods use it: a save overwrites the document, a retrieval of a    *)
(* document that does not exist creates it empty and hands the empty data  *)
(* over as a success.  Both look for iCloud again after the row has, and   *)
(* return without calling the block when it is gone by then; a retrieval   *)
(* also swallows every exception raised while it is being started.  The    *)
(* request is then lost: nothing will ever answer the tap.                 *)
(***************************************************************************)
EXTENDS PPDataManager

CONSTANTS
    Uploads,      \* bound: the backups that may be in flight together
    Downloads,    \* bound: the restores that may be in flight together
    OtherImages   \* what another device of the account may back up

ASSUME OtherImagesAssumption ==
    OtherImages \subseteq {img \in Image : WellFormed(img)}

VARIABLES
    cloud,        \* the document: whether it exists and what it holds
    upload,       \* the backups in flight
    download,     \* the restores in flight
    config        \* whether AppConfig holds a time stamp of each kind

cloudVars == <<cloud, upload, download, config>>
cbVars == <<dmVars, cloudVars>>

Upload   == [st : {"none", "lost", "saving", "answer"}, data : Image, ok : BOOLEAN]
Download == [st : {"none", "lost", "opening", "creating", "answer", "restoring"},
             data : Image, ok : BOOLEAN]

NoRequest == [st |-> "none", data |-> Blank, ok |-> FALSE]

(***************************************************************************)
(* Backup.                                                                 *)
(***************************************************************************)

\* The data that is saved is the file as it is at the tap.
BackUpToiCloud(u) ==
    /\ Idle
    /\ upload[u].st = "none"
    /\ upload' = [upload EXCEPT ![u] = [st |-> "saving", data |-> GetDBFileData, ok |-> FALSE]]
    /\ UNCHANGED <<dmVars, cloud, download, config>>

\* iCloud is gone between the row's look and the pod's, with the file read in
\* between: the pod returns, and the block is never called.
SaveIsDropped(u) ==
    /\ Idle
    /\ upload[u].st = "none"
    /\ upload' = [upload EXCEPT ![u].st = "lost"]
    /\ UNCHANGED <<dmVars, cloud, download, config>>

\* The save overwrites the document; closing it afterwards may still fail,
\* and is then reported as an error.
SaveLands(u) ==
    /\ upload[u].st = "saving"
    /\ cloud' = [exists |-> TRUE, image |-> upload[u].data]
    /\ \E ok \in BOOLEAN : upload' = [upload EXCEPT ![u].st = "answer", ![u].ok = ok]
    /\ UNCHANGED <<dmVars, download, config>>

SaveFails(u) ==
    /\ upload[u].st = "saving"
    /\ upload' = [upload EXCEPT ![u].st = "answer"]
    /\ UNCHANGED <<dmVars, cloud, download, config>>

\* Mutant: the time is stamped before the error is looked at.
BackUpCompletion_StampsAlways(u) ==
    /\ Idle
    /\ upload[u].st = "answer"
    /\ upload' = [upload EXCEPT ![u] = NoRequest]
    /\ config' = [config EXCEPT !.lastUpload = TRUE]
    /\ UNCHANGED <<dmVars, cloud, download>>

\* The completion block: a time stamp and a message, or another message.
BackUpCompletion(u) ==
    /\ Idle
    /\ upload[u].st = "answer"
    /\ upload' = [upload EXCEPT ![u] = NoRequest]
    /\ config' = [config EXCEPT !.lastUpload = @ \/ upload[u].ok]
    /\ UNCHANGED <<dmVars, cloud, download>>

(***************************************************************************)
(* Restore.                                                                *)
(***************************************************************************)

\* The retrieval opens the document, or creates it when there is none yet.
DownFromiCloud(d) ==
    /\ Idle
    /\ download[d].st = "none"
    /\ download' = [download EXCEPT ![d].st = IF cloud.exists THEN "opening" ELSE "creating"]
    /\ UNCHANGED <<dmVars, cloud, upload, config>>

\* iCloud is gone at the pod's own look, or an exception is raised before the
\* document is being opened or created, and swallowed: nobody is told.
RetrievalIsDropped(d) ==
    /\ Idle
    /\ download[d].st = "none"
    /\ download' = [download EXCEPT ![d].st = "lost"]
    /\ UNCHANGED <<dmVars, cloud, upload, config>>

\* The completion blocks of the opening put the answer on the main queue,
\* with the data or with an error.
OpenAnswers(d) ==
    /\ download[d].st = "opening"
    /\ \/ download' = [download EXCEPT ![d] = [st |-> "answer", data |-> cloud.image, ok |-> TRUE]]
       \/ download' = [download EXCEPT ![d].st = "answer"]
    /\ UNCHANGED <<dmVars, cloud, upload, config>>

\* The empty document is saved, or not: the answer is the same.
CreateAnswers(d) ==
    /\ download[d].st = "creating"
    /\ cloud' \in {cloud, [exists |-> TRUE, image |-> Blank]}
    /\ download' = [download EXCEPT ![d] = [st |-> "answer", data |-> Blank, ok |-> TRUE]]
    /\ UNCHANGED <<dmVars, upload, config>>

\* Mutant: only an error of the removal ends the request.
DownGivesUp_OnRemovalOnly(d) ==
    /\ Idle
    /\ download[d].st = "answer"
    /\ download[d].ok
    /\ download' = [download EXCEPT ![d] = NoRequest]
    /\ UNCHANGED <<dmVars, cloud, upload, config>>

\* The completion block gives up on an error, of the retrieval or of the
\* removal of the file.
DownGivesUp(d) ==
    /\ Idle
    /\ download[d].st = "answer"
    /\ download' = [download EXCEPT ![d] = NoRequest]
    /\ UNCHANGED <<dmVars, cloud, upload, config>>

\* Otherwise it goes through retrieveToDBWithData ...
DownRemoves(d) ==
    /\ download[d].st = "answer"
    /\ download[d].ok
    /\ RetrieveRemove
    /\ download' = [download EXCEPT ![d].st = "restoring"]
    /\ UNCHANGED <<cloud, upload, config>>

DownWrites(d) ==
    /\ download[d].st = "restoring"
    /\ RetrieveWrite(download[d].data)
    /\ UNCHANGED cloudVars

DownWriteFails(d) ==
    /\ download[d].st = "restoring"
    /\ RetrieveWriteFails
    /\ download' = [download EXCEPT ![d] = NoRequest]
    /\ UNCHANGED <<cloud, upload, config>>

\* ... and reOpenDB, and then stamps the time.
DownReOpens(d) ==
    /\ download[d].st = "restoring"
    /\ ReOpenDB
    /\ download' = [download EXCEPT ![d] = NoRequest]
    /\ config' = [config EXCEPT !.lastDownload = TRUE]
    /\ UNCHANGED <<cloud, upload>>

\* The requests in flight end with the process.
CloudKill ==
    /\ Kill
    /\ upload' = [u \in Uploads |-> NoRequest]
    /\ download' = [d \in Downloads |-> NoRequest]
    /\ UNCHANGED <<cloud, config>>

\* Another device of the account backs its own records up.
OtherDeviceSaves ==
    /\ \E img \in OtherImages : cloud' = [exists |-> TRUE, image |-> img]
    /\ UNCHANGED <<dmVars, upload, download, config>>

-----------------------------------------------------------------------------
CloudInit ==
    /\ cloud = [exists |-> FALSE, image |-> Blank]
    /\ upload = [u \in Uploads |-> NoRequest]
    /\ download = [d \in Downloads |-> NoRequest]
    /\ config = [lastUpload |-> FALSE, lastDownload |-> FALSE]

CBInit == Init /\ CloudInit

\* What the system and the main thread do once a request is in flight.
UploadStep(u)   == SaveLands(u) \/ SaveFails(u) \/ BackUpCompletion(u)
DownloadStep(d) == \/ OpenAnswers(d) \/ CreateAnswers(d) \/ DownGivesUp(d)
                   \/ DownRemoves(d) \/ DownWrites(d) \/ DownWriteFails(d)
                   \/ DownReOpens(d)

CBNext ==
    \/ (Launch \/ Statement) /\ UNCHANGED cloudVars
    \/ CloudKill
    \/ OtherDeviceSaves
    \/ \E u \in Uploads : BackUpToiCloud(u) \/ SaveIsDropped(u) \/ UploadStep(u)
    \/ \E d \in Downloads : DownFromiCloud(d) \/ RetrievalIsDropped(d) \/ DownloadStep(d)

CBSpec == CBInit /\ [][CBNext]_cbVars

\* The system answers every document operation that was started, and the main
\* queue is first in, first out: a block queued on it runs, however many other
\* events the thread handles first, hence strong fairness.  Neither the user
\* nor other devices owe a step, and a request that was lost has none to make.
CBFairness ==
    /\ \A u \in Uploads : SF_cbVars(UploadStep(u))
    /\ \A d \in Downloads : SF_cbVars(DownloadStep(d))

CBFairSpec == CBSpec /\ CBFairness

-----------------------------------------------------------------------------
(***************************************************************************)
(* Properties.                                                             *)
(***************************************************************************)

CBTypeOK ==
    /\ TypeOK
    /\ cloud \in [exists : BOOLEAN, image : Image]
    /\ upload \in [Uploads -> Upload]
    /\ download \in [Downloads -> Download]
    /\ config \in [lastUpload : BOOLEAN, lastDownload : BOOLEAN]

\* One restore at a time goes through the file, and it is the one whose
\* completion block is running (SettingViewController.m:433-457): two answers
\* that arrive together do not mix their data in the file.
OneRestoreOnTheFile ==
    /\ restoring # "no" <=> \E d \in Downloads : download[d].st = "restoring"
    /\ \A d, e \in Downloads :
          download[d].st = "restoring" /\ download[e].st = "restoring" => d = e
    /\ restoring = "written" =>
          \A d \in Downloads : download[d].st = "restoring" => file = download[d].data

\* A backup is a copy of the records the program shows at the tap, unless the
\* file could not be opened, or a restore failed after it had removed the
\* file: then there is no file, and the backup is of nothing while the program
\* still shows its records (SettingViewController.m:400, PPDataManager.m:89-103).
BackupIsWhatIsShown ==
    [][\A u \in Uploads :
          upload[u].st = "none" /\ upload'[u].st = "saving"
          => \/ upload'[u].data.rows = [t \in Tables |-> GetAll(t)]
             \/ conn = "closed"
             \/ conn = "orphaned" /\ ~fileExists]_cbVars

\* A backup that was reported as made is in the cloud, whatever is in flight:
\* no answer of the code removes the document (SettingViewController.m:402-415).
ReportedBackupExists == config.lastUpload => cloud.exists

\* Whoever waits, waits for somebody who can go on: a request that was started
\* has a step of its own to make, or its answer waits for the restore that has
\* the main thread, which has one.  No failure of the document, of the removal
\* or of the write leaves a request behind (SettingViewController.m:402-457).
EveryRequestGoesOn ==
    LET restoreGoesOn ==
          \E e \in Downloads : download[e].st = "restoring" /\ ENABLED DownloadStep(e)
    IN  /\ \A u \in Uploads : upload[u].st \notin {"none", "lost"}
                             => ENABLED UploadStep(u) \/ restoreGoesOn
        /\ \A d \in Downloads : download[d].st \notin {"none", "lost"}
                               => ENABLED DownloadStep(d) \/ restoreGoesOn

\* "The completion handler is called when the file is opened or created
\* (either successfully or not)" (iCloud.h:226), and every way through the
\* block ends the request: a retrieval asked for does not stay open for ever.
EveryRetrievalIsAnswered ==
    \A d \in Downloads : download[d].st # "none" ~> download[d].st = "none"
=============================================================================

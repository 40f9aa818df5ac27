------------------------------ MODULE UploadJobs ------------------------------
(***************************************************************************)
(* The background jobs for media: the files of a direct message (queue     *)
(* dm-uploads) and the video of a post (queue transcode), job.service.ts   *)
(* and job.processor.ts, over one message and one post.                    *)
(*                                                                         *)
(* A job loads its document once and saves it several times.  A save       *)
(* writes the paths that were changed since; one that replaces an array    *)
(* asks for the version it was loaded at, and throws when another save has *)
(* replaced the array meanwhile.  Bull runs a job that threw again, three  *)
(* times in all, and one whose process died as well.                       *)
(***************************************************************************)
EXTENDS Integers, Sequences, FiniteSets, SequencesExt

CONSTANTS
  Files,      \* the files of the message, each with a job of its own
  Attempts,   \* attempts of both queues
  MaxDeaths   \* bound: how often the processes die

ASSUME FilesAssumption == IsFiniteSet(Files)
ASSUME AttemptsAssumption == Attempts \in Nat \ {0} /\ MaxDeaths \in Nat

VARIABLES
  message,   \* the Message document
  upload,    \* the jobs of dm-uploads
  video,     \* the Token document
  transcode, \* the job of the queue transcode
  tempFile,  \* the file that holds the uploaded video exists
  deaths     \* bound counter

dmVars == <<message, upload>>
videoVars == <<video, transcode, tempFile>>
jobVars == <<dmVars, videoVars, deaths>>

UploadStatus == {"none", "pending", "success", "failure"}

\* tries: the failed ones.  status, urls and version: the document as the job
\* has it in hand.  stale: its save has hit another version.
Upload == [pc : {"none", "wait", "mark", "upload", "save", "tell", "fail", "done", "dead"},
           tries : 0 .. Attempts, status : UploadStatus, urls : Seq(Files), version : Nat,
           stale : BOOLEAN]

NoUpload == [pc |-> "none", tries |-> 0, status |-> "none", urls |-> <<>>, version |-> 0,
             stale |-> FALSE]

JobTypeOK ==
  /\ message \in [status : UploadStatus, urls : Seq(Files), version : Nat]
  /\ upload \in [Files -> Upload]
  /\ \A f \in Files : upload[f].version <= message.version
  /\ video \in [status : {"none", "on", "done", "failed"}, uploaded : BOOLEAN]
  /\ transcode \in
       [pc : {"none", "queue", "wait", "read", "upload", "save", "finish", "fail", "done", "dead"},
        tries : 0 .. Attempts]
  /\ tempFile \in BOOLEAN
  /\ deaths \in 0 .. MaxDeaths

JobInit ==
  /\ message = [status |-> "none", urls |-> <<>>, version |-> 0]
  /\ upload = [f \in Files |-> NoUpload]
  /\ video = [status |-> "none", uploaded |-> FALSE]
  /\ transcode = [pc |-> "none", tries |-> 0]
  /\ tempFile = FALSE
  /\ deaths = 0

-----------------------------------------------------------------------------

UploadAt(f, pc) == upload[f].pc = pc

UploadGoto(f, pc) == upload' = [upload EXCEPT ![f].pc = pc]

\* uploadDm: the message is created, then the files of a known type are queued
\* at once; when there is none, or the queue does not answer, the message stays.
CreateMessage ==
  /\ message.status = "none"
  /\ message' = [message EXCEPT !.status = "pending"]
  /\ UNCHANGED <<upload, videoVars, deaths>>

BulkAdd(S) ==
  /\ message.status = "pending" /\ \A f \in Files : UploadAt(f, "none")
  /\ S # {}
  /\ upload' = [f \in Files |-> IF f \in S THEN [NoUpload EXCEPT !.pc = "wait"] ELSE NoUpload]
  /\ UNCHANGED <<message, videoVars, deaths>>

TakeUpload(f) ==
  /\ UploadAt(f, "wait")
  /\ upload' = [upload EXCEPT ![f] = [pc |-> "mark", tries |-> @.tries, stale |-> FALSE,
                  status |-> message.status, urls |-> message.urls, version |-> message.version]]
  /\ UNCHANGED <<message, videoVars, deaths>>

\* A status that was 'pending' already is no change, and nothing is written.
MarkPending(f) ==
  /\ UploadAt(f, "mark")
  /\ message' = IF upload[f].status = "pending" THEN message
                ELSE [message EXCEPT !.status = "pending"]
  /\ UploadGoto(f, "upload")
  /\ UNCHANGED <<videoVars, deaths>>

UploadMedia(f) ==
  /\ UploadAt(f, "upload")
  /\ \E pc \in {"save", "fail"} : UploadGoto(f, pc)
  /\ UNCHANGED <<message, videoVars, deaths>>

\* Slip: the array is replaced whatever its version.
SaveMediaUnversioned(f) ==
  LET me == upload[f] IN
  /\ UploadAt(f, "save")
  /\ message' = [status |-> "success", urls |-> Append(me.urls, f), version |-> message.version + 1]
  /\ upload' = [upload EXCEPT ![f].pc = "tell", ![f].version = message.version + 1]
  /\ UNCHANGED <<videoVars, deaths>>

\* The last save is the one that asks for the version.
SaveMedia(f) ==
  LET me == upload[f] IN
  /\ UploadAt(f, "save")
  /\ IF me.version = message.version
       THEN /\ message' = [status |-> "success", urls |-> Append(me.urls, f),
                           version |-> me.version + 1]
            /\ upload' = [upload EXCEPT ![f].pc = "tell", ![f].version = me.version + 1]
       ELSE /\ upload' = [upload EXCEPT ![f].pc = "fail", ![f].stale = TRUE]
            /\ UNCHANGED message
  /\ UNCHANGED <<videoVars, deaths>>

\* The sockets are told; what goes wrong there fails the job as well.
TellProgress(f) ==
  /\ UploadAt(f, "tell")
  /\ \E pc \in {"done", "fail"} : UploadGoto(f, pc)
  /\ UNCHANGED <<message, videoVars, deaths>>

Retried(tries) == IF tries + 1 < Attempts THEN "wait" ELSE "dead"

\* The catch saves 'failure'; after a conflict its save carries the array
\* again and throws once more.  The save may fail on its own, too.
SaveFailure(f) ==
  /\ UploadAt(f, "fail")
  /\ \/ ~upload[f].stale /\ message' = [message EXCEPT !.status = "failure"]
     \/ UNCHANGED message
  /\ upload' = [upload EXCEPT ![f].pc = Retried(upload[f].tries), ![f].tries = @ + 1]
  /\ UNCHANGED <<videoVars, deaths>>

-----------------------------------------------------------------------------

TranscodeAt(pc) == transcode.pc = pc

TranscodeGoto(pc) == transcode' = [transcode EXCEPT !.pc = pc]

\* addUploadAndTranscodeJob: the file first, then the job; a mint that dies
\* between the two leaves the file.
WriteTempFile ==
  /\ TranscodeAt("none") /\ ~tempFile
  /\ tempFile' = TRUE
  /\ \E pc \in {"queue", "none"} : TranscodeGoto(pc)
  /\ UNCHANGED <<dmVars, video, deaths>>

AddJob ==
  /\ TranscodeAt("queue")
  /\ TranscodeGoto("wait")
  /\ UNCHANGED <<dmVars, video, tempFile, deaths>>

TakeVideo ==
  /\ TranscodeAt("wait")
  /\ TranscodeGoto("read")
  /\ video' = [video EXCEPT !.status = "on"]
  /\ UNCHANGED <<dmVars, tempFile, deaths>>

ReadTempFile ==
  /\ TranscodeAt("read")
  /\ TranscodeGoto(IF tempFile THEN "upload" ELSE "fail")
  /\ UNCHANGED <<dmVars, video, tempFile, deaths>>

TranscodeAndUpload ==
  /\ TranscodeAt("upload")
  /\ \E pc \in {"save", "fail"} : TranscodeGoto(pc)
  /\ UNCHANGED <<dmVars, video, tempFile, deaths>>

\* fs.unlink is not awaited and its error dropped.
Unlink == tempFile' \in {FALSE, tempFile}

\* Slip: the removal of the file is awaited.
SaveVideoUnlinking ==
  /\ TranscodeAt("save")
  /\ video' = [status |-> "done", uploaded |-> TRUE]
  /\ \E pc \in {"finish", "fail"} : TranscodeGoto(pc)
  /\ Unlink
  /\ UNCHANGED <<dmVars, deaths>>

SaveVideo ==
  /\ TranscodeAt("save")
  /\ \/ /\ video' = [status |-> "done", uploaded |-> TRUE]
        /\ TranscodeGoto("finish")
        /\ Unlink
     \/ TranscodeGoto("fail") /\ UNCHANGED <<video, tempFile>>
  /\ UNCHANGED <<dmVars, deaths>>

FinishVideo ==
  /\ TranscodeAt("finish")
  /\ TranscodeGoto("done")
  /\ UNCHANGED <<dmVars, video, tempFile, deaths>>

\* The catch: the status, the file, and the error again for Bull.
FailVideo ==
  /\ TranscodeAt("fail")
  /\ \/ video' = [video EXCEPT !.status = "failed"]
     \/ UNCHANGED video
  /\ transcode' = [pc |-> Retried(transcode.tries), tries |-> transcode.tries + 1]
  /\ Unlink
  /\ UNCHANGED <<dmVars, deaths>>

Active(pc) == pc \notin {"none", "queue", "wait", "done", "dead"}

\* The processes die: stalled jobs run again, or fail for good when they have
\* stalled before (maxStalledCount).
ProcessesDie ==
  /\ deaths < MaxDeaths
  /\ deaths' = deaths + 1
  /\ \E again \in IF deaths = 0 THEN {"wait"} ELSE {"wait", "dead"} :
       /\ upload' = [f \in Files |-> IF Active(upload[f].pc) THEN [upload[f] EXCEPT !.pc = again]
                                     ELSE upload[f]]
       /\ transcode' = IF Active(transcode.pc) THEN [transcode EXCEPT !.pc = again] ELSE transcode
  /\ UNCHANGED <<message, video, tempFile>>

DmNext ==
  \/ CreateMessage
  \/ \E S \in SUBSET Files : BulkAdd(S)
  \/ \E f \in Files :
       \/ TakeUpload(f)
       \/ MarkPending(f)
       \/ UploadMedia(f)
       \/ SaveMedia(f)
       \/ TellProgress(f)
       \/ SaveFailure(f)

VideoNext ==
  \/ WriteTempFile
  \/ AddJob
  \/ TakeVideo
  \/ ReadTempFile
  \/ TranscodeAndUpload
  \/ SaveVideo
  \/ FinishVideo
  \/ FailVideo

JobNext == DmNext \/ VideoNext \/ ProcessesDie

JobSpec == JobInit /\ [][JobNext]_jobVars

-----------------------------------------------------------------------------

(***************************************************************************)
(* A file whose job has ended well is listed by the message, however the   *)
(* jobs of its other files were interleaved and retried, and it is listed  *)
(* more than once only as often as its job failed or its process died.     *)
(***************************************************************************)
UploadsKept ==
  \A f \in Files :
    LET copies == Cardinality({i \in DOMAIN message.urls : message.urls[i] = f}) IN
    /\ UploadAt(f, "done") => copies > 0
    /\ copies <= upload[f].tries + deaths + 1

(***************************************************************************)
(* A video that is 'done' stays so, unless the process of its job dies:    *)
(* then the job runs again without its file and turns it to 'failed'.      *)
(***************************************************************************)
DoneStays == [][video.status = "done" /\ deaths' = 0 => video.status' = "done"]_jobVars
=============================================================================

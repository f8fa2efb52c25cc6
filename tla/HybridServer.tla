---------------------------- MODULE HybridServer ----------------------------
(***************************************************************************)
(* The handlers of UploadServer over S3HybridDataStorage: an upload is     *)
(* kept in a local file, `data`, until it is complete, and in an S3 object *)
(* from then on.  The handlers are the same; the calls of the data storage *)
(* take more steps here, since add_bytes and concat_files await S3 between *)
(* their own steps.  The info storage is the file info storage, and the    *)
(* parts of a final upload are all different.                              *)
(*                                                                         *)
(* S3: GET of an object that does not exist is an error, DELETE of one is  *)
(* not; PUT makes the whole object visible at once.                        *)
(***************************************************************************)
EXTENDS UploadServer

CONSTANTS Absent, Terminated    \* see TusUpload

VARIABLE object    \* object[i]: the bytes of the S3 object of i, or None

(* mutants of Completes: the offset before the chunk; after every chunk *)
ForgetsTheChunk(r) == file[r].offset = file[r].length
CompletesEarly(r) == TRUE
(* After this chunk the upload is complete. *)
Completes(r) == file[r].offset + Len(body[r]) = file[r].length

(* add_bytes: the local storage appends ... *)
AddLocally(r) ==
  /\ pc[r] = "write"
  /\ IF data[file[r].id] # None
     THEN /\ data' = [data EXCEPT ![file[r].id] = Appended(@, body[r])]
          /\ IF Completes(r)
             THEN GoTo(r, "open") /\ UNCHANGED <<file, body>>
             ELSE /\ file' = [file EXCEPT ![r].offset = @ + Len(body[r])]
                  /\ body' = [body EXCEPT ![r] = <<>>]
                  /\ GoTo(r, "save")
          /\ UNCHANGED resp
     ELSE Answer(r, "error") /\ UNCHANGED <<data, file, body>>
  /\ UNCHANGED <<info, used, partsInfo, cursor, gone, telemetry, object>>

(* ... and when the upload is complete upload_file opens the file, ... *)
OpenLocal(r) ==
  /\ pc[r] = "open"
  /\ IF data[file[r].id] # None
     THEN body' = [body EXCEPT ![r] = data[file[r].id]] /\ GoTo(r, "put") /\ UNCHANGED resp
     ELSE Answer(r, "error") /\ UNCHANGED body
  /\ UNCHANGED <<stores, used, file, partsInfo, cursor, gone, telemetry, object>>

(* ... streams it to S3, with what others append before its end is reached; what   *)
(* was streamed counts, also when the file is removed or grows before S3 is done, ... *)
StreamMore(r) ==
  /\ pc[r] = "put" /\ ~gone[r]
  /\ data[file[r].id] # None
  /\ body' = [body EXCEPT ![r] = data[file[r].id]]
  /\ UNCHANGED <<stores, used, pc, file, partsInfo, cursor, gone, resp, telemetry, object>>

PutObject(r) ==
  /\ pc[r] = "put"
  /\ object' = [object EXCEPT ![file[r].id] = body[r]]
  /\ GoTo(r, "dropLocal")
  /\ UNCHANGED <<stores, used, file, body, partsInfo, cursor, gone, resp, telemetry>>

(* ... and the local storage removes it.  The handler goes on with set_info. *)
DropLocal(r) ==
  /\ pc[r] = "dropLocal"
  /\ IF data[file[r].id] # None
     THEN /\ data' = [data EXCEPT ![file[r].id] = None]
          /\ file' = [file EXCEPT ![r].offset = file[r].length]
          /\ body' = [body EXCEPT ![r] = <<>>]
          /\ GoTo(r, "save")
          /\ UNCHANGED resp
     ELSE Answer(r, "error") /\ UNCHANGED <<data, file, body>>
  /\ UNCHANGED <<info, used, partsInfo, cursor, gone, telemetry, object>>
-----------------------------------------------------------------------------
(* concat_files downloads the object of each part into a temporary file, body[r], ... *)
DownloadPart(r) ==
  /\ pc[r] = "copyPart"
  /\ IF object[Part(r)] # None
     THEN /\ body' = [body EXCEPT ![r] = @ \o object[Part(r)]]
          /\ file' = [file EXCEPT ![r] = Joined(r)]
          /\ Advance(r)
          /\ GoTo(r, IF LastPart(r) THEN "putJoined" ELSE "copyPart")
          /\ UNCHANGED resp
     ELSE Answer(r, "error") /\ UNCHANGED <<file, body, cursor>>
  /\ UNCHANGED <<stores, used, partsInfo, gone, telemetry, object>>

(* ... and puts it; the empty local file that create_file made stays. *)
PutJoined(r) ==
  /\ pc[r] = "putJoined"
  /\ object' = [object EXCEPT ![file[r].id] = body[r]]
  /\ body' = [body EXCEPT ![r] = <<>>]
  /\ GoTo(r, IF RemoveParts THEN "dropFile" ELSE "save")
  /\ UNCHANGED <<stores, used, file, partsInfo, cursor, gone, resp, telemetry>>

(* remove_file of a part, which is complete: the object is deleted. *)
DropObject(r) ==
  /\ pc[r] = "dropFile"
  /\ object' = [object EXCEPT ![Part(r)] = None]
  /\ GoTo(r, "dropInfo")
  /\ UNCHANGED <<stores, used, file, body, partsInfo, cursor, gone, resp, telemetry>>

(* remove_file of terminate: the offset and length that terminate read decide *)
(* whether the object or the local file is removed.                           *)
RemoveStored(r) ==
  /\ pc[r] = "removeFile"
  /\ IF Finished(file[r])
     THEN object' = [object EXCEPT ![file[r].id] = None] /\ UNCHANGED data
     ELSE data' = [data EXCEPT ![file[r].id] = None] /\ UNCHANGED object
  /\ IF Finished(file[r]) \/ data[file[r].id] # None
     THEN /\ Answer(r, "ok")
          /\ IF gone[r] THEN UNCHANGED <<metrics, hooks>>
                        ELSE Count("terminated", 1) /\ Spawn("post-terminate", r)
     ELSE Answer(r, "error") /\ UNCHANGED <<metrics, hooks>>
  /\ UNCHANGED <<info, used, file, body, partsInfo, cursor, gone, delivered>>

(* get_contents: the object of a complete upload.  Of an incomplete one the local  *)
(* storage opens file_info.path, which is the key of the S3 object (create_file)   *)
(* and no path of a local file.                                                    *)
ReadStored(r) ==
  /\ pc[r] = "read"
  /\ IF Finished(file[r]) /\ object[file[r].id] # None
     THEN Answer(r, "ok") /\ body' = [body EXCEPT ![r] = object[file[r].id]]
     ELSE Answer(r, "error") /\ UNCHANGED body
  /\ UNCHANGED <<stores, used, file, partsInfo, cursor, gone, telemetry, object>>
-----------------------------------------------------------------------------
(* A call fails: S3 may have executed it, a local write may have written a part. *)
StorageFault(r) ==
  /\ "fault" \in Env
  /\ InFlight(r)
  /\ Answer(r, "error")
  /\ \/ UNCHANGED <<stores, object>>
     \/ pc[r] = "write" /\ data[file[r].id] # None
        /\ PartlyAppended(file[r].id, body[r]) /\ UNCHANGED <<info, object>>
     \/ pc[r] = "saving" /\ HalfWritten(file[r].id) /\ UNCHANGED <<data, object>>
     \/ pc[r] \in {"put", "putJoined"}
        /\ object' = [object EXCEPT ![file[r].id] = body[r]] /\ UNCHANGED stores
     \/ pc[r] = "dropFile" /\ object' = [object EXCEPT ![Part(r)] = None] /\ UNCHANGED stores
     \/ pc[r] = "removeFile" /\ Finished(file[r])
        /\ object' = [object EXCEPT ![file[r].id] = None] /\ UNCHANGED stores
  /\ UNCHANGED <<used, file, body, partsInfo, cursor, gone, telemetry>>

HybridInit == Init /\ object = [i \in Id |-> None]

(* The steps of the handlers that do not call the data storage, or its local part only. *)
SameStep(r) ==
  \/ pc[r] = "idle" /\ Arrive(r)
  \/ CreateFile(r)
  \/ ReadPart(r)
  \/ DropInfo(r)
  \/ OpenInfo(r)
  \/ WriteInfo(r)
  \/ RemoveInfo(r)
  \/ HookRefused(r)
  \/ Disconnect(r)

StorageStep(r) ==
  \/ AddLocally(r)
  \/ OpenLocal(r)
  \/ StreamMore(r)
  \/ PutObject(r)
  \/ DropLocal(r)
  \/ DownloadPart(r)
  \/ PutJoined(r)
  \/ DropObject(r)
  \/ RemoveStored(r)
  \/ ReadStored(r)
  \/ StorageFault(r)

HybridNext ==
  \/ \E r \in Req : StorageStep(r) \/ (SameStep(r) /\ UNCHANGED object)
  \/ (\E h \in hooks : Send(h) \/ SendFails(h)) /\ UNCHANGED object
  \/ Crash /\ UNCHANGED object
  \/ Quiet /\ UNCHANGED object

HybridSpec == HybridInit /\ [][HybridNext]_<<vars, object>>
-----------------------------------------------------------------------------
(* The variables have their types. *)
HybridTypeOK == TypeOK /\ object \in [Id -> Seq(Nat) \cup {None}]

(* Env = {}.  While nobody is modifying an upload its bytes, all of them and   *)
(* in order, are in exactly one place: in the object if the upload is complete *)
(* and in the local file if not.  (An empty upload never leaves the local      *)
(* file: only add_bytes uploads.)                                              *)
HybridStored ==
  \A i \in Id :
    Visible(i) /\ ~info[i].final /\ (\A r \in Req : InFlight(r) /\ Modifying(r) => file[r].id # i)
      => LET bytes == Bytes(0, info[i].offset)
         IN IF Finished(info[i]) /\ info[i].length # 0
            THEN object[i] = bytes /\ data[i] = None
            ELSE data[i] = bytes /\ object[i] = None

(* Any Env, lengths not deferred, file info storage.  The upload to S3 comes   *)
(* before set_info: an upload whose info says that it is complete has an       *)
(* object with at least its length, whatever races, fails or is restarted      *)
(* between the two, unless a final upload has taken it as a part to remove.    *)
(* (Of two PATCHes that set different deferred lengths the one with the lower  *)
(* may put its shorter object last.)                                           *)
CompleteHasObject ==
  \A i \in Id : Visible(i) /\ Finished(info[i]) /\ info[i].length # 0 =>
    \/ object[i] # None /\ Len(object[i]) >= info[i].length
    \/ RemoveParts /\ \E r \in Req : file[r] # None /\ i \in PartIds(file[r])

(* An upload as in UploadRefinement; its content moves from the file to the object. *)
HybridUpload(i) ==
  IF Recorded(i) # None
  THEN [offset |-> Recorded(i).offset, length |-> Recorded(i).length,
        content |-> SubSeq(IF data[i] # None THEN data[i] ELSE object[i], 1, Recorded(i).offset)]
  ELSE IF \E r \in Req : Method[r] = "DELETE" /\ file[r] # None /\ file[r].id = i
  THEN Terminated ELSE Absent

HybridTus == INSTANCE TusUpload WITH
  Id <- Id \ Foreign, Sizes <- Chunks \cup {0}, NoLength <- None,
  uploads <- [i \in Id \ Foreign |-> HybridUpload(i)]

(* Env = {}, no concatenation.  The handlers over the hybrid storage do what   *)
(* TusUpload does: moving the bytes to S3 in the middle of the last PATCH is   *)
(* not visible to clients.                                                     *)
HybridImplementsTusUpload == HybridTus!Spec
=============================================================================

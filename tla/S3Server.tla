------------------------------ MODULE S3Server ------------------------------
(***************************************************************************)
(* The handlers of UploadServer over S3DataStorage: an upload is an S3     *)
(* multipart upload until it is complete, and an object from then on.      *)
(* Every chunk is one part of the multipart upload.  Which parts there are *)
(* is remembered in the info only, in file_info.metadata: None if the key  *)
(* "_s3_upload_id" is missing, else the etags under "_s3_parts".  `data`   *)
(* is not used.  The info storage is Redis, and the parts of a final       *)
(* upload are all different.                                               *)
(*                                                                         *)
(* Clients are assumed to leave the two keys to the storage: metadata      *)
(* begins as their Upload-Metadata, and create_file sets the first key     *)
(* only, so that an upload created with a "_s3_parts" of the client's has  *)
(* a list of parts that S3 does not have.                                  *)
(*                                                                         *)
(* S3, as s3_storage.rs uses it: parts are numbered from 1, and a number   *)
(* that is put again is replaced; the etag identifies the content of a     *)
(* part and is modelled by the content; complete_multipart_upload fails if *)
(* a listed part has another etag, and closes the multipart upload.        *)
(***************************************************************************)
EXTENDS HybridServer, SequencesExt

ASSUME PartsAssumption == None \notin Seq(Seq(Nat))    \* nor is a list of parts None

VARIABLE multipart    \* multipart[i]: the parts of the open multipart upload of i, or None

(* create_file: initiate_multipart_upload, and its id is put into the metadata, *)
(* which has no list of parts, since the client's Upload-Metadata has none.     *)
Initiate(r) ==
  /\ pc[r] = "create"
  /\ multipart' = [multipart EXCEPT ![file[r].id] = <<>>]
  /\ file' = [file EXCEPT ![r].metadata = <<>>]
  /\ metrics' = IF gone[r] THEN metrics
                ELSE [metrics EXCEPT !.active = @ + 1, !.started = @ + 1]
  /\ GoTo(r, IF file[r].final THEN "readPart" ELSE IF body[r] # <<>> THEN "write" ELSE "save")
  /\ UNCHANGED <<stores, used, body, partsInfo, cursor, gone, resp, hooks, delivered, object>>

(* The number of the part that add_bytes puts; mutant: parts.len(), from 1 up. *)
LastNumber(f) == IF Len(f.metadata) = 0 THEN 1 ELSE Len(f.metadata)
NextNumber(f) == Len(f.metadata) + 1

(* put_multipart_chunk: part n is added or replaced. *)
WithPart(parts, n, bytes) ==
  [k \in 1..(IF n > Len(parts) THEN n ELSE Len(parts)) |-> IF k = n THEN bytes ELSE parts[k]]

PartPut(r) ==
  LET i == file[r].id
  IN multipart' = [multipart EXCEPT ![i] = WithPart(@, NextNumber(file[r]), body[r])]

(* add_bytes puts the chunk as the part after the ones the info lists ... *)
PutPart(r) ==
  /\ pc[r] = "write"
  /\ IF file[r].metadata # None /\ multipart[file[r].id] # None
     THEN /\ PartPut(r)
          /\ file' = [file EXCEPT ![r].metadata = Append(@, body[r]),
                                  ![r].offset = IF Completes(r) THEN @ ELSE @ + Len(body[r])]
          /\ body' = [body EXCEPT ![r] = IF Completes(r) THEN @ ELSE <<>>]
          /\ GoTo(r, IF Completes(r) THEN "complete" ELSE "save")
          /\ UNCHANGED resp
     ELSE Answer(r, "error") /\ UNCHANGED <<file, body, multipart>>
  /\ UNCHANGED <<stores, used, partsInfo, cursor, gone, telemetry, object>>

(* All listed parts are there, with the etags of the list. *)
Completable(i, etags) ==
  /\ multipart[i] # None
  /\ Len(etags) <= Len(multipart[i])
  /\ \A k \in DOMAIN etags : multipart[i][k] = etags[k]

Assembled(r) ==
  /\ object' = [object EXCEPT ![file[r].id] = FlattenSeq(file[r].metadata)]
  /\ multipart' = [multipart EXCEPT ![file[r].id] = None]

(* ... and, when the upload is complete, completes the multipart upload and forgets it. *)
CompleteUpload(r) ==
  /\ pc[r] = "complete"
  /\ IF Completable(file[r].id, file[r].metadata)
     THEN /\ Assembled(r)
          /\ file' = [file EXCEPT ![r].metadata = None, ![r].offset = @ + Len(body[r])]
          /\ body' = [body EXCEPT ![r] = <<>>]
          /\ GoTo(r, "save")
          /\ UNCHANGED resp
     ELSE Answer(r, "error") /\ UNCHANGED <<file, body, object, multipart>>
  /\ UNCHANGED <<stores, used, partsInfo, cursor, gone, telemetry>>

KeepsObject(r) ==                        \* mutant of RemoveObject
  /\ pc[r] = "removeFile"
  /\ Answer(r, "ok")
  /\ UNCHANGED <<stores, used, file, body, partsInfo, cursor, gone, telemetry, object, multipart>>

(* remove_file of terminate: the object of a complete upload; the multipart *)
(* upload of an incomplete one stays open.                                  *)
RemoveObject(r) ==
  /\ pc[r] = "removeFile"
  /\ object' = IF Finished(file[r]) THEN [object EXCEPT ![file[r].id] = None] ELSE object
  /\ Answer(r, "ok")
  /\ IF gone[r] THEN UNCHANGED <<metrics, hooks>>
                ELSE Count("terminated", 1) /\ Spawn("post-terminate", r)
  /\ UNCHANGED <<stores, used, file, body, partsInfo, cursor, gone, delivered, multipart>>

(* get_contents: GET of the object, complete or not. *)
ReadObject(r) ==
  /\ pc[r] = "read"
  /\ IF object[file[r].id] # None
     THEN Answer(r, "ok") /\ body' = [body EXCEPT ![r] = object[file[r].id]]
     ELSE Answer(r, "error") /\ UNCHANGED body
  /\ UNCHANGED <<stores, used, file, partsInfo, cursor, gone, telemetry, object, multipart>>

(* A call fails: S3 may have executed it. *)
S3Fault(r) ==
  /\ "fault" \in Env
  /\ InFlight(r)
  /\ Answer(r, "error")
  /\ \/ UNCHANGED <<object, multipart>>
     \/ /\ pc[r] = "create" /\ UNCHANGED object
        /\ multipart' = [multipart EXCEPT ![file[r].id] = <<>>]
     \/ /\ pc[r] = "write" /\ file[r].metadata # None /\ multipart[file[r].id] # None
        /\ PartPut(r) /\ UNCHANGED object
     \/ /\ pc[r] = "complete" /\ Completable(file[r].id, file[r].metadata)
        /\ Assembled(r)
     \/ /\ pc[r] = "putJoined" /\ UNCHANGED multipart
        /\ object' = [object EXCEPT ![file[r].id] = body[r]]
     \/ /\ pc[r] = "dropFile" /\ UNCHANGED multipart
        /\ object' = [object EXCEPT ![Part(r)] = None]
     \/ /\ pc[r] = "removeFile" /\ Finished(file[r]) /\ UNCHANGED multipart
        /\ object' = [object EXCEPT ![file[r].id] = None]
  /\ UNCHANGED <<stores, used, file, body, partsInfo, cursor, gone, telemetry>>

S3Init == HybridInit /\ multipart = [i \in Id |-> None]

(* The steps that do not call the data storage. *)
OutsideStep(r) ==
  \/ Arrive(r)
  \/ ReadPart(r)
  \/ DropInfo(r)
  \/ SaveInfo(r)
  \/ RemoveInfo(r)
  \/ HookRefused(r)
  \/ Disconnect(r)
  \/ RedisAnswerLost(r)

(* concat_files and remove_file of a part are those of the hybrid storage. *)
JoinStep(r) ==
  \/ DownloadPart(r)
  \/ PutJoined(r)
  \/ DropObject(r)

S3Step(r) ==
  \/ Initiate(r)
  \/ PutPart(r)
  \/ CompleteUpload(r)
  \/ RemoveObject(r)
  \/ ReadObject(r)
  \/ S3Fault(r)

S3Request(r) ==
  \/ S3Step(r)
  \/ JoinStep(r) /\ UNCHANGED multipart
  \/ OutsideStep(r) /\ UNCHANGED <<object, multipart>>

S3Background ==
  /\ (\E h \in hooks : Send(h) \/ SendFails(h)) \/ Crash \/ Quiet
  /\ UNCHANGED <<object, multipart>>

S3Next == (\E r \in Req : S3Request(r)) \/ S3Background

s3vars == <<vars, object, multipart>>
S3Spec == S3Init /\ [][S3Next]_s3vars
-----------------------------------------------------------------------------
(* The variables have their types: in particular the parts of an open multipart *)
(* upload are numbered without a gap.                                           *)
S3TypeOK == HybridTypeOK /\ multipart \in [Id -> Seq(Seq(Nat)) \cup {None}]

(* Any Env, for uploads whose Upload-Metadata has not the keys of the storage. *)
(* The parts the info lists are those of its own offset: the list and the      *)
(* offset change together in one set_info, so however PATCHes race, fail or    *)
(* are dropped, the listed etags are exactly the first offset bytes.           *)
ListedPartsExact ==
  \A i \in Id : Visible(i) /\ info[i].metadata # None /\ ~info[i].final =>
    FlattenSeq(info[i].metadata) = Bytes(0, info[i].offset)

(* Any Env.  An upload whose info says that it is complete has an object with  *)
(* exactly its bytes, each once and in order: of racing PATCHes that replace   *)
(* each other's parts at most one can complete the multipart upload.  (Unless  *)
(* a final upload has taken it as a part to remove; an upload of length 0      *)
(* never gets an object.)                                                      *)
CompleteIsExact ==
  \A i \in Id : Visible(i) /\ Finished(info[i]) /\ ~info[i].final /\ info[i].length # 0 =>
    \/ object[i] = Bytes(0, info[i].length)
    \/ RemoveParts /\ \E r \in Req : file[r] # None /\ i \in PartIds(file[r])

(* Any Env, lengths not deferred.  GET never delivers a part of an upload:     *)
(* there is no object before the multipart upload was completed, even though   *)
(* get_contents does not ask whether the upload is complete.  (With deferred   *)
(* lengths the GET may have read the info before its length was known, or one  *)
(* of the lengths that racing PATCHes set.)                                    *)
DownloadIsWhole ==
  \A r \in Req : Method[r] = "GET" /\ resp[r] = "ok" /\ ~file[r].final =>
    body[r] = Bytes(0, file[r].length)

(* Any Env.  After terminate answered 204 for a complete upload its object is  *)
(* gone for ever: PATCH requests still under way, which may bring the info     *)
(* back to Redis, cannot bring the object back.                                *)
DeletedObjectGone ==
  \A r \in Req : Method[r] = "DELETE" /\ resp[r] = "ok" /\ Finished(file[r]) =>
    object[file[r].id] = None
=============================================================================

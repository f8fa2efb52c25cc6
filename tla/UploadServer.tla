---------------------------- MODULE UploadServer ----------------------------
(***************************************************************************)
(* The request handlers of rustus over one info storage and one data       *)
(* storage: POST (protocol/creation), PATCH and HEAD (protocol/core), GET  *)
(* (protocol/getting) and DELETE (protocol/termination).                   *)
(*                                                                         *)
(* A handler is an async function without any lock: it runs without        *)
(* interruption between two awaits, and every await of a storage call lets *)
(* all other handlers run.  So every action below is one storage call      *)
(* together with the code that follows it up to the next await; pc[r]      *)
(* names the storage call the handler of request r is waiting for.  A      *)
(* handler enters the model when its first storage call completes (PATCH,  *)
(* HEAD, GET, DELETE) or when its checks are over (POST): nothing it did   *)
(* before can be seen by anybody.                                          *)
(*                                                                         *)
(* The info storage is a map from ids to FileInfo records.  Redis reads,   *)
(* writes and removes them atomically; the file info storage truncates the *)
(* info file before it writes it.  The data storage is FileDataStorage,    *)
(* one file per id.  A byte is represented by its position in the upload,  *)
(* so the data of an undamaged upload of n bytes is <<1, ..., n>>.         *)
(***************************************************************************)
EXTENDS Integers, Sequences, FiniteSets

CONSTANTS
  Id,           \* upload ids
  Foreign,      \* ids whose info was left in the info storage by a server with another data storage
  Req,          \* requests, each used once
  Method,       \* Method[r]: the HTTP method of request r
  Lengths,      \* Upload-Length values clients send
  Offsets,      \* Upload-Offset values clients send
  Chunks,       \* body sizes clients send
  PartLists,    \* lists of parts clients name in Upload-Concat: final
  Extensions,   \* config.tus_extensions
  InfoKind,     \* "file" or "redis": the info storage
  AllowEmpty,   \* config.allow_empty
  MaxFileSize,  \* config.max_file_size, or None
  RemoveParts,  \* config.remove_parts
  ActiveHooks,  \* config.notification_opts.hooks
  Env,          \* what the environment may do, see below
  None,         \* Option::None
  Empty,        \* an info file that was truncated and not written yet
  Garbled       \* an info file that is not the JSON of one FileInfo

(* The environment: "parallel": clients start a modifying request for an     *)
(* upload while another one for it is being handled; "disconnect": clients   *)
(* close the connection before the answer; "crash": the server process dies  *)
(* and is started again; "fault": a storage call returns an error.           *)
EnvKinds == {"parallel", "disconnect", "crash", "fault"}
Methods == {"POST", "PATCH", "DELETE", "GET", "HEAD"}
ExtensionNames == {"creation", "creation-defer-length", "creation-with-upload",
                   "concatenation", "getting", "termination"}
HookNames == {"pre-create", "post-create", "post-receive",
              "pre-terminate", "post-terminate", "post-finish"}
Own == "file_storage"       \* data_storage.get_name()
OtherStorage == "s3_storage"

ASSUME IdAssumption == Foreign \subseteq Id
ASSUME MethodAssumption == Method \in [Req -> Methods]
ASSUME InputAssumption ==
  /\ Lengths \subseteq Nat /\ Offsets \subseteq Nat /\ Chunks \subseteq Nat
  /\ PartLists \subseteq Seq(Id)
ASSUME ConfigAssumption ==
  /\ Extensions \subseteq ExtensionNames
  /\ InfoKind \in {"file", "redis"}
  /\ AllowEmpty \in BOOLEAN /\ RemoveParts \in BOOLEAN
  /\ MaxFileSize \in Nat \cup {None}
  /\ ActiveHooks \subseteq HookNames
  /\ Env \subseteq EnvKinds

(* struct FileInfo.  `path` and `created_at` decide nothing here;             *)
(* `deferred_size` repeats `length = None` and is never read.  Of `metadata`  *)
(* the part matters that S3DataStorage keeps there: see S3Server.             *)
FileInfo == [id : Id, offset : Nat, length : Nat \cup {None}, storage : {Own, OtherStorage},
             partial : BOOLEAN, final : BOOLEAN, parts : Seq(Id),
             metadata : Seq(Seq(Nat)) \cup {None}]

Torn == {Empty, Garbled}     \* get_info finds the file and fails to parse it

ASSUME NoneAssumption == None \notin Nat /\ None \notin FileInfo /\ None \notin Seq(Nat)
ASSUME TornAssumption == None \notin Torn /\ Torn \cap FileInfo = {}

VARIABLES
  info,       \* info[i]: the FileInfo stored for i, None, or a torn file
  data,       \* data[i]: the bytes of the data file of i, or None
  used,       \* ids already drawn by Uuid::new_v4
  pc,         \* pc[r]: where the handler of r is
  file,       \* file[r]: its local `file_info`
  body,       \* body[r]: the bytes it still has to write; for GET the bytes it answered with
  partsInfo,  \* partsInfo[r]: its local `parts_info`
  cursor,     \* cursor[r]: the element of the list of parts its loops are at
  gone,       \* gone[r]: its client closed the connection; only the pending call goes on
  resp,       \* resp[r]: "ok" (2xx), "error" (4xx, 5xx) or "none" so far
  metrics,    \* the upload counters of RustusMetrics
  hooks,      \* post-hooks spawned in the background, not sent yet
  delivered   \* post-hooks sent

stores == <<info, data>>
handlers == <<pc, file, body, partsInfo, cursor, gone, resp>>
telemetry == <<metrics, hooks, delivered>>
vars == <<info, data, used, pc, file, body, partsInfo, cursor, gone, resp,
          metrics, hooks, delivered>>
-----------------------------------------------------------------------------
Bytes(o, n) == [k \in 1..n |-> o + k]     \* the n bytes that follow the first o bytes
Overwritten(old, new) == new             \* mutant of Appended: truncate(true)
(* OpenOptions::append(true) *)
Appended(old, new) == old \o new

LengthHeader == Lengths \cup {None}

PostMsg ==
  [length : LengthHeader, defer : BOOLEAN, n : Chunks \cup {0}, concat : {"no", "partial"},
   parts : {<<>>}]
  \cup [length : LengthHeader, defer : BOOLEAN, n : {0}, concat : {"final"},
        parts : PartLists \cup {<<>>}]
PatchMsg == [offset : Offsets, n : Chunks, length : LengthHeader, wellFormed : BOOLEAN]

(* get_info(i) gives a FileInfo. *)
Unreadable == {None} \cup Torn
Readable(i) == info[i] \notin Unreadable

InFlight(r) == pc[r] \notin {"idle", "done"}
PartIds(f) == {f.parts[k] : k \in DOMAIN f.parts}
Modifying(r) == Method[r] \in {"POST", "PATCH", "DELETE"}

(* A client that is not "parallel" waits for the answer to (or the end of) its *)
(* modifying requests for an upload before it sends the next one.              *)
Undisturbed(ids) ==
  \/ "parallel" \in Env
  \/ \A q \in Req : InFlight(q) /\ ~gone[q] /\ Modifying(q) =>
       ({file[q].id} \cup PartIds(file[q])) \cap ids = {}

Begins(r, method) == pc[r] = "idle" /\ Method[r] = method

(* After a storage call the handler goes on, unless its client is gone: then it was *)
(* dropped and only the call itself, already running in the thread pool, has ended. *)
GoTo(r, next) == pc' = [pc EXCEPT ![r] = IF gone[r] THEN "done" ELSE next]
AnswerSuccess(r, a) ==                   \* mutant of Answer: errors get no answer
  /\ pc' = [pc EXCEPT ![r] = "done"]
  /\ resp' = [resp EXCEPT ![r] = IF a = "ok" /\ ~gone[r] THEN "ok" ELSE "none"]
Answer(r, a) == /\ pc' = [pc EXCEPT ![r] = "done"]
                /\ resp' = [resp EXCEPT ![r] = IF gone[r] THEN "none" ELSE a]

Count(counter, d) == metrics' = [metrics EXCEPT ![counter] = @ + d]

(* tokio::spawn(notification_manager.send_message(...)) if the hook is active. *)
Spawn(hook, r) == hooks' = IF hook \in ActiveHooks
                           THEN hooks \cup {[hook |-> hook, id |-> file[r].id, req |-> r]}
                           ELSE hooks
-----------------------------------------------------------------------------
(* POST: create_file *)

Concat(m) == IF "concatenation" \in Extensions THEN m.concat ELSE "no"

PostAdmissible(m) ==
  /\ AllowEmpty \/ m.length # 0
  /\ \/ m.length # None
     \/ "creation-defer-length" \in Extensions /\ m.defer
     \/ Concat(m) = "final"
  /\ MaxFileSize # None /\ m.length # None => m.length <= MaxFileSize
  /\ Concat(m) = "final" => m.parts # <<>>

NewFileInfo(i, m) ==
  [id |-> i, offset |-> 0, length |-> m.length, storage |-> Own,
   partial |-> Concat(m) = "partial", final |-> Concat(m) = "final",
   parts |-> IF Concat(m) = "final" THEN m.parts ELSE <<>>, metadata |-> None]

PostRefused(r) ==
  /\ Begins(r, "POST") /\ "creation" \in Extensions
  /\ {m \in PostMsg : ~PostAdmissible(m)} # {}
  /\ Answer(r, "error")
  /\ UNCHANGED <<stores, used, file, body, partsInfo, cursor, gone, telemetry>>

PostAccepted(r, i, m) ==
  /\ Begins(r, "POST") /\ "creation" \in Extensions
  /\ PostAdmissible(m)
  /\ i \notin used
  /\ Undisturbed(PartIds(NewFileInfo(i, m)))
  /\ used' = used \cup {i}
  /\ file' = [file EXCEPT ![r] = NewFileInfo(i, m)]
  /\ body' = [body EXCEPT ![r] =
                IF "creation-with-upload" \in Extensions /\ Concat(m) # "final"
                THEN Bytes(0, m.n) ELSE <<>>]
  /\ pc' = [pc EXCEPT ![r] = "create"]
  /\ UNCHANGED <<stores, partsInfo, cursor, gone, resp, telemetry>>

(* The pre-hook is awaited, and its error returned, before the call pc names. *)
HookRefused(r) ==
  /\ ~gone[r]
  /\ \/ pc[r] = "create" /\ "pre-create" \in ActiveHooks
     \/ pc[r] = "removeInfo" /\ "pre-terminate" \in ActiveHooks
  /\ Answer(r, "error")
  /\ UNCHANGED <<stores, used, file, body, partsInfo, cursor, gone, telemetry>>

(* data_storage.create_file; the id is fresh, so create_new finds no file. *)
CreateFile(r) ==
  /\ pc[r] = "create"
  /\ data' = [data EXCEPT ![file[r].id] = <<>>]
  /\ metrics' = IF gone[r] THEN metrics
                ELSE [metrics EXCEPT !.active = @ + 1, !.started = @ + 1]
  /\ GoTo(r, IF file[r].final THEN "readPart" ELSE IF body[r] # <<>> THEN "write" ELSE "save")
  /\ UNCHANGED <<info, used, file, body, partsInfo, cursor, gone, resp, hooks, delivered>>
-----------------------------------------------------------------------------
(* POST, Upload-Concat: final *)

FirstPart(r) == file[r].parts[1]         \* mutant of Part: the loop does not move
Part(r) == file[r].parts[cursor[r]]
LastPart(r) == cursor[r] = Len(file[r].parts)
Advance(r) == cursor' = [cursor EXCEPT ![r] = IF LastPart(r) THEN 1 ELSE @ + 1]

(* mutants of PartAcceptable: the part need not exist, need not be complete *)
AcceptsMissingPart(p) == p = None \/ (p.length = p.offset /\ p.partial)
AcceptsIncompletePart(p) == p \notin Unreadable /\ p.length # None /\ p.partial
PartAcceptable(p) == p \notin Unreadable /\ p.length = p.offset /\ p.partial

(* info_storage.get_info(part_id) and the checks of the part. *)
ReadPart(r) ==
  /\ pc[r] = "readPart"
  /\ IF PartAcceptable(info[Part(r)])
     THEN /\ partsInfo' = [partsInfo EXCEPT ![r] = Append(@, info[Part(r)])]
          /\ Advance(r)
          /\ GoTo(r, IF LastPart(r) THEN "copyPart" ELSE "readPart")
          /\ UNCHANGED resp
     ELSE Answer(r, "error") /\ UNCHANGED <<partsInfo, cursor>>
  /\ UNCHANGED <<stores, used, file, body, gone, telemetry>>

Opened(i) == IF data[i] = None THEN <<>> ELSE data[i]    \* append(true).create(true)

(* The final upload with the part the loop is at: `final_size` is summed up here, from *)
(* the lengths ReadPart saw; nobody sees file_info before it is saved.                 *)
Joined(r) ==
  LET size == file[r].offset + partsInfo[r][cursor[r]].length
  IN [file[r] EXCEPT !.offset = size, !.length = IF LastPart(r) THEN size ELSE file[r].length]

(* One turn of the loop of data_storage.concat_files.  The whole loop is one *)
(* blocking call: it goes on without its client.                             *)
CopyPart(r) ==
  /\ pc[r] = "copyPart"
  /\ IF data[Part(r)] # None
     THEN /\ data' = [data EXCEPT ![file[r].id] = Appended(Opened(file[r].id), data[Part(r)])]
          /\ file' = [file EXCEPT ![r] = Joined(r)]
          /\ Advance(r)
          /\ IF LastPart(r) THEN GoTo(r, IF RemoveParts THEN "dropFile" ELSE "save")
                            ELSE UNCHANGED pc
          /\ UNCHANGED resp
     ELSE Answer(r, "error") /\ UNCHANGED <<data, file, cursor>>
  /\ UNCHANGED <<info, used, body, partsInfo, gone, telemetry>>

(* config.remove_parts: data_storage.remove_file(&part) ... *)
DropFile(r) ==
  /\ pc[r] = "dropFile"
  /\ IF data[Part(r)] # None
     THEN data' = [data EXCEPT ![Part(r)] = None] /\ GoTo(r, "dropInfo") /\ UNCHANGED resp
     ELSE Answer(r, "error") /\ UNCHANGED data
  /\ UNCHANGED <<info, used, file, body, partsInfo, cursor, gone, telemetry>>

(* ... then info_storage.remove_info(part.id), for each part. *)
DropInfo(r) ==
  /\ pc[r] = "dropInfo"
  /\ IF info[Part(r)] # None
     THEN /\ info' = [info EXCEPT ![Part(r)] = None]
          /\ Advance(r)
          /\ GoTo(r, IF LastPart(r) THEN "save" ELSE "dropFile")
          /\ UNCHANGED resp
     ELSE Answer(r, "error") /\ UNCHANGED <<info, cursor>>
  /\ UNCHANGED <<data, used, file, body, partsInfo, gone, telemetry>>
-----------------------------------------------------------------------------
(* PATCH: write_bytes *)

NewLength(m) == IF "creation-defer-length" \in Extensions THEN m.length ELSE None
Resized(f, m) == IF NewLength(m) = None THEN f ELSE [f EXCEPT !.length = NewLength(m)]

(* get_info finds the upload, and it is kept in the data storage of this server. *)
VisibleAnywhere(i) == Readable(i)        \* mutant of Visible
Visible(i) == Readable(i) /\ info[i].storage = Own

(* mutants of PatchAdmissible: no offset check, no SizeAlreadyKnown, no FrozenFile *)
AnyOffset(i, m) ==
  /\ m.wellFormed /\ Visible(i) /\ ~info[i].final
  /\ NewLength(m) # None => NewLength(m) >= info[i].offset /\ info[i].length = None
  /\ Resized(info[i], m).length # info[i].offset
Resizable(i, m) ==
  /\ m.wellFormed /\ Visible(i) /\ ~info[i].final
  /\ m.offset = info[i].offset
  /\ NewLength(m) # None => NewLength(m) >= info[i].offset
  /\ Resized(info[i], m).length # info[i].offset
NeverFrozen(i, m) ==
  /\ m.wellFormed /\ Visible(i) /\ ~info[i].final
  /\ m.offset = info[i].offset
  /\ NewLength(m) # None => NewLength(m) >= info[i].offset /\ info[i].length = None

(* wellFormed: the Content-Type, Upload-Offset and Upload-Checksum headers are right. *)
PatchAdmissible(i, m) ==
  /\ m.wellFormed
  /\ Visible(i)
  /\ ~info[i].final
  /\ m.offset = info[i].offset
  /\ NewLength(m) # None => NewLength(m) >= info[i].offset /\ info[i].length = None
  /\ Resized(info[i], m).length # info[i].offset

PatchRefused(r, i) ==
  /\ Begins(r, "PATCH")
  /\ {m \in PatchMsg : ~PatchAdmissible(i, m)} # {}
  /\ Answer(r, "error")
  /\ UNCHANGED <<stores, used, file, body, partsInfo, cursor, gone, telemetry>>

PatchAccepted(r, i, m) ==
  /\ Begins(r, "PATCH")
  /\ Undisturbed({i})
  /\ PatchAdmissible(i, m)
  /\ file' = [file EXCEPT ![r] = Resized(info[i], m)]
  /\ body' = [body EXCEPT ![r] = Bytes(m.offset, m.n)]
  /\ pc' = [pc EXCEPT ![r] = "write"]
  /\ UNCHANGED <<stores, used, partsInfo, cursor, gone, resp, telemetry>>

(* data_storage.add_bytes, which never creates the file, then `offset += chunk_len`; *)
(* for PATCH and for POST with a body.                                               *)
AddBytes(r) ==
  /\ pc[r] = "write"
  /\ IF data[file[r].id] # None
     THEN /\ data' = [data EXCEPT ![file[r].id] = Appended(@, body[r])]
          /\ file' = [file EXCEPT ![r].offset = @ + Len(body[r])]
          /\ body' = [body EXCEPT ![r] = <<>>]
          /\ GoTo(r, "save")
          /\ UNCHANGED resp
     ELSE Answer(r, "error") /\ UNCHANGED <<data, file, body>>
  /\ UNCHANGED <<info, used, partsInfo, cursor, gone, telemetry>>

Finished(f) == f.length = f.offset

CreationNeverFinishes(r) ==              \* mutant of PostHook
  IF Method[r] = "POST" THEN "post-create"
  ELSE IF Finished(file[r]) THEN "post-finish" ELSE "post-receive"
PostHook(r) ==
  IF Method[r] = "POST"
  THEN IF file[r].final \/ Finished(file[r]) THEN "post-finish" ELSE "post-create"
  ELSE IF Finished(file[r]) THEN "post-finish" ELSE "post-receive"

(* What POST and PATCH do when set_info has returned Ok. *)
Saved(r) ==
  /\ Answer(r, "ok")
  /\ IF gone[r] THEN UNCHANGED hooks ELSE Spawn(PostHook(r), r)
  /\ metrics' = IF Method[r] = "PATCH" /\ Finished(file[r]) /\ ~gone[r]
                THEN [metrics EXCEPT !.active = @ - 1, !.finished = @ + 1]
                ELSE metrics

(* info_storage.set_info of Redis: one SET, whatever `create` is. *)
SaveInfo(r) ==
  /\ pc[r] = "save" /\ InfoKind = "redis"
  /\ info' = [info EXCEPT ![file[r].id] = file[r]]
  /\ Saved(r)
  /\ UNCHANGED <<data, used, file, body, partsInfo, cursor, gone, delivered>>

AlwaysCreates(r) == TRUE                 \* mutant of Openable: create(true)
Openable(r) ==
  LET create == Method[r] = "POST"
  IN create \/ info[file[r].id] # None

(* info_storage.set_info of the file info storage opens the file with          *)
(* truncate(true).create(create), ...                                          *)
OpenInfo(r) ==
  /\ pc[r] = "save" /\ InfoKind = "file"
  /\ IF Openable(r)
     THEN /\ info' = [info EXCEPT ![file[r].id] = Empty]
          /\ pc' = [pc EXCEPT ![r] = "saving"]
          /\ UNCHANGED resp
     ELSE Answer(r, "error") /\ UNCHANGED info
  /\ UNCHANGED <<data, used, file, body, partsInfo, cursor, gone, telemetry>>

RecreatesInfo(i, f) == {f}               \* mutant of Written: the open file is never an unlinked one
(* What the file of i may be after f was written to the beginning of the open file: *)
(* nothing if it was removed meanwhile; the tail of something longer that another   *)
(* handler wrote there meanwhile stays behind f.                                    *)
Written(i, f) ==
  CASE info[i] = None -> {None}
    [] info[i] \in {Empty, f} -> {f}
    [] OTHER -> {f, Garbled}

(* ... and writes it: one blocking call. *)
WriteInfo(r) ==
  /\ pc[r] = "saving"
  /\ \E content \in Written(file[r].id, file[r]) : info' = [info EXCEPT ![file[r].id] = content]
  /\ Saved(r)
  /\ UNCHANGED <<data, used, file, body, partsInfo, cursor, gone, delivered>>
-----------------------------------------------------------------------------
(* DELETE: terminate *)

DeleteRefused(r, i) ==
  /\ Begins(r, "DELETE") /\ "termination" \in Extensions
  /\ ~Visible(i)
  /\ Answer(r, "error")
  /\ UNCHANGED <<stores, used, file, body, partsInfo, cursor, gone, telemetry>>

DeleteAccepted(r, i) ==
  /\ Begins(r, "DELETE") /\ "termination" \in Extensions
  /\ Undisturbed({i})
  /\ Visible(i)
  /\ file' = [file EXCEPT ![r] = info[i]]
  /\ pc' = [pc EXCEPT ![r] = "removeInfo"]
  /\ UNCHANGED <<stores, used, body, partsInfo, cursor, gone, resp, telemetry>>

ForgetsTheFile(r) ==                     \* mutant of RemoveInfo: no remove_file after it
  /\ pc[r] = "removeInfo"
  /\ info' = [info EXCEPT ![file[r].id] = None]
  /\ Answer(r, "ok")
  /\ UNCHANGED <<data, used, file, body, partsInfo, cursor, gone, telemetry>>

RemoveInfo(r) ==
  /\ pc[r] = "removeInfo"
  /\ IF info[file[r].id] # None
     THEN info' = [info EXCEPT ![file[r].id] = None] /\ GoTo(r, "removeFile") /\ UNCHANGED resp
     ELSE Answer(r, "error") /\ UNCHANGED info
  /\ UNCHANGED <<data, used, file, body, partsInfo, cursor, gone, telemetry>>

RemoveFile(r) ==
  /\ pc[r] = "removeFile"
  /\ IF data[file[r].id] # None
     THEN /\ data' = [data EXCEPT ![file[r].id] = None]
          /\ Answer(r, "ok")
          /\ IF gone[r] THEN UNCHANGED <<metrics, hooks>>
                        ELSE Count("terminated", 1) /\ Spawn("post-terminate", r)
     ELSE Answer(r, "error") /\ UNCHANGED <<data, metrics, hooks>>
  /\ UNCHANGED <<info, used, file, body, partsInfo, cursor, gone, delivered>>
-----------------------------------------------------------------------------
(* GET: get_file and HEAD: get_file_info *)

ReadRefused(r, i) ==
  /\ \/ Begins(r, "GET") /\ "getting" \in Extensions
     \/ Begins(r, "HEAD")
  /\ ~Visible(i)
  /\ Answer(r, "error")
  /\ UNCHANGED <<stores, used, file, body, partsInfo, cursor, gone, telemetry>>

GetAccepted(r, i) ==
  /\ Begins(r, "GET") /\ "getting" \in Extensions
  /\ Visible(i)
  /\ file' = [file EXCEPT ![r] = info[i]]
  /\ pc' = [pc EXCEPT ![r] = "read"]
  /\ UNCHANGED <<stores, used, body, partsInfo, cursor, gone, resp, telemetry>>

(* data_storage.get_contents opens the file and streams it. *)
GetContents(r) ==
  /\ pc[r] = "read"
  /\ IF data[file[r].id] # None
     THEN Answer(r, "ok") /\ body' = [body EXCEPT ![r] = data[file[r].id]]
     ELSE Answer(r, "error") /\ UNCHANGED body
  /\ UNCHANGED <<stores, used, file, partsInfo, cursor, gone, telemetry>>

HeadAnswered(r, i) ==
  /\ Begins(r, "HEAD")
  /\ Visible(i)
  /\ file' = [file EXCEPT ![r] = info[i]]
  /\ Answer(r, "ok")
  /\ UNCHANGED <<stores, used, body, partsInfo, cursor, gone, telemetry>>
-----------------------------------------------------------------------------
(* The background tasks and the environment *)

Send(h) ==
  /\ hooks' = hooks \ {h}
  /\ delivered' = delivered \cup {h}
  /\ UNCHANGED <<stores, used, handlers, metrics>>

SendFails(h) ==
  /\ "fault" \in Env
  /\ hooks' = hooks \ {h}
  /\ UNCHANGED <<stores, used, handlers, metrics, delivered>>

(* hyper drops the handler of a closed connection: either before it makes its next *)
(* storage call, or while that call is on its way.                                 *)
Disconnect(r) ==
  /\ "disconnect" \in Env
  /\ InFlight(r) /\ ~gone[r]
  /\ \/ pc[r] # "saving" /\ pc' = [pc EXCEPT ![r] = "done"] /\ UNCHANGED gone
     \/ gone' = [gone EXCEPT ![r] = TRUE] /\ UNCHANGED pc
  /\ UNCHANGED <<stores, used, file, body, partsInfo, cursor, resp, telemetry>>

ZeroMetrics == [active |-> 0, started |-> 0, finished |-> 0, terminated |-> 0]

(* The process dies and is started again: only the storages survive. *)
Crash ==
  /\ "crash" \in Env
  /\ pc' = [r \in Req |-> IF InFlight(r) THEN "done" ELSE pc[r]]
  /\ hooks' = {}
  /\ metrics' = ZeroMetrics
  /\ UNCHANGED <<stores, used, file, body, partsInfo, cursor, gone, resp, delivered>>

PartlyAppended(i, bytes) ==
  \E n \in 0..Len(bytes) : data' = [data EXCEPT ![i] = Appended(Opened(i), SubSeq(bytes, 1, n))]

(* A failing write of an info file leaves what was there, or a part of the new info. *)
HalfWritten(i) ==
  info' = [info EXCEPT ![i] = IF info[i] = None THEN None ELSE Garbled]

(* A storage call fails; a failing write or copy may have written a part of its bytes. *)
Fault(r) ==
  /\ "fault" \in Env
  /\ InFlight(r)
  /\ Answer(r, "error")
  /\ \/ UNCHANGED stores
     \/ pc[r] = "write" /\ data[file[r].id] # None /\ PartlyAppended(file[r].id, body[r])
        /\ UNCHANGED info
     \/ pc[r] = "copyPart" /\ data[Part(r)] # None /\ PartlyAppended(file[r].id, data[Part(r)])
        /\ UNCHANGED info
     \/ pc[r] = "saving" /\ HalfWritten(file[r].id) /\ UNCHANGED data
  /\ UNCHANGED <<used, file, body, partsInfo, cursor, gone, telemetry>>

(* Redis executed the command, but its answer is lost. *)
RedisAnswerLost(r) ==
  /\ "fault" \in Env /\ InfoKind = "redis"
  /\ \/ pc[r] = "save" /\ info' = [info EXCEPT ![file[r].id] = file[r]]
     \/ pc[r] = "removeInfo" /\ info' = [info EXCEPT ![file[r].id] = None]
     \/ pc[r] = "dropInfo" /\ info' = [info EXCEPT ![Part(r)] = None]
  /\ Answer(r, "error")
  /\ UNCHANGED <<data, used, file, body, partsInfo, cursor, gone, telemetry>>
-----------------------------------------------------------------------------
ForeignInfo(i) == [id |-> i, offset |-> 1, length |-> 1, storage |-> OtherStorage,
                   partial |-> TRUE, final |-> FALSE, parts |-> <<>>, metadata |-> None]

Init ==
  /\ info = [i \in Id |-> IF i \in Foreign THEN ForeignInfo(i) ELSE None]
  /\ data = [i \in Id |-> None]
  /\ used = Foreign
  /\ pc = [r \in Req |-> "idle"]
  /\ file = [r \in Req |-> None]
  /\ body = [r \in Req |-> <<>>]
  /\ partsInfo = [r \in Req |-> <<>>]
  /\ cursor = [r \in Req |-> 1]
  /\ gone = [r \in Req |-> FALSE]
  /\ resp = [r \in Req |-> "none"]
  /\ metrics = ZeroMetrics
  /\ hooks = {}
  /\ delivered = {}

Arrive(r) ==
  \/ PostRefused(r)
  \/ \E m \in PostMsg, i \in Id : PostAccepted(r, i, m)
  \/ \E i \in Id : \/ PatchRefused(r, i)
                   \/ \E m \in PatchMsg : PatchAccepted(r, i, m)
                   \/ DeleteRefused(r, i)
                   \/ DeleteAccepted(r, i)
                   \/ ReadRefused(r, i)
                   \/ GetAccepted(r, i)
                   \/ HeadAnswered(r, i)

Proceed(r) ==
  \/ CreateFile(r)
  \/ ReadPart(r)
  \/ CopyPart(r)
  \/ DropFile(r)
  \/ DropInfo(r)
  \/ AddBytes(r)
  \/ SaveInfo(r)
  \/ OpenInfo(r)
  \/ WriteInfo(r)
  \/ RemoveInfo(r)
  \/ RemoveFile(r)
  \/ GetContents(r)

Interfere(r) ==
  \/ HookRefused(r)
  \/ Disconnect(r)
  \/ Fault(r)
  \/ RedisAnswerLost(r)

(* All requests are answered and all hooks sent: the server waits. *)
Quiet ==
  /\ \A r \in Req : ~InFlight(r)
  /\ hooks = {}
  /\ UNCHANGED vars

Next ==
  \/ \E r \in Req : Arrive(r) \/ Proceed(r) \/ Interfere(r)
  \/ \E h \in hooks : Send(h) \/ SendFails(h)
  \/ Crash
  \/ Quiet

Spec == Init /\ [][Next]_vars

(* tokio polls every task it has to: a storage call and a spawned hook get their turn. *)
FairSpec ==
  /\ Spec
  /\ \A r \in Req : WF_vars(Proceed(r))
  /\ WF_vars(\E h \in hooks : Send(h))
-----------------------------------------------------------------------------
(* Properties.  Each says under which Env it is meant to hold. *)

Hook == [hook : HookNames, id : Id, req : Req]
(* The last row: calls of the object storages only, see HybridServer and S3Server. *)
Pcs == {"idle", "create", "readPart", "copyPart", "dropFile", "dropInfo", "write", "save", "saving",
        "removeInfo", "removeFile", "read", "done",
        "open", "put", "dropLocal", "putJoined", "complete"}

(* The variables have their types: in particular every part a final upload *)
(* goes on with was found and has a known length.                          *)
TypeOK ==
  /\ info \in [Id -> FileInfo \cup Unreadable]
  /\ data \in [Id -> Seq(Nat) \cup {None}]
  /\ used \subseteq Id
  /\ pc \in [Req -> Pcs]
  /\ file \in [Req -> FileInfo \cup {None}]
  /\ body \in [Req -> Seq(Nat)]
  /\ partsInfo \in [Req -> Seq({f \in FileInfo : f.length # None})]
  /\ cursor \in [Req -> Nat \ {0}]
  /\ gone \in [Req -> BOOLEAN]
  /\ resp \in [Req -> {"none", "ok", "error"}]
  /\ metrics \in [active : Int, started : Nat, finished : Nat, terminated : Nat]
  /\ hooks \subseteq Hook
  /\ delivered \subseteq Hook

(* Any Env.  add_bytes comes before set_info, so the data file never holds   *)
(* fewer bytes than the offset the server reports and clients resume from,   *)
(* whatever is interleaved, fails, crashes or is dropped between the two.    *)
DataCoversOffset ==
  \A i \in Id : Readable(i) /\ data[i] # None => Len(data[i]) >= info[i].offset

(* Any Env, file info storage, remove_parts off.  An upload the server still *)
(* knows has its data file: terminate removes the info first, and no PATCH   *)
(* that was under way brings the info back (set_info with create = false).   *)
InfoHasData ==
  \A i \in Id : Visible(i) => data[i] # None

(* Any Env, file info storage.  After terminate answered 204 neither info    *)
(* nor data of the upload exist, now or later.                               *)
TerminatedIsGone ==
  \A r \in Req : Method[r] = "DELETE" /\ resp[r] = "ok" =>
    info[file[r].id] = None /\ data[file[r].id] = None

(* Any Env.  No handler of this server changes, removes or writes to an      *)
(* upload that belongs to another data storage (`file_info.storage` checks). *)
ForeignUntouched ==
  \A i \in Foreign : info[i] = ForeignInfo(i) /\ data[i] = None

(* Env = {}.  While nobody is modifying an upload, or removing it as a part   *)
(* of another, its data file holds exactly the bytes 1..offset, in order,    *)
(* each once.                                                                *)
StoredExactly ==
  \A i \in Id :
    Visible(i) /\ ~info[i].final
    /\ (\A r \in Req : InFlight(r) /\ Modifying(r) =>
          file[r].id # i /\ ~(RemoveParts /\ i \in PartIds(file[r])))
      => data[i] = Bytes(0, info[i].offset)

(* Env = {}.  A download of a complete upload returns exactly its bytes, even *)
(* though get_file reads the info and the data in two steps.                  *)
DownloadIsUpload ==
  \A r \in Req : Method[r] = "GET" /\ resp[r] = "ok" /\ Finished(file[r]) /\ ~file[r].final =>
    body[r] = Bytes(0, file[r].length)

(* The info of i, which set_info may be writing just now. *)
Recorded(i) ==
  IF \E r \in Req : pc[r] = "saving" /\ file[r].id = i
  THEN file[CHOOSE r \in Req : pc[r] = "saving" /\ file[r].id = i]
  ELSE IF Visible(i) THEN info[i] ELSE None

(* DELETE requests for i, and final uploads that remove their part i. *)
Removing(i) == \E r \in Req :
  /\ file[r] # None
  /\ \/ Method[r] = "DELETE" /\ file[r].id = i
     \/ RemoveParts /\ i \in PartIds(file[r])

(* s holds the sequences `pieces` one after the other, and nothing else. *)
Concatenates(s, pieces) ==
  \E cut \in [0..Len(pieces) -> 0..Len(s)] :
    /\ cut[0] = 0 /\ cut[Len(pieces)] = Len(s)
    /\ \A k \in DOMAIN pieces :
         /\ cut[k] = cut[k - 1] + Len(pieces[k])
         /\ \A j \in DOMAIN pieces[k] : s[cut[k - 1] + j] = pieces[k][j]

(* What clients sent for the first n parts of the final upload of r. *)
FirstParts(r, n) == [k \in 1..n |-> Bytes(0, partsInfo[r][k].length)]

(* Env = {}.  The data of a final upload is the concatenation of the complete *)
(* data of the parts the client named, in that order (concat_files), and      *)
(* stays so until the upload is removed.                                      *)
FinalIsConcatenation ==
  \A r \in Req : Method[r] = "POST" /\ resp[r] = "ok" /\ file[r].final =>
    /\ [k \in DOMAIN partsInfo[r] |-> partsInfo[r][k].id] = file[r].parts
    /\ Removing(file[r].id)
       \/ Concatenates(data[file[r].id], FirstParts(r, Len(partsInfo[r])))

(* Env without "parallel" and "disconnect".  An offset the server has         *)
(* answered stays recorded and backed by data through failing requests and    *)
(* restarts, until the client has the upload removed.  The file info storage  *)
(* may lose it to a failure inside set_info, but then it has no offset at all *)
(* to report, never a smaller one.                                            *)
AckedOffsetKept ==
  \A r \in Req : Method[r] \in {"POST", "PATCH"} /\ resp[r] = "ok" =>
    LET i == file[r].id
    IN \/ Removing(i)
       \/ InfoKind = "file" /\ info[i] \in Torn
       \/ Readable(i) /\ info[i].offset >= file[r].offset /\ Len(data[i]) >= file[r].offset

(* Env without "parallel" and "disconnect".  Once an upload is complete       *)
(* neither its info nor its data changes any more, except by being removed    *)
(* (the FrozenFile check of write_bytes).                                     *)
CompleteUntouched ==
  [][\A i \in Id : Visible(i) /\ Finished(info[i]) =>
       info'[i] \in {info[i], None} /\ data'[i] \in {data[i], None}]_vars

(* Env without "parallel" and "disconnect".  The length of an upload never    *)
(* changes once it is known (the SizeAlreadyKnown check).                     *)
LengthFixed ==
  [][\A i \in Id : Readable(i) /\ Readable(i)' /\ info[i].length # None =>
       info'[i].length = info[i].length]_vars

(* Env without "parallel" and "disconnect".  The consumers of post-finish see *)
(* at most one of them for an upload.                                         *)
FinishedOnce ==
  \A g, h \in hooks \cup delivered :
    g.hook = "post-finish" /\ h.hook = "post-finish" /\ g.id = h.id => g = h

(* FairSpec, Env = {} or {"parallel"}.  Every handler comes to an answer.     *)
EveryRequestAnswered ==
  \A r \in Req : InFlight(r) ~> resp[r] # "none"

(* FairSpec, Env = {} or {"parallel"}.  Every upload that becomes complete is *)
(* announced by a post-finish hook.                                           *)
FinishNotified ==
  \A i \in Id : Visible(i) /\ Finished(info[i]) ~>
    \E h \in delivered : h.hook = "post-finish" /\ h.id = i

(* FairSpec, Env = {} or {"parallel"}, no concatenation.  A data file without *)
(* info is on its way to get one or to be removed: no handler leaves an       *)
(* unreachable file behind.                                                   *)
OrphanReclaimed ==
  \A i \in Id : data[i] # None /\ info[i] = None ~> info[i] # None \/ data[i] = None

(* Env = {}.  A final upload that could not be created leaves its parts       *)
(* as they were, for the client to try again, unless another request of the   *)
(* client removed them.                                                       *)
PartsSurviveFailure ==
  \A r \in Req : Method[r] = "POST" /\ resp[r] = "error" /\ file[r] # None =>
    \A k \in DOMAIN partsInfo[r] :
      LET p == partsInfo[r][k]
      IN \/ info[p.id] = p /\ (p.storage = Own => data[p.id] # None)
         \/ \E q \in Req \ {r} :
              /\ file[q] # None /\ resp[q] # "error"
              /\ \/ Method[q] = "DELETE" /\ file[q].id = p.id
                 \/ RemoveParts /\ p.id \in PartIds(file[q])
-----------------------------------------------------------------------------
(* Statements of the repository that the runs refute; see the README. *)

(* write_bytes.rs:87, "Checking if offset from request is the same as the     *)
(* real offset": bytes are only appended where the data file ends.            *)
OffsetIsReal ==
  [][\A r \in Req : pc[r] = "write" /\ pc'[r] = "save" =>
       Len(data[file[r].id]) = file[r].offset]_vars
=============================================================================

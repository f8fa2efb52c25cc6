# rustus in TLA+

rustus is a server for the TUS protocol of resumable uploads: a client creates
an upload (POST), sends its bytes in chunks at the offset the server reports
(PATCH, HEAD), joins partial uploads into a final one (POST with
`Upload-Concat: final`), downloads it (GET) and removes it (DELETE). Other
services are told about it by hooks. This directory models the request handlers
over each of the storages, and the server around them: its options, its start,
its routes, its hooks and their recipients. TLC checks the models on small
instances, and the safety properties that matter most are proved with TLAPS.

## 1. Inventory

| Component | State | Operations | Talks to |
|---|---|---|---|
| Creation, `protocol/creation/routes.rs` | local `file_info`, `parts_info` | POST: checks, pre-create, create the data file, copy and remove parts, first bytes, save info, post-create or post-finish | both storages, notifications, metrics |
| Core, `protocol/core/` | local `file_info` | PATCH: checks, append, save info, post-receive or post-finish; HEAD; OPTIONS | both storages, notifications, metrics |
| Termination, `protocol/termination/` | local `file_info` | DELETE: checks, pre-terminate, remove info, remove file, post-terminate | both storages, notifications, metrics |
| Getting, `protocol/getting/` | - | GET: read info, stream the file | both storages |
| File data storage, `data_storage/impls/file_storage.rs` | one file per upload | prepare, create, append, concat, remove, read; each a blocking call in the thread pool | file system |
| S3 hybrid data storage, `s3_hybrid.rs` | a local file, from the last byte on an object | the same | file storage, S3 |
| S3 data storage, `s3_storage.rs` | a multipart upload, later an object; the list of its parts in `FileInfo.metadata` | the same | S3 |
| File info storage, `info_storage/impls/file_storage.rs` | one JSON file per upload | prepare, set (with `create`), get, remove | file system |
| Redis info storage | one key per upload, with optional expiry | SET, GET, DEL | Redis |
| Notification manager, `notifiers/manager.rs` | the list of notifiers | send a hook to every notifier in turn; pre-hooks are awaited and may refuse, post-hooks run in tasks of their own | the notifiers |
| Notifiers, `notifiers/impls/` | clients of HTTP, NATS, AMQP and Kafka; commands | send one hook, and wait for what its recipient answers | other services |
| AMQP pools, `utils/lapin_pool.rs` | connections, and channels on them | take, check, give back | AMQP |
| Metrics, `metrics.rs` | counters and the gauge of active uploads | count | - |
| Configuration, `config.rs` | the options | parse, normalise | - |
| Routing and start, `main.rs`, `server.rs`, `protocol/mod.rs`, `state.rs` | routes and layers | prepare the storages and notifiers in order, route, layer | all of the above |
| Helpers: headers, hashes, directory names, message formats | - | pure functions | - |

There is no lock anywhere: handlers share only the storages and the notifiers,
and between any two awaits every other handler may run. The hard behaviours come
from this and from two storages that cannot change together:

* read-modify-write of `FileInfo` around the await of `add_bytes`; with S3 the
  list of parts goes stale with it;
* `add_bytes` before `set_info`, `remove_info` before `remove_file`: a failure,
  a restart or a closed connection between the two;
* `set_info` of the file storage, which empties the file before it writes it;
* handlers that hyper drops when the client hangs up, while their blocking call
  goes on in the thread pool;
* retries of clients whose answer was lost; commands of Redis and S3 that were
  executed although their answer was lost;
* final uploads, which read, copy and remove the uploads of others in several
  loops;
* an info storage shared with servers that keep their data elsewhere;
* hooks that one recipient has accepted and the next refuses, answers after the
  timeout, messages in a stream that breaks;
* two pools, one used inside the other, whose users may be dropped at any await;
* a start in several stages, of which none is undone when a later one fails.

What makes the components correct: the data file covers the reported offset;
without races and failures it holds exactly the upload; a complete upload is
frozen and has its bytes in S3; a terminated one stays gone; nobody touches a
foreign upload; a final upload is the concatenation of its parts and a failing
one spares them; every request is answered and every completion announced; a
refusal of any recipient is final; nobody is told what somebody before him has
refused; no send waits for the pools for ever; the server serves what it
advertises, and only starts with storages it can use. `PROJECT.json` lists the
hazards, each at its line, with the properties that watch it.

## 2. Modules

| Module | What it is |
|---|---|
| `UploadServer` | the handlers over one info storage (file or Redis) and the file data storage; the properties of uploads |
| `TusUpload` | the abstract specification: uploads that requests change at once |
| `UploadRefinement` | the mapping from `UploadServer` to `TusUpload` |
| `HybridServer` | the same handlers over the S3 hybrid data storage, composed with `UploadServer`; its properties and its mapping to `TusUpload` |
| `HybridRefinement` | the mapping from `HybridServer` to `UploadServer` |
| `S3Server` | the same handlers over the S3 data storage, composed with `HybridServer` and `UploadServer` |
| `Config` | the options: what the command line accepts, and what `from_args` makes of it |
| `Router` | routes, layers, and the handlers without hooks |
| `Notifications` | the manager, the notifiers, their recipients, the AMQP pools, and the handlers that send hooks |
| `Main` | the start of the server, and then `Router` and `Notifications` |
| `MCUploadServer`, `MCHybridServer`, `MCS3Server`, `MCMain` | instances for TLC |
| `UploadTypeProofs`, `UploadSafetyProofs` | theorems about `UploadServer` in every environment |
| `UploadSerialProofs`, `UploadExactProofs` | theorems about `UploadServer` for clients that wait, with and without failures |
| `UploadRefinementProofs` | that `UploadServer` implements `TusUpload` |
| `HybridProofs` | theorems about `HybridServer` in every environment; for clients that wait when nothing fails, that it implements `UploadServer` and what follows |
| `S3Proofs` | theorems about `S3Server` in every environment |
| `MainProofs` | theorems about `Main` |

There are two families. The upload family (`UploadServer`, `HybridServer`,
`S3Server`) knows what is stored; hooks are reduced there to a set of messages.
The server family (`Config`, `Router`, `Notifications`, `Main`, each extending
the one before) knows who is told, answered and counted; what is stored is
reduced there to the ways a handler may end.

### UploadServer and the code

One action is one storage call together with the code up to the next await;
`pc[r]` names the call the handler of request `r` is waiting for.

| Code | Actions |
|---|---|
| `create_file` | `PostRefused`, `PostAccepted`, `HookRefused`, `CreateFile`, `ReadPart` (loop over parts), `CopyPart` (loop of `concat_files`), `DropFile` / `DropInfo` (loop of `remove_parts`), `AddBytes`, `set_info` |
| `write_bytes` | `PatchRefused`, `PatchAccepted`, `AddBytes`, `set_info` |
| `terminate` | `DeleteRefused`, `DeleteAccepted`, `HookRefused`, `RemoveInfo`, `RemoveFile` |
| `get_file`, `get_file_info` | `ReadRefused`, `GetAccepted`, `GetContents`, `HeadAnswered` |
| `set_info` of Redis | `SaveInfo`: one SET, which ignores `create` |
| `set_info` of the file storage | `OpenInfo` (truncate, with or without `create`), `WriteInfo` |
| `tokio::spawn(send_message)` | `Spawn` when the handler answers, `Send`, `SendFails` |
| the world | `Disconnect`, `Crash`, `Fault`, `RedisAnswerLost` |

`info` and `data` are the storages; `file`, `body`, `partsInfo` and `cursor`
the local variables of the handlers; `metrics` the counters; `hooks` and
`delivered` the post-hooks on their way and sent. A byte is its position in
the upload, so that damage shows: the data of an undamaged upload of `n` bytes
is `<<1, ..., n>>`.

* The requests of a PATCH are admitted or refused in one step with `get_info`:
  what the handler does before has no effect. `PatchMsg.wellFormed` stands for
  the Content-Type, Upload-Offset and Upload-Checksum headers.
* A POST of one request draws a fresh id (`used`), as `Uuid::new_v4` does; the
  id is not used again.
* A final POST has no body in the model: with the concatenation extension the
  code ignores it.
* An info file may be `Empty` (truncated, not yet written) or `Garbled`:
  `get_info` fails to parse both. `Written` is what a write leaves: nothing if
  the file was unlinked meanwhile, the info, or the info followed by the tail of
  a longer one that another handler wrote in between. `set_info` is one
  blocking call, so that a closed connection cannot stop it half way, while a
  crash can. A file that cannot be parsed makes `get_info` fail, and `terminate`
  with it.
* A closed connection (`Disconnect`) drops the handler before its next call, or
  while the call is on its way; in the second case (`gone`) the call completes
  and nothing after it happens. `concat_files` is one blocking call, so its
  loop goes on.
* A call that fails (`Fault`) has had no effect, except that an append, a copy
  or a write of an info may have written a part of its bytes. A crash in the
  middle of a write is `Fault` followed by `Crash`, so the runs that allow
  crashes allow faults as well. Redis may have executed a command whose answer
  is lost (`RedisAnswerLost`).
* `Foreign` ids have an info of a server with another data storage from the
  beginning. Their info is a complete partial upload: the one a final upload
  would accept as a part.

`Env` says what clients and the world may do, and each property says under
which `Env` the code provides it:

| Env | Meaning |
|---|---|
| `{}` | clients wait for the answer to a modifying request for an upload before they send the next; nothing fails |
| `"parallel"` | they do not wait |
| `"disconnect"` | they hang up, and may then retry while the old call is still running |
| `"crash"` | the process dies and is started again; the storages survive |
| `"fault"` | storage calls and hooks fail |

### HybridServer and the code

`HybridServer` extends `UploadServer` with `object`, the S3 object of each
upload. It keeps the actions that do not call the data storage (`SameStep`) and
replaces those that do, because the hybrid storage awaits S3 between its own
steps:

| Code in `s3_hybrid.rs` | Actions |
|---|---|
| `add_bytes` | `AddLocally`; when the upload is complete `OpenLocal`, `StreamMore`, `PutObject` (`upload_file`) and `DropLocal` |
| `concat_files` | `DownloadPart` for each part, into the temporary file `body[r]`, then `PutJoined` |
| `remove_file` | `DropObject` for parts, `RemoveStored` in `terminate` |
| `get_contents` | `ReadStored` |

S3 is external: a PUT makes the whole object visible at once, a DELETE succeeds
whether or not there is an object, and a call that fails may have been executed
(`StorageFault`). The parts of a final upload are downloaded concurrently to
files of their own and joined in order, so that downloading them one by one
shows the same; parts are all different here, since a part named twice would be
downloaded by two writers into one file. The hybrid storage has hazards that
the model contains and no property excludes, because the code promises nothing
about them:

* after a failure or a restart between moving the file to S3 and `set_info` the
  upload can never be finished, since its local file is gone;
* after a failing upload to S3 the client's retry appends its bytes again;
* a DELETE that read the upload before the last PATCH saved it removes nothing,
  and the object stays;
* an upload of length 0 never reaches S3: its download fails;
* the download of an incomplete upload fails too, although the code says "File
  isn't uploaded. Returning from local storage." (`s3_hybrid.rs:153`): the local
  storage is asked for `file_info.path`, which is the S3 key that `create_file`
  returned. (A server started in a directory where that key is by chance the path
  of the file would find it; the model leaves this out.);
* the empty local file of a final upload stays for ever;
* of two PATCH requests that set different deferred lengths each finishes the
  upload by its own, and the one with the lower may put its shorter object over
  the other's.

`HybridRefinement` says in what sense the two storages are one: seen through it,
the handlers over the hybrid storage are those over the file storage. An upload
that moves to S3 stays in one data file, since the local file counts as long as
it is there and then the object does; a handler that is moving it is one that is
about to save the info. In one thing the two differ: a GET of an incomplete upload,
or of one of length 0, is served by the file storage and fails here. Such requests
are excluded (`Unserved`): in the mapping their client has not sent them, so that
nothing is said of their answers. The local file of an upload of length 0 that was
terminated, which nobody can see any more, is gone in the mapping (`Emptied`).

### S3Server and the code

`S3Server` extends `HybridServer` with `multipart`, the open multipart upload
of each id and its parts. `metadata` of an info is what the code keeps there:
`None` without the key `_s3_upload_id`, else the list of the etags. An etag is
modelled by the content it identifies.

| Code in `s3_storage.rs` | Actions |
|---|---|
| `create_file` | `Initiate` |
| `add_bytes` | `PutPart`, numbered by the list in the info; `CompleteUpload` when the upload is complete |
| `concat_files` | `DownloadPart`, `PutJoined` of `HybridServer` |
| `remove_file` | `DropObject` for parts, `RemoveObject` in `terminate` |
| `get_contents` | `ReadObject` |
| S3 | a part number is replaced; completing checks the etags and closes the multipart upload; a failing call may have been executed (`S3Fault`) |

Hazards the model contains and nothing promises against: when
`complete_multipart_upload` succeeds and `set_info` then fails, no PATCH can
finish the upload; the multipart upload of an upload that is terminated before
it is complete is never aborted, and its parts stay in the bucket; an upload of
length 0 never gets an object. That S3 refuses parts below a minimum size is
not modelled.

One assumption is about clients. The storage keeps its id and its part list in the
metadata of the upload, under `_s3_upload_id` and `_s3_parts`, next to what
Upload-Metadata has put there (`creation/routes.rs:35-59`, `138-147`). `create_file`
(`s3_storage.rs:198-209`) sets the first key only. If the client has named the
second, `add_bytes` (154-159) takes its value for the list of parts: it numbers the
first chunk after it, or fails to parse it, and S3 never completes an upload with
parts it has not got. `Initiate` starts with no parts: `S3Server` is about uploads
whose Upload-Metadata has neither key, and `ListedPartsExact` is false for others.

### Config, Router, Notifications, Main and the code

`Config` holds the options that decide something, as one record per struct of
`config.rs`. `Accepted` is the verdict of clap: the enums parse (`Parsed`), what
an option requires is given (`BucketGiven`, `DsnGiven`), no two options conflict
(`OneTopic`, `NatsCompatible`). `Normalised` is `normalize_extentions`, `BaseUrl` is `base_url`.

| Code | Actions |
|---|---|
| `main`, `State::new` | `FromArgs`, `PrepareDataStorage`, `PrepareInfoStorage`, `NewNotifiers`, `PrepareAmqp` / `PrepareAmqpFails` / `NothingToPrepare`, `BuildRouter`, `Bind`; `stage` is how far it is, "exit" an error returned, "panic" a panic. Directories that cannot be made and clients of NATS and Kafka that cannot be built are "fault" |
| `build_router`, `protocol::setup`, `rustus_service` | `Routes`, `NotFound`, `MethodNotAllowed`; the layers `Welcome` (CORS), `Counted` (errors), `Layered` (Tus headers) |
| `health_check`, `metrics_handler`, `server_info` | `ReportStatus`, `ServerInfo` |
| `get_file`, `get_file_info` | `Read` |
| `write_bytes` up to `get_info` | `HeadersRefused` |
| `DefaultBodyLimit` | `BodyTooLarge`: the 413 of a POST or PATCH whose body axum does not take |
| `create_file`, `write_bytes`, `terminate` | `Reject` (a check fails), `Arrive`, then `Work`, `WorkFails` or `Cancel` (`?` after the pre-hook) |
| `send_message` of the manager | `Begin`, `Continue` (to the next notifier), `Fail` (the first error ends it); `at[j]` and `step[j]` are its position |
| file, dir, HTTP, Kafka notifiers, NATS with replies | `Call`, then `Accept`, `Refuse` or `NoAnswer`; `CallFails`; what arrives when nobody waits: `LateArrival` |
| NATS without replies | `PublishNats`, and `Deliver` |
| AMQP notifier | `ReuseChannel`, or `OpenChannel`, `BorrowConnection`, `CreateChannel`; `Publish`; `AmqpFails`; then `Deliver`, or `NoExchange` |
| mobc pools | `chan`, `conn`: what is open, and who has it; `ChannelReturned`, `ConnectionReturned`; `ConnectionLost` |
| hyper | `Disconnect`: the handler is dropped, and what it holds goes back to the pools |

A send `j` is a request with "pre" or "post". `got[s]` is what recipient `s` has
received, in order; `calls` are the calls under way, `stream` the messages on
their way to NATS or through an AMQP channel. `Env` is what may go wrong here:
`"refuse"`, `"fault"`, `"disconnect"`, `"outage"` (an AMQP connection breaks).
`HookStatus` are the statuses with which HTTP hooks refuse: any but a 2xx, which
`errors.rs:110-112` passes on to the client.
Option values are reduced to what the server tells apart; `?` stands for a name
that does not parse.

`TusUpload` has one variable, what each upload is: `Absent`, `Terminated`, or
offset, length and content. `UploadRefinement` maps an upload of the server to
it: the upload takes effect when its info is saved (the file is opened: from
then on the info that is being written counts), its content is what the data
file holds up to the saved offset, and it is terminated when its info has been
removed. `HybridServer` maps to the same specification: the content is in the
local file or, once that is gone, in the object.

## 3. Runs

Passing runs:

| Run | Env | Shows |
|---|---|---|
| `HostileFile` | everything | `DataCoversOffset`, `InfoHasData`, `TerminatedIsGone`, `ForeignUntouched` with the file info storage |
| `Serial` | `{}` | `StoredExactly`, `DownloadIsUpload`, and that the handlers implement `TusUpload` |
| `SerialRestarts` | crash, fault; Redis with lost answers | `AckedOffsetKept`, `FinishedOnce`, `CompleteUntouched`, `LengthFixed` |
| `Concat` | `{}` | `TypeOK`, `FinalIsConcatenation`, `PartsSurviveFailure` with `remove_parts` |
| `Liveness` | parallel | `EveryRequestAnswered`, `FinishNotified`, `OrphanReclaimed` under `FairSpec` |
| `HybridSerial` | `{}` | `HybridStored`, `DownloadIsUpload`, and that the handlers over the hybrid storage implement `TusUpload`, and `UploadServer` but for the downloads of incomplete and empty uploads (`HybridImplementsUploadServer`) |
| `HybridHostile` | everything | `HybridTypeOK` and `CompleteHasObject`, with concatenation and `remove_parts`, without deferred lengths: what is reported complete is in S3 |
| `S3Hostile` | everything; Redis with lost answers | `S3TypeOK`, `ListedPartsExact`, `CompleteIsExact`, `DownloadIsWhole`, `DeletedObjectGone`: the etags in the info protect the upload from every race of the part list |
| `Lifecycle` | everything | from the command line to two answered requests: `TypeOK`, `RefusalCancels`, `ToldInOrder`, `PreBeforePost`, `ChannelsSound`, `AdvertisedIsServed`, `ErrorsCounted`, `StorageIsReady`, and under `HooksFair` `SendsEnd` and `PostHookArrives` |

Runs TLC refutes, each a statement of the repository:

| Run | Statement | What the code does |
|---|---|---|
| `OffsetRace` | "Checking if offset from request is the same as the real offset" (`write_bytes.rs:87`) | two PATCH requests with one offset pass the check together and both append |
| `RedisZombie` | "This method will remove all data by id" (`termination/routes.rs:22`) | a PATCH under way sets the info again after DELETE has answered: the Redis storage ignores `create` |
| `StorageUnprepared` | prepare "MUST throw errors if connection can't be established or in any other case that might be a problem later on" (`data_storage/base.rs:18-20`) | the hybrid storage looks at nothing (`s3_hybrid.rs:143`): with the infos in Redis the server starts without `data_dir`, and every POST fails |

The same races refute `LengthFixed` under `"parallel"` (two PATCH requests both
set a deferred length), and `FinishNotified` under `"disconnect"` (the client
hangs up during `set_info`: the upload is complete and post-finish is never
sent, nor can a retry bring it about, since it gets FrozenFile). These two are
stated for the environments in which the code provides them.

The models contain some more behaviour that nobody may expect, and that needs no
run to be seen:

* the gauge "Number of active file uploads" (`metrics.rs:25`) goes down only
  when a PATCH finishes an upload, not for uploads that are terminated, that are
  complete on creation or whose creation fails;
* the extension checksum "allows you to verify checksum of every batch"
  (`docs/configuration.md:398`), but `create_file` stores the first bytes of a POST
  without looking at Upload-Checksum (`creation/routes.rs:238-253`): only
  `write_bytes` verifies it, and `AdvertisedIsServed` speaks of PATCH only;
* with a part named twice and `remove_parts` (`docs/configuration.md:403`) the
  second removal fails: 404, no final upload, and the part is gone;
* "AMQP hooks won't cancel the upload, since it's non blocking type of hooks"
  (`docs/hooks.md:24`), but the AMQP notifier is awaited like the others: when the
  broker cannot be reached (`AmqpFails`), its error ends `create_file` (`Cancel`);
* the status of an HTTP hook is passed on to the client (`errors.rs:110-112`), who
  takes a 3xx for a redirection, and a 405 for the answer of a server without the
  extension. `AdvertisedIsServed` therefore says: what OPTIONS does not list is
  answered with 405, and what it lists only if an HTTP hook has refused it;
* the NATS notifier panics on a request header that is not ASCII
  (`nats_notifier.rs:71`);
* the "s3" storage is not among the values for which clap requires the options
  of the bucket: without them the start panics;
* an extension listed twice makes axum panic at the start (`Overlapping`), and so
  does the url "/";
* the 404 of an unknown path is not counted as an error and has no CORS headers,
  and `method_override` (`main.rs:243`) runs after the dispatch, without effect.

### Bounds

One upload (`i1`), one POST, two PATCH, one DELETE and where it matters a
foreign id, a GET and a HEAD are enough: every check of a handler concerns one
upload, the races are between two requests of the four kinds, and a third PATCH
would only repeat the second. Two bytes are the least with a beginning, a
middle offset and an end; with chunks of 0, 1 and 2 bytes a chunk may be empty,
too short, fitting or too long (`HostileFile`, whose environment is the widest,
leaves empty chunks and uploads to `Serial` and `SerialRestarts`). Concatenation
needs three ids, two parts and a final upload; in `Concat` lengths 1 and 2 tell
the order of parts. `HybridHostile` takes one part and a final upload, with a
PATCH, a DELETE and restarts; one byte is enough there, since what matters is
which PATCH completes the upload. `S3Hostile` needs two chunks, for two parts,
and splits its requests into three scenarios (`MCS3Server`): two PATCH and a
DELETE, a concatenation with a PATCH, and a download with a PATCH. Each request
is used once, which bounds all counters. Ids and requests of one kind are
symmetric; the runs with temporal properties use no symmetry.

`Lifecycle` takes two requests, two AMQP channels and one connection, so that
two sends meet in both pools: a second channel is opened while the first is in
use, and both need the one connection. Its scenarios (`MCScenarios`) are pairs of
options and requests: six servers without hooks with all pairs of thirteen
requests, fifteen sets of options that the start may not survive, six servers
with hooks and every kind of recipient with a POST and a DELETE, one where both
requests are the last PATCH of an upload, and one with a POST that a hook may
refuse and an OPTIONS. `HookStatus` is `{304, 405}`: a refusal that is no error,
and the one that looks like a route that is not there.

`Quiet` lets the server wait when all requests are over, so that TLC's deadlock
check reports a handler that cannot go on. The runs of `MCMain` check no
deadlock: `main` may exit, and a server whose requests are used up stops; that
nothing is stuck before is what `SendsEnd` says.

### Fairness

`FairSpec` gives weak fairness to the pending storage call of each handler and
to the sending of hooks: tokio polls every task that is ready, and a blocking
call ends. Clients owe nothing: `Arrive` is not fair. The hooks are fair
together, not each: `Send` for some hook, which suffices because sent hooks
leave the finite set.

`HooksFair` gives weak fairness to `SendStep` of each send and to each stream.
A send is polled whenever it can go on; a recipient that is awaited answers, or
else its timeout ends the call, which the model allows at any time (the one call
without a timeout is `command.wait()` of the file and directory hooks: there the
fairness says that commands end). A send that waits for a place in a pool is
only scheduled when there is one, so that `SendsEnd` really says that places come
back. Requests, failures and refusals owe nothing.

## 4. Proofs

For every set of ids and requests, every configuration, every environment and
every set of inputs that satisfies the ASSUMEs of `UploadServer`:

| Theorem | Statement |
|---|---|
| `UploadTypeProofs.TypeCorrect` | `Spec => []TypeOK` |
| `DataCovered` | `Spec => []DataCoversOffset` |
| `ForeignSafe` | `Spec => []ForeignUntouched` |
| `TerminatedStaysGone` | file info storage: `Spec => []TerminatedIsGone` |
| `InfoKeepsData` | file info storage, no `remove_parts`: `Spec => []InfoHasData` |

The argument has three layers.

1. `TypeInv` = `TypeOK` and `LocalsOK`: where a handler is determines what its
   local variables hold. Without it the loops over parts could leave the list,
   and `part.length.unwrap()` could fail.
2. `Inv` adds
   * `IdsInv`: an info is stored under its own id; an upload whose info is not
     saved yet is known to its own handler only (`Private`); the infos a final
     upload has read are those of the parts it names. It is what makes
     `create_file` harmless: the file it empties is nobody's.
   * `ForeignInv`: a final upload removes the info of a part only after it has
     removed its file, and a foreign part has none. This, not a check of
     `storage`, is what protects foreign parts.
   * `CoverInv`: `DataCoversOffset` and `Backed`: the offset a handler is about
     to save, and the length of a part it has checked, are covered by the file,
     or the file is gone. Files only grow or go, so that a handler with a stale
     `FileInfo` still saves an offset that is covered.
3. `FileInv` adds, for the file info storage, `RemovedInv` and `GoneInv`: from
   `remove_info` on the info stays absent, because only the POST that owns the
   id may create it (`Private`), `set_info` of a PATCH fails to open it, and one
   that has it open writes to a file that is unlinked (`Written`). Once the file
   is gone too nobody makes it again, since `add_bytes` never creates one.

`RedisZombie` shows that the assumption `InfoKind = "file"` of layer 3 is needed.

### Clients that wait

What the handlers promise beyond this they promise to clients that behave: they
send one modifying request for an upload (and one final upload for a part) at a
time and wait for its answer. `ClientsWait` is `Env` without `"parallel"` and
`"disconnect"`; failing calls, lost answers of Redis and restarts remain.
`OffsetRace` shows what happens without it.

| Theorem | Statement, for `ClientsWait` |
|---|---|
| `UploadSerialProofs.AcknowledgedIsKept` | `Spec => []AckedOffsetKept` |
| `CompleteStaysUntouched` | `Spec => CompleteUntouched` |
| `LengthStaysFixed` | `Spec => LengthFixed` |
| `FinishToldOnce` | `Spec => []FinishedOnce` |

The invariant is `SerialInv`: `Inv` and

* `Alone`: two handlers at work modify different uploads, and neither takes a
  part the other modifies or takes;
* `Current`: what a handler read before its first await still holds. This is
  the stale read that makes the code race, and it follows from `Alone` only;
* `TornKind`, `Present`: torn infos exist in files only, and a data file goes
  only for a client who asked for it;
* `Acked`: what was answered is recorded and covered. It says more than
  `AckedOffsetKept`: a handler that is just writing the info must not lower it;
* `FinishInv`: an announced upload is `Frozen`: it is complete and no handler is
  going to save it. Without this a second completion could be under way.

Its proof separates what a step does from what follows. `Effect` lists what a
step of one handler may do to the handlers, the infos, the data and the hooks;
every action has such an effect (`ProceedEffect`, `FaultEffect`, ...), and the
parts of `SerialInv` are shown to survive `Effect`, each once.

### When nothing fails

`NothingFails` is `Env = {}`. It is needed: a failing append leaves bytes that
no info counts, and the retry of the client appends after them.

| Theorem | Statement, for `NothingFails` |
|---|---|
| `UploadExactProofs.StorageIsExact` | `Spec => []StoredExactly` |
| `DownloadIsExact` | `Spec => []DownloadIsUpload` |
| `PartsSurvive` | parts named once: `Spec => []PartsSurviveFailure` |
| `FinalIsJoined` | `Spec => []FinalIsConcatenation` |
| `UploadRefinementProofs.ImplementsTus` | no concatenation: `Spec => ImplementsTusUpload` |

* `ExactInv` adds to `SerialInv` that data and info of an upload agree but for the
  call a handler is about to make (`Exact`), and what each handler counts on
  until then (`Sound`): its bytes continue what is stored; a handler that is
  reading a complete upload reads one that is `Frozen`.
* `PartsInv` adds, for a request that creates a final upload, that the parts it
  has read are as it read them until it removes them itself, so that from then
  on no call of it can fail (`PartKept`). A part that is gone was taken by a
  request that does not fail (`Commits`). `OnceEach`, that no list names a part
  twice, is needed: see what section 3 says of parts named twice.
* `ConcatInv` adds that the parts that were read are complete and stay so
  (`Complete`), and that the data file is the concatenation of those copied so
  far (`Composed`). `ConcatAppend`, one more piece at the end, carries the loop.
  `Concatenates` says where the pieces begin instead of flattening a list, so
  that a proof about all numbers of parts needs no induction over the list.
* `ImplementsTus` is a step simulation. `TusInv` adds to `ExactInv` what the guards
  of `TusUpload` ask for (`Plain`, `Fits`); a step that saves an info is the
  abstract `CreateUpload` or `AppendChunk` (`Published`, `SaveSeen`, `OpenSeen`), `RemoveInfo` is
  `Terminate`, and every other step leaves all of `Uploads` as it is
  (`UnseenStep`). `TusUpload` has no uploads made of others, hence the assumption
  that the extension is off (`NoConcat`).

### The hybrid storage

About `HybridServer`, for every set of ids and requests, every configuration and
every environment, from the ASSUMEs of `UploadServer`:

| Theorem | Statement |
|---|---|
| `HybridProofs.HybridTypeCorrect` | `HybridSpec => []HybridTypeOK` |
| `CompleteHaveObjects` | no deferred lengths: `HybridSpec => []CompleteHasObject` |

What is complete and what is stored are changed by different awaits of different
handlers, so the invariant `HybridInv` is about the time between them:

* `LongData` and, for the handlers at work, `StoredFor`: the local file covers
  the offset of the info and the one each handler is about to save, or it is
  gone. A handler that finds the upload complete therefore opens a file that is
  long enough, and what it streams is never shorter (`Covers`, `body`).
* `LongObjects`: an object is as long as *every* length anybody knows, in an
  info, in a handler at work or one that ended. This is where two handlers have
  to agree on the length of an upload (`Agreement`), and where deferred lengths
  are excluded (`NoDeferral`): two PATCH requests may set different ones.
* `Uploaded`: from the PUT to `set_info` the object stays. A DELETE in between
  has removed the info before, and then `set_info` does not find the file to
  write (the info storage keeps files: `StoredFor` says that the info of an
  upload whose object is being removed is absent, and it never comes back). A
  final upload that takes it as a part is the exception the property names
  (`Taken`), which lasts because a request keeps its `file_info` (`TakenKept`).
* `Private`, `IdsUsed`, `PartsRead`: nobody knows an upload before its info is
  saved, and an id that was not drawn has neither info nor object.

As in `SerialInv` the proof separates what a step does from what follows:
`Effect(r)` bounds what a step of one handler may do to the infos, the files, the
objects and the handlers, every action is shown to have that effect, and one
lemma per part of the invariant shows that the others do not notice it
(`EffectKept`). What is left for each action is `StoredFor` of the handler that
took it.

`Calm` is `Env = {}` without concatenation. Under it, for every set of ids and
requests, both info storages and every configuration of the rest, deferred
lengths included, from the ASSUMEs of `UploadServer` and `AbsentAssumption`
(`Absent` and `Terminated` are no uploads):

| Theorem | Statement, for `Calm` |
|---|---|
| `HybridIsUploadServer` | `HybridSpec => HybridImplementsUploadServer` |
| `HybridIsTusUpload` | `HybridSpec => HybridImplementsTusUpload` |
| `HybridStoredExactly` | `HybridSpec => []HybridStored` |
| `HybridDownloadIsExact` | `HybridSpec => []DownloadIsUpload` |

* `Up` is the instance of `UploadRefinementProofs` through the mapping of
  `HybridRefinement`. So everything proved there of a step of `UploadServer` may be
  used of a step over the hybrid storage that maps to one; in particular
  `Up!TusInv` is preserved.
* `CalmInv` is `Up!TusInv` with `HybridTyped` and what the mapping hides: which of
  the two storages has the bytes. `PlacedFor` says it for each handler at work (at
  `put` the local file is complete and `body` is all of it, at `dropLocal` both
  copies are the same), `OnePlace` for every upload nobody works on.
* `Seen` is the step simulation: a step of `HybridNext` is a step of `UploadServer`
  or changes nothing there. `OpenLocal`, `StreamMore`, `PutObject` and `DropLocal`
  change nothing (`UnseenCalm`); `AddLocally` is `AddBytes`, `RemoveStored`
  is `RemoveFile`, `ReadStored` is `GetContents` or belongs to a download that the
  mapping leaves out; the rest are the actions of the same name. Each uses that the
  handler is alone with its upload (`Up!Alone`). Between the
  two awaits of a download that is not left out nobody writes to its upload, and
  the bytes stay where it looks for them (`Reads`, `Settled`).
* `HybridIsUploadServer` is the composition of both. `HybridIsTusUpload` composes the
  two refinements: `HybridUploads` is what `UploadRefinement` makes of the mapped
  variables (`SameUploads`). `HybridStored` and `DownloadIsUpload` are the statements of
  `UploadExactProofs` together with the place.

### The S3 storage

About `S3Server`, and so for uploads whose Upload-Metadata has neither of the keys
the storage reserves; for every set of ids and requests, every configuration, both
info storages and every environment, from the ASSUMEs of `UploadServer` and
`PartsAssumption` (`None` is no list of parts):

| Theorem | Statement |
|---|---|
| `S3Proofs.S3TypeCorrect` | `S3Spec => []S3TypeOK` |
| `ListedAreExact` | `S3Spec => []ListedPartsExact` |
| `CompleteExact` | `S3Spec => []CompleteIsExact` |
| `DownloadsAreWhole` | no deferred lengths: `S3Spec => []DownloadIsWhole` |
| `DeletedObjectsGone` | `S3Spec => []DeletedObjectGone` |

An upload has one multipart upload in its life, and that is completed at most
once. `S3Inv` says so from three sides:

* `OpenIncomplete`: while the multipart upload is open nobody holds the upload
  as complete, neither the info nor a handler, also one that has ended: no
  handler can have read what was never stored.
* `OnePending`: the request that completed it and has not saved the info yet is
  alone in holding the upload as complete. So no other request can finish the
  upload (`Completes`), remove its object (`RemoveObject`) or take it as a part
  in the meantime.
* `WholeStored`, `ObjectsWhole`: an upload that is held as complete has its
  object, unless it was taken as a part (`Taken`), and there is no object but
  the complete one; `RemovedIncomplete` is what lasts of this when a PATCH under
  way brings the info of a terminated upload back to Redis.

`PartsExact` and `ChunkExact` carry the bytes: what the list in a `FileInfo`
names are the bytes before its own offset, and the chunk under way continues
them. A stale `FileInfo` is wrong about the multipart upload but never in itself,
and S3 compares the two when it completes (`Completable`). Two handlers agree on
whether an upload is final and whether it is empty (`Agreement`); on its length
only where lengths are not deferred, since racing PATCH requests may set two,
which is why `DownloadsAreWhole` has that assumption. (The run has it too.)

An action changes few of these parts, so each comes with what leaves it alone:
an info kept or removed (`InfosKept`), handlers that keep their upload
(`FilesKept`), that were at work before (`FlightKept`), that hold no more
complete uploads (`WholeKept`).

The bytes of a list of parts are `FlattenSeq`, a recursive function of the
community modules. `FlattenAppend`, that one more part adds its bytes at the end,
is proved from its definition by induction on the number of parts
(`AllNumbers`: a set that holds 0 and each successor holds every number, from the
library's minimum of a well-founded relation).

### The server

About `Main`, for all sets of scenarios, requests, channels, connections, origins
and statuses of hooks, and every environment, from the ASSUMEs of `Router`,
`Notifications` and `Main` (`Req` is finite, `Env` is a set of what is listed, no
hook refuses with a status below 300 or above 999, the scenarios are options and
requests, `None` is none of the values):

| Theorem | Statement |
|---|---|
| `MainProofs.TypeCorrect` | `Spec => []TypeOK` |
| `RefusalHolds` | `Spec => []RefusalCancels` |
| `ErrorsCountedHolds` | `Spec => []ErrorsCounted` |
| `StorageIsReadyHolds` | `Spec => []StorageIsReady` |
| `ChannelsSoundHolds` | `Spec => []ChannelsSound` |
| `ToldInOrderHolds` | `Spec => []ToldInOrder` |
| `PreBeforePostHolds` | `Spec => []PreBeforePost` |
| `AdvertisedIsServedHolds` | `Spec => []AdvertisedIsServed` |

* `TypeInv` is `TypeOK` with what connects its variables: the phase of a request
  and its sends (`PhaseOK`), what a send waits for (`WaitsOK`), to whom
  connections are lent (`ConnInv`), and that streams carry messages only when the
  server serves (`StreamInv`). All actions are of three kinds: a send goes on
  (`GoesOn`), an exchange ends (`Ends`), and the rest.
* `RefusalCancels`: whoever is refused has failed (`RefusedFailed`), a send that
  ended stays as it ended (`EndedStays`), and a handler works only after a
  pre-hook that ended well (`WorksAllowed`). Late answers touch neither.
* `ErrorsCounted` counts a set that grows by one request, once; this uses the
  library's theorems on cardinality, and that `Req` is finite.
* `StorageIsReady` follows from what `main` has prepared at each stage
  (`Prepares`).
* `ChannelsSound` is inductive with `TypeInv`: whatever a send does to the
  channels is one of four things (`ChannelsKept`, `WithoutChannel`,
  `ChannelGivenBack`, `ChannelTaken`).
* `ToldInOrder` needs `OrderInv`: the awaited recipients that a send has passed
  have said yes, and those it has not reached know nothing. From it follows that
  nobody has heard of a post-hook before its pre-hook ended, and so `PairInv`,
  from which `PreBeforePost` follows.
* `AdvertisedIsServed` needs that sorting the options loses no extension, or the
  "creation" that `normalize_extentions` appends might get lost (`SortedSet`). `Sorted`
  puts as many copies of each extension as there are in the place of its name;
  the extensions are seven, so the list is seven pieces joined, and no induction
  over it is needed. `OptionsInv` says what `from_args` has made of the options,
  `AnswersInv` that each answer agrees with them: a served request is answered with
  405 only if its pre-hook ended with the error of an HTTP hook (`Declined`), which
  then stays as it ended. Of checksums it says only that a PATCH is verified; for
  the first bytes of a POST that is false (section 3).

TLC confirmed the named parts of the invariants on small instances before they
were proved.

### Left to TLC

Liveness under fairness, which is outside the prover: `SendsEnd` and
`PostHookArrives` of `Lifecycle`, and `EveryRequestAnswered`, `FinishNotified` and
`OrphanReclaimed` of `Liveness`. Every invariant and every action property of the
passing runs is proved, and so are the three refinements.

## 5. Plan

What is left, in this order.

1. Expiry in Redis, as an action of the environment, and which of the properties
   of uploads survive it.
2. `Notifications` composed with `UploadServer`, so that refusals and storage
   failures meet in one model.

## 6. Not modelled

* Expiry in Redis: an upload may then vanish at any time, which
  `TerminatedIsGone` and the others do not consider.
* That S3 refuses all but the last part below a minimum size. An upload that
  was sent in smaller chunks then fails to complete.
* Uploads to the S3 storage whose Upload-Metadata has `_s3_upload_id` or
  `_s3_parts` (section 2, S3Server and the code).
* Of the options of the Kafka client only the extra ones are told apart; a value of
  another that it rejects is one of the failures of the start (`NewMayFail`).
* Message formats, `remote_addr`, `dir_structure`, `generate_disposition`,
  metadata and file names, logging, sentry and the greeting: they format, and no
  property tells their results apart. The same goes for the topics of Kafka and the subjects
  of NATS; the AMQP routing key is modelled, since it decides who gets a message.
* fsync and `force_fsync`: crashes are of the process, not of the machine. The
  histogram of upload sizes and the number of workers.
* The streaming of a GET. It is read at one moment in the model: bytes appended
  during the download of an incomplete upload may or may not be in the answer,
  and the properties speak of complete uploads only.
* Numbers in options: `s3_concat_concurrent_downloads = 0`, for one, makes a
  concatenation wait for ever (`buffer_unordered(0)`).
* In `UploadServer`: the differences between error statuses (they are in
  `Router` and `Notifications`) and a second recipient of hooks.

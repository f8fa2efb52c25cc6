------------------------------- MODULE Router -------------------------------
(***************************************************************************)
(* The routes of build_router and protocol::setup, and the layers around   *)
(* them: Tus headers, CORS, error metrics.  The request handlers with      *)
(* hooks are in Notifications, what they store is in UploadServer.         *)
(*                                                                         *)
(* axum applies a layer to the routes that are there when it is added, and *)
(* after the dispatch on the method: the fallback of unknown paths, added  *)
(* last, has none, and method_override changes a method that the dispatch  *)
(* has used already.                                                       *)
(***************************************************************************)
EXTENDS Config, FiniteSets

CONSTANTS
  Req,   \* requests, each used once
  None   \* Option::None

(* What a client sends; whole: the bytes complete the upload; checksum: that of the *)
(* bytes, if any, in Upload-Checksum.                                               *)
Method == {"OPTIONS", "POST", "HEAD", "PATCH", "GET", "DELETE"}
HttpRequest ==
  [path : {"base", "file", "health", "metrics", "unknown"}, method : Method, whole : BOOLEAN,
   origin : Origin \cup {None}, headers : SUBSET {"Content-Type", "Upload-Offset"},
   checksum : {None, "right", "wrong", "unknown", "malformed"}]

(* origin is Access-Control-Allow-Origin, tus stands for Tus-Resumable and Tus-Version. *)
Response ==
  [status : 200..999, origin : Origin \cup {None, "*"}, tus : BOOLEAN,
   extensions : SUBSET Extensions, algorithms : BOOLEAN]

VARIABLES
  request,      \* request[r]: what r is
  phase,        \* phase[r]: "idle", "open" while its handler runs, "done"
  resp,         \* resp[r]: its response, None as long as there is none
  found_errors  \* the counter of that name, all its labels together

exchanges == <<request, phase, resp, found_errors>>
rvars == <<settings, exchanges>>

Enabled(e) == e \in ToSet(conf.tus_extensions)

ASSUME ReqAssumption == IsFiniteSet(Req)

(* RustusError::status_code; Other stands for the variants that are not listed there. *)
StatusCode ==
  [FileNotFound |-> 404, WrongOffset |-> 409, FrozenFile |-> 400, HookError |-> 400,
   UnknownHashAlgorithm |-> 400, WrongHeaderValue |-> 400, WrongChecksum |-> 417, Other |-> 500]
-----------------------------------------------------------------------------
(* setup: the methods that an extension adds; a second POST, GET or DELETE of the *)
(* same path would panic.                                                         *)
AddedBy(e) ==
  CASE e = "creation"    -> {<<"base", "POST">>}
    [] e = "getting"     -> {<<"file", "GET">>}
    [] e = "termination" -> {<<"file", "DELETE">>}
    [] OTHER             -> {}

Overlapping ==
  \E k, l \in DOMAIN conf.tus_extensions :
    /\ k # l
    /\ AddedBy(conf.tus_extensions[k]) \cap AddedBy(conf.tus_extensions[l]) # {}

AlwaysServed ==
  {<<"base", "OPTIONS">>, <<"file", "PATCH">>, <<"file", "HEAD">>}
    \cup {"health", "metrics"} \X {"GET", "HEAD"}

Routes == AlwaysServed \cup UNION {AddedBy(e) : e \in ToSet(conf.tus_extensions)}
Known(q) == q.path # "unknown"
Served(q) == <<q.path, q.method>> \in Routes
-----------------------------------------------------------------------------
(* cors_middleware: every origin is welcome if there are no patterns. *)
Welcome(q) ==
  IF conf.cors = {} THEN "*"
  ELSE IF \E pattern \in conf.cors : q.origin \in pattern THEN q.origin
  ELSE None

(* Around the handler: SetResponseHeaderLayer (rustus_service), error_metrics, cors_middleware. *)
IsError(status) == status >= 400
EveryAnswer(status) ==                   \* mutant of Counted
  found_errors' = found_errors + 1
Counted(status) ==
  found_errors' = found_errors + (IF IsError(status) THEN 1 ELSE 0)

Layered(q, status, extensions) ==
  [status |-> status, origin |-> Welcome(q), tus |-> q.path \in {"base", "file"},
   extensions |-> extensions,
   algorithms |-> extensions # {} /\ Enabled("checksum")]

Respond(r, response) ==
  /\ phase' = [phase EXCEPT ![r] = "done"]
  /\ resp' = [resp EXCEPT ![r] = response]
  /\ UNCHANGED <<settings, request>>

(* The answer of a handler, through the layers. *)
Answer(r, status) ==
  /\ Respond(r, Layered(request[r], status, {}))
  /\ Counted(status)

(* The connection is closed without one. *)
NoResponse(r) ==
  phase' = [phase EXCEPT ![r] = "done"] /\ UNCHANGED <<settings, request, resp, found_errors>>
-----------------------------------------------------------------------------
(* NormalizePath and the dispatch *)
Comes(r) == stage = "serving" /\ phase[r] = "idle"

NotFound(r) ==
  /\ Comes(r) /\ ~Known(request[r])
  /\ Respond(r, [status |-> 404, origin |-> None, tus |-> FALSE,
                 extensions |-> {}, algorithms |-> FALSE])
  /\ UNCHANGED found_errors

MethodNotAllowed(r) ==
  /\ Comes(r) /\ Known(request[r]) /\ ~Served(request[r])
  /\ Answer(r, 405)

(* health_check, metrics_handler *)
ReportStatus(r) ==
  /\ Comes(r) /\ request[r].path \in {"health", "metrics"} /\ Served(request[r])
  /\ Answer(r, 200)

(* server_info: the list of extensions, and the algorithms if checksums are on *)
Advertised == {e \in Extensions : Enabled(e)}
ServerInfo(r) ==
  /\ Comes(r) /\ request[r].path = "base" /\ request[r].method = "OPTIONS"
  /\ Respond(r, Layered(request[r], 200, Advertised))
  /\ Counted(200)

(* GET and HEAD of an upload call no hook. *)
Read(r) ==
  /\ Comes(r) /\ request[r].path = "file" /\ request[r].method \in {"GET", "HEAD"}
  /\ Served(request[r])
  /\ \E status \in {200, StatusCode.FileNotFound, StatusCode.Other} : Answer(r, status)

(* DefaultBodyLimit: create_file and write_bytes take the body, and it is too large. *)
BodyTooLarge(r) ==
  /\ Comes(r) /\ Served(request[r]) /\ request[r].method \in {"POST", "PATCH"}
  /\ Answer(r, 413)

(* write_bytes up to get_info: the headers it needs, and verify_chunk_checksum *)
HasHeaders(q) == q.headers = {"Content-Type", "Upload-Offset"}
HeaderStatus(q) ==
  CASE ~HasHeaders(q) -> 415
    [] Enabled("checksum") /\ q.checksum = "wrong" -> StatusCode.WrongChecksum
    [] Enabled("checksum") /\ q.checksum = "unknown" -> StatusCode.UnknownHashAlgorithm
    [] Enabled("checksum") /\ q.checksum = "malformed" -> StatusCode.WrongHeaderValue
    [] OTHER -> 0

HeadersRefused(r) ==
  /\ Comes(r) /\ request[r].path = "file" /\ request[r].method = "PATCH"
  /\ HeaderStatus(request[r]) # 0
  /\ Answer(r, HeaderStatus(request[r]))

(* The other requests reach the code that Notifications and UploadServer model. *)
Handled(r) ==
  /\ Comes(r) /\ Served(request[r])
  /\ \/ request[r].method \in {"POST", "DELETE"}
     \/ request[r].method = "PATCH" /\ HeaderStatus(request[r]) = 0

Dispatch(r) ==
  \/ NotFound(r)
  \/ MethodNotAllowed(r)
  \/ ReportStatus(r)
  \/ ServerInfo(r)
  \/ Read(r)
  \/ BodyTooLarge(r)
  \/ HeadersRefused(r)

RouterInit ==
  /\ phase = [r \in Req |-> "idle"]
  /\ resp = [r \in Req |-> None]
  /\ found_errors = 0
-----------------------------------------------------------------------------
Answered(r) == resp[r] # None

(* The counter is the number of the error answers that clients got, whatever the    *)
(* handlers and the hooks did; only unknown paths are left out (no layer is there). *)
ErrorsCounted ==
  found_errors =
    Cardinality({r \in Req : Answered(r) /\ Known(request[r]) /\ IsError(resp[r].status)})
=============================================================================

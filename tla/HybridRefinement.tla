-------------------------- MODULE HybridRefinement --------------------------
(***************************************************************************)
(* Over the hybrid storage the handlers do, step by step, what they do     *)
(* over the file storage: the mapping from HybridServer to UploadServer.   *)
(* In it an upload that moves to S3 stays where it is, in one data file.   *)
(* One kind of request is left out of it, since there the two storages     *)
(* differ: the download of an upload that is incomplete or empty.          *)
(***************************************************************************)
EXTENDS HybridServer

ASSUME AbsentAssumption ==
  /\ Absent # Terminated
  /\ {Absent, Terminated} \cap [offset : Nat, length : Nat \cup {None}, content : Seq(Nat)] = {}

(* A handler that moves its upload to S3, seen as one that is about to save the info. *)
Moving(r) == pc[r] \in {"open", "put", "dropLocal"}

(* A GET of an upload that is incomplete or empty.  It is answered with an error, *)
(* where the file storage has a file to answer with; in the mapping its client    *)
(* has not sent it.                                                               *)
Unserved(r) ==
  Method[r] = "GET" /\ file[r] # None /\ (Finished(file[r]) => file[r].length = 0)

(* A terminated upload: one of length 0 leaves a local file, which nobody sees. *)
Emptied(i) ==
  \E r \in Req : Method[r] = "DELETE" /\ resp[r] = "ok" /\ file[r] # None /\ file[r].id = i

localPc == [r \in Req |-> IF Moving(r) THEN "save" ELSE IF Unserved(r) THEN "idle" ELSE pc[r]]
localResp == [r \in Req |-> IF Unserved(r) THEN "none" ELSE resp[r]]
localFile ==
  [r \in Req |-> IF Unserved(r) THEN None
                 ELSE IF Moving(r) THEN [file[r] EXCEPT !.offset = file[r].length] ELSE file[r]]
localBody == [r \in Req |-> IF Moving(r) THEN <<>> ELSE body[r]]
localData ==
  [i \in Id |-> IF Emptied(i) THEN None ELSE IF data[i] # None THEN data[i] ELSE object[i]]

Local == INSTANCE UploadServer WITH
  pc <- localPc, resp <- localResp, file <- localFile, body <- localBody, data <- localData

(* Env = {}, no concatenation; downloads of incomplete and empty uploads left   *)
(* out, which the file storage answers with the bytes there are and this one    *)
(* with an error.  Every other step over the hybrid storage is the step that    *)
(* the same handler takes over the file storage, with the same answer, or moves *)
(* bytes without changing anything there: the bytes of an upload may be taken   *)
(* for one file, wherever they are, although add_bytes copies them to S3 in     *)
(* three awaits and the two storages delete them by what a FileInfo says.       *)
HybridImplementsUploadServer == Local!Spec
=============================================================================

-------------------------- MODULE UploadRefinement --------------------------
(* The handlers of UploadServer, step by step, do what TusUpload does at once. *)
EXTENDS UploadServer

CONSTANTS Absent, Terminated    \* the states of an upload that does not exist, in TusUpload

ASSUME AbsentAssumption ==
  /\ Absent # Terminated
  /\ {Absent, Terminated} \cap [offset : Nat, length : Nat \cup {None}, content : Seq(Nat)] = {}

Deleted(i) == \E r \in Req : Method[r] = "DELETE" /\ file[r] # None /\ file[r].id = i

(* An upload takes effect when set_info begins to save its info and ends when  *)
(* its info is removed; what the data file holds beyond the saved offset is    *)
(* not part of the upload yet.                                                 *)
Upload(i) ==
  IF Recorded(i) # None
  THEN [offset |-> Recorded(i).offset, length |-> Recorded(i).length,
        content |-> SubSeq(data[i], 1, Recorded(i).offset)]
  ELSE IF Deleted(i) THEN Terminated ELSE Absent

Uploads == [i \in Id \ Foreign |-> Upload(i)]

Tus == INSTANCE TusUpload WITH
  Id <- Id \ Foreign, Sizes <- Chunks \cup {0}, NoLength <- None, uploads <- Uploads

(* Env = {}, no concatenation.  Every step of a handler is a step of TusUpload  *)
(* or leaves every upload as it is.                                            *)
ImplementsTusUpload == Tus!Spec
=============================================================================

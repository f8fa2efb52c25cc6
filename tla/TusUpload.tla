------------------------------ MODULE TusUpload ------------------------------
(***************************************************************************)
(* What rustus promises a client that sends one modifying request for an   *)
(* upload at a time: an upload is created, grows by chunks appended at its *)
(* offset, may get its length late but only once, is frozen when the       *)
(* offset equals the length, and is terminated for good.  Every request    *)
(* happens at once.                                                        *)
(***************************************************************************)
EXTENDS Integers, Sequences

CONSTANTS
  Id, Lengths, Sizes,         \* upload ids, Upload-Length values, body sizes
  Absent, Terminated, NoLength

VARIABLE uploads    \* uploads[i]: Absent, Terminated or an upload

Exists(i) == uploads[i] \notin {Absent, Terminated}
Complete(i) == Exists(i) /\ uploads[i].length = uploads[i].offset

(* The bytes o+1 .. o+n of the upload. *)
Chunk(o, n) == [k \in 1..n |-> o + k]

(* POST, with the first n bytes in its body. *)
CreateUpload(i, length, n) ==
  /\ uploads[i] = Absent
  /\ uploads' = [uploads EXCEPT ![i] = [offset |-> n, length |-> length, content |-> Chunk(0, n)]]

(* PATCH: n bytes for the current offset, and the length if it was deferred. *)
AppendChunk(i, length, n) ==
  /\ Exists(i) /\ ~Complete(i)
  /\ \/ length = uploads[i].length
     \/ uploads[i].length = NoLength /\ length \in Lengths /\ length > uploads[i].offset
  /\ uploads' = [uploads EXCEPT ![i] =
       [offset |-> @.offset + n, length |-> length, content |-> @.content \o Chunk(@.offset, n)]]

(* DELETE *)
Terminate(i) ==
  /\ Exists(i)
  /\ uploads' = [uploads EXCEPT ![i] = Terminated]

Init == uploads = [i \in Id |-> Absent]
Next == \E i \in Id :
  \/ \E length \in Lengths \cup {NoLength}, n \in Sizes :
       CreateUpload(i, length, n) \/ AppendChunk(i, length, n)
  \/ Terminate(i)
Spec == Init /\ [][Next]_uploads
=============================================================================

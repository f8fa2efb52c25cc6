---------------------------- MODULE HybridProofs ----------------------------
(***************************************************************************)
(* What is proved of HybridServer, for every set of ids and requests and   *)
(* every configuration.                                                    *)
(*                                                                         *)
(* In every environment the variables have their types; and, where lengths *)
(* cannot be deferred, an upload whose info says that it is complete has   *)
(* an object with all its bytes (CompleteHasObject).                       *)
(* The local data covers the offset of every handler that is about to save *)
(* one; the object covers the length of every FileInfo anybody knows; and  *)
(* an object is only removed when nobody is left to save the info again.   *)
(*                                                                         *)
(* For clients that wait, without concatenation and when nothing fails,    *)
(* every step is one of UploadServer over its file storage, or moves bytes *)
(* in a way that changes nothing there, or is a step of a download that is *)
(* left out: of an upload that is incomplete or empty (HybridRefinement).  *)
(* So all that is proved of UploadServer and its refinement of TusUpload   *)
(* holds here; what is added is that the bytes of an upload are in one     *)
(* place, and in which (Placed, OnePlace), and that a GET finds the bytes  *)
(* of a complete upload there, or finds that it was deleted (Settled).     *)
(***************************************************************************)
EXTENDS HybridRefinement, UploadTypeProofs

NoDeferral == "creation-defer-length" \notin Extensions

(* A final upload that removes its parts was made, or is being made, from i. *)
Taken(i) == RemoveParts /\ \E r \in Req : file[r] # None /\ i \in PartIds(file[r])

(* Where a handler is determines what its local variables hold. *)
HybridLocals(r) ==
  /\ pc[r] = "idle" => file[r] = None
  /\ pc[r] \in {"open", "put", "dropLocal"} =>
       Method[r] \in {"POST", "PATCH"} /\ file[r].length \in Nat
  /\ pc[r] = "putJoined" => /\ Method[r] = "POST" /\ cursor[r] = 1 /\ file[r].parts # <<>>
                            /\ Len(partsInfo[r]) = Len(file[r].parts)
                            /\ file[r].length = file[r].offset
  /\ Joining(r) \/ Reading(r) \/ pc[r] = "putJoined" => file[r].final

HybridTyped == HybridTypeOK /\ \A r \in Req : LocalsOK(r) /\ HybridLocals(r)

(***************************************************************************)
(* The invariant.  `file[r]` outlives the handler of r, so what is said of *)
(* file[r] without InFlight(r) is also said of requests that have ended.   *)
(***************************************************************************)

(* The FileInfos that are stored, or that some request holds or checked as a part. *)
StoredInfo(f) == \E i \in Id : f = info[i]
Held(f) == \E r \in Req : f = file[r]
Checked(f) == \E r \in Req : \E k \in DOMAIN partsInfo[r] : f = partsInfo[r][k]
Known(f) == f \in FileInfo /\ (StoredInfo(f) \/ Held(f) \/ Checked(f))

(* What is known is known under an id that was drawn. *)
IdsUsed ==
  /\ \A i \in Id : Readable(i) => info[i].id = i
  /\ \A i \in Id : i \notin used => info[i] = None /\ object[i] = None
  /\ \A f \in FileInfo : Known(f) => f.id \in used

(* Whoever knows an upload knows the same length of it. *)
Agreement == \A f, g \in FileInfo : Known(f) /\ Known(g) /\ f.id = g.id => f.length = g.length

(* Until its info is saved an upload is known to its own POST alone. *)
Private(r) ==
  InFlight(r) /\ Method[r] = "POST" =>
    /\ info[file[r].id] \in Unreadable
    /\ pc[r] # "saving" => info[file[r].id] = None
    /\ \A q \in Req : q # r /\ file[q] # None => file[q].id # file[r].id
    /\ \A q \in Req : \A k \in DOMAIN partsInfo[q] : partsInfo[q][k].id # file[r].id

(* The k-th info that was read is the info of the k-th part. *)
PartsRead(r) == \A k \in DOMAIN partsInfo[r] : partsInfo[r][k].id = file[r].parts[k]

(* The local file of i, if there is one, has at least n bytes. *)
Covers(i, n) == data[i] # None => Len(data[i]) >= n

HasObject(i) == object[i] # None \/ Taken(i)

(* The handler of r has uploaded the object, and its set_info can still find the info. *)
Uploaded(r) ==
  /\ \/ pc[r] \in {"dropLocal", "dropFile", "dropInfo"}
     \/ pc[r] \in {"save", "saving"} /\ Finished(file[r]) /\ file[r].length # 0
  /\ Method[r] = "POST" \/ info[file[r].id] # None

(* What the storages hold for the handler of r. *)
StoredFor(r) ==
  /\ pc[r] \in {"create", "readPart", "copyPart", "putJoined"} => object[file[r].id] = None
  /\ pc[r] = "removeFile" => info[file[r].id] = None
  /\ pc[r] = "write" => Covers(file[r].id, file[r].offset)
  /\ pc[r] \in {"save", "saving"} /\ ~file[r].final => Covers(file[r].id, file[r].offset)
  /\ pc[r] \in {"open", "put"} => Covers(file[r].id, file[r].length)
  /\ pc[r] = "put" => Len(body[r]) >= file[r].length
  /\ pc[r] \in {"copyPart", "putJoined"} => Len(body[r]) >= file[r].offset
  /\ Uploaded(r) => HasObject(file[r].id)

(* The local file of an upload covers the offset of its info, ... *)
LongData == \A i \in Id : Readable(i) /\ ~info[i].final => Covers(i, info[i].offset)

(* ... and its object covers every length that is known. *)
LongObjects ==
  \A f \in FileInfo : Known(f) /\ object[f.id] # None => Len(object[f.id]) >= f.length

CompleteStored ==
  \A i \in Id : Visible(i) /\ Finished(info[i]) /\ info[i].length # 0 => HasObject(i)

HybridInv ==
  /\ HybridTyped /\ IdsUsed /\ Agreement
  /\ \A r \in Req : Private(r) /\ PartsRead(r) /\ StoredFor(r)
  /\ LongData /\ LongObjects /\ CompleteStored

USE DEF InFlight, Readable, Unreadable

(***************************************************************************)
(* The types.                                                              *)
(***************************************************************************)

(* What is typed over the hybrid storage is typed as in UploadServer. *)
LEMMA TypedTypeInv ==
  ASSUME HybridTyped
  PROVE  TypeInv /\ TypeOK /\ object \in [Id -> Seq(Nat) \cup {None}]
  BY DEF HybridTyped, HybridTypeOK, TypeInv

(* A request that holds a FileInfo, in particular one at work. *)
LEMMA Holding ==
  ASSUME HybridTyped, NEW r \in Req, file[r] # None \/ InFlight(r)
  PROVE  /\ file[r] \in FileInfo /\ file[r] # None /\ file[r].id \in Id /\ file[r].offset \in Nat
         /\ file[r].length \in Nat \cup {None} /\ file[r].parts \in Seq(Id)
         /\ file[r].final \in BOOLEAN
<1>1. file[r] \in FileInfo
  BY DEF HybridTyped, HybridTypeOK, TypeOK, LocalsOK
<1> QED BY <1>1, FileFields

(* The handlers that are not at work in a step stay as they were. *)
LEMMA HybridOthers ==
  ASSUME HybridTyped, NEW r \in Req, HybridTypeOK', LocalsOK(r)', HybridLocals(r)',
         \A q \in Req \ {r} : /\ pc'[q] = pc[q] /\ file'[q] = file[q]
                              /\ partsInfo'[q] = partsInfo[q] /\ cursor'[q] = cursor[q]
  PROVE  HybridTyped'
<1>1. ASSUME NEW q \in Req \ {r} PROVE LocalsOK(q)'
  BY LocalsFrame DEF HybridTyped
<1>2. ASSUME NEW q \in Req \ {r} PROVE HybridLocals(q)'
  BY DEF HybridTyped, HybridLocals, Joining, Reading
<1> QED BY <1>1, <1>2 DEF HybridTyped

(* In many places nothing more is said of the local variables. *)
LEMMA PlainLocals ==
  ASSUME NEW r \in Req,
         pc'[r] \in {"create", "write", "save", "saving", "removeInfo", "removeFile", "read", "done"}
  PROVE  HybridLocals(r)'
  BY DEF HybridLocals, Joining, Reading

(* A handler that ended holds nothing that has to be right. *)
LEMMA HybridDone ==
  ASSUME NEW r \in Req, pc'[r] = "done"
  PROVE  LocalsOK(r)' /\ HybridLocals(r)'
  BY LocalsDone, PlainLocals

(* The steps that do not call the hybrid storage. *)
LEMMA SameTyped ==
  ASSUME HybridTyped, NEW r \in Req, TypeInv', object' = object, HybridLocals(r)',
         \A q \in Req \ {r} : /\ pc'[q] = pc[q] /\ file'[q] = file[q]
                              /\ partsInfo'[q] = partsInfo[q] /\ cursor'[q] = cursor[q]
  PROVE  HybridTyped'
<1>1. HybridTypeOK' /\ LocalsOK(r)'
  BY DEF HybridTyped, HybridTypeOK, TypeInv
<1> QED BY <1>1, HybridOthers

(* A handler that only answers. *)
LEMMA RefusedTyped ==
  ASSUME HybridTyped, NEW r \in Req, Answer(r, "error"),
         UNCHANGED <<stores, used, file, body, partsInfo, cursor, gone, telemetry, object>>
  PROVE  HybridTyped'
<1>1. TypeInv' /\ TypeOK /\ object' = object
  BY TypedTypeInv, RefusedTypeInv
<1>2. pc'[r] = "done" /\ \A q \in Req \ {r} : pc'[q] = pc[q]
  BY <1>1, AnswerType
<1> QED BY <1>1, <1>2, HybridDone, SameTyped

(* A request that enters. *)
LEMMA ArriveTyped ==
  ASSUME HybridTyped, NEW r \in Req, Arrive(r), UNCHANGED object
  PROVE  HybridTyped'
<1>1. TypeInv' /\ TypeOK
  BY TypedTypeInv, ArriveTypeInv
<1> DEFINE Entered ==
             /\ pc'[r] \in {"create", "write", "removeInfo", "read", "done"}
             /\ \A q \in Req \ {r} : /\ pc'[q] = pc[q] /\ file'[q] = file[q]
                                     /\ partsInfo'[q] = partsInfo[q] /\ cursor'[q] = cursor[q]
<1>2. Entered
  <2>1. ASSUME PostRefused(r) \/ \E i \in Id : PatchRefused(r, i) \/ DeleteRefused(r, i) \/ ReadRefused(r, i)
        PROVE  Entered
    BY <1>1, <2>1 DEF PostRefused, PatchRefused, DeleteRefused, ReadRefused, Answer, TypeOK
  <2>2. ASSUME NEW m \in PostMsg, NEW i \in Id, PostAccepted(r, i, m) PROVE Entered
    BY <1>1, <2>2 DEF PostAccepted, TypeOK
  <2>3. ASSUME NEW i \in Id, NEW m \in PatchMsg, PatchAccepted(r, i, m) PROVE Entered
    BY <1>1, <2>3 DEF PatchAccepted, TypeOK
  <2>4. ASSUME NEW i \in Id, DeleteAccepted(r, i) \/ GetAccepted(r, i) \/ HeadAnswered(r, i)
        PROVE  Entered
    BY <1>1, <2>4 DEF DeleteAccepted, GetAccepted, HeadAnswered, Answer, TypeOK
  <2> QED BY <2>4, <2>1, <2>2, <2>3 DEF Arrive
<1> QED BY <1>1, <1>2, PlainLocals, SameTyped

(* The local steps of the handlers. *)
LEMMA CreateTyped ==
  ASSUME HybridTyped, NEW r \in Req, CreateFile(r), UNCHANGED object
  PROVE  HybridTyped'
<1>1. TypeInv' /\ TypeOK /\ pc[r] = "create"
  BY TypedTypeInv, CreateTypeInv DEF CreateFile
<1>2. /\ pc'[r] \in {IF file[r].final THEN "readPart" ELSE IF body[r] # <<>> THEN "write" ELSE "save", "done"}
      /\ \A q \in Req \ {r} : pc'[q] = pc[q]
      /\ UNCHANGED <<file, partsInfo, cursor>>
  BY <1>1 DEF CreateFile, GoTo, TypeOK
<1>3. HybridLocals(r)'
  BY <1>2 DEF HybridLocals, Joining, Reading
<1> QED BY <1>1, <1>2, <1>3, SameTyped

(* Reading the info of a part. *)
LEMMA ReadPartTyped ==
  ASSUME HybridTyped, NEW r \in Req, ReadPart(r), UNCHANGED object
  PROVE  HybridTyped'
<1>1. TypeInv' /\ TypeOK /\ file[r].final
  BY TypedTypeInv, ReadPartTypeInv DEF ReadPart, HybridTyped, HybridLocals, Reading
<1>2. /\ pc'[r] \in {"copyPart", "readPart", "done"}
      /\ \A q \in Req \ {r} : /\ pc'[q] = pc[q] /\ partsInfo'[q] = partsInfo[q] /\ cursor'[q] = cursor[q]
      /\ UNCHANGED file
  BY <1>1 DEF ReadPart, GoTo, Answer, Advance, TypeOK
<1>3. HybridLocals(r)'
  BY <1>1, <1>2 DEF HybridLocals, Joining, Reading
<1> QED BY <1>1, <1>2, <1>3, SameTyped

(* Removing the info of a part. *)
LEMMA DropInfoTyped ==
  ASSUME HybridTyped, NEW r \in Req, DropInfo(r), UNCHANGED object
  PROVE  HybridTyped'
<1>1. TypeInv' /\ TypeOK /\ file[r].final
  BY TypedTypeInv, DropInfoTypeInv DEF DropInfo, HybridTyped, HybridLocals, Joining
<1>2. /\ pc'[r] \in {"dropFile", "save", "done"}
      /\ \A q \in Req \ {r} : pc'[q] = pc[q] /\ cursor'[q] = cursor[q]
      /\ UNCHANGED <<file, partsInfo>>
  BY <1>1 DEF DropInfo, GoTo, Answer, Advance, TypeOK
<1>3. HybridLocals(r)'
  BY <1>1, <1>2 DEF HybridLocals, Joining, Reading
<1> QED BY <1>1, <1>2, <1>3, SameTyped

(* set_info and remove_info. *)
LEMMA InfoTyped ==
  ASSUME HybridTyped, NEW r \in Req, OpenInfo(r) \/ WriteInfo(r) \/ RemoveInfo(r), UNCHANGED object
  PROVE  HybridTyped'
<1>1. TypeInv' /\ TypeOK
  BY TypedTypeInv, OpenInfoTypeInv, WriteInfoTypeInv, RemoveInfoTypeInv
<1>2. /\ pc'[r] \in {"saving", "removeFile", "done"}
      /\ \A q \in Req \ {r} : pc'[q] = pc[q]
      /\ UNCHANGED <<file, partsInfo, cursor>>
  BY <1>1 DEF OpenInfo, WriteInfo, RemoveInfo, Saved, GoTo, Answer, TypeOK
<1> QED BY <1>1, <1>2, PlainLocals, SameTyped

(* A client that closes its connection. *)
LEMMA DisconnectTyped ==
  ASSUME HybridTyped, NEW r \in Req, Disconnect(r), UNCHANGED object
  PROVE  HybridTyped'
<1>1. TypeInv' /\ TypeOK
  BY TypedTypeInv, DisconnectTypeInv
<1>2. /\ pc'[r] \in {pc[r], "done"} /\ \A q \in Req \ {r} : pc'[q] = pc[q]
      /\ UNCHANGED <<file, partsInfo, cursor>>
  BY <1>1 DEF Disconnect, TypeOK
<1>3. HybridLocals(r)'
  BY <1>2 DEF HybridTyped, HybridLocals, Joining, Reading
<1> QED BY <1>1, <1>2, <1>3, SameTyped

(* Handlers end, and nothing else that they hold changes. *)
LEMMA EndsTyped ==
  ASSUME HybridTyped, TypeInv', UNCHANGED <<file, partsInfo, cursor, object>>,
         \A r \in Req : pc'[r] \in {pc[r], "done"}
  PROVE  HybridTyped'
<1>1. ASSUME NEW r \in Req PROVE HybridLocals(r)'
  BY DEF HybridTyped, HybridLocals, Joining, Reading
<1> QED BY <1>1 DEF HybridTyped, HybridTypeOK, TypeInv

(* The background tasks, the restart and the steps that change nothing. *)
LEMMA BackgroundTyped ==
  ASSUME HybridTyped, UNCHANGED object,
         (\E h \in hooks : Send(h) \/ SendFails(h)) \/ Crash \/ UNCHANGED vars
  PROVE  HybridTyped'
<1>1. TypeInv' /\ TypeOK
  BY TypedTypeInv, SendTypeInv, CrashTypeInv, StutterTypeInv
<1>2. UNCHANGED <<file, partsInfo, cursor>> /\ \A r \in Req : pc'[r] \in {pc[r], "done"}
  BY DEF Send, SendFails, Crash, vars, handlers
<1> QED BY <1>1, <1>2, EndsTyped

(* A handler's file_info with another offset. *)
LEMMA OffsetTyped ==
  ASSUME HybridTyped, NEW r \in Req, InFlight(r), NEW o \in Nat,
         file' = [file EXCEPT ![r].offset = o]
  PROVE  /\ file' \in [Req -> FileInfo \cup {None}] /\ file'[r] \in FileInfo
         /\ file'[r].id = file[r].id /\ file'[r].parts = file[r].parts
         /\ file'[r].final = file[r].final /\ file'[r].length = file[r].length
         /\ file'[r].offset = o
         /\ \A q \in Req \ {r} : file'[q] = file[q]
<1> DEFINE f == [file[r] EXCEPT !.offset = o]
<1>1. file[r] \in FileInfo /\ file \in [Req -> FileInfo \cup {None}]
  BY TypedTypeInv, Holding DEF TypeOK
<1>2. f \in FileInfo
  BY <1>1, FileUpdated
<1>3. /\ f.id = file[r].id /\ f.parts = file[r].parts /\ f.final = file[r].final
      /\ f.length = file[r].length /\ f.offset = o
  BY <1>1 DEF FileInfo
<1>4. file' = [file EXCEPT ![r] = f]
  OBVIOUS
<1> HIDE DEF f
<1> QED BY <1>1, <1>2, <1>3, <1>4

(* The handler of r goes on with its file_info, or with one of another offset. *)
Goes(r, places) ==
  /\ pc' \in [Req -> Pcs] /\ pc'[r] \in places \cup {"done"} /\ \A q \in Req \ {r} : pc'[q] = pc[q]

(* GoTo leaves the handler where it is told to be, or ends it. *)
LEMMA GoesTo ==
  ASSUME TypeOK, NEW r \in Req, NEW next \in Pcs, GoTo(r, next)
  PROVE  Goes(r, {next})
  BY GoToType DEF Goes

(* Answer ends it. *)
LEMMA GoesNowhere ==
  ASSUME TypeOK, NEW r \in Req, NEW a \in {"ok", "error"}, Answer(r, a)
  PROVE  Goes(r, {}) /\ resp' \in [Req -> {"none", "ok", "error"}]
  BY AnswerType DEF Goes

(* The local part of add_bytes. *)
LEMMA AddLocallyTyped ==
  ASSUME HybridTyped, NEW r \in Req, AddLocally(r)
  PROVE  HybridTyped'
<1> USE DEF AddLocally
<1>1. /\ TypeInv /\ TypeOK /\ object \in [Id -> Seq(Nat) \cup {None}] /\ pc[r] = "write" /\ InFlight(r)
      /\ Method[r] \in {"POST", "PATCH"}
  BY TypedTypeInv DEF HybridTyped, LocalsOK
<1>2. file[r] \in FileInfo /\ file[r] # None /\ file[r].offset \in Nat /\ file[r].id \in Id /\ body[r] \in Seq(Nat)
  BY <1>1, Holding DEF TypeOK
<1>3. CASE data[file[r].id] # None
  <2>1. data' \in [Id -> Seq(Nat) \cup {None}]
    <3>1. data[file[r].id] \in Seq(Nat)
      BY <1>1, <1>2, <1>3 DEF TypeOK
    <3>2. Appended(data[file[r].id], body[r]) \in Seq(Nat)
      BY <1>2, <3>1, ConcatProperties DEF Appended
    <3> QED BY <1>1, <1>3, <3>2 DEF TypeOK
  <2>2. CASE Completes(r)
    <3>1. Goes(r, {"open"})
      BY <1>1, <1>3, <2>2, GoesTo DEF Pcs
    <3>2. HybridTypeOK'
      BY <1>1, <1>3, <2>1, <2>2, <3>1 DEF HybridTypeOK, TypeOK, Goes, telemetry
    <3>3. file[r].length \in Nat
      BY <1>2, <2>2 DEF Completes
    <3>4. LocalsOK(r)' /\ HybridLocals(r)'
      BY <1>1, <1>2, <1>3, <2>2, <3>1, <3>3 DEF Goes, LocalsOK, HybridLocals, Joining, Reading
    <3> QED BY <1>3, <2>2, <3>1, <3>2, <3>4, HybridOthers DEF Goes
  <2>3. CASE ~Completes(r)
    <3>1. Goes(r, {"save"})
      BY <1>1, <1>3, <2>3, GoesTo DEF Pcs
    <3>2. /\ file' \in [Req -> FileInfo \cup {None}] /\ file'[r] \in FileInfo
          /\ \A q \in Req \ {r} : file'[q] = file[q]
      <4>1. file[r].offset + Len(body[r]) \in Nat
        BY <1>2
      <4>2. file' = [file EXCEPT ![r].offset = file[r].offset + Len(body[r])]
        BY <1>3, <2>3
      <4> QED BY <1>1, <4>1, <4>2, OffsetTyped
    <3>3. body' \in [Req -> Seq(Nat)]
      <4>1. <<>> \in Seq(Nat)
        OBVIOUS
      <4> QED BY <1>1, <1>3, <2>3, <4>1 DEF TypeOK
    <3>4. HybridTypeOK'
      BY <1>1, <1>3, <2>1, <2>3, <3>1, <3>2, <3>3 DEF HybridTypeOK, TypeOK, Goes, telemetry
    <3>5. LocalsOK(r)' /\ HybridLocals(r)'
      <4>1. file'[r] # None
        BY <3>2, FileFields
      <4> QED BY <1>1, <3>1, <4>1, PlainLocals DEF Goes, LocalsOK, Joining, Reading
    <3> QED BY <1>3, <2>3, <3>1, <3>2, <3>4, <3>5, HybridOthers DEF Goes
  <2> QED BY <2>2, <2>3
<1>4. CASE data[file[r].id] = None
  BY <1>4, RefusedTyped DEF stores
<1> QED BY <1>3, <1>4

(* upload_file reads the local file, ... *)
LEMMA OpenLocalTyped ==
  ASSUME HybridTyped, NEW r \in Req, OpenLocal(r) \/ StreamMore(r)
  PROVE  HybridTyped'
<1>1. /\ TypeInv /\ TypeOK /\ object \in [Id -> Seq(Nat) \cup {None}] /\ pc[r] \in {"open", "put"} /\ InFlight(r)
      /\ Method[r] \in {"POST", "PATCH"} /\ file[r].length \in Nat
  BY TypedTypeInv DEF OpenLocal, StreamMore, HybridTyped, HybridLocals
<1>2. file[r] # None /\ file[r].id \in Id
  BY <1>1, Holding
<1>3. ASSUME data[file[r].id] # None, body' = [body EXCEPT ![r] = data[file[r].id]], Goes(r, {"put"}),
             UNCHANGED <<stores, used, file, partsInfo, cursor, gone, resp, telemetry, object>>
      PROVE  HybridTyped'
  <2>1. body' \in [Req -> Seq(Nat)]
    BY <1>1, <1>2, <1>3 DEF TypeOK
  <2>2. HybridTypeOK'
    BY <1>1, <1>3, <2>1 DEF HybridTypeOK, TypeOK, Goes, stores, telemetry
  <2>3. LocalsOK(r)' /\ HybridLocals(r)'
    BY <1>1, <1>2, <1>3 DEF Goes, LocalsOK, HybridLocals, Joining, Reading
  <2> QED BY <1>3, <2>2, <2>3, HybridOthers DEF Goes
<1>4. CASE OpenLocal(r) /\ data[file[r].id] # None
  <2>1. Goes(r, {"put"})
    BY <1>1, <1>4, GoesTo DEF OpenLocal, Pcs
  <2> QED BY <1>3, <1>4, <2>1 DEF OpenLocal
<1>5. CASE OpenLocal(r) /\ data[file[r].id] = None
  BY <1>5, RefusedTyped DEF OpenLocal
<1>6. CASE StreamMore(r)
  <2>1. Goes(r, {"put"})
    BY <1>1, <1>6 DEF Goes, StreamMore, TypeOK
  <2> QED BY <1>3, <1>6, <2>1 DEF StreamMore
<1> QED BY <1>4, <1>5, <1>6

(* ... puts it, ... *)
LEMMA PutObjectTyped ==
  ASSUME HybridTyped, NEW r \in Req, PutObject(r)
  PROVE  HybridTyped'
<1> USE DEF PutObject
<1>1. /\ TypeInv /\ TypeOK /\ object \in [Id -> Seq(Nat) \cup {None}] /\ InFlight(r)
      /\ Method[r] \in {"POST", "PATCH"} /\ file[r].length \in Nat
  BY TypedTypeInv DEF HybridTyped, HybridLocals
<1>2. file[r] # None /\ file[r].id \in Id /\ body[r] \in Seq(Nat)
  BY <1>1, Holding DEF TypeOK
<1>3. Goes(r, {"dropLocal"})
  BY <1>1, GoesTo DEF Pcs
<1>4. HybridTypeOK'
  BY <1>1, <1>2, <1>3 DEF HybridTypeOK, TypeOK, Goes, stores, telemetry
<1>5. LocalsOK(r)' /\ HybridLocals(r)'
  BY <1>1, <1>2, <1>3 DEF Goes, LocalsOK, HybridLocals, Joining, Reading
<1> QED BY <1>3, <1>4, <1>5, HybridOthers DEF Goes

(* ... and the local storage removes it. *)
LEMMA DropLocalTyped ==
  ASSUME HybridTyped, NEW r \in Req, DropLocal(r)
  PROVE  HybridTyped'
<1> USE DEF DropLocal
<1>1. /\ TypeInv /\ TypeOK /\ object \in [Id -> Seq(Nat) \cup {None}] /\ InFlight(r)
      /\ Method[r] \in {"POST", "PATCH"} /\ file[r].length \in Nat
  BY TypedTypeInv DEF HybridTyped, HybridLocals
<1>2. file[r] # None /\ file[r].id \in Id
  BY <1>1, Holding
<1>3. CASE data[file[r].id] # None
  <2>1. Goes(r, {"save"})
    BY <1>1, <1>3, GoesTo DEF Pcs
  <2>2. /\ file' \in [Req -> FileInfo \cup {None}] /\ file'[r] \in FileInfo
        /\ \A q \in Req \ {r} : file'[q] = file[q]
    BY <1>1, <1>3, OffsetTyped
  <2>3. body' \in [Req -> Seq(Nat)]
    <3>1. <<>> \in Seq(Nat)
      OBVIOUS
    <3> QED BY <1>1, <1>3, <3>1 DEF TypeOK
  <2>4. HybridTypeOK'
    BY <1>1, <1>2, <1>3, <2>1, <2>2, <2>3 DEF HybridTypeOK, TypeOK, Goes, telemetry
  <2>5. LocalsOK(r)' /\ HybridLocals(r)'
    <3>1. file'[r] # None
      BY <2>2, FileFields
    <3> QED BY <1>1, <2>1, <3>1, PlainLocals DEF Goes, LocalsOK, Joining, Reading
  <2> QED BY <1>3, <2>1, <2>2, <2>4, <2>5, HybridOthers DEF Goes
<1>4. CASE data[file[r].id] = None
  BY <1>4, RefusedTyped DEF stores
<1> QED BY <1>3, <1>4

(* What a turn of the loop of concat_files leaves. *)
LEMMA Downloaded ==
  ASSUME HybridTyped, NEW r \in Req, DownloadPart(r), object[Part(r)] # None
  PROVE  /\ Joined(r) \in FileInfo /\ Joined(r).id = file[r].id /\ Joined(r).parts = file[r].parts
         /\ Joined(r).final = file[r].final
         /\ Joined(r).offset = file[r].offset + partsInfo[r][cursor[r]].length
         /\ file'[r] = Joined(r) /\ file' \in [Req -> FileInfo \cup {None}]
         /\ \A q \in Req \ {r} : file'[q] = file[q] /\ body'[q] = body[q]
         /\ cursor' \in [Req -> Nat \ {0}] /\ \A q \in Req \ {r} : cursor'[q] = cursor[q]
         /\ cursor'[r] = IF LastPart(r) THEN 1 ELSE cursor[r] + 1
         /\ Goes(r, {IF LastPart(r) THEN "putJoined" ELSE "copyPart"})
         /\ body' \in [Req -> Seq(Nat)]
         /\ object[Part(r)] \in Seq(Nat) /\ body'[r] = body[r] \o object[Part(r)]
<1> USE DEF DownloadPart
<1>1. TypeInv /\ TypeOK /\ object \in [Id -> Seq(Nat) \cup {None}] /\ Joining(r)
  BY TypedTypeInv DEF Joining
<1>2. /\ Joined(r) \in FileInfo /\ Joined(r).id = file[r].id /\ Joined(r).parts = file[r].parts
      /\ Joined(r).final = file[r].final
      /\ Joined(r).offset = file[r].offset + partsInfo[r][cursor[r]].length
  BY <1>1, JoinedType
<1>3. /\ file'[r] = Joined(r) /\ file' \in [Req -> FileInfo \cup {None}]
      /\ \A q \in Req \ {r} : file'[q] = file[q]
  <2>1. /\ file' = [file EXCEPT ![r] = Joined(r)] /\ Joined(r) \in FileInfo
        /\ file \in [Req -> FileInfo \cup {None}]
    BY <1>1, <1>2 DEF TypeOK
  <2> HIDE DEF DownloadPart
  <2> QED BY <2>1
<1>4. /\ cursor' \in [Req -> Nat \ {0}] /\ \A q \in Req \ {r} : cursor'[q] = cursor[q]
      /\ cursor'[r] = IF LastPart(r) THEN 1 ELSE cursor[r] + 1
  BY <1>1, AdvanceType
<1>5. Goes(r, {IF LastPart(r) THEN "putJoined" ELSE "copyPart"})
  <2> DEFINE next == IF LastPart(r) THEN "putJoined" ELSE "copyPart"
  <2>1. next \in Pcs /\ GoTo(r, next)
    BY DEF Pcs
  <2> HIDE DEF next
  <2>2. Goes(r, {next})
    BY <1>1, <2>1, GoesTo
  <2> QED BY <2>2 DEF next
<1>6. object[Part(r)] \in Seq(Nat)
  BY <1>1, AtPart
<1>7. /\ body' \in [Req -> Seq(Nat)] /\ body'[r] = body[r] \o object[Part(r)]
      /\ \A q \in Req \ {r} : body'[q] = body[q]
  <2> DEFINE b == body[r] \o object[Part(r)]
  <2>1. b \in Seq(Nat)
    BY <1>1, <1>6, ConcatProperties DEF TypeOK
  <2>2. body' = [body EXCEPT ![r] = b] /\ body \in [Req -> Seq(Nat)]
    BY <1>1 DEF TypeOK
  <2> HIDE DEF b, DownloadPart
  <2>3. body' \in [Req -> Seq(Nat)] /\ body'[r] = b /\ \A q \in Req \ {r} : body'[q] = body[q]
    BY <2>1, <2>2, Zenon
  <2> QED BY <2>3 DEF b
<1> QED BY <1>2, <1>3, <1>4, <1>5, <1>6, <1>7

(* concat_files fetches a part ... *)
LEMMA DownloadPartTyped ==
  ASSUME HybridTyped, NEW r \in Req, DownloadPart(r)
  PROVE  HybridTyped'
<1>1. /\ TypeInv /\ TypeOK /\ object \in [Id -> Seq(Nat) \cup {None}] /\ Joining(r) /\ pc[r] = "copyPart"
      /\ file[r].final
  BY TypedTypeInv DEF DownloadPart, HybridTyped, HybridLocals, Joining
<1>2. CASE object[Part(r)] # None
  <2>1. UNCHANGED <<stores, used, partsInfo, gone, resp, telemetry, object>>
    BY <1>2 DEF DownloadPart
  <2>2. HybridTypeOK'
    BY <1>1, <1>2, <2>1, Downloaded DEF HybridTypeOK, TypeOK, Goes, stores, telemetry
  <2>3. /\ Method[r] = "POST" /\ cursor[r] \in 1..Len(file[r].parts)
        /\ Len(partsInfo[r]) = Len(file[r].parts)
    BY <1>1, AtPart
  <2>4. /\ file'[r] # None /\ file'[r].parts = file[r].parts /\ file'[r].final
        /\ partsInfo'[r] = partsInfo[r] /\ file[r].parts \in Seq(Id)
        /\ cursor'[r] = IF LastPart(r) THEN 1 ELSE cursor[r] + 1
        /\ pc'[r] \in {IF LastPart(r) THEN "putJoined" ELSE "copyPart", "done"}
    <3>1. /\ Joined(r) \in FileInfo /\ Joined(r).parts = file[r].parts /\ Joined(r).final = file[r].final
          /\ file'[r] = Joined(r) /\ cursor'[r] = IF LastPart(r) THEN 1 ELSE cursor[r] + 1
          /\ Goes(r, {IF LastPart(r) THEN "putJoined" ELSE "copyPart"})
      BY <1>1, <1>2, Downloaded
    <3>2. Joined(r) # None /\ file[r].parts \in Seq(Id)
      BY <1>1, <3>1, FileFields, Holding DEF Joining
    <3> QED BY <1>1, <2>1, <3>1, <3>2 DEF Goes
  <2>5. LastPart(r) => file'[r].length = file'[r].offset
    <3> DEFINE size == file[r].offset + partsInfo[r][cursor[r]].length
    <3>1. file[r] \in FileInfo
      BY <1>1, Holding DEF Joining
    <3>2. LastPart(r) => Joined(r) = [file[r] EXCEPT !.offset = size, !.length = size]
      BY DEF Joined
    <3> HIDE DEF size
    <3>3. LastPart(r) => Joined(r).offset = size /\ Joined(r).length = size
      BY <3>1, <3>2 DEF FileInfo
    <3> QED BY <1>2, <3>3, Downloaded
  <2>6. LocalsOK(r)'
    BY <2>3, <2>4 DEF LocalsOK, Joining, Reading, LastPart
  <2>7. HybridLocals(r)'
    BY <2>3, <2>4, <2>5 DEF HybridLocals, Joining, Reading
  <2> QED BY <1>2, <2>1, <2>2, <2>6, <2>7, Downloaded, HybridOthers DEF Goes
<1>3. CASE object[Part(r)] = None
  BY <1>3, RefusedTyped DEF DownloadPart
<1> QED BY <1>2, <1>3

(* ... puts what it joined, ... *)
LEMMA PutJoinedTyped ==
  ASSUME HybridTyped, NEW r \in Req, PutJoined(r)
  PROVE  HybridTyped'
<1> USE DEF PutJoined
<1>1. /\ TypeInv /\ TypeOK /\ object \in [Id -> Seq(Nat) \cup {None}] /\ HybridLocals(r) /\ InFlight(r)
      /\ file[r] # None /\ file[r].id \in Id /\ body[r] \in Seq(Nat) /\ file[r].parts \in Seq(Id)
  BY TypedTypeInv, Holding DEF HybridTyped, TypeOK
<1>2. Goes(r, {IF RemoveParts THEN "dropFile" ELSE "save"})
  <2> DEFINE next == IF RemoveParts THEN "dropFile" ELSE "save"
  <2>1. next \in Pcs /\ GoTo(r, next)
    BY DEF Pcs
  <2> HIDE DEF next
  <2>2. Goes(r, {next})
    BY <1>1, <2>1, GoesTo
  <2> QED BY <2>2 DEF next
<1>3. body' \in [Req -> Seq(Nat)] /\ object' \in [Id -> Seq(Nat) \cup {None}]
  <2>1. <<>> \in Seq(Nat)
    OBVIOUS
  <2> QED BY <1>1, <2>1 DEF TypeOK
<1>4. HybridTypeOK'
  BY <1>1, <1>2, <1>3 DEF HybridTypeOK, TypeOK, Goes, stores, telemetry
<1>5. LocalsOK(r)' /\ HybridLocals(r)'
  <2>1. /\ Method[r] = "POST" /\ cursor[r] = 1 /\ file[r].parts # <<>> /\ file[r].final
        /\ Len(partsInfo[r]) = Len(file[r].parts)
    BY <1>1 DEF HybridLocals
  <2>2. cursor[r] <= Len(file[r].parts)
    BY <1>1, <2>1
  <2>3. /\ pc'[r] \in {"dropFile", "save", "done"} /\ (pc'[r] = "dropFile" => RemoveParts)
        /\ UNCHANGED <<file, partsInfo, cursor>>
    BY <1>2 DEF Goes
  <2>4. LocalsOK(r)'
    BY <1>1, <2>1, <2>2, <2>3 DEF LocalsOK, Joining, Reading
  <2>5. HybridLocals(r)'
    BY <2>1, <2>3 DEF HybridLocals, Joining, Reading
  <2> QED BY <2>4, <2>5
<1> QED BY <1>2, <1>4, <1>5, HybridOthers DEF Goes

(* ... and remove_file removes the object of a part. *)
LEMMA DropObjectTyped ==
  ASSUME HybridTyped, NEW r \in Req, DropObject(r)
  PROVE  HybridTyped'
<1> USE DEF DropObject
<1>1. /\ TypeInv /\ TypeOK /\ object \in [Id -> Seq(Nat) \cup {None}] /\ HybridLocals(r) /\ LocalsOK(r)
  BY TypedTypeInv DEF HybridTyped
<1>2. Goes(r, {"dropInfo"})
  BY <1>1, GoesTo DEF Pcs
<1>3. HybridTypeOK'
  BY <1>1, <1>2 DEF HybridTypeOK, TypeOK, Goes, stores, telemetry
<1>4. LocalsOK(r)' /\ HybridLocals(r)'
  BY <1>1, <1>2 DEF Goes, LocalsOK, HybridLocals, Joining, Reading
<1> QED BY <1>2, <1>3, <1>4, HybridOthers DEF Goes

(* remove_file of terminate. *)
LEMMA RemoveStoredTyped ==
  ASSUME HybridTyped, NEW r \in Req, RemoveStored(r)
  PROVE  HybridTyped'
<1> USE DEF RemoveStored
<1>1. /\ TypeInv /\ TypeOK /\ object \in [Id -> Seq(Nat) \cup {None}] /\ InFlight(r)
      /\ file[r] # None /\ file[r].id \in Id
  BY TypedTypeInv, Holding
<1>2. data' \in [Id -> Seq(Nat) \cup {None}] /\ object' \in [Id -> Seq(Nat) \cup {None}]
  BY <1>1 DEF TypeOK
<1>3. metrics' \in Metrics /\ hooks' \subseteq Hook
  <2>1. metrics' \in Metrics
    BY <1>1, MetricsType DEF Count, TypeOK, Metrics
  <2>2. hooks' \subseteq Hook
    BY <1>1, SpawnType DEF HookNames, TypeOK
  <2> QED BY <2>1, <2>2
<1>4. Goes(r, {}) /\ resp' \in [Req -> {"none", "ok", "error"}]
  BY <1>1, GoesNowhere
<1>5. UNCHANGED <<info, used, file, body, partsInfo, cursor, gone, delivered>>
  OBVIOUS
<1> HIDE DEF RemoveStored
<1>6. HybridTypeOK'
  BY <1>1, <1>2, <1>3, <1>4, <1>5 DEF HybridTypeOK, TypeOK, Goes, Metrics
<1>7. LocalsOK(r)' /\ HybridLocals(r)'
  BY <1>4, HybridDone DEF Goes
<1> QED BY <1>4, <1>5, <1>6, <1>7, HybridOthers DEF Goes

(* get_contents. *)
LEMMA ReadStoredTyped ==
  ASSUME HybridTyped, NEW r \in Req, ReadStored(r)
  PROVE  HybridTyped'
<1> USE DEF ReadStored
<1>1. /\ TypeInv /\ TypeOK /\ object \in [Id -> Seq(Nat) \cup {None}] /\ InFlight(r) /\ file[r].id \in Id
  BY TypedTypeInv, Holding
<1>2. Goes(r, {}) /\ resp' \in [Req -> {"none", "ok", "error"}]
  BY <1>1, GoesNowhere
<1>3. body' \in [Req -> Seq(Nat)]
  BY <1>1 DEF TypeOK
<1>4. HybridTypeOK'
  BY <1>1, <1>2, <1>3 DEF HybridTypeOK, TypeOK, Goes, stores, telemetry
<1>5. LocalsOK(r)' /\ HybridLocals(r)'
  BY <1>2, HybridDone DEF Goes
<1> QED BY <1>2, <1>4, <1>5, HybridOthers DEF Goes

(* A failing call, whatever of it was executed. *)
LEMMA StorageFaultTyped ==
  ASSUME HybridTyped, NEW r \in Req, StorageFault(r)
  PROVE  HybridTyped'
<1> USE DEF StorageFault
<1>1. /\ TypeInv /\ TypeOK /\ object \in [Id -> Seq(Nat) \cup {None}] /\ InFlight(r) /\ file[r].id \in Id
      /\ body[r] \in Seq(Nat)
  BY TypedTypeInv, Holding DEF TypeOK
<1>2. Goes(r, {}) /\ resp' \in [Req -> {"none", "ok", "error"}]
  BY <1>1, GoesNowhere
<1>3. data' \in [Id -> Seq(Nat) \cup {None}]
  <2>1. ASSUME PartlyAppended(file[r].id, body[r])
        PROVE  data' \in [Id -> Seq(Nat) \cup {None}]
    <3>1. PICK n \in 0..Len(body[r]) :
            data' = [data EXCEPT ![file[r].id] = Appended(Opened(file[r].id), SubSeq(body[r], 1, n))]
      BY <2>1 DEF PartlyAppended
    <3>2. Opened(file[r].id) \in Seq(Nat)
      BY <1>1 DEF TypeOK, Opened
    <3>3. SubSeq(body[r], 1, n) \in Seq(Nat)
      BY <1>1, SubSeqProperties
    <3>4. Appended(Opened(file[r].id), SubSeq(body[r], 1, n)) \in Seq(Nat)
      BY <3>2, <3>3, ConcatProperties DEF Appended
    <3> QED BY <1>1, <3>1, <3>4 DEF TypeOK
  <2> QED BY <1>1, <2>1 DEF TypeOK, stores
<1>4. info' \in [Id -> FileInfo \cup Unreadable]
  <2>1. HalfWritten(file[r].id) => info' \in [Id -> FileInfo \cup Unreadable]
    BY <1>1 DEF TypeOK, HalfWritten, Torn
  <2>2. info' = info \/ HalfWritten(file[r].id)
    BY DEF stores
  <2> QED BY <1>1, <2>1, <2>2 DEF TypeOK
<1>5. object' \in [Id -> Seq(Nat) \cup {None}]
  BY <1>1
<1>6. UNCHANGED <<used, file, body, partsInfo, cursor, gone, telemetry>>
  OBVIOUS
<1> HIDE DEF StorageFault
<1>7. HybridTypeOK'
  BY <1>1, <1>2, <1>3, <1>4, <1>5, <1>6 DEF HybridTypeOK, TypeOK, Goes, telemetry
<1>8. LocalsOK(r)' /\ HybridLocals(r)'
  BY <1>2, HybridDone DEF Goes
<1> QED BY <1>2, <1>6, <1>7, <1>8, HybridOthers DEF Goes

(* The server starts with no objects. *)
LEMMA HybridInitTyped == HybridInit => HybridTyped
<1> SUFFICES ASSUME HybridInit PROVE HybridTyped
  OBVIOUS
<1>1. TypeInv
  BY InitTypeInv DEF HybridInit
<1>2. object \in [Id -> Seq(Nat) \cup {None}]
  BY DEF HybridInit
<1>3. \A r \in Req : pc[r] = "idle" /\ file[r] = None
  BY DEF HybridInit, Init
<1> QED BY <1>1, <1>2, <1>3 DEF TypeInv, HybridTyped, HybridTypeOK, HybridLocals, Joining, Reading

(* Every step keeps the types and the locals. *)
LEMMA HybridNextTyped == HybridTyped /\ [HybridNext]_<<vars, object>> => HybridTyped'
<1> SUFFICES ASSUME HybridTyped, [HybridNext]_<<vars, object>> PROVE HybridTyped'
  OBVIOUS
<1>1. ASSUME NEW r \in Req, StorageStep(r) PROVE HybridTyped'
  BY <1>1, AddLocallyTyped, OpenLocalTyped, PutObjectTyped, DropLocalTyped, DownloadPartTyped,
     PutJoinedTyped, DropObjectTyped, RemoveStoredTyped, ReadStoredTyped, StorageFaultTyped
  DEF StorageStep
<1>2. ASSUME NEW r \in Req, SameStep(r), UNCHANGED object PROVE HybridTyped'
  <2>1. CASE HookRefused(r)
    BY <1>2, <2>1, RefusedTyped DEF HookRefused
  <2> QED BY <1>2, <2>1, ArriveTyped, CreateTyped, ReadPartTyped, DropInfoTyped, InfoTyped,
             DisconnectTyped DEF SameStep
<1> QED BY <1>1, <1>2, BackgroundTyped DEF HybridNext, Quiet

(****************************************************************************)
(* What one step of the handler of r may do, and why the invariant survives *)
(* it: the handlers that are not at work never notice.                      *)
(****************************************************************************)

OthersHold(r) ==
  \A q \in Req : q # r => /\ pc'[q] = pc[q] /\ file'[q] = file[q]
                          /\ body'[q] = body[q] /\ partsInfo'[q] = partsInfo[q]

(* The handler goes on, or enters; one that is writing its info does nothing else. *)
FlightEffect(r) ==
  /\ InFlight(r)' => InFlight(r) \/ pc[r] = "idle"
  /\ pc[r] = "saving" => pc'[r] \in {"saving", "done"}

(* It goes on with the same upload, takes one up as its info says, or makes one. *)
FileEffect(r) ==
  /\ used \subseteq used'
  /\ \/ file'[r] = file[r] /\ (pc[r] = "idle" => ~InFlight(r)')
     \/ /\ InFlight(r) /\ file'[r] \in FileInfo
        /\ file'[r].id = file[r].id /\ file'[r].parts = file[r].parts
        /\ file'[r].length = file[r].length \/ pc[r] = "copyPart"
     \/ /\ pc[r] = "idle" /\ Method[r] # "POST"
        /\ \E i \in Id : Readable(i) /\ file'[r] = info[i]
     \/ /\ pc[r] = "idle" /\ file'[r] \in FileInfo /\ file'[r].id \in used' \ used

(* It only adds infos that are stored, of the part it is at, to the ones it read. *)
PartsEffect(r) ==
  \/ partsInfo'[r] = partsInfo[r]
  \/ /\ pc[r] = "readPart" /\ Part(r) \in Id /\ Readable(Part(r)) /\ file'[r] = file[r]
     /\ \A k \in DOMAIN partsInfo'[r] :
          \/ k \in DOMAIN partsInfo[r] /\ partsInfo'[r][k] = partsInfo[r][k]
          \/ partsInfo'[r][k] = info[Part(r)] /\ Part(r) = file[r].parts[k]

(* It removes infos, tears them, and writes its own where there still is one. *)
InfoEffect(r) ==
  \A i \in Id :
    \/ info'[i] \in {info[i], None}
    \/ info'[i] \in Torn /\ info[i] # None
    \/ info'[i] \in Torn /\ InFlight(r) /\ Method[r] = "POST" /\ i = file[r].id /\ pc'[r] = "saving"
    \/ info'[i] = file[r] /\ i = file[r].id /\ info[i] # None /\ pc[r] = "saving" /\ pc'[r] = "done"

(* Local files only grow, but for the one that is created. *)
DataEffect(r) ==
  \A i \in Id :
    \/ data'[i] \in {data[i], None}
    \/ data[i] # None /\ Len(data'[i]) >= Len(data[i])
    \/ pc[r] = "create" /\ i = file[r].id

(* An object that is put is long enough; one that is removed is a part or of no info. *)
ObjectEffect(r) ==
  \A i \in Id :
    \/ object'[i] = object[i]
    \/ object'[i] = None /\ (Taken(i) \/ (pc[r] = "removeFile" /\ i = file[r].id))
    \/ /\ pc[r] \in {"put", "putJoined"} /\ i = file[r].id
       /\ object'[i] # None /\ Len(object'[i]) >= file[r].length

Effect(r) ==
  /\ OthersHold(r) /\ FlightEffect(r) /\ FileEffect(r) /\ PartsEffect(r)
  /\ InfoEffect(r) /\ DataEffect(r) /\ ObjectEffect(r)

(* What is known apart from the file_info of r. *)
KnownElse(r, f) == StoredInfo(f) \/ (\E q \in Req : q # r /\ f = file[q]) \/ Checked(f)

(* Whatever is known after the step was known before, but for the file_info of r. *)
LEMMA KnownAfter ==
  ASSUME HybridInv, NEW r \in Req, Effect(r), NEW f \in FileInfo, Known(f)'
  PROVE  \/ f = file'[r]
         \/ KnownElse(r, f)
         \/ f = file[r] /\ pc[r] = "saving"
<1>1. f \notin Unreadable
  BY FileFields
<1>2. CASE StoredInfo(f)'
  BY <1>1, <1>2 DEF StoredInfo, Effect, InfoEffect, KnownElse
<1>3. CASE Held(f)'
  BY <1>3 DEF Held, Effect, OthersHold, KnownElse
<1>4. CASE Checked(f)'
  <2>1. PICK q \in Req : \E k \in DOMAIN partsInfo'[q] : f = partsInfo'[q][k]
    BY <1>4 DEF Checked
  <2>2. CASE partsInfo'[q] = partsInfo[q]
    BY <2>1, <2>2 DEF Checked, KnownElse
  <2>3. CASE partsInfo'[q] # partsInfo[q]
    BY <2>1, <2>3 DEF Checked, KnownElse, StoredInfo, Effect, OthersHold, PartsEffect
  <2> QED BY <2>2, <2>3
<1> QED BY <1>2, <1>3, <1>4 DEF Known

(* While an upload is made nobody else knows it. *)
LEMMA PrivateAlone ==
  ASSUME HybridInv, NEW r \in Req, InFlight(r), Method[r] = "POST",
         NEW f \in FileInfo, KnownElse(r, f)
  PROVE  f.id # file[r].id
<1>1. Private(r) /\ IdsUsed
  BY DEF HybridInv
<1>2. f \notin Unreadable /\ f # None
  BY FileFields
<1>3. CASE StoredInfo(f)
  BY <1>1, <1>2, <1>3 DEF StoredInfo, Private, IdsUsed
<1>4. CASE \E q \in Req : q # r /\ f = file[q]
  BY <1>1, <1>2, <1>4 DEF Private
<1>5. CASE Checked(f)
  BY <1>1, <1>5 DEF Private, Checked
<1> QED BY <1>3, <1>4, <1>5 DEF KnownElse

(* What the handlers hold is known. *)
LEMMA HeldKnown ==
  ASSUME HybridTyped
  PROVE  /\ \A r \in Req : file[r] # None => Known(file[r]) /\ file[r] \in FileInfo
         /\ \A i \in Id : Readable(i) => Known(info[i]) /\ info[i] \in FileInfo
         /\ \A r \in Req : \A k \in DOMAIN partsInfo[r] :
              Known(partsInfo[r][k]) /\ partsInfo[r][k] \in FileInfo
<1>1. TypeOK
  BY TypedTypeInv
<1>2. \A r \in Req : file[r] # None => file[r] \in FileInfo
  BY <1>1 DEF TypeOK
<1>3. \A i \in Id : Readable(i) => info[i] \in FileInfo
  BY <1>1 DEF TypeOK
<1>4. ASSUME NEW r \in Req, NEW k \in DOMAIN partsInfo[r] PROVE partsInfo[r][k] \in FileInfo
  <2>1. partsInfo[r] \in Seq({f \in FileInfo : f.length # None})
    BY <1>1 DEF TypeOK
  <2> QED BY <2>1
<1> QED BY <1>2, <1>3, <1>4 DEF Known, Held, StoredInfo, Checked

(* The upload of the handler of r stays private while it is made, as do the others. *)
LEMMA PrivateKept ==
  ASSUME HybridInv, NEW r \in Req, Effect(r), NEW q \in Req
  PROVE  Private(q)'
<1> SUFFICES ASSUME InFlight(q)', Method[q] = "POST"
             PROVE  /\ info'[file'[q].id] \in Unreadable
                    /\ pc'[q] # "saving" => info'[file'[q].id] = None
                    /\ \A p \in Req : p # q /\ file'[p] # None => file'[p].id # file'[q].id
                    /\ \A p \in Req : \A k \in DOMAIN partsInfo'[p] : partsInfo'[p][k].id # file'[q].id
  BY DEF Private
<1> DEFINE id == file'[q].id
<1>0. /\ HybridTyped /\ IdsUsed /\ Private(q) /\ TypeOK
      /\ OthersHold(r) /\ FlightEffect(r) /\ FileEffect(r) /\ PartsEffect(r) /\ InfoEffect(r)
  BY TypedTypeInv DEF HybridInv, Effect
<1>1. CASE q = r /\ pc[r] = "idle"
  <2>1. file[r] = None /\ id \in used' \ used /\ id \in Id /\ Method[r] = "POST"
    BY <1>0, <1>1, FileFields DEF FileEffect, HybridTyped, HybridLocals
  <2>2. info[id] = None
    BY <1>0, <2>1 DEF IdsUsed
  <2>3. info'[id] = None
    BY <1>0, <1>1, <2>1, <2>2 DEF InfoEffect
  <2>4. \A p \in Req : p # q /\ file'[p] # None => file'[p].id # id
    BY <1>0, <1>1, <2>1, HeldKnown DEF OthersHold, IdsUsed
  <2>5. \A p \in Req : \A k \in DOMAIN partsInfo'[p] : partsInfo'[p][k].id # id
    <3>1. \A p \in Req : partsInfo'[p] = partsInfo[p]
      BY <1>0, <1>1 DEF OthersHold, PartsEffect
    <3> QED BY <1>0, <2>1, <3>1, HeldKnown DEF IdsUsed
  <2> QED BY <2>3, <2>4, <2>5
<1>2. CASE ~(q = r /\ pc[r] = "idle")
  <2>1. InFlight(q) /\ id = file[q].id /\ file[q] # None /\ id \in Id
    <3>1. CASE q = r
      <4>1. InFlight(q)
        BY <1>0, <1>2, <3>1 DEF FlightEffect
      <4> QED BY <1>0, <1>2, <3>1, <4>1, Holding DEF FileEffect
    <3>2. CASE q # r
      <4>1. InFlight(q) /\ file'[q] = file[q]
        BY <1>0, <3>2 DEF OthersHold
      <4> QED BY <1>0, <4>1, Holding
    <3> QED BY <3>1, <3>2
  <2>2. /\ info[id] \in Unreadable
        /\ pc[q] # "saving" => info[id] = None
        /\ \A p \in Req : p # q /\ file[p] # None => file[p].id # id
        /\ \A p \in Req : \A k \in DOMAIN partsInfo[p] : partsInfo[p][k].id # id
    BY <1>0, <2>1 DEF Private
  <2>3. InFlight(r) /\ id = file[r].id => q = r
    BY <1>0, <2>2, Holding
  <2>4. pc[q] = "saving" => pc'[q] = "saving"
    BY <1>0 DEF FlightEffect, OthersHold
  <2>5. info'[id] \in Unreadable /\ (pc'[q] # "saving" => info'[id] = None)
    <3>1. \/ info'[id] \in {info[id], None}
          \/ info'[id] \in Torn /\ info[id] # None
          \/ info'[id] \in Torn /\ q = r /\ pc'[r] = "saving"
          \/ q = r /\ pc'[r] = "done"
      BY <1>0, <2>1, <2>3 DEF InfoEffect
    <3> QED BY <2>2, <2>4, <3>1
  <2>6. ASSUME NEW p \in Req, p # q, file'[p] # None PROVE file'[p].id # id
    <3>1. CASE p # r \/ file'[p] = file[p]
      BY <1>0, <2>2, <2>6, <3>1 DEF OthersHold
    <3>2. CASE p = r /\ InFlight(r) /\ file'[r].id = file[r].id
      BY <2>3, <2>6, <3>2
    <3>3. CASE p = r /\ \E i \in Id : Readable(i) /\ file'[r] = info[i]
      BY <1>0, <2>2, <3>3 DEF IdsUsed
    <3>4. CASE p = r /\ file'[r].id \in used' \ used
      BY <1>0, <2>1, <3>4, HeldKnown DEF IdsUsed
    <3> QED BY <1>0, <3>1, <3>2, <3>3, <3>4 DEF FileEffect
  <2>7. ASSUME NEW p \in Req, NEW k \in DOMAIN partsInfo'[p] PROVE partsInfo'[p][k].id # id
    <3>1. CASE partsInfo'[p] = partsInfo[p]
      BY <2>2, <3>1
    <3>2. CASE partsInfo'[p] # partsInfo[p]
      <4>1. p = r
        BY <1>0, <3>2 DEF OthersHold
      <4>2. \/ k \in DOMAIN partsInfo[p] /\ partsInfo'[p][k] = partsInfo[p][k]
            \/ partsInfo'[p][k] = info[Part(r)] /\ Part(r) \in Id /\ Readable(Part(r))
        BY <1>0, <3>2, <4>1 DEF PartsEffect
      <4> QED BY <1>0, <2>2, <4>2 DEF IdsUsed
    <3> QED BY <3>1, <3>2
  <2> QED BY <2>5, <2>6, <2>7
<1> QED BY <1>1, <1>2

(* Each part is read into its place. *)
LEMMA PartsReadKept ==
  ASSUME HybridInv, NEW r \in Req, Effect(r), NEW q \in Req
  PROVE  PartsRead(q)'
<1>0. /\ HybridTyped /\ TypeOK /\ LocalsOK(r) /\ HybridLocals(r) /\ PartsRead(q) /\ IdsUsed
      /\ OthersHold(r) /\ FlightEffect(r) /\ FileEffect(r) /\ PartsEffect(r)
  BY TypedTypeInv DEF HybridInv, Effect, HybridTyped
<1>1. CASE q # r
  BY <1>0, <1>1 DEF OthersHold, PartsRead
<1>2. CASE q = r /\ pc[r] = "idle"
  <2>1. partsInfo'[r] = <<>>
    BY <1>0, <1>2 DEF PartsEffect, LocalsOK
  <2> QED BY <1>2, <2>1 DEF PartsRead
<1>3. CASE q = r /\ pc[r] # "idle"
  <2>1. file'[r] = file[r] \/ file'[r].parts = file[r].parts
    BY <1>0, <1>3 DEF FileEffect
  <2>2. CASE partsInfo'[r] = partsInfo[r]
    BY <1>0, <1>3, <2>1, <2>2 DEF PartsRead
  <2>3. CASE partsInfo'[r] # partsInfo[r]
    BY <1>0, <1>3, <2>1, <2>3 DEF PartsRead, PartsEffect, IdsUsed
  <2> QED BY <2>2, <2>3
<1> QED BY <1>1, <1>2, <1>3

(* What is stored and known stays stored and known under ids that were drawn. *)
LEMMA IdsUsedKept ==
  ASSUME HybridInv, NEW r \in Req, Effect(r)
  PROVE  IdsUsed'
<1>0. /\ HybridTyped /\ TypeOK /\ IdsUsed
      /\ FileEffect(r) /\ InfoEffect(r) /\ ObjectEffect(r)
  BY TypedTypeInv DEF HybridInv, Effect
<1>1. InFlight(r) => file[r] # None /\ file[r] \in FileInfo /\ file[r].id \in used
  BY <1>0, Holding, HeldKnown DEF IdsUsed
<1>2. \A i \in Id : Readable(i)' => info'[i].id = i
  BY <1>0 DEF IdsUsed, InfoEffect
<1>3. ASSUME NEW i \in Id, i \notin used' PROVE info'[i] = None /\ object'[i] = None
  <2>1. i \notin used /\ info[i] = None /\ object[i] = None
    BY <1>0, <1>3 DEF IdsUsed, FileEffect
  <2> QED BY <1>0, <1>1, <2>1 DEF InfoEffect, ObjectEffect
<1>4. ASSUME NEW f \in FileInfo, Known(f)' PROVE f.id \in used'
  <2>1. CASE f = file'[r]
    <3>1. file'[r] # None
      BY <2>1, FileFields
    <3> QED BY <1>0, <1>1, <2>1, <3>1, HeldKnown DEF FileEffect, IdsUsed
  <2>2. CASE f # file'[r]
    <3>1. Known(f)
      BY <1>4, <2>2, KnownAfter DEF KnownElse, Known, Held
    <3> QED BY <1>0, <3>1 DEF IdsUsed, FileEffect
  <2> QED BY <2>1, <2>2
<1> QED BY <1>2, <1>3, <1>4 DEF IdsUsed

(* The lengths of what is known agree. *)
LEMMA AgreementKept ==
  ASSUME HybridInv, NEW r \in Req, Effect(r)
  PROVE  Agreement'
<1>0. /\ HybridTyped /\ TypeOK /\ IdsUsed /\ Agreement /\ FileEffect(r)
      /\ LocalsOK(r)
  BY TypedTypeInv DEF HybridInv, Effect, HybridTyped
<1>1. ASSUME NEW f \in FileInfo, Known(f)', f # file'[r] PROVE Known(f)
  BY <1>1, KnownAfter DEF KnownElse, Known, Held
<1>2. ASSUME NEW f \in FileInfo, Known(f)', file'[r] # None, f.id = file'[r].id
      PROVE  f.length = file'[r].length
  <2> SUFFICES ASSUME f # file'[r] PROVE f.length = file'[r].length
    OBVIOUS
  <2>1. Known(f)
    BY <1>1, <1>2
  <2>2. CASE file'[r] = file[r]
    BY <1>0, <1>2, <2>1, <2>2, HeldKnown DEF Agreement
  <2>3. CASE InFlight(r) /\ file'[r].id = file[r].id /\ file'[r].length = file[r].length
    <3>1. file[r] # None
      BY <1>0, <2>3, Holding
    <3> QED BY <1>0, <1>2, <2>1, <2>3, <3>1, HeldKnown DEF Agreement
  <2>4. CASE pc[r] = "copyPart" /\ file'[r].id = file[r].id
    <3>1. InFlight(r) /\ Method[r] = "POST"
      BY <1>0, <2>4 DEF LocalsOK, Joining
    <3>2. KnownElse(r, f)
      BY <1>2, <2>4, KnownAfter
    <3> QED BY <1>2, <2>4, <3>1, <3>2, PrivateAlone
  <2>5. CASE \E i \in Id : Readable(i) /\ file'[r] = info[i]
    BY <1>0, <1>2, <2>1, <2>5, HeldKnown DEF Agreement
  <2>6. CASE file'[r].id \in used' \ used
    BY <1>0, <1>2, <2>1, <2>6 DEF IdsUsed
  <2> QED BY <1>0, <2>6, <2>5, <2>2, <2>3, <2>4 DEF FileEffect
<1>3. ASSUME NEW f \in FileInfo, NEW g \in FileInfo, Known(f)', Known(g)', f.id = g.id
      PROVE  f.length = g.length
  <2>1. file'[r] = f \/ file'[r] = g => file'[r] # None
    BY FileFields
  <2>2. CASE f = file'[r] \/ g = file'[r]
    BY <1>2, <1>3, <2>1, <2>2
  <2>3. CASE ~(f = file'[r] \/ g = file'[r])
    BY <1>0, <1>1, <1>3, <2>3 DEF Agreement
  <2> QED BY <2>2, <2>3
<1> QED BY <1>3 DEF Agreement

(* A part that was taken stays taken. *)
LEMMA TakenKept ==
  ASSUME HybridInv, NEW r \in Req, Effect(r), NEW i, Taken(i)
  PROVE  Taken(i)'
<1>1. PICK q \in Req : file[q] # None /\ i \in PartIds(file[q])
  BY DEF Taken
<1>2. HybridLocals(q) /\ OthersHold(r) /\ FileEffect(r)
  BY DEF HybridInv, HybridTyped, Effect
<1>3. file'[q] # None /\ file'[q].parts = file[q].parts
  BY <1>1, <1>2, FileFields DEF OthersHold, FileEffect, HybridLocals
<1> QED BY <1>1, <1>3 DEF Taken, PartIds

(* An object is only removed from an upload that was taken or has no info any more. *)
LEMMA HasObjectKept ==
  ASSUME HybridInv, NEW r \in Req, Effect(r), NEW i \in Id, HasObject(i)
  PROVE  HasObject(i)' \/ (pc[r] = "removeFile" /\ i = file[r].id /\ info'[i] = None)
<1>0. /\ HybridTyped /\ ObjectEffect(r) /\ InfoEffect(r) /\ StoredFor(r) /\ LocalsOK(r)
  BY DEF HybridInv, Effect, HybridTyped
<1>1. CASE Taken(i)
  BY <1>1, TakenKept DEF HasObject
<1>2. CASE object'[i] # None
  BY <1>2 DEF HasObject
<1>3. CASE pc[r] = "removeFile" /\ i = file[r].id
  <2>1. info[i] = None /\ Method[r] = "DELETE"
    BY <1>0, <1>3 DEF StoredFor, LocalsOK
  <2> QED BY <1>0, <1>3, <2>1 DEF InfoEffect
<1> QED BY <1>0, <1>1, <1>2, <1>3 DEF HasObject, ObjectEffect

(* Only the file that is created may become shorter. *)
LEMMA CoversKept ==
  ASSUME HybridInv, HybridTyped', NEW r \in Req, Effect(r), NEW i \in Id, NEW n \in Nat, Covers(i, n),
         ~(pc[r] = "create" /\ i = file[r].id)
  PROVE  Covers(i, n)'
<1>1. data \in [Id -> Seq(Nat) \cup {None}] /\ data' \in [Id -> Seq(Nat) \cup {None}]
  BY TypedTypeInv DEF HybridInv, HybridTyped, HybridTypeOK, TypeOK
<1>2. /\ data[i] # None => data[i] \in Seq(Nat) /\ Len(data[i]) \in Nat /\ Len(data[i]) >= n
      /\ data'[i] # None => data'[i] \in Seq(Nat) /\ Len(data'[i]) \in Nat
  BY <1>1 DEF Covers
<1>3. data'[i] \in {data[i], None} \/ (data[i] # None /\ Len(data'[i]) >= Len(data[i]))
  BY DEF Effect, DataEffect
<1>4. data'[i] # None => Len(data'[i]) >= n
  BY <1>2, <1>3
<1> QED BY <1>4 DEF Covers

(* Two handlers of which one makes an upload do not work on the same one. *)
LEMMA Apart ==
  ASSUME HybridInv, NEW r \in Req, NEW q \in Req, q # r, InFlight(q), InFlight(r),
         Method[q] = "POST" \/ Method[r] = "POST"
  PROVE  file[q].id # file[r].id
<1>1. Private(q) /\ Private(r) /\ file[q] # None /\ file[r] # None
  BY Holding DEF HybridInv
<1> QED BY <1>1 DEF Private

(* What is stored for the handlers that are not at work stays stored. *)
LEMMA StoredForKept ==
  ASSUME HybridInv, HybridTyped', NEW r \in Req, Effect(r), NEW q \in Req, q # r
  PROVE  StoredFor(q)'
<1>0. /\ HybridTyped /\ TypeOK /\ StoredFor(q) /\ LocalsOK(q) /\ HybridLocals(q) /\ LocalsOK(r)
      /\ ObjectEffect(r) /\ InfoEffect(r)
      /\ pc'[q] = pc[q] /\ file'[q] = file[q] /\ body'[q] = body[q]
  BY TypedTypeInv DEF HybridInv, Effect, HybridTyped, OthersHold
<1>1. CASE ~InFlight(q)
  BY <1>0, <1>1 DEF StoredFor, Uploaded
<1>2. CASE InFlight(q)
  <2>0. PICK id \in Id : id = file[q].id
    BY <1>0, <1>2, Holding
  <2>1. /\ id \in Id /\ file[q].offset \in Nat /\ file'[q].id = id
        /\ InFlight(r) /\ id = file[r].id => Method[q] # "POST" /\ Method[r] # "POST"
    BY <1>0, <1>2, <2>0, Holding, Apart
  <2>2. pc[q] \in {"create", "readPart", "copyPart", "putJoined"} => object'[id] = None
    <3>1. pc[q] \in {"create", "readPart", "copyPart", "putJoined"} => Method[q] = "POST" /\ object[id] = None
      BY <1>0, <2>0 DEF LocalsOK, HybridLocals, Joining, Reading, StoredFor
    <3> QED BY <1>0, <2>1, <3>1 DEF ObjectEffect
  <2>3. pc[q] = "removeFile" => info'[id] = None
    <3>1. pc[q] = "removeFile" => info[id] = None
      BY <1>0, <2>0 DEF StoredFor
    <3> QED BY <1>0, <2>1, <3>1 DEF InfoEffect
  <2>4. ASSUME NEW n \in Nat, Covers(id, n) PROVE Covers(id, n)'
    <3>1. ~(pc[r] = "create" /\ id = file[r].id)
      BY <1>0, <2>1 DEF LocalsOK
    <3> QED BY <2>4, <3>1, CoversKept
  <2>5. pc[q] \in {"open", "put"} => file[q].length \in Nat
    BY <1>0 DEF HybridLocals
  <2>6. /\ pc'[q] = "write" => Covers(file[q].id, file[q].offset)'
        /\ pc'[q] \in {"save", "saving"} /\ ~file'[q].final => Covers(file[q].id, file[q].offset)'
        /\ pc'[q] \in {"open", "put"} => Covers(file[q].id, file[q].length)'
    BY <1>0, <2>0, <2>1, <2>4, <2>5 DEF StoredFor, Covers
  <2>7. Uploaded(q)' => HasObject(file[q].id)'
    <3> SUFFICES ASSUME Uploaded(q)' PROVE HasObject(id)'
      BY <2>1 DEF HasObject, Taken
    <3>1. Method[q] = "POST" \/ info[id] # None
      BY <1>0, <2>0, <2>1 DEF Uploaded, InfoEffect
    <3>2. HasObject(id)
      BY <1>0, <2>0, <3>1 DEF Uploaded, StoredFor, Finished
    <3>3. HasObject(id)' \/ (pc[r] = "removeFile" /\ id = file[r].id /\ info'[id] = None)
      BY <3>2, HasObjectKept
    <3>4. ~(pc[r] = "removeFile" /\ id = file[r].id /\ info'[id] = None)
      BY <1>0, <2>1 DEF Uploaded
    <3> QED BY <3>3, <3>4
  <2> QED BY <1>0, <2>1, <2>2, <2>3, <2>6, <2>7 DEF StoredFor
<1> QED BY <1>1, <1>2

(* The local file covers the offset of the info, which is the old one or that of r. *)
LEMMA LongDataKept ==
  ASSUME HybridInv, HybridTyped', NEW r \in Req, Effect(r)
  PROVE  LongData'
<1> SUFFICES ASSUME NEW i \in Id, Readable(i)', ~info'[i].final
             PROVE  data'[i] # None => Len(data'[i]) >= info'[i].offset
  BY DEF LongData, Covers
<1>0. /\ HybridTyped /\ LongData /\ StoredFor(r) /\ LocalsOK(r) /\ InfoEffect(r) /\ Private(r)
  BY DEF HybridInv, Effect, HybridTyped
<1>1. PICK n \in Nat : n = info'[i].offset
  <2>1. info' \in [Id -> FileInfo \cup Unreadable]
    BY DEF HybridTyped, HybridTypeOK, TypeOK
  <2> QED BY <2>1, FileFields
<1>2. Covers(i, n) /\ ~(pc[r] = "create" /\ i = file[r].id)
  <2>1. CASE info'[i] = info[i]
    BY <1>0, <1>1, <2>1 DEF LongData, Private, LocalsOK
  <2>2. CASE info'[i] = file[r] /\ i = file[r].id /\ pc[r] = "saving"
    BY <1>0, <1>1, <2>2 DEF StoredFor
  <2> QED BY <1>0, <2>1, <2>2 DEF InfoEffect
<1>3. Covers(i, n)'
  BY <1>2, CoversKept
<1> QED BY <1>1, <1>3 DEF Covers

(* The object covers every length known, the old ones and that of r. *)
LEMMA LongObjectsKept ==
  ASSUME HybridInv, HybridTyped', NEW r \in Req, Effect(r)
  PROVE  LongObjects'
<1> SUFFICES ASSUME NEW f \in FileInfo, Known(f)', object'[f.id] # None
             PROVE  Len(object'[f.id]) >= f.length
  BY DEF LongObjects
<1>0. /\ HybridTyped /\ LongObjects /\ Agreement /\ IdsUsed /\ StoredFor(r)
      /\ FileEffect(r) /\ ObjectEffect(r)
  BY DEF HybridInv, Effect
<1>1. f.id \in Id
  BY FileFields
<1>2. ASSUME NEW g \in FileInfo, Known(g), g.id = f.id, g.length = f.length
      PROVE  Len(object'[f.id]) >= f.length
  <2>1. CASE object'[f.id] = object[f.id]
    BY <1>0, <1>2, <2>1 DEF LongObjects
  <2>2. CASE pc[r] \in {"put", "putJoined"} /\ f.id = file[r].id /\ Len(object'[f.id]) >= file[r].length
    <3>1. Known(file[r]) /\ file[r] \in FileInfo
      BY <1>0, <2>2, Holding, HeldKnown
    <3>2. g.length = file[r].length
      BY <1>0, <1>2, <2>2, <3>1 DEF Agreement
    <3> QED BY <1>2, <2>2, <3>2
  <2> QED BY <1>0, <1>1, <2>1, <2>2 DEF ObjectEffect
<1>3. CASE Known(f)
  BY <1>2, <1>3
<1>4. CASE ~Known(f)
  <2>1. f = file'[r]
    BY <1>4, KnownAfter DEF KnownElse, Known, Held
  <2>2. CASE InFlight(r) /\ file'[r].id = file[r].id /\ file'[r].length = file[r].length
    <3>1. Known(file[r]) /\ file[r] \in FileInfo
      BY <1>0, <2>2, Holding, HeldKnown
    <3> QED BY <1>2, <2>1, <2>2, <3>1
  <2>3. CASE pc[r] = "copyPart" /\ file'[r].id = file[r].id
    BY <1>0, <1>1, <2>1, <2>3 DEF StoredFor, ObjectEffect
  <2>4. CASE pc[r] = "idle" /\ file'[r].id \in used' \ used
    <3>1. object[f.id] = None
      BY <1>0, <1>1, <2>1, <2>4 DEF IdsUsed
    <3> QED BY <1>0, <1>1, <2>4, <3>1 DEF ObjectEffect
  <2>5. CASE file'[r] = file[r] \/ \E i \in Id : Readable(i) /\ file'[r] = info[i]
    <3>1. Known(f)
      BY <2>1, <2>5 DEF Known, Held, StoredInfo
    <3> QED BY <1>4, <3>1
  <2> QED BY <1>0, <2>5, <2>2, <2>3, <2>4 DEF FileEffect
<1> QED BY <1>3, <1>4

(* An info that is complete is the old one, or that of a handler that uploaded the object. *)
LEMMA CompleteStoredKept ==
  ASSUME HybridInv, HybridTyped', NEW r \in Req, Effect(r)
  PROVE  CompleteStored'
<1> SUFFICES ASSUME NEW i \in Id, Visible(i)', Finished(info'[i]), info'[i].length # 0
             PROVE  HasObject(i)'
  BY DEF CompleteStored, Finished
<1>0. HybridTyped /\ CompleteStored /\ StoredFor(r) /\ InfoEffect(r)
  BY DEF HybridInv, Effect
<1>1. HasObject(i)
  <2>1. CASE info'[i] = info[i]
    BY <1>0, <2>1 DEF CompleteStored, Visible, Finished
  <2>2. CASE info'[i] = file[r] /\ i = file[r].id /\ info[i] # None /\ pc[r] = "saving"
    BY <1>0, <2>2 DEF StoredFor, Uploaded, Finished
  <2> QED BY <1>0, <2>1, <2>2 DEF InfoEffect, Visible
<1>2. HasObject(i)' \/ info'[i] = None
  BY <1>1, HasObjectKept
<1> QED BY <1>2 DEF Visible

(* So it is enough to know what a step does, and what is stored for its own handler. *)
LEMMA EffectKept ==
  ASSUME HybridInv, HybridTyped', NEW r \in Req, Effect(r), StoredFor(r)'
  PROVE  HybridInv'
<1>1. \A q \in Req : Private(q)' /\ PartsRead(q)'
  BY PrivateKept, PartsReadKept
<1>2. \A q \in Req : StoredFor(q)'
  BY StoredForKept
<1>3. IdsUsed' /\ Agreement'
  BY IdsUsedKept, AgreementKept
<1>4. LongData' /\ LongObjects' /\ CompleteStored'
  BY LongDataKept, LongObjectsKept, CompleteStoredKept
<1> QED BY <1>1, <1>2, <1>3, <1>4 DEF HybridInv

(* Nothing is stored for a handler that has ended. *)
LEMMA StoredForDone ==
  ASSUME NEW r \in Req, pc'[r] = "done"
  PROVE  StoredFor(r)'
  BY DEF StoredFor, Uploaded

(***************************************************************************)
(* The steps.                                                              *)
(***************************************************************************)

(* Handlers end, and nothing is stored. *)
LEMMA EndsStep ==
  ASSUME HybridInv, HybridTyped', UNCHANGED <<info, data, object, used, file, partsInfo>>,
         \A q \in Req : pc'[q] = "done" \/ (pc'[q] = pc[q] /\ body'[q] = body[q])
  PROVE  HybridInv'
<1> USE DEF HybridInv
<1>1. ASSUME NEW q \in Req PROVE Private(q)' /\ PartsRead(q)'
  BY DEF Private, PartsRead
<1>2. ASSUME NEW q \in Req PROVE StoredFor(q)'
  <2>1. CASE pc'[q] = "done"
    BY <2>1, StoredForDone
  <2>2. CASE pc'[q] = pc[q] /\ body'[q] = body[q]
    BY <2>2 DEF StoredFor, Uploaded, Covers, HasObject, Taken, Finished
  <2> QED BY <2>1, <2>2
<1>3. \A f : Known(f)' <=> Known(f)
  BY DEF Known, StoredInfo, Held, Checked
<1>4. IdsUsed'
  BY <1>3 DEF IdsUsed
<1>5. Agreement' /\ LongObjects'
  BY <1>3 DEF Agreement, LongObjects
<1>6. LongData'
  BY DEF LongData, Covers
<1>7. CompleteStored'
  BY DEF CompleteStored, Visible, Finished, HasObject, Taken
<1> QED BY <1>1, <1>2, <1>4, <1>5, <1>6, <1>7

(* A handler that only answers. *)
LEMMA RefusedStep ==
  ASSUME HybridInv, NEW r \in Req, Answer(r, "error"),
         UNCHANGED <<stores, used, file, body, partsInfo, cursor, gone, telemetry, object>>
  PROVE  HybridInv'
<1>1. HybridTyped' /\ TypeOK
  BY RefusedTyped, TypedTypeInv DEF HybridInv
<1>2. \A q \in Req : pc'[q] = "done" \/ pc'[q] = pc[q]
  BY <1>1 DEF Answer, TypeOK
<1> QED BY <1>1, <1>2, EndsStep DEF stores

(* A client that closes its connection. *)
LEMMA DisconnectStep ==
  ASSUME HybridInv, NEW r \in Req, Disconnect(r), UNCHANGED object
  PROVE  HybridInv'
<1>1. HybridTyped' /\ TypeOK
  BY DisconnectTyped, TypedTypeInv DEF HybridInv
<1>2. \A q \in Req : pc'[q] = "done" \/ pc'[q] = pc[q]
  BY <1>1 DEF Disconnect, TypeOK
<1> QED BY <1>1, <1>2, EndsStep DEF Disconnect, stores

(* The background tasks, the restart and the steps that change nothing. *)
LEMMA BackgroundStep ==
  ASSUME HybridInv, UNCHANGED object,
         (\E h \in hooks : Send(h) \/ SendFails(h)) \/ Crash \/ UNCHANGED vars
  PROVE  HybridInv'
<1>1. HybridTyped' /\ TypeOK
  BY BackgroundTyped, TypedTypeInv DEF HybridInv
<1>2. /\ \A q \in Req : pc'[q] = "done" \/ pc'[q] = pc[q]
      /\ UNCHANGED <<stores, used, file, body, partsInfo>>
  BY <1>1 DEF Send, SendFails, Crash, vars, handlers, stores
<1> QED BY <1>1, <1>2, EndsStep DEF stores

(* A step of a handler that touches no storage. *)
LEMMA QuietEffect ==
  ASSUME NEW r \in Req, UNCHANGED <<stores, object, partsInfo>>, OthersHold(r),
         FlightEffect(r), FileEffect(r)
  PROVE  Effect(r)
  BY DEF Effect, PartsEffect, InfoEffect, DataEffect, ObjectEffect, stores

(* POST draws a fresh id. *)
LEMMA PostStep ==
  ASSUME HybridInv, NEW r \in Req, NEW i \in Id, NEW m \in PostMsg, PostAccepted(r, i, m),
         HybridTyped', UNCHANGED object
  PROVE  HybridInv'
<1>1. TypeOK /\ IdsUsed /\ NewFileInfo(i, m) \in FileInfo /\ NewFileInfo(i, m).id = i
  BY TypedTypeInv, NewFileInfoType DEF HybridInv, NewFileInfo
<1>2. /\ pc[r] = "idle" /\ pc'[r] = "create" /\ file'[r] = NewFileInfo(i, m)
      /\ i \in used' \ used /\ used \subseteq used' /\ OthersHold(r)
      /\ UNCHANGED <<stores, object, partsInfo>>
  BY <1>1 DEF PostAccepted, Begins, OthersHold, TypeOK
<1>3. Effect(r)
  BY <1>1, <1>2, QuietEffect DEF FlightEffect, FileEffect
<1>4. StoredFor(r)'
  BY <1>1, <1>2 DEF StoredFor, Uploaded, IdsUsed
<1> QED BY <1>3, <1>4, EffectKept

(* The other requests take up an upload as its info says. *)
LEMMA TakeStep ==
  ASSUME HybridInv, NEW r \in Req, NEW i \in Id, HybridTyped', UNCHANGED object,
         \/ NoDeferral /\ \E m \in PatchMsg : PatchAccepted(r, i, m)
         \/ DeleteAccepted(r, i) \/ GetAccepted(r, i) \/ HeadAnswered(r, i)
  PROVE  HybridInv'
<1>1. TypeOK /\ IdsUsed /\ LongData
  BY TypedTypeInv DEF HybridInv
<1> DEFINE Takes ==
             /\ pc[r] = "idle" /\ pc'[r] \in {"write", "removeInfo", "read", "done"} /\ Method[r] # "POST"
             /\ Readable(i) /\ file'[r] = info[i] /\ (pc'[r] = "write" => ~info[i].final)
             /\ OthersHold(r) /\ UNCHANGED <<stores, object, partsInfo, used>>
<1>2. Takes
  <2>1. ASSUME NoDeferral, NEW m \in PatchMsg, PatchAccepted(r, i, m) PROVE Takes
    BY <1>1, <2>1
    DEF PatchAccepted, PatchAdmissible, Begins, Visible, Resized, NewLength, NoDeferral, OthersHold, TypeOK
  <2>2. CASE DeleteAccepted(r, i)
    BY <1>1, <2>2 DEF DeleteAccepted, Begins, Visible, OthersHold, TypeOK
  <2>3. CASE GetAccepted(r, i)
    BY <1>1, <2>3 DEF GetAccepted, Begins, Visible, OthersHold, TypeOK
  <2>4. CASE HeadAnswered(r, i)
    BY <1>1, <2>4 DEF HeadAnswered, Answer, Begins, Visible, OthersHold, TypeOK
  <2> QED BY <2>4, <2>1, <2>2, <2>3
<1>3. Effect(r)
  BY <1>1, <1>2, QuietEffect DEF FlightEffect, FileEffect
<1>4. info[i].id = i
  BY <1>1, <1>2 DEF IdsUsed
<1>5. StoredFor(r)'
  BY <1>1, <1>2, <1>4 DEF StoredFor, Uploaded, LongData, Covers, stores
<1> QED BY <1>3, <1>5, EffectKept

(* What is stored for a handler at work. *)
LEMMA AtWorkStored ==
  ASSUME HybridInv, NEW r \in Req, InFlight(r)
  PROVE  /\ TypeOK /\ object \in [Id -> Seq(Nat) \cup {None}] /\ TypeInv
         /\ HybridTyped /\ IdsUsed /\ LocalsOK(r) /\ HybridLocals(r) /\ StoredFor(r)
         /\ file[r] \in FileInfo /\ file[r] # None /\ file[r].id \in Id /\ file[r].offset \in Nat
         /\ file[r].parts \in Seq(Id) /\ body[r] \in Seq(Nat)
<1>1. HybridTyped /\ IdsUsed /\ StoredFor(r)
  BY DEF HybridInv
<1> QED BY <1>1, TypedTypeInv, Holding DEF HybridTyped, TypeOK

(* create_file. *)
LEMMA CreateStep ==
  ASSUME HybridInv, NEW r \in Req, CreateFile(r), HybridTyped', UNCHANGED object
  PROVE  HybridInv'
<1> USE DEF CreateFile
<1>1. /\ TypeOK /\ LocalsOK(r) /\ StoredFor(r) /\ pc[r] = "create" /\ file[r].id \in Id
  BY AtWorkStored
<1>2. /\ pc'[r] \in {"readPart", "write", "save", "done"} /\ OthersHold(r)
      /\ pc'[r] = "readPart" => file[r].final
      /\ data'[file[r].id] = <<>>
      /\ \A i \in Id : i # file[r].id => data'[i] = data[i]
      /\ UNCHANGED <<info, used, file, body, partsInfo, object>>
  BY <1>1 DEF GoTo, OthersHold, TypeOK
<1> HIDE DEF CreateFile
<1>3. Effect(r)
  BY <1>1, <1>2
  DEF Effect, FlightEffect, FileEffect, PartsEffect, InfoEffect, DataEffect, ObjectEffect
<1>4. StoredFor(r)'
  <2>1. file[r].offset = 0 /\ object[file[r].id] = None
    BY <1>1 DEF LocalsOK, StoredFor
  <2>2. Covers(file[r].id, file[r].offset)'
    BY <1>2, <2>1 DEF Covers
  <2>3. ~Uploaded(r)'
    BY <1>2, <2>1 DEF Uploaded, Finished
  <2> QED BY <1>2, <2>1, <2>2, <2>3 DEF StoredFor
<1> QED BY <1>3, <1>4, EffectKept

(* The check of a part. *)
LEMMA ReadPartStep ==
  ASSUME HybridInv, NEW r \in Req, ReadPart(r), HybridTyped', UNCHANGED object
  PROVE  HybridInv'
<1> USE DEF ReadPart
<1>1. /\ TypeOK /\ TypeInv /\ LocalsOK(r) /\ StoredFor(r) /\ PartsRead(r) /\ pc[r] = "readPart"
      /\ file[r].parts \in Seq(Id) /\ body[r] \in Seq(Nat) /\ file[r].offset = 0
      /\ cursor[r] \in 1..Len(file[r].parts) /\ Len(partsInfo[r]) = cursor[r] - 1
  <2>1. TypeOK /\ TypeInv /\ LocalsOK(r) /\ StoredFor(r) /\ file[r].parts \in Seq(Id) /\ body[r] \in Seq(Nat)
    BY AtWorkStored
  <2>2. cursor[r] \in Nat \ {0}
    BY <2>1 DEF TypeOK
  <2> QED BY <2>1, <2>2 DEF LocalsOK, Reading, HybridInv
<1>2. CASE PartAcceptable(info[Part(r)])
  <2>1. Part(r) \in Id /\ Part(r) = file[r].parts[cursor[r]] /\ Readable(Part(r))
    BY <1>1, <1>2 DEF Part, PartAcceptable
  <2>2. /\ pc'[r] \in {"copyPart", "readPart", "done"} /\ OthersHold(r)
        /\ partsInfo'[r] = Append(partsInfo[r], info[Part(r)])
        /\ UNCHANGED <<stores, used, file, body, object>>
    BY <1>1, <1>2 DEF GoTo, OthersHold, TypeOK
  <2>3. PartsEffect(r)
    <3>1. partsInfo[r] \in Seq({f \in FileInfo : f.length # None})
      BY <1>1 DEF TypeOK
    <3>2. \A k \in DOMAIN partsInfo'[r] :
            \/ k \in DOMAIN partsInfo[r] /\ partsInfo'[r][k] = partsInfo[r][k]
            \/ partsInfo'[r][k] = info[Part(r)] /\ k = cursor[r]
      BY <1>1, <2>2, <3>1
    <3> QED BY <1>1, <2>1, <2>2, <3>2 DEF PartsEffect
  <2>4. Effect(r)
    BY <1>1, <2>2, <2>3
    DEF Effect, FlightEffect, FileEffect, InfoEffect, DataEffect, ObjectEffect, stores
  <2>5. StoredFor(r)'
    BY <1>1, <2>2 DEF StoredFor, Uploaded
  <2> QED BY <2>4, <2>5, EffectKept
<1>3. CASE ~PartAcceptable(info[Part(r)])
  BY <1>3, RefusedStep
<1> QED BY <1>2, <1>3

(* remove_info of a part. *)
LEMMA DropInfoStep ==
  ASSUME HybridInv, NEW r \in Req, DropInfo(r), HybridTyped', UNCHANGED object
  PROVE  HybridInv'
<1> USE DEF DropInfo
<1>1. /\ TypeOK /\ TypeInv /\ LocalsOK(r) /\ HybridLocals(r) /\ StoredFor(r) /\ pc[r] = "dropInfo"
      /\ file[r].final /\ Method[r] = "POST"
  BY AtWorkStored DEF HybridLocals, LocalsOK, Joining
<1>2. CASE info[Part(r)] # None
  <2>1. /\ pc'[r] \in {"save", "dropFile", "done"} /\ OthersHold(r)
        /\ UNCHANGED <<data, used, file, body, partsInfo, object>>
        /\ \A i \in Id : info'[i] \in {info[i], None}
    BY <1>1, <1>2 DEF GoTo, OthersHold, TypeOK
  <2>2. Effect(r)
    BY <1>1, <2>1
    DEF Effect, FlightEffect, FileEffect, PartsEffect, InfoEffect, DataEffect, ObjectEffect
  <2>3. HasObject(file[r].id)'
    BY <1>1, <2>1 DEF StoredFor, Uploaded, HasObject, Taken
  <2>4. StoredFor(r)'
    BY <1>1, <2>1, <2>3 DEF StoredFor
  <2> QED BY <2>2, <2>4, EffectKept
<1>3. CASE info[Part(r)] = None
  BY <1>3, RefusedStep DEF stores
<1> QED BY <1>2, <1>3

(* set_info opens the info file ... *)
LEMMA OpenInfoStep ==
  ASSUME HybridInv, NEW r \in Req, OpenInfo(r), HybridTyped', UNCHANGED object
  PROVE  HybridInv'
<1> USE DEF OpenInfo
<1>1. TypeOK /\ StoredFor(r) /\ pc[r] = "save" /\ file[r].id \in Id
  BY AtWorkStored
<1>2. CASE Openable(r)
  <2>1. /\ pc'[r] = "saving" /\ OthersHold(r)
        /\ UNCHANGED <<data, used, file, body, partsInfo, object>>
        /\ info'[file[r].id] = Empty /\ \A i \in Id : i # file[r].id => info'[i] = info[i]
        /\ Method[r] = "POST" \/ info[file[r].id] # None
    BY <1>1, <1>2 DEF Openable, OthersHold, TypeOK
  <2>2. Effect(r)
    BY <1>1, <2>1
    DEF Effect, FlightEffect, FileEffect, PartsEffect, InfoEffect, DataEffect, ObjectEffect, Torn
  <2>3. Uploaded(r)' => HasObject(file[r].id)'
    BY <1>1, <2>1 DEF StoredFor, Uploaded, HasObject, Taken, Finished
  <2>4. StoredFor(r)'
    BY <1>1, <2>1, <2>3 DEF StoredFor, Covers
  <2> QED BY <2>2, <2>4, EffectKept
<1>3. CASE ~Openable(r)
  BY <1>3, RefusedStep DEF stores
<1> QED BY <1>2, <1>3

(* ... and writes it, unless it was removed meanwhile. *)
LEMMA WriteInfoStep ==
  ASSUME HybridInv, NEW r \in Req, WriteInfo(r), HybridTyped', UNCHANGED object
  PROVE  HybridInv'
<1>1. TypeOK /\ pc[r] = "saving" /\ file[r].id \in Id /\ file[r] # None
  BY AtWorkStored DEF WriteInfo
<1>2. PICK content \in Written(file[r].id, file[r]) : info' = [info EXCEPT ![file[r].id] = content]
  BY DEF WriteInfo
<1>3. /\ pc'[r] = "done" /\ OthersHold(r)
      /\ UNCHANGED <<data, used, file, body, partsInfo, object>>
  BY <1>1 DEF WriteInfo, Saved, Answer, OthersHold, TypeOK
<1>4. (info[file[r].id] # None /\ content \in {file[r], Garbled}) \/ content = None
  <2>1. info[file[r].id] # None \/ content = None
    BY <1>1, <1>2, TornAssumption DEF Written, Torn
  <2>2. content \in {file[r], Garbled, None}
    BY <1>2 DEF Written
  <2> QED BY <2>1, <2>2
<1>5. InfoEffect(r)
  BY <1>1, <1>2, <1>3, <1>4 DEF InfoEffect, TypeOK, Torn
<1>6. Effect(r)
  BY <1>1, <1>3, <1>5
  DEF Effect, FlightEffect, FileEffect, PartsEffect, DataEffect, ObjectEffect
<1> QED BY <1>3, <1>6, StoredForDone, EffectKept

(* remove_info of terminate. *)
LEMMA RemoveInfoStep ==
  ASSUME HybridInv, NEW r \in Req, RemoveInfo(r), HybridTyped', UNCHANGED object
  PROVE  HybridInv'
<1> USE DEF RemoveInfo
<1>1. TypeOK /\ pc[r] = "removeInfo" /\ file[r].id \in Id
  BY AtWorkStored
<1>2. CASE info[file[r].id] # None
  <2>1. /\ pc'[r] \in {"removeFile", "done"} /\ OthersHold(r)
        /\ UNCHANGED <<data, used, file, body, partsInfo, object>>
        /\ info'[file[r].id] = None /\ \A i \in Id : info'[i] \in {info[i], None}
    BY <1>1, <1>2 DEF GoTo, OthersHold, TypeOK
  <2>2. Effect(r)
    BY <1>1, <2>1
    DEF Effect, FlightEffect, FileEffect, PartsEffect, InfoEffect, DataEffect, ObjectEffect
  <2>3. StoredFor(r)'
    BY <2>1 DEF StoredFor, Uploaded
  <2> QED BY <2>2, <2>3, EffectKept
<1>3. CASE info[file[r].id] = None
  BY <1>3, RefusedStep DEF stores
<1> QED BY <1>2, <1>3

(* A chunk is appended to the local file. *)
LEMMA AddLocallyStep ==
  ASSUME HybridInv, NEW r \in Req, AddLocally(r), HybridTyped'
  PROVE  HybridInv'
<1> USE DEF AddLocally
<1>1. /\ TypeOK /\ StoredFor(r) /\ HybridTyped /\ pc[r] = "write" /\ InFlight(r) /\ file[r].id \in Id
      /\ file[r].offset \in Nat /\ body[r] \in Seq(Nat)
  BY AtWorkStored
<1>2. CASE data[file[r].id] # None
  <2>1. /\ data[file[r].id] \in Seq(Nat) /\ Len(data[file[r].id]) >= file[r].offset
        /\ data'[file[r].id] = data[file[r].id] \o body[r]
        /\ \A i \in Id : i # file[r].id => data'[i] = data[i]
    BY <1>1, <1>2 DEF TypeOK, StoredFor, Covers, Appended
  <2>2. /\ Len(data'[file[r].id]) >= Len(data[file[r].id])
        /\ Len(data'[file[r].id]) >= file[r].offset + Len(body[r])
    <3> HIDE DEF AddLocally
    <3>1. Len(data[file[r].id] \o body[r]) = Len(data[file[r].id]) + Len(body[r])
      BY <1>1, <2>1, ConcatProperties
    <3>2. PICK n \in Nat, m \in Nat : n = Len(data[file[r].id]) /\ m = Len(body[r])
      BY <1>1, <2>1, LenProperties
    <3>3. Len(data'[file[r].id]) = n + m /\ n >= file[r].offset
      BY <2>1, <3>1, <3>2
    <3>4. n + m >= n /\ n + m >= file[r].offset + m
      BY <1>1, <3>3
    <3> QED BY <3>2, <3>3, <3>4
  <2>3. /\ OthersHold(r) /\ UNCHANGED <<info, used, partsInfo, object>>
        /\ file'[r].id = file[r].id /\ file'[r].parts = file[r].parts
        /\ file'[r].length = file[r].length
        /\ file'[r] = file[r] \/ file'[r] \in FileInfo
        /\ Completes(r) => pc'[r] \in {"open", "done"} /\ file'[r] = file[r]
        /\ ~Completes(r) => /\ pc'[r] \in {"save", "done"}
                            /\ file'[r].offset = file[r].offset + Len(body[r])
    <3>1. CASE Completes(r)
      BY <1>1, <1>2, <3>1 DEF GoTo, OthersHold, TypeOK
    <3>2. CASE ~Completes(r)
      <4>1. file[r].offset + Len(body[r]) \in Nat
        BY <1>1
      <4>2. file' = [file EXCEPT ![r].offset = file[r].offset + Len(body[r])]
        BY <1>2, <3>2
      <4>3. /\ file'[r] \in FileInfo /\ file'[r].id = file[r].id /\ file'[r].parts = file[r].parts
            /\ file'[r].length = file[r].length /\ file'[r].offset = file[r].offset + Len(body[r])
            /\ \A q \in Req : q # r => file'[q] = file[q]
        BY <1>1, <4>1, <4>2, OffsetTyped
      <4>4. /\ \A q \in Req : q # r => pc'[q] = pc[q] /\ body'[q] = body[q]
            /\ pc'[r] \in {"save", "done"} /\ UNCHANGED <<info, used, partsInfo, object>>
        BY <1>1, <1>2, <3>2 DEF GoTo, TypeOK
      <4> HIDE DEF AddLocally
      <4> QED BY <3>2, <4>3, <4>4 DEF OthersHold
    <3> QED BY <3>1, <3>2
  <2> HIDE DEF AddLocally
  <2>4. Effect(r)
    <3>1. DataEffect(r)
      BY <1>2, <2>1, <2>2, Zenon DEF DataEffect
    <3> QED BY <1>1, <2>3, <3>1 DEF Effect, FlightEffect, FileEffect, PartsEffect, InfoEffect, ObjectEffect
  <2>5. StoredFor(r)'
    <3>1. CASE Completes(r)
      <4>1. file[r].length = file[r].offset + Len(body[r])
        BY <3>1 DEF Completes
      <4>2. Len(data'[file[r].id]) >= file[r].length
        BY <2>2, <4>1, Zenon
      <4> QED BY <2>3, <3>1, <4>2 DEF StoredFor, Uploaded, Covers
    <3>2. CASE ~Completes(r)
      <4>1. Len(data'[file[r].id]) >= file'[r].offset
        BY <2>2, <2>3, <3>2, Zenon
      <4>2. ~Finished(file'[r])
        BY <2>3, <3>2 DEF Finished, Completes
      <4> QED BY <2>3, <3>2, <4>1, <4>2 DEF StoredFor, Uploaded, Covers, Finished
    <3> QED BY <3>1, <3>2
  <2> QED BY <2>4, <2>5, EffectKept
<1>3. CASE data[file[r].id] = None
  BY <1>3, RefusedStep DEF stores
<1> QED BY <1>2, <1>3

(* upload_file reads at least the whole upload, ... *)
LEMMA OpenLocalStep ==
  ASSUME HybridInv, NEW r \in Req, OpenLocal(r) \/ StreamMore(r), HybridTyped'
  PROVE  HybridInv'
<1>1. TypeOK /\ StoredFor(r) /\ pc[r] \in {"open", "put"} /\ file[r].id \in Id /\ InFlight(r)
  <2>1. pc[r] \in {"open", "put"} /\ InFlight(r)
    BY DEF OpenLocal, StreamMore
  <2> QED BY <2>1, AtWorkStored
<1>2. CASE data[file[r].id] # None
  <2>1. /\ pc'[r] \in {"put", "done"} /\ body'[r] = data[file[r].id] /\ OthersHold(r)
        /\ UNCHANGED <<stores, used, file, partsInfo, object>>
    BY <1>1, <1>2 DEF OpenLocal, StreamMore, GoTo, OthersHold, TypeOK
  <2>2. Effect(r)
    BY <1>1, <2>1, QuietEffect DEF FlightEffect, FileEffect
  <2>3. StoredFor(r)'
    BY <1>1, <1>2, <2>1 DEF StoredFor, Uploaded, Covers, stores
  <2> QED BY <2>2, <2>3, EffectKept
<1>3. CASE data[file[r].id] = None
  BY <1>3, RefusedStep DEF OpenLocal, StreamMore
<1> QED BY <1>2, <1>3

(* ... puts what it read, ... *)
LEMMA PutObjectStep ==
  ASSUME HybridInv, NEW r \in Req, PutObject(r), HybridTyped'
  PROVE  HybridInv'
<1> USE DEF PutObject
<1>1. /\ TypeOK /\ StoredFor(r) /\ pc[r] = "put" /\ file[r].id \in Id
      /\ object \in [Id -> Seq(Nat) \cup {None}] /\ body[r] \in Seq(Nat) /\ body[r] # None
  BY AtWorkStored, NoneAssumption
<1>2. /\ pc'[r] \in {"dropLocal", "done"} /\ OthersHold(r)
      /\ UNCHANGED <<stores, used, file, body, partsInfo>>
      /\ object'[file[r].id] = body[r] /\ \A i \in Id : i # file[r].id => object'[i] = object[i]
  BY <1>1 DEF GoTo, OthersHold, TypeOK
<1> HIDE DEF PutObject
<1>3. ObjectEffect(r)
  BY <1>1, <1>2 DEF ObjectEffect, StoredFor
<1>4. Effect(r)
  BY <1>1, <1>2, <1>3
  DEF Effect, FlightEffect, FileEffect, PartsEffect, InfoEffect, DataEffect, stores
<1>5. StoredFor(r)'
  BY <1>1, <1>2 DEF StoredFor, HasObject
<1> QED BY <1>4, <1>5, EffectKept

(* ... and removes the local file. *)
LEMMA DropLocalStep ==
  ASSUME HybridInv, NEW r \in Req, DropLocal(r), HybridTyped'
  PROVE  HybridInv'
<1> USE DEF DropLocal
<1>1. /\ TypeOK /\ HybridTyped /\ StoredFor(r) /\ pc[r] = "dropLocal" /\ InFlight(r)
      /\ file[r].id \in Id /\ file[r].length \in Nat
  BY AtWorkStored DEF HybridLocals
<1>2. CASE data[file[r].id] # None
  <2>1. /\ file'[r] \in FileInfo /\ file'[r].id = file[r].id /\ file'[r].parts = file[r].parts
        /\ file'[r].length = file[r].length /\ file'[r].offset = file[r].length
        /\ \A q \in Req : q # r => file'[q] = file[q]
    BY <1>1, <1>2, OffsetTyped
  <2>2. /\ pc'[r] \in {"save", "done"}
        /\ \A q \in Req : q # r => pc'[q] = pc[q] /\ body'[q] = body[q]
        /\ UNCHANGED <<info, used, partsInfo, object>>
        /\ data'[file[r].id] = None /\ \A i \in Id : i # file[r].id => data'[i] = data[i]
    BY <1>1, <1>2 DEF GoTo, TypeOK
  <2> HIDE DEF DropLocal
  <2>3. Effect(r)
    BY <1>1, <2>1, <2>2
    DEF Effect, OthersHold, FlightEffect, FileEffect, PartsEffect, InfoEffect, DataEffect, ObjectEffect
  <2>4. Uploaded(r)' => HasObject(file[r].id)'
    <3> SUFFICES ASSUME Uploaded(r)' PROVE HasObject(file[r].id)'
      OBVIOUS
    <3>1. Uploaded(r)
      BY <1>1, <2>1, <2>2 DEF Uploaded
    <3>2. HasObject(file[r].id)
      BY <1>1, <3>1 DEF StoredFor
    <3>3. PICK i \in Id : i = file[r].id
      BY <1>1
    <3>4. HasObject(i)'
      BY <1>1, <2>3, <3>2, <3>3, HasObjectKept
    <3> QED BY <2>1, <3>3, <3>4 DEF HasObject, Taken
  <2>5. StoredFor(r)'
    BY <2>1, <2>2, <2>4 DEF StoredFor, Covers
  <2> QED BY <2>3, <2>5, EffectKept
<1>3. CASE data[file[r].id] = None
  BY <1>3, RefusedStep DEF stores
<1> QED BY <1>2, <1>3

(* concat_files: the bytes joined cover the offset so far. *)
LEMMA DownloadPartStep ==
  ASSUME HybridInv, NEW r \in Req, DownloadPart(r), HybridTyped'
  PROVE  HybridInv'
<1>1. /\ TypeInv /\ TypeOK /\ HybridTyped /\ StoredFor(r) /\ PartsRead(r) /\ LongObjects
      /\ pc[r] = "copyPart" /\ InFlight(r) /\ Joining(r) /\ file[r].id \in Id
      /\ file[r].offset \in Nat /\ body[r] \in Seq(Nat)
  BY AtWorkStored DEF DownloadPart, HybridInv, Joining
<1>2. CASE object[Part(r)] # None
  <2>1. UNCHANGED <<stores, used, partsInfo, object>>
    BY <1>2 DEF DownloadPart
  <2>2. /\ file'[r] \in FileInfo /\ file'[r].id = file[r].id /\ file'[r].parts = file[r].parts
        /\ file'[r].offset = file[r].offset + partsInfo[r][cursor[r]].length
        /\ \A q \in Req : q # r => file'[q] = file[q] /\ body'[q] = body[q] /\ pc'[q] = pc[q]
        /\ pc'[r] \in {"putJoined", "copyPart", "done"}
        /\ object[Part(r)] \in Seq(Nat) /\ body'[r] = body[r] \o object[Part(r)]
    <3>1. /\ Goes(r, {IF LastPart(r) THEN "putJoined" ELSE "copyPart"})
          /\ file'[r] = Joined(r) /\ Joined(r) \in FileInfo /\ Joined(r).id = file[r].id
          /\ Joined(r).parts = file[r].parts
          /\ Joined(r).offset = file[r].offset + partsInfo[r][cursor[r]].length
          /\ object[Part(r)] \in Seq(Nat) /\ body'[r] = body[r] \o object[Part(r)]
          /\ \A q \in Req \ {r} : file'[q] = file[q] /\ body'[q] = body[q]
      BY <1>1, <1>2, Downloaded
    <3> QED BY <3>1 DEF Goes
  <2>3. Effect(r)
    BY <1>1, <2>1, <2>2, QuietEffect DEF OthersHold, FlightEffect, FileEffect
  <2>4. Len(object[Part(r)]) >= partsInfo[r][cursor[r]].length /\ partsInfo[r][cursor[r]].length \in Nat
    <3>1. /\ Part(r) = file[r].parts[cursor[r]] /\ cursor[r] \in DOMAIN partsInfo[r]
          /\ partsInfo[r][cursor[r]] \in FileInfo /\ partsInfo[r][cursor[r]].length \in Nat
      <4>1. /\ cursor[r] \in 1..Len(file[r].parts) /\ Len(partsInfo[r]) = Len(file[r].parts)
            /\ partsInfo[r][cursor[r]] \in FileInfo /\ partsInfo[r][cursor[r]].length \in Nat
        BY <1>1, AtPart
      <4>2. partsInfo[r] \in Seq({f \in FileInfo : f.length # None})
        BY <1>1 DEF TypeOK
      <4> QED BY <4>1, <4>2 DEF Part
    <3>2. Known(partsInfo[r][cursor[r]]) /\ partsInfo[r][cursor[r]].id = Part(r)
      BY <1>1, <3>1, HeldKnown DEF PartsRead
    <3> QED BY <1>1, <1>2, <3>1, <3>2 DEF LongObjects
  <2>5. Len(body'[r]) >= file'[r].offset
    <3>1. Len(body[r] \o object[Part(r)]) = Len(body[r]) + Len(object[Part(r)])
      BY <1>1, <2>2, ConcatProperties
    <3>2. PICK n \in Nat, m \in Nat : n = Len(body[r]) /\ m = Len(object[Part(r)])
      BY <1>1, <2>2, LenProperties
    <3>3. PICK l \in Nat : l = partsInfo[r][cursor[r]].length
      BY <2>4
    <3>4. n >= file[r].offset /\ m >= l
      BY <1>1, <2>4, <3>2, <3>3 DEF StoredFor
    <3>5. n + m >= file[r].offset + l
      BY <1>1, <3>4
    <3> QED BY <2>2, <3>1, <3>2, <3>3, <3>5
  <2>6. StoredFor(r)'
    <3>1. object'[file'[r].id] = None
      BY <1>1, <2>1, <2>2 DEF StoredFor
    <3> QED BY <2>2, <2>5, <3>1 DEF StoredFor, Uploaded
  <2> QED BY <2>3, <2>6, EffectKept
<1>3. CASE object[Part(r)] = None
  BY <1>3, RefusedStep DEF DownloadPart
<1> QED BY <1>2, <1>3

(* The object of the final upload is as long as its length says. *)
LEMMA PutJoinedStep ==
  ASSUME HybridInv, NEW r \in Req, PutJoined(r), HybridTyped'
  PROVE  HybridInv'
<1> USE DEF PutJoined
<1>1. /\ TypeOK /\ StoredFor(r) /\ HybridLocals(r) /\ pc[r] = "putJoined" /\ file[r].id \in Id
      /\ object \in [Id -> Seq(Nat) \cup {None}] /\ body[r] \in Seq(Nat) /\ body[r] # None
  BY AtWorkStored, NoneAssumption
<1>2. /\ pc'[r] \in {"dropFile", "save", "done"} /\ OthersHold(r)
      /\ UNCHANGED <<stores, used, file, partsInfo>>
      /\ object'[file[r].id] = body[r] /\ \A i \in Id : i # file[r].id => object'[i] = object[i]
  BY <1>1 DEF GoTo, OthersHold, TypeOK
<1> HIDE DEF PutJoined
<1>3. ObjectEffect(r)
  BY <1>1, <1>2 DEF ObjectEffect, StoredFor, HybridLocals
<1>4. Effect(r)
  BY <1>1, <1>2, <1>3
  DEF Effect, FlightEffect, FileEffect, PartsEffect, InfoEffect, DataEffect, stores
<1>5. StoredFor(r)'
  BY <1>1, <1>2 DEF StoredFor, HasObject, HybridLocals
<1> QED BY <1>4, <1>5, EffectKept

(* The object of a part is removed when the part has been taken. *)
LEMMA PartTaken ==
  ASSUME HybridInv, NEW r \in Req, pc[r] = "dropFile"
  PROVE  Part(r) \in Id /\ Taken(Part(r))
<1>1. /\ RemoveParts /\ file[r] # None /\ Part(r) \in Id /\ cursor[r] \in 1..Len(file[r].parts)
      /\ file[r].parts \in Seq(Id)
  BY AtWorkStored, AtPart DEF LocalsOK, Joining
<1>2. Part(r) \in PartIds(file[r])
  BY <1>1 DEF Part, PartIds
<1> QED BY <1>1, <1>2 DEF Taken

(* remove_file of a part. *)
LEMMA DropObjectStep ==
  ASSUME HybridInv, NEW r \in Req, DropObject(r), HybridTyped'
  PROVE  HybridInv'
<1> USE DEF DropObject
<1>1. /\ TypeOK /\ StoredFor(r) /\ LocalsOK(r) /\ pc[r] = "dropFile" /\ file[r].id \in Id
      /\ object \in [Id -> Seq(Nat) \cup {None}] /\ Method[r] = "POST"
  BY AtWorkStored DEF LocalsOK, Joining
<1>2. PICK part \in Id : part = Part(r) /\ Taken(part)
  BY <1>1, PartTaken
<1>3. /\ pc'[r] \in {"dropInfo", "done"} /\ OthersHold(r)
      /\ UNCHANGED <<stores, used, file, body, partsInfo>>
      /\ object'[part] = None /\ \A i \in Id : i # part => object'[i] = object[i]
  BY <1>1, <1>2 DEF GoTo, OthersHold, TypeOK
<1> HIDE DEF DropObject
<1>4. Effect(r)
  <2>1. ASSUME NEW i \in Id PROVE object'[i] = object[i] \/ (object'[i] = None /\ Taken(i))
    <3>1. CASE i = part
      <4>1. Taken(i)
        BY ONLY <1>2, <3>1, Zenon
      <4> QED BY <1>3, <3>1, <4>1
    <3>2. CASE i # part
      BY <1>3, <3>2
    <3> QED BY <3>1, <3>2
  <2>2. ObjectEffect(r)
    BY <2>1 DEF ObjectEffect
  <2>3. InfoEffect(r) /\ DataEffect(r)
    BY <1>3 DEF InfoEffect, DataEffect, stores
  <2>4. FlightEffect(r) /\ FileEffect(r) /\ PartsEffect(r)
    BY <1>1, <1>3 DEF FlightEffect, FileEffect, PartsEffect
  <2> QED BY <1>3, <2>2, <2>3, <2>4 DEF Effect
<1>5. HasObject(file[r].id)'
  <2>1. HasObject(file[r].id)
    BY <1>1 DEF StoredFor, Uploaded
  <2>2. PICK i \in Id : i = file[r].id
    BY <1>1
  <2>3. HasObject(i)'
    BY <1>1, <1>4, <2>1, <2>2, HasObjectKept
  <2> QED BY <1>3, <2>2, <2>3 DEF HasObject, Taken
<1>6. StoredFor(r)'
  BY <1>3, <1>5 DEF StoredFor
<1> QED BY <1>4, <1>6, EffectKept

(* remove_file of terminate. *)
LEMMA RemoveStoredStep ==
  ASSUME HybridInv, NEW r \in Req, RemoveStored(r), HybridTyped'
  PROVE  HybridInv'
<1> USE DEF RemoveStored
<1>1. TypeOK /\ pc[r] = "removeFile" /\ file[r].id \in Id /\ object \in [Id -> Seq(Nat) \cup {None}]
  BY AtWorkStored
<1>2. /\ pc'[r] = "done" /\ OthersHold(r) /\ UNCHANGED <<info, used, file, body, partsInfo>>
      /\ \A i \in Id : data'[i] \in {data[i], None}
      /\ \A i \in Id : object'[i] = object[i] \/ (object'[i] = None /\ i = file[r].id)
  BY <1>1 DEF Answer, OthersHold, TypeOK
<1> HIDE DEF RemoveStored
<1>3. Effect(r)
  BY <1>1, <1>2
  DEF Effect, FlightEffect, FileEffect, PartsEffect, InfoEffect, DataEffect, ObjectEffect
<1> QED BY <1>2, <1>3, StoredForDone, EffectKept

(* get_contents stores nothing. *)
LEMMA ReadStoredStep ==
  ASSUME HybridInv, NEW r \in Req, ReadStored(r), HybridTyped'
  PROVE  HybridInv'
<1> USE DEF ReadStored
<1>1. TypeOK
  BY AtWorkStored
<1>2. \A q \in Req : pc'[q] = "done" \/ (pc'[q] = pc[q] /\ body'[q] = body[q])
  BY <1>1 DEF Answer, TypeOK
<1> QED BY <1>2, EndsStep DEF stores

(* A failing call, whatever of it was executed. *)
LEMMA StorageFaultStep ==
  ASSUME HybridInv, NEW r \in Req, StorageFault(r), HybridTyped'
  PROVE  HybridInv'
<1> USE DEF StorageFault
<1>1. /\ TypeOK /\ InFlight(r) /\ file[r].id \in Id /\ body[r] \in Seq(Nat) /\ body[r] # None
      /\ object \in [Id -> Seq(Nat) \cup {None}] /\ StoredFor(r) /\ HybridLocals(r)
  BY AtWorkStored, NoneAssumption
<1>2. /\ pc'[r] = "done" /\ OthersHold(r) /\ UNCHANGED <<used, file, body, partsInfo>>
  BY <1>1 DEF Answer, OthersHold, TypeOK
<1>3. InfoEffect(r)
  <2>1. HalfWritten(file[r].id) => InfoEffect(r)
    BY <1>1 DEF HalfWritten, InfoEffect, Torn, TypeOK
  <2>2. info' = info => InfoEffect(r)
    BY DEF InfoEffect
  <2> QED BY <2>1, <2>2 DEF stores
<1>4. DataEffect(r)
  <2>1. ASSUME data[file[r].id] # None, PartlyAppended(file[r].id, body[r]) PROVE DataEffect(r)
    <3>1. PICK n \in 0..Len(body[r]) :
            data' = [data EXCEPT ![file[r].id] = Appended(Opened(file[r].id), SubSeq(body[r], 1, n))]
      BY <2>1 DEF PartlyAppended
    <3>2. SubSeq(body[r], 1, n) \in Seq(Nat) /\ data[file[r].id] \in Seq(Nat)
      BY <1>1, <2>1, SubSeqProperties DEF TypeOK
    <3>3. PICK tail \in Seq(Nat) : tail = SubSeq(body[r], 1, n)
      BY <3>2
    <3>4. data' = [data EXCEPT ![file[r].id] = data[file[r].id] \o tail]
      BY <2>1, <3>1, <3>3 DEF Appended, Opened
    <3>5. Len(data[file[r].id] \o tail) = Len(data[file[r].id]) + Len(tail)
      BY <3>2, <3>3, ConcatProperties
    <3>6. Len(data[file[r].id]) \in Nat /\ Len(tail) \in Nat
      BY <3>2, <3>3, LenProperties
    <3>7. Len(data[file[r].id] \o tail) >= Len(data[file[r].id])
      BY <3>5, <3>6
    <3> DEFINE longer == data[file[r].id] \o tail
    <3>8. /\ data' = [data EXCEPT ![file[r].id] = longer] /\ Len(longer) >= Len(data[file[r].id])
      BY <3>4, <3>7
    <3> HIDE DEF longer, StorageFault
    <3> QED BY <1>1, <2>1, <3>8 DEF DataEffect, TypeOK
  <2>2. data' = data => DataEffect(r)
    BY DEF DataEffect
  <2> QED BY <2>1, <2>2 DEF stores
<1>5. ObjectEffect(r)
  <2>0. \/ object' = object
        \/ pc[r] \in {"put", "putJoined"} /\ object' = [object EXCEPT ![file[r].id] = body[r]]
        \/ pc[r] = "dropFile" /\ object' = [object EXCEPT ![Part(r)] = None]
        \/ pc[r] = "removeFile" /\ object' = [object EXCEPT ![file[r].id] = None]
    OBVIOUS
  <2> HIDE DEF StorageFault
  <2>1. CASE object' = object
    BY <2>1 DEF ObjectEffect
  <2>2. CASE pc[r] \in {"put", "putJoined"} /\ object' = [object EXCEPT ![file[r].id] = body[r]]
    BY <1>1, <2>2 DEF ObjectEffect, StoredFor, HybridLocals
  <2>3. CASE pc[r] = "dropFile" /\ object' = [object EXCEPT ![Part(r)] = None]
    BY <1>1, <2>3, PartTaken DEF ObjectEffect
  <2>4. CASE pc[r] = "removeFile" /\ object' = [object EXCEPT ![file[r].id] = None]
    BY <1>1, <2>4 DEF ObjectEffect
  <2> QED BY <2>0, <2>1, <2>2, <2>3, <2>4
<1> HIDE DEF StorageFault
<1>6. Effect(r)
  BY <1>1, <1>2, <1>3, <1>4, <1>5 DEF Effect, FlightEffect, FileEffect, PartsEffect
<1> QED BY <1>2, <1>6, StoredForDone, EffectKept

(***************************************************************************)
(* The theorems.                                                           *)
(***************************************************************************)

(* The server starts with no objects and, of its own, no uploads. *)
LEMMA HybridInitInv == HybridInit => HybridInv
<1> SUFFICES ASSUME HybridInit PROVE HybridInv
  OBVIOUS
<1>1. HybridTyped
  BY HybridInitTyped
<1>2. /\ \A r \in Req : pc[r] = "idle" /\ file[r] = None /\ partsInfo[r] = <<>>
      /\ \A i \in Id : object[i] = None /\ data[i] = None
      /\ \A i \in Id : info[i] = IF i \in Foreign THEN ForeignInfo(i) ELSE None
      /\ used = Foreign
  BY DEF HybridInit, Init
<1>3. ASSUME NEW i \in Id PROVE ~Visible(i)
  <2>1. (i \in Foreign => info[i] = ForeignInfo(i)) /\ (i \notin Foreign => info[i] = None)
    BY <1>2
  <2>2. ForeignInfo(i).storage # Own /\ ForeignInfo(i).id = i
    BY DEF ForeignInfo, OtherStorage, Own
  <2> QED BY <2>1, <2>2 DEF Visible
<1>4. ASSUME NEW f \in FileInfo, Known(f) PROVE \E i \in Foreign : f = ForeignInfo(i)
  <2>1. f # None
    BY FileFields
  <2> QED BY <1>2, <1>4, <2>1 DEF Known, StoredInfo, Held, Checked
<1>5. IdsUsed
  <2>1. ASSUME NEW i \in Id, Readable(i) PROVE info[i].id = i
    <3>1. info[i] = IF i \in Foreign THEN ForeignInfo(i) ELSE None
      BY <1>2
    <3>2. i \in Foreign
      BY <2>1, <3>1
    <3> QED BY <3>1, <3>2 DEF ForeignInfo
  <2>2. ASSUME NEW i \in Id, i \notin used PROVE info[i] = None /\ object[i] = None
    BY <1>2, <2>2
  <2>3. ASSUME NEW f \in FileInfo, Known(f) PROVE f.id \in used
    BY <1>2, <1>4, <2>3 DEF ForeignInfo
  <2> QED BY <2>1, <2>2, <2>3 DEF IdsUsed
<1>6. Agreement
  BY <1>4 DEF Agreement, ForeignInfo
<1>7. \A r \in Req : Private(r) /\ PartsRead(r) /\ StoredFor(r)
  BY <1>2 DEF Private, PartsRead, StoredFor, Uploaded
<1>8. LongData /\ LongObjects /\ CompleteStored
  BY <1>2, <1>3, FileFields DEF LongData, Covers, LongObjects, CompleteStored
<1> QED BY <1>1, <1>5, <1>6, <1>7, <1>8 DEF HybridInv

(* A request that enters. *)
LEMMA ArriveStep ==
  ASSUME NoDeferral, HybridInv, NEW r \in Req, Arrive(r), HybridTyped', UNCHANGED object
  PROVE  HybridInv'
<1>1. CASE PostRefused(r)
  BY <1>1, RefusedStep DEF PostRefused
<1>2. ASSUME NEW m \in PostMsg, NEW i \in Id, PostAccepted(r, i, m) PROVE HybridInv'
  BY <1>2, PostStep
<1>3. ASSUME NEW i \in Id, PatchRefused(r, i) \/ DeleteRefused(r, i) \/ ReadRefused(r, i)
      PROVE  HybridInv'
  BY <1>3, RefusedStep DEF PatchRefused, DeleteRefused, ReadRefused
<1>4. ASSUME NEW i \in Id,
             \/ \E m \in PatchMsg : PatchAccepted(r, i, m)
             \/ DeleteAccepted(r, i) \/ GetAccepted(r, i) \/ HeadAnswered(r, i)
      PROVE  HybridInv'
  BY <1>4, TakeStep
<1> QED BY <1>1, <1>2, <1>3, <1>4 DEF Arrive

(* Where lengths cannot be deferred every step keeps the invariant. *)
LEMMA HybridNextInv == NoDeferral /\ HybridInv /\ [HybridNext]_<<vars, object>> => HybridInv'
<1> SUFFICES ASSUME NoDeferral, HybridInv, [HybridNext]_<<vars, object>> PROVE HybridInv'
  OBVIOUS
<1>0. HybridTyped'
  BY HybridNextTyped DEF HybridInv
<1>1. ASSUME NEW r \in Req, StorageStep(r) PROVE HybridInv'
  BY <1>0, <1>1, AddLocallyStep, OpenLocalStep, PutObjectStep, DropLocalStep, DownloadPartStep,
     PutJoinedStep, DropObjectStep, RemoveStoredStep, ReadStoredStep, StorageFaultStep
  DEF StorageStep
<1>2. ASSUME NEW r \in Req, SameStep(r), UNCHANGED object PROVE HybridInv'
  <2>1. CASE HookRefused(r)
    BY <1>2, <2>1, RefusedStep DEF HookRefused
  <2> QED BY <1>0, <1>2, <2>1, ArriveStep, CreateStep, ReadPartStep, DropInfoStep, OpenInfoStep,
             WriteInfoStep, RemoveInfoStep, DisconnectStep DEF SameStep
<1> QED BY <1>1, <1>2, BackgroundStep DEF HybridNext, Quiet

(* Every variable has its type over the hybrid storage. *)
THEOREM HybridTypeCorrect == HybridSpec => []HybridTypeOK
<1>1. HybridTyped => HybridTypeOK
  BY DEF HybridTyped
<1> QED BY <1>1, HybridInitTyped, HybridNextTyped, PTL DEF HybridSpec

(* The invariant holds in every reachable state, where lengths cannot be deferred. *)
THEOREM HybridInvariant == NoDeferral => (HybridSpec => []HybridInv)
<1> SUFFICES ASSUME NoDeferral PROVE HybridSpec => []HybridInv
  OBVIOUS
<1>1. HybridInv /\ [HybridNext]_<<vars, object>> => HybridInv'
  BY HybridNextInv
<1> QED BY <1>1, HybridInitInv, PTL DEF HybridSpec

(* Where lengths cannot be deferred: an upload whose info says that it is        *)
(* complete has an object with all its bytes, unless it was taken as a part to   *)
(* remove, whatever races, fails, is dropped or restarted between add_bytes and  *)
(* set_info.                                                                     *)
THEOREM CompleteHaveObjects ==
  "creation-defer-length" \notin Extensions => (HybridSpec => []CompleteHasObject)
<1> SUFFICES ASSUME NoDeferral PROVE HybridSpec => []CompleteHasObject
  BY DEF NoDeferral
<1>1. HybridInv => CompleteHasObject
  <2> SUFFICES ASSUME HybridInv, NEW i \in Id, Visible(i), Finished(info[i]), info[i].length # 0
               PROVE  \/ object[i] # None /\ Len(object[i]) >= info[i].length
                      \/ Taken(i)
    BY DEF CompleteHasObject, Taken
  <2>1. HasObject(i) /\ Known(info[i]) /\ info[i] \in FileInfo /\ info[i].id = i
    BY HeldKnown DEF HybridInv, CompleteStored, Visible, IdsUsed
  <2>2. object[i] # None => Len(object[i]) >= info[i].length
    BY <2>1 DEF HybridInv, LongObjects
  <2> QED BY <2>1, <2>2 DEF HasObject
<1> QED BY <1>1, HybridInvariant, PTL

(******************************************************************************)
(* Where the bytes are, for clients that wait and without concatenation, when *)
(* nothing fails.                                                             *)
(******************************************************************************)

Calm == Env = {} /\ "concatenation" \notin Extensions

(* UploadServer and what is proved of it, seen through the mapping. *)
Up == INSTANCE UploadRefinementProofs WITH
  pc <- localPc, resp <- localResp, file <- localFile, body <- localBody, data <- localData

Working(r) == InFlight(r) /\ Modifying(r)

(* A finished upload is kept in its object, any other in its local file. *)
Placed(i, f) ==
  IF Finished(f) /\ f.length # 0
  THEN data[i] = None /\ object[i] # None
  ELSE data[i] # None /\ object[i] = None

(* Where the bytes are that the handler of r works on. *)
PlacedFor(r) ==
  LET i == file[r].id
  IN /\ pc[r] = "create" => object[i] = None
     /\ pc[r] \in {"write", "open", "put"} => data[i] # None /\ object[i] = None
     /\ pc[r] = "write" => body[r] # <<>> \/ ~Finished(file[r])
     /\ Moving(r) => file[r].length # 0
     /\ pc[r] = "open" => Completes(r)
     /\ pc[r] = "put" => body[r] = data[i]
     /\ pc[r] = "dropLocal" => data[i] # None /\ object[i] = data[i]
     /\ pc[r] \in {"save", "saving", "removeInfo", "removeFile"} => Placed(i, file[r])
     /\ pc[r] # "complete"

(* No upload is in two places, but for the moment between put and removal. *)
OnePlace(i) ==
  /\ object[i] = None \/ data[i] = None \/ \E r \in Req : pc[r] = "dropLocal" /\ file[r].id = i
  /\ i \notin used \/ Emptied(i) => object[i] = None
  /\ Visible(i) /\ (\A r \in Req : Working(r) => file[r].id # i) => Placed(i, info[i])

(* Nobody writes to a complete upload, its info still says so, and its bytes have a place. *)
Settled(i, f) ==
  /\ i \in used
  /\ Readable(i) => Finished(info[i])
  /\ \A q \in Req : Working(q) /\ file[q].id = i => Method[q] = "DELETE"
  /\ IF f.length # 0 THEN data[i] = None ELSE object[i] = None

(* What a GET finds of the upload whose info it read. *)
Reads(r) ==
  Method[r] = "GET" =>
    /\ pc[r] = "read" => resp[r] = "none"
    /\ pc[r] = "read" /\ Finished(file[r]) => Settled(file[r].id, file[r])
    /\ resp[r] = "ok" => ~Unserved(r)

CalmInv ==
  /\ HybridTyped
  /\ Up!TusInv
  /\ \A r \in Req : PlacedFor(r) /\ Reads(r)
  /\ \A i \in Id : OnePlace(i)

(***************************************************************************)
(* What UploadServer says of the handlers, seen through the mapping.       *)
(***************************************************************************)
USE DEF InFlight, Readable, Unreadable, Up!InFlight, Up!Readable, Up!Unreadable

(* What UploadRefinementProofs shows holds of the mapped variables. *)
LEMMA LocalTusInit == Up!Init => Up!TusInv
  BY Up!InitTusInv, IdAssumption, MethodAssumption, InputAssumption, ConfigAssumption,
     NoneAssumption, TornAssumption, AbsentAssumption
  DEF Up!InitTusInv, FileInfo, EnvKinds, Methods, ExtensionNames, Torn, HookNames, Own, OtherStorage,
      Up!FileInfo, Up!EnvKinds, Up!Methods, Up!ExtensionNames, Up!Torn, Up!HookNames, Up!Own,
      Up!OtherStorage

(* Its invariant is kept. *)
LEMMA LocalTusNext == Calm /\ Up!TusInv /\ [Up!Next]_Up!vars => Up!TusInv'
  BY Up!NextTusInv, IdAssumption, MethodAssumption, InputAssumption, ConfigAssumption,
     NoneAssumption, TornAssumption, AbsentAssumption
  DEF Up!NextTusInv, FileInfo, EnvKinds, Methods, ExtensionNames, Torn, HookNames, Own, OtherStorage,
      Up!FileInfo, Up!EnvKinds, Up!Methods, Up!ExtensionNames, Up!Torn, Up!HookNames, Up!Own,
      Up!OtherStorage, Calm, Up!NothingFails, Up!NoConcat

(* The mapping, request by request. *)
LEMMA LocalAt ==
  ASSUME NEW r \in Req
  PROVE  /\ localPc[r] = IF Moving(r) THEN "save" ELSE IF Unserved(r) THEN "idle" ELSE pc[r]
         /\ localResp[r] = IF Unserved(r) THEN "none" ELSE resp[r]
         /\ Unserved(r) => localFile[r] = None
         /\ ~Unserved(r) =>
              localFile[r] = IF Moving(r) THEN [file[r] EXCEPT !.offset = file[r].length] ELSE file[r]
         /\ localBody[r] = IF Moving(r) THEN <<>> ELSE body[r]
  BY DEF localPc, localResp, localFile, localBody

(* The FileInfo of a handler that moves its upload to S3. *)
LEMMA LocalInfo ==
  ASSUME HybridTyped, NEW r \in Req, file[r] # None, ~Unserved(r)
  PROVE  /\ file[r] \in FileInfo /\ localFile[r] \in FileInfo /\ localFile[r] # None
         /\ localFile[r].id = file[r].id /\ localFile[r].length = file[r].length
         /\ localFile[r].final = file[r].final /\ localFile[r].parts = file[r].parts
         /\ localFile[r].storage = file[r].storage
         /\ localFile[r].offset = IF Moving(r) THEN file[r].length ELSE file[r].offset
<1>1. file[r] \in FileInfo /\ (Moving(r) => file[r].length \in Nat)
  BY Holding DEF HybridTyped, HybridLocals, Moving
<1>2. CASE Moving(r)
  <2>1. localFile[r] = [file[r] EXCEPT !.offset = file[r].length]
    BY <1>2, LocalAt
  <2>2. localFile[r] \in FileInfo
    BY <1>1, <1>2, <2>1 DEF FileInfo
  <2> QED BY <1>1, <1>2, <2>1, <2>2, FileFields DEF FileInfo
<1>3. CASE ~Moving(r)
  BY <1>1, <1>3, LocalAt, FileFields
<1> QED BY <1>2, <1>3

(* A handler that holds nothing. *)
LEMMA LocalNone ==
  ASSUME HybridTyped, NEW r \in Req, file[r] = None
  PROVE  localFile[r] = None /\ ~Moving(r) /\ ~Unserved(r)
<1>1. ~Moving(r)
  BY DEF Moving, HybridTyped, LocalsOK
<1>2. ~Unserved(r)
  BY DEF Unserved
<1> QED BY <1>1, <1>2, LocalAt

(* The handlers answer when they end, and clients wait for it. *)
LEMMA Waiting ==
  ASSUME CalmInv, NEW r \in Req
  PROVE  /\ ~gone[r] /\ (pc[r] # "done" => resp[r] = "none")
         /\ pc[r] = "idle" => file[r] = None
         /\ Unserved(r) => pc[r] \in {"read", "done"}
<1>1. /\ ~gone[r]
      /\ localResp[r] # "none" => localPc[r] = "done"
  BY DEF CalmInv, Up!TusInv, Up!ExactInv, Up!SerialInv, Up!Attended
<1>2. pc[r] = "idle" => file[r] = None
  BY DEF CalmInv, HybridTyped, HybridLocals
<1>3. Method[r] = "GET" => pc[r] \in {"idle", "read", "done"}
  <2>1. pc[r] \in Pcs /\ LocalsOK(r) /\ HybridLocals(r) /\ pc[r] # "complete"
    BY DEF CalmInv, HybridTyped, HybridTypeOK, TypeOK, PlacedFor
  <2> QED BY <2>1 DEF Pcs, LocalsOK, HybridLocals, Reading, Joining
<1>4. Unserved(r) => pc[r] \in {"read", "done"}
  BY <1>2, <1>3 DEF Unserved
<1>5. CASE Unserved(r)
  BY <1>1, <1>2, <1>4, <1>5 DEF CalmInv, Reads, Unserved
<1>6. CASE ~Unserved(r)
  BY <1>1, <1>2, <1>6, LocalAt DEF Moving
<1> QED BY <1>5, <1>6, <1>4

(* Nobody makes a final upload. *)
LEMMA NoFinals ==
  ASSUME CalmInv, NEW r \in Req
  PROVE  /\ file[r] # None /\ ~Unserved(r) => ~file[r].final
         /\ pc[r] \notin {"readPart", "copyPart", "dropFile", "dropInfo", "putJoined"}
<1>1. file[r] # None /\ ~Unserved(r) => ~localFile[r].final /\ localFile[r] # None
  BY LocalInfo DEF CalmInv, Up!TusInv, Up!Plain
<1>2. file[r] # None /\ ~Unserved(r) => ~file[r].final
  BY <1>1, LocalInfo DEF CalmInv
<1>3. HybridLocals(r) /\ LocalsOK(r)
  BY DEF CalmInv, HybridTyped
<1>4. pc[r] \notin {"readPart", "copyPart", "dropFile", "dropInfo", "putJoined"}
  BY <1>2, <1>3, Waiting DEF HybridLocals, LocalsOK, Joining, Reading
<1> QED BY <1>2, <1>4

(* A handler at work, seen through the mapping. *)
LEMMA WorkingSeen ==
  ASSUME CalmInv, NEW r \in Req, Working(r)
  PROVE  /\ Up!Works(r) /\ file[r] # None /\ file[r] \in FileInfo /\ file[r].id \in Id
         /\ file[r].id \in used \ Foreign
         /\ localFile[r].id = file[r].id /\ localFile[r] # None /\ ~Unserved(r)
<1>1. file[r] # None /\ file[r] \in FileInfo /\ file[r].id \in Id
  BY Holding DEF CalmInv, Working
<1>0. ~Unserved(r)
  BY DEF Working, Modifying, Unserved
<1>2. localFile[r].id = file[r].id /\ localFile[r] # None
  BY <1>0, <1>1, LocalInfo DEF CalmInv
<1>3. Up!Works(r)
  BY <1>0, LocalAt DEF Working, Up!Works, Up!Modifying, Modifying, Moving
<1>4. file[r].id \in used \ Foreign
  BY <1>2 DEF CalmInv, Up!TusInv, Up!ExactInv, Up!SerialInv, Up!Inv, Up!IdsInv, Up!UsedInv
<1> QED BY <1>0, <1>1, <1>2, <1>3, <1>4

(* The handlers that work on uploads, by where they are. *)
LEMMA WorkersWork ==
  ASSUME CalmInv, NEW r \in Req,
         pc[r] \in {"create", "write", "open", "put", "dropLocal", "save", "saving", "removeInfo", "removeFile"}
  PROVE  Working(r) /\ (pc[r] \in {"removeInfo", "removeFile"} <=> Method[r] = "DELETE")
<1>1. HybridLocals(r) /\ LocalsOK(r)
  BY DEF CalmInv, HybridTyped
<1> QED BY <1>1 DEF HybridLocals, LocalsOK, Working, Modifying

(* Two handlers at work are at work on different uploads. *)
LEMMA WorkingAlone ==
  ASSUME CalmInv, NEW r \in Req, NEW q \in Req, q # r, Working(r), Working(q)
  PROVE  file[q].id # file[r].id
<1>1. Up!Alone(q, r)
  BY DEF CalmInv, Up!TusInv, Up!ExactInv, Up!SerialInv
<1> QED BY <1>1, WorkingSeen DEF Up!Alone

(* The bytes of an upload, in whichever place they are. *)
LEMMA LocalDataAt ==
  ASSUME NEW i \in Id
  PROVE  localData[i] = IF Emptied(i) THEN None ELSE IF data[i] # None THEN data[i] ELSE object[i]
BY DEF localData

(* What a handler counts on is there: the bytes of its upload, in whichever place. *)
LEMMA WorkingSound ==
  ASSUME CalmInv, NEW r \in Req, Working(r)
  PROVE  ~Emptied(file[r].id)
<1> DEFINE i == file[r].id
<1>0. /\ i \in Id \ Foreign /\ localFile[r].id = i /\ ~Unserved(r) /\ InFlight(r) /\ Up!Works(r)
      /\ file[r] # None /\ file[r] \in FileInfo
  BY WorkingSeen DEF Working
<1>1. Up!Sound(r) /\ Up!Exact(i) /\ Up!Current(r)
  BY <1>0 DEF CalmInv, Up!TusInv, Up!ExactInv, Up!SerialInv
<1>2. localPc[r] \in {"save", "saving", "removeFile"} => localData[i] # None
  BY <1>0, <1>1 DEF Up!Sound
<1>3. localPc[r] = "write" => localData[i] # None
  <2>1. localPc[r] = "write" => localData[i] = Up!Bytes(0, localFile[r].offset)
    BY <1>0, <1>1 DEF Up!Sound
  <2>2. localFile[r].offset \in Nat => Up!Bytes(0, localFile[r].offset) # None
    BY BytesType, NoneAssumption DEF Up!Bytes, Bytes
  <2>3. localFile[r] \in FileInfo
    BY <1>0, LocalInfo DEF CalmInv
  <2> QED BY <2>1, <2>2, <2>3, FileFields
<1>4. pc[r] = "removeInfo" => localData[i] # None
  <2> SUFFICES ASSUME pc[r] = "removeInfo" PROVE localData[i] # None
    OBVIOUS
  <2>1. info[i] = localFile[r] /\ localFile[r] \in FileInfo /\ localPc[r] = "removeInfo"
    BY <1>0, <1>1, LocalAt, LocalInfo DEF Up!Current, CalmInv, Moving
  <2>2. info[i] \notin Up!Unreadable
    BY <2>1, FileFields DEF Torn, Up!Torn
  <2>3. ~\E q \in Req : localPc[q] = "dropInfo" /\ Up!Part(q) = i
    BY NoFinals, LocalAt
  <2> QED BY <1>0, <1>1, <2>2, <2>3 DEF Up!Exact
<1>5. pc[r] = "create" => ~Emptied(i)
  <2> SUFFICES ASSUME pc[r] = "create", NEW q \in Req, Method[q] = "DELETE",
                      file[q] # None, file[q].id = i
               PROVE  FALSE
    BY DEF Emptied
  <2>1. Method[r] = "POST" /\ q # r
    BY DEF CalmInv, HybridTyped, LocalsOK
  <2>2. Up!Private(r, i) /\ Up!Unpublished(r, i)
    BY <1>0, <2>1, LocalAt DEF CalmInv, Up!TusInv, Up!ExactInv, Up!SerialInv, Up!Inv, Up!IdsInv, Up!Unpublished, Moving
  <2>3. ~Up!Names(q, i) /\ ~Unserved(q)
    BY <2>1, <2>2 DEF Up!Private, Unserved
  <2> QED BY <2>3, LocalInfo DEF Up!Names, CalmInv
<1>6. pc[r] \in {"create", "write", "open", "put", "dropLocal", "save", "saving", "removeInfo", "removeFile"}
  <2>1. /\ pc[r] \in Pcs /\ pc[r] \notin {"idle", "done"} /\ LocalsOK(r) /\ Modifying(r)
        /\ pc[r] # "complete"
    BY <1>0 DEF CalmInv, HybridTyped, HybridTypeOK, TypeOK, PlacedFor, Working
  <2> QED BY <2>1, NoFinals DEF Pcs, LocalsOK, Modifying
<1> QED BY <1>0, <1>2, <1>3, <1>4, <1>5, <1>6, LocalAt, LocalDataAt DEF Moving

(***************************************************************************)
(* Steps of one handler, seen through the mapping.                         *)
(***************************************************************************)

(* The mapping after a step. *)
LEMMA LocalAtNext ==
  ASSUME NEW r \in Req
  PROVE  /\ localPc'[r] = IF Moving(r)' THEN "save" ELSE IF Unserved(r)' THEN "idle" ELSE pc'[r]
         /\ localResp'[r] = IF Unserved(r)' THEN "none" ELSE resp'[r]
         /\ Unserved(r)' => localFile'[r] = None
         /\ ~Unserved(r)' =>
              localFile'[r] = IF Moving(r)' THEN [file'[r] EXCEPT !.offset = file'[r].length] ELSE file'[r]
         /\ localBody'[r] = IF Moving(r)' THEN <<>> ELSE body'[r]
  BY DEF localPc, localResp, localFile, localBody

(* The bytes of an upload after it. *)
LEMMA LocalDataNext ==
  ASSUME NEW i \in Id
  PROVE  localData'[i] = IF Emptied(i)' THEN None ELSE IF data'[i] # None THEN data'[i] ELSE object'[i]
BY DEF localData

(* The other handlers stay where they are, here and in the mapping. *)
Others(r) ==
  \A q \in Req \ {r} : pc'[q] = pc[q] /\ file'[q] = file[q] /\ body'[q] = body[q] /\ resp'[q] = resp[q]

(* So the mapping of a step differs at its handler alone. *)
LEMMA LocalOthers ==
  ASSUME NEW r \in Req, Others(r)
  PROVE  /\ localPc' = [localPc EXCEPT ![r] = localPc'[r]]
         /\ localResp' = [localResp EXCEPT ![r] = localResp'[r]]
         /\ localFile' = [localFile EXCEPT ![r] = localFile'[r]]
         /\ localBody' = [localBody EXCEPT ![r] = localBody'[r]]
<1>1. ASSUME NEW q \in Req, q # r
      PROVE  /\ localPc'[q] = localPc[q] /\ localResp'[q] = localResp[q]
             /\ localFile'[q] = localFile[q] /\ localBody'[q] = localBody[q]
  <2>1. pc'[q] = pc[q] /\ file'[q] = file[q] /\ body'[q] = body[q] /\ resp'[q] = resp[q]
    BY <1>1 DEF Others
  <2>2. (Moving(q)' <=> Moving(q)) /\ (Unserved(q)' <=> Unserved(q))
    BY <2>1 DEF Moving, Unserved
  <2> QED BY <2>1, <2>2, LocalAt, LocalAtNext
<1>2. /\ DOMAIN localPc = Req /\ DOMAIN localResp = Req /\ DOMAIN localFile = Req /\ DOMAIN localBody = Req
      /\ localPc = [q \in DOMAIN localPc |-> localPc[q]] /\ localResp = [q \in DOMAIN localResp |-> localResp[q]]
      /\ localFile = [q \in DOMAIN localFile |-> localFile[q]] /\ localBody = [q \in DOMAIN localBody |-> localBody[q]]
  BY DEF localPc, localResp, localFile, localBody
<1>3. /\ DOMAIN localPc' = Req /\ DOMAIN localResp' = Req /\ DOMAIN localFile' = Req /\ DOMAIN localBody' = Req
      /\ localPc' = [q \in Req |-> localPc'[q]] /\ localResp' = [q \in Req |-> localResp'[q]]
      /\ localFile' = [q \in Req |-> localFile'[q]] /\ localBody' = [q \in Req |-> localBody'[q]]
  BY DEF localPc, localResp, localFile, localBody
<1> QED BY <1>1, <1>2, <1>3

(* A handler that is where it was in the mapping. *)
LEMMA LocalResting ==
  ASSUME NEW r \in Req, Others(r),
         localPc'[r] = localPc[r], localResp'[r] = localResp[r],
         localFile'[r] = localFile[r], localBody'[r] = localBody[r]
  PROVE  localPc' = localPc /\ localResp' = localResp /\ localFile' = localFile /\ localBody' = localBody
<1>1. /\ DOMAIN localPc = Req /\ DOMAIN localResp = Req /\ DOMAIN localFile = Req /\ DOMAIN localBody = Req
      /\ localPc = [q \in DOMAIN localPc |-> localPc[q]] /\ localResp = [q \in DOMAIN localResp |-> localResp[q]]
      /\ localFile = [q \in DOMAIN localFile |-> localFile[q]] /\ localBody = [q \in DOMAIN localBody |-> localBody[q]]
  BY DEF localPc, localResp, localFile, localBody
<1> QED BY <1>1, LocalOthers

(* Uploads are emptied by DELETE alone. *)
LEMMA EmptiedKept ==
  ASSUME CalmInv, NEW r \in Req, Others(r), pc[r] # "done", resp'[r] = "ok" => Method[r] # "DELETE",
         NEW i \in Id
  PROVE  Emptied(i)' <=> Emptied(i)
<1>1. resp[r] # "ok"
  BY Waiting
<1>2. ASSUME NEW q \in Req, Method[q] = "DELETE"
      PROVE  resp'[q] = "ok" /\ file'[q] # None /\ file'[q].id = i
               <=> resp[q] = "ok" /\ file[q] # None /\ file[q].id = i
  BY <1>1, <1>2 DEF Others
<1> QED BY <1>2 DEF Emptied

(* The bytes of an upload that are left where they are. *)
LEMMA LocalDataKept ==
  ASSUME NEW i \in Id, Emptied(i)' <=> Emptied(i), data'[i] = data[i], object'[i] = object[i]
  PROVE  localData'[i] = localData[i]
BY LocalDataAt, LocalDataNext

(* The bytes of all uploads are left, ... *)
LEMMA LocalDataSame ==
  ASSUME \A i \in Id : localData'[i] = localData[i]
  PROVE  localData' = localData
<1>1. localData = [i \in Id |-> localData[i]] /\ localData' = [i \in Id |-> localData'[i]]
  BY DEF localData
<1> QED BY <1>1

(* ... or of all but one. *)
LEMMA LocalDataSet ==
  ASSUME NEW i \in Id, \A j \in Id \ {i} : localData'[j] = localData[j]
  PROVE  localData' = [localData EXCEPT ![i] = localData'[i]]
<1>1. localData = [j \in Id |-> localData[j]] /\ localData' = [j \in Id |-> localData'[j]]
  BY DEF localData
<1> QED BY <1>1

(* No step of another handler moves the bytes that a handler works on, ... *)
LEMMA PlacedForKept ==
  ASSUME CalmInv, NEW r \in Req, Others(r), NEW q \in Req, q # r,
         \A i \in Id : ~(Working(r) /\ file[r].id = i) => data'[i] = data[i] /\ object'[i] = object[i]
  PROVE  PlacedFor(q)'
<1>1. pc'[q] = pc[q] /\ file'[q] = file[q] /\ body'[q] = body[q] /\ PlacedFor(q)
  BY DEF Others, CalmInv
<1>2. CASE Working(q)
  <2>1. file[q].id \in Id /\ (Working(r) => file[q].id # file[r].id)
    BY <1>2, WorkingSeen, WorkingAlone
  <2>2. data'[file[q].id] = data[file[q].id] /\ object'[file[q].id] = object[file[q].id]
    BY <2>1
  <2> QED BY <1>1, <2>2 DEF PlacedFor, Placed, Moving, Completes, Finished
<1>3. CASE ~Working(q)
  <2>1. pc[q] \notin {"create", "write", "open", "put", "dropLocal", "save", "saving", "removeInfo", "removeFile"}
    BY <1>3, WorkersWork
  <2> QED BY <1>1, <2>1 DEF PlacedFor, Moving
<1> QED BY <1>2, <1>3

(* ... and an upload that a step leaves alone stays in its place. *)
LEMMA OnePlaceKept ==
  ASSUME CalmInv, NEW r \in Req, Others(r), NEW i \in Id,
         info'[i] = info[i], data'[i] = data[i], object'[i] = object[i], used \subseteq used',
         \/ ~(Working(r) /\ file[r].id = i)
         \/ Working(r)' /\ file'[r].id = i /\ (pc[r] = "dropLocal" => pc'[r] = "dropLocal"),
         Emptied(i)' => Emptied(i)
  PROVE  OnePlace(i)'
<1>1. OnePlace(i)
  BY DEF CalmInv
<1>2. \A q \in Req \ {r} : pc'[q] = pc[q] /\ file'[q] = file[q]
  BY DEF Others
<1>3. pc[r] = "dropLocal" => Working(r)
  BY WorkersWork
<1>4. object'[i] = None \/ data'[i] = None \/ \E q \in Req : pc'[q] = "dropLocal" /\ file'[q].id = i
  BY <1>1, <1>2, <1>3 DEF OnePlace
<1>5. i \notin used' \/ Emptied(i)' => object'[i] = None
  BY <1>1 DEF OnePlace
<1>6. ASSUME Visible(i)', \A q \in Req : Working(q)' => file'[q].id # i PROVE Placed(i, info[i])'
  <2>1. Visible(i)
    BY <1>6 DEF Visible
  <2>2. \A q \in Req : Working(q) => file[q].id # i
    <3>1. ASSUME NEW q \in Req \ {r}, Working(q) PROVE file[q].id # i
      BY <1>2, <1>6, <3>1 DEF Working
    <3>2. Working(r) => file[r].id # i
      BY <1>6
    <3> QED BY <3>1, <3>2
  <2> QED BY <1>1, <2>1, <2>2 DEF OnePlace, Placed
<1> QED BY <1>4, <1>5, <1>6 DEF OnePlace, Placed

(****************************************************************************)
(* Every step over the hybrid storage is seen as one over the file storage. *)
(****************************************************************************)

Seen == [Up!Next]_Up!vars

(* A handler that answers, and is part of the mapping. *)
LEMMA AnswerSeen ==
  ASSUME CalmInv, NEW r \in Req, NEW a \in {"ok", "error"}, Answer(r, a), Others(r), pc[r] # "done",
         Method[r] # "GET" \/ ~Unserved(r)'
  PROVE  Up!Answer(r, a) /\ ~Moving(r)' /\ pc'[r] = "done" /\ resp'[r] = a
<1>1. pc'[r] = "done" /\ resp'[r] = a /\ ~gone[r]
  BY Waiting DEF Answer, CalmInv, HybridTyped, HybridTypeOK, TypeOK
<1>2. ~Moving(r)' /\ ~Unserved(r)'
  BY <1>1 DEF Moving, Unserved
<1>3. localPc'[r] = "done" /\ localResp'[r] = a
  BY <1>1, <1>2, LocalAtNext
<1> QED BY <1>1, <1>2, <1>3, LocalOthers DEF Up!Answer

(* A handler that goes on, and does not move its upload to S3. *)
LEMMA GoSeen ==
  ASSUME CalmInv, NEW r \in Req, NEW next \in Pcs \ {"done", "open", "put", "dropLocal"},
         GoTo(r, next), UNCHANGED resp, Others(r), pc[r] # "done", Method[r] # "GET"
  PROVE  Up!GoTo(r, next) /\ localResp' = localResp /\ ~Moving(r)' /\ pc'[r] = next
<1>1. pc'[r] = next /\ ~gone[r] /\ ~Unserved(r)
  BY Waiting DEF GoTo, CalmInv, HybridTyped, HybridTypeOK, TypeOK, Unserved
<1>2. ~Moving(r)' /\ ~Unserved(r)'
  BY <1>1 DEF Moving, Unserved
<1>3. localPc'[r] = next /\ localResp'[r] = localResp[r]
  BY <1>1, <1>2, LocalAt, LocalAtNext
<1>4. localResp' = localResp
  BY <1>3, LocalOthers DEF localResp
<1> QED BY <1>1, <1>2, <1>3, <1>4, LocalOthers DEF Up!GoTo

(* What a handler holds that does not move its upload to S3. *)
LEMMA StillSeen ==
  ASSUME NEW r \in Req, Others(r), ~Moving(r), ~Moving(r)', ~Unserved(r), ~Unserved(r)'
  PROVE  /\ localFile[r] = file[r] /\ localBody[r] = body[r]
         /\ localFile' = [localFile EXCEPT ![r] = file'[r]]
         /\ localBody' = [localBody EXCEPT ![r] = body'[r]]
         /\ file'[r] = file[r] => localFile' = localFile
         /\ body'[r] = body[r] => localBody' = localBody
<1>1. localFile[r] = file[r] /\ localBody[r] = body[r] /\ localFile'[r] = file'[r] /\ localBody'[r] = body'[r]
  BY LocalAt, LocalAtNext
<1>2. /\ localFile' = [localFile EXCEPT ![r] = file'[r]] /\ localBody' = [localBody EXCEPT ![r] = body'[r]]
  BY <1>1, LocalOthers
<1>3. /\ DOMAIN localFile = Req /\ DOMAIN localBody = Req
      /\ localFile = [q \in DOMAIN localFile |-> localFile[q]] /\ localBody = [q \in DOMAIN localBody |-> localBody[q]]
  BY DEF localFile, localBody
<1> QED BY <1>1, <1>2, <1>3

(* A step that at most removes what there is of an upload. *)
Kept(i) ==
  info'[i] \in {info[i], None} /\ data'[i] \in {data[i], None} /\ object'[i] \in {object[i], None}

(* The handler of r comes to work on an upload only if it is new or incomplete. *)
Joins(r) ==
  Working(r)' /\ Method[r] # "DELETE" =>
    \/ Working(r) /\ file'[r].id = file[r].id
    \/ file'[r].id \notin used
    \/ Readable(file'[r].id) /\ ~Finished(info[file'[r].id])

(* A complete upload that a GET is about to read stays what it was, or is removed. *)
LEMMA SettledKept ==
  ASSUME CalmInv, NEW r \in Req, Others(r), Joins(r), used \subseteq used',
         NEW i \in Id, NEW f \in FileInfo, Settled(i, f),
         \/ info'[i] = info[i] /\ data'[i] = data[i] /\ object'[i] = object[i]
         \/ Working(r) /\ file[r].id = i /\ (Method[r] = "DELETE" => Kept(i))
  PROVE  Settled(i, f)'
<1>1. Kept(i)
  BY DEF Settled, Kept
<1>2. ASSUME NEW q \in Req, Working(q)', file'[q].id = i PROVE Method[q] = "DELETE"
  <2>1. CASE q = r
    BY <1>2, <2>1 DEF Settled, Joins
  <2>2. CASE q # r
    BY <1>2, <2>2 DEF Settled, Others, Working
  <2> QED BY <2>1, <2>2
<1>3. Readable(i)' => Readable(i) /\ info'[i] = info[i]
  BY <1>1 DEF Kept
<1>4. Readable(i)' => Finished(info'[i])
  BY <1>3 DEF Settled, Finished
<1>5. IF f.length # 0 THEN data'[i] = None ELSE object'[i] = None
  BY <1>1 DEF Settled, Kept
<1> QED BY <1>2, <1>4, <1>5 DEF Settled, Finished

(* So every GET finds what it has to. *)
LEMMA ReadsKept ==
  ASSUME CalmInv, NEW r \in Req, Others(r), Joins(r), used \subseteq used', Reads(r)',
         \A i \in Id : \/ info'[i] = info[i] /\ data'[i] = data[i] /\ object'[i] = object[i]
                       \/ Working(r) /\ file[r].id = i /\ (Method[r] = "DELETE" => Kept(i)),
         NEW q \in Req
  PROVE  Reads(q)'
<1> SUFFICES ASSUME q # r, Method[q] = "GET" PROVE Reads(q)'
  BY DEF Reads
<1>1. Reads(q) /\ pc'[q] = pc[q] /\ file'[q] = file[q] /\ resp'[q] = resp[q]
  BY DEF Others, CalmInv
<1>2. ASSUME pc[q] = "read", Finished(file[q]) PROVE Settled(file[q].id, file[q])'
  <2>1. file[q] \in FileInfo /\ file[q].id \in Id
    BY <1>2, Holding DEF CalmInv
  <2>2. Settled(file[q].id, file[q])
    BY <1>1, <1>2 DEF Reads
  <2>3. ASSUME NEW i, i = file[q].id PROVE Settled(i, file[q])'
    BY <2>1, <2>2, <2>3, <1>1, SettledKept DEF Settled
  <2> QED BY <2>3, <1>1 DEF Settled
<1>3. Unserved(q)' <=> Unserved(q)
  BY <1>1 DEF Unserved, Finished
<1> QED BY <1>1, <1>2, <1>3 DEF Reads, Finished, Settled

(* A step that is seen leaves what is seen right; the places remain to be shown. *)
LEMMA CalmKept ==
  ASSUME Calm, CalmInv, HybridTyped', NEW r \in Req, Others(r), Seen, PlacedFor(r)', Reads(r)',
         \A i \in Id : \/ info'[i] = info[i] /\ data'[i] = data[i] /\ object'[i] = object[i]
                       \/ Working(r) /\ file[r].id = i /\ (Method[r] = "DELETE" => Kept(i)),
         Joins(r), used \subseteq used',
         \A i \in Id : OnePlace(i)'
  PROVE  CalmInv'
<1>1. Up!TusInv'
  BY LocalTusNext DEF CalmInv, Seen
<1>2. \A q \in Req : PlacedFor(q)'
  BY PlacedForKept
<1>3. \A q \in Req : Reads(q)'
  BY ReadsKept
<1> QED BY <1>1, <1>2, <1>3 DEF CalmInv

(* A step that leaves the storages alone. *)
LEMMA StoresKept ==
  ASSUME CalmInv, NEW r \in Req, Others(r), UNCHANGED <<info, data, object>>, used \subseteq used',
         pc[r] # "done", resp'[r] = "ok" => Method[r] # "DELETE",
         Working(r) => Working(r)' /\ file'[r].id = file[r].id,
         pc[r] = "dropLocal" => pc'[r] = "dropLocal"
  PROVE  localData' = localData /\ \A i \in Id : OnePlace(i)'
<1>1. \A i \in Id : Emptied(i)' <=> Emptied(i)
  BY EmptiedKept
<1>2. \A i \in Id : localData'[i] = localData[i]
  BY <1>1, LocalDataKept
<1>3. \A i \in Id : OnePlace(i)'
  BY <1>1, OnePlaceKept
<1> QED BY <1>2, <1>3, LocalDataSame

(* Clients that wait are seen to wait. *)
LEMMA UndisturbedSeen ==
  ASSUME CalmInv, NEW ids, Undisturbed(ids)
  PROVE  Up!Undisturbed(ids)
<1> SUFFICES ASSUME "parallel" \notin Env, NEW q \in Req, Up!InFlight(q), ~gone[q], Up!Modifying(q)
             PROVE  ({localFile[q].id} \cup Up!PartIds(localFile[q])) \cap ids = {}
  BY DEF Up!Undisturbed
<1>1. ~Unserved(q) /\ Modifying(q)
  BY DEF Unserved, Modifying, Up!Modifying
<1>2. InFlight(q)
  BY <1>1, LocalAt DEF Moving
<1>3. file[q] # None
  BY <1>1, <1>2, WorkingSeen DEF Working
<1>4. localFile[q].id = file[q].id /\ localFile[q].parts = file[q].parts
  BY <1>1, <1>3, LocalInfo DEF CalmInv
<1>5. ({file[q].id} \cup PartIds(file[q])) \cap ids = {}
  BY <1>1, <1>2 DEF Undisturbed
<1> QED BY <1>4, <1>5 DEF PartIds, Up!PartIds

(* The upload of a request that enters, when nobody works on it. *)
LEMMA UndisturbedPlaced ==
  ASSUME Calm, CalmInv, NEW i \in Id, Undisturbed({i}), Visible(i)
  PROVE  Placed(i, info[i]) /\ info[i] \in FileInfo /\ info[i].id = i
<1>1. ASSUME NEW q \in Req, Working(q) PROVE file[q].id # i
  <2>1. InFlight(q) /\ Modifying(q) /\ ~gone[q]
    BY <1>1, Waiting DEF Working
  <2> QED BY <2>1 DEF Undisturbed, Calm
<1>2. Placed(i, info[i])
  BY <1>1 DEF CalmInv, OnePlace
<1>3. info[i] \in FileInfo
  BY DEF Visible, CalmInv, HybridTyped, HybridTypeOK, TypeOK
<1>4. info[i].id = i
  BY DEF Visible, CalmInv, Up!TusInv, Up!ExactInv, Up!SerialInv, Up!Inv, Up!IdsInv, Up!UsedInv, Torn, Up!Torn
<1> QED BY <1>2, <1>3, <1>4

(* A handler at work that does not move its upload. *)
LEMMA StandingHere ==
  ASSUME CalmInv, NEW r \in Req,
         pc[r] \in {"create", "save", "saving", "removeInfo", "removeFile"}
  PROVE  /\ Working(r) /\ PlacedFor(r) /\ ~gone[r] /\ ~Moving(r) /\ ~Unserved(r)
         /\ file[r] \in FileInfo /\ file[r] # None /\ file[r].id \in Id /\ file[r].id \in used \ Foreign
         /\ localPc[r] = pc[r] /\ localFile[r] = file[r] /\ localBody[r] = body[r]
         /\ resp[r] = "none" /\ TypeOK /\ Up!Current(r) /\ Up!Sound(r)
         /\ (Method[r] = "DELETE" <=> pc[r] \in {"removeInfo", "removeFile"})
         /\ Method[r] \in {"POST", "PATCH", "DELETE"}
<1>1. Working(r) /\ ~Moving(r) /\ (Method[r] = "DELETE" <=> pc[r] \in {"removeInfo", "removeFile"})
  BY WorkersWork DEF Moving
<1>2. /\ ~gone[r] /\ ~Unserved(r) /\ file[r] \in FileInfo /\ file[r] # None /\ file[r].id \in Id
      /\ file[r].id \in used \ Foreign /\ resp[r] = "none"
  BY <1>1, WorkingSeen, Waiting
<1>3. PlacedFor(r) /\ TypeOK /\ Up!Current(r) /\ Up!Sound(r)
  BY DEF CalmInv, HybridTyped, HybridTypeOK, Up!TusInv, Up!ExactInv, Up!SerialInv
<1>4. Method[r] \in {"POST", "PATCH", "DELETE"}
  BY <1>1 DEF Working, Modifying
<1> QED BY <1>1, <1>2, <1>3, <1>4, LocalAt

(***************************************************************************)
(* Requests that enter.                                                    *)
(***************************************************************************)

(* A request that enters is idle in the mapping, and changes no place. *)
LEMMA Entering ==
  ASSUME Calm, CalmInv, NEW r \in Req, pc[r] = "idle", Others(r),
         UNCHANGED <<info, data, object>>, used \subseteq used',
         resp'[r] = "ok" => Method[r] # "DELETE"
  PROVE  /\ ~Moving(r) /\ ~gone[r] /\ localPc[r] = "idle" /\ file[r] = None /\ ~Working(r)
         /\ localData' = localData /\ \A i \in Id : OnePlace(i)'
         /\ ~Unserved(r)
         /\ HybridTyped' /\ Seen /\ PlacedFor(r)' /\ Reads(r)' /\ Joins(r) => CalmInv'
<1>1. ~Moving(r) /\ ~gone[r] /\ localPc[r] = "idle" /\ file[r] = None /\ ~Working(r) /\ ~Unserved(r)
  BY Waiting, LocalAt DEF Moving, Working, Unserved
<1>2. localData' = localData /\ \A i \in Id : OnePlace(i)'
  BY <1>1, StoresKept
<1> QED BY <1>1, <1>2, CalmKept

(* One that is refused. *)
LEMMA RefusedEntry ==
  ASSUME Calm, CalmInv, NEW r \in Req,
         PostRefused(r) \/ \E i \in Id : PatchRefused(r, i) \/ DeleteRefused(r, i) \/ ReadRefused(r, i),
         object' = object, HybridTyped'
  PROVE  Seen /\ CalmInv'
<1>1. /\ pc[r] = "idle" /\ Answer(r, "error")
      /\ UNCHANGED <<info, data, used, file, body, partsInfo, cursor, gone, metrics, hooks, delivered>>
  BY DEF PostRefused, PatchRefused, DeleteRefused, ReadRefused, Begins, stores, telemetry
<1>2. Others(r) /\ resp'[r] \in {"none", "error"}
  BY <1>1 DEF Others, Answer, CalmInv, HybridTyped, HybridTypeOK, TypeOK
<1>3. ~Moving(r) /\ localPc[r] = "idle" /\ file[r] = None /\ localData' = localData
  BY <1>1, <1>2, Entering
<1>4. Up!Answer(r, "error") /\ ~Moving(r)' /\ pc'[r] = "done" /\ ~Unserved(r) /\ ~Unserved(r)'
  <2>1. ~Unserved(r) /\ ~Unserved(r)'
    BY <1>1, <1>3 DEF Unserved
  <2> QED BY <1>1, <1>2, <1>3, <2>1, AnswerSeen
<1>5. localFile' = localFile /\ localBody' = localBody
  BY <1>1, <1>2, <1>3, <1>4, StillSeen
<1>6. Up!PostRefused(r) \/ \E i \in Id : Up!PatchRefused(r, i) \/ Up!DeleteRefused(r, i) \/ Up!ReadRefused(r, i)
  <2>1. PostRefused(r) => Up!PostRefused(r)
    BY <1>1, <1>3, <1>4, <1>5
    DEF PostRefused, Up!PostRefused, Begins, Up!Begins, PostMsg, Up!PostMsg, PostAdmissible, Up!PostAdmissible,
        Concat, Up!Concat, LengthHeader, Up!LengthHeader, Up!stores, Up!telemetry
  <2>2. ASSUME NEW i \in Id, PatchRefused(r, i) PROVE Up!PatchRefused(r, i)
    BY <2>2, <1>1, <1>3, <1>4, <1>5
    DEF PatchRefused, Up!PatchRefused, Begins, Up!Begins, PatchMsg, Up!PatchMsg, PatchAdmissible, Up!PatchAdmissible,
        NewLength, Up!NewLength, Resized, Up!Resized, Visible, Up!Visible, Torn, Up!Torn, Own, Up!Own,
        LengthHeader, Up!LengthHeader, Up!stores, Up!telemetry
  <2>3. ASSUME NEW i \in Id, DeleteRefused(r, i) PROVE Up!DeleteRefused(r, i)
    BY <2>3, <1>1, <1>3, <1>4, <1>5
    DEF DeleteRefused, Up!DeleteRefused, Begins, Up!Begins, Visible, Up!Visible, Torn, Up!Torn, Own, Up!Own,
        Up!stores, Up!telemetry
  <2>4. ASSUME NEW i \in Id, ReadRefused(r, i) PROVE Up!ReadRefused(r, i)
    BY <2>4, <1>1, <1>3, <1>4, <1>5
    DEF ReadRefused, Up!ReadRefused, Begins, Up!Begins, Visible, Up!Visible, Torn, Up!Torn, Own, Up!Own,
        Up!stores, Up!telemetry
  <2> QED BY <2>4, <2>1, <2>2, <2>3
<1>7. Seen
  BY <1>6 DEF Seen, Up!Next, Up!Arrive
<1>8. PlacedFor(r)' /\ Reads(r)' /\ Joins(r)
  BY <1>2, <1>4 DEF PlacedFor, Moving, Reads, Joins, Working
<1> QED BY <1>1, <1>2, <1>7, <1>8, Entering

(* A POST that is accepted: its id is fresh, so it has no object. *)
LEMMA PostEntry ==
  ASSUME Calm, CalmInv, NEW r \in Req, NEW i \in Id, NEW m \in PostMsg, PostAccepted(r, i, m),
         object' = object, HybridTyped'
  PROVE  Seen /\ CalmInv'
<1>1. /\ pc[r] = "idle" /\ Method[r] = "POST" /\ i \notin used
      /\ UNCHANGED <<info, data, partsInfo, cursor, gone, resp, metrics, hooks, delivered>>
      /\ used' = used \cup {i} /\ pc'[r] = "create" /\ file'[r] = NewFileInfo(i, m)
      /\ Undisturbed(PartIds(NewFileInfo(i, m)))
  BY DEF PostAccepted, Begins, stores, telemetry, CalmInv, HybridTyped, HybridTypeOK, TypeOK
<1>2. Others(r) /\ resp'[r] # "ok"
  BY <1>1, Waiting DEF Others, PostAccepted, CalmInv, HybridTyped, HybridTypeOK, TypeOK
<1>3. ~Moving(r) /\ localPc[r] = "idle" /\ file[r] = None /\ localData' = localData
  BY <1>1, <1>2, Entering
<1>4. ~Moving(r)' /\ ~Unserved(r)' /\ ~Unserved(r)
  BY <1>1 DEF Moving, Unserved
<1>5. localPc' = [localPc EXCEPT ![r] = "create"] /\ localResp' = localResp
  <2>1. localPc'[r] = "create" /\ localResp'[r] = localResp[r]
    BY <1>1, <1>4, LocalAt, LocalAtNext
  <2> QED BY <1>2, <2>1, LocalOthers DEF localResp
<1>6. /\ localFile' = [localFile EXCEPT ![r] = NewFileInfo(i, m)]
      /\ localBody' = [localBody EXCEPT ![r] =
                IF "creation-with-upload" \in Extensions /\ Concat(m) # "final" THEN Bytes(0, m.n) ELSE <<>>]
  <2>1. body'[r] = IF "creation-with-upload" \in Extensions /\ Concat(m) # "final" THEN Bytes(0, m.n) ELSE <<>>
    BY DEF PostAccepted, CalmInv, HybridTyped, HybridTypeOK, TypeOK
  <2> QED BY <1>1, <1>2, <1>3, <1>4, <2>1, StillSeen
<1>7. Up!PostAccepted(r, i, m)
  <2>1. Up!Undisturbed(PartIds(NewFileInfo(i, m)))
    BY <1>1, UndisturbedSeen
  <2>2. Up!NewFileInfo(i, m) = NewFileInfo(i, m) /\ Up!Concat(m) = Concat(m) /\ Up!Bytes(0, m.n) = Bytes(0, m.n)
        /\ (Up!PostAdmissible(m) <=> PostAdmissible(m)) /\ Up!PartIds(NewFileInfo(i, m)) = PartIds(NewFileInfo(i, m))
    BY DEF Up!NewFileInfo, NewFileInfo, Up!Concat, Concat, Up!Bytes, Bytes, Up!PostAdmissible, PostAdmissible,
           Up!PartIds, PartIds, Up!Own, Own
  <2>3. PostAdmissible(m) /\ "creation" \in Extensions
    BY DEF PostAccepted
  <2> QED BY <1>1, <1>3, <1>5, <1>6, <2>1, <2>2, <2>3 DEF Up!PostAccepted, Up!Begins, Up!stores, Up!telemetry
<1>8. Seen
  <2>1. m \in Up!PostMsg
    BY DEF PostMsg, Up!PostMsg, LengthHeader, Up!LengthHeader
  <2> QED BY <1>7, <2>1 DEF Seen, Up!Next, Up!Arrive
<1>9. PlacedFor(r)' /\ Reads(r)' /\ Joins(r)
  <2>1. object[i] = None /\ NewFileInfo(i, m).id = i
    BY <1>1 DEF CalmInv, OnePlace, NewFileInfo
  <2> QED BY <1>1, <2>1 DEF PlacedFor, Moving, Reads, Joins
<1> QED BY <1>1, <1>2, <1>8, <1>9, Entering

(* A PATCH that is accepted finds the upload incomplete, so it is in the local file. *)
LEMMA PatchEntry ==
  ASSUME Calm, CalmInv, NEW r \in Req, NEW i \in Id, NEW m \in PatchMsg, PatchAccepted(r, i, m),
         object' = object, HybridTyped'
  PROVE  Seen /\ CalmInv'
<1>1. /\ pc[r] = "idle" /\ Method[r] = "PATCH" /\ Undisturbed({i}) /\ PatchAdmissible(i, m)
      /\ UNCHANGED <<info, data, used, partsInfo, cursor, gone, resp, metrics, hooks, delivered>>
      /\ pc'[r] = "write" /\ file'[r] = Resized(info[i], m) /\ body'[r] = Bytes(m.offset, m.n)
  BY DEF PatchAccepted, Begins, stores, telemetry, CalmInv, HybridTyped, HybridTypeOK, TypeOK
<1>2. Others(r) /\ resp'[r] # "ok"
  BY <1>1, Waiting DEF Others, PatchAccepted, CalmInv, HybridTyped, HybridTypeOK, TypeOK
<1>3. ~Moving(r) /\ localPc[r] = "idle" /\ file[r] = None /\ localData' = localData
  BY <1>1, <1>2, Entering
<1>4. ~Moving(r)' /\ ~Unserved(r)' /\ ~Unserved(r)
  BY <1>1 DEF Moving, Unserved
<1>5. localPc' = [localPc EXCEPT ![r] = "write"] /\ localResp' = localResp
  <2>1. localPc'[r] = "write" /\ localResp'[r] = localResp[r]
    BY <1>1, <1>4, LocalAt, LocalAtNext
  <2> QED BY <1>2, <2>1, LocalOthers DEF localResp
<1>6. /\ localFile' = [localFile EXCEPT ![r] = Resized(info[i], m)]
      /\ localBody' = [localBody EXCEPT ![r] = Bytes(m.offset, m.n)]
  BY <1>1, <1>2, <1>3, <1>4, StillSeen
<1>7. Up!PatchAccepted(r, i, m)
  <2>1. Up!Undisturbed({i})
    BY <1>1, UndisturbedSeen
  <2>2. Up!Resized(info[i], m) = Resized(info[i], m) /\ Up!Bytes(m.offset, m.n) = Bytes(m.offset, m.n)
        /\ (Up!PatchAdmissible(i, m) <=> PatchAdmissible(i, m))
    BY DEF Up!Resized, Resized, Up!Bytes, Bytes, Up!PatchAdmissible, PatchAdmissible, NewLength, Up!NewLength,
           Visible, Up!Visible, Torn, Up!Torn, Own, Up!Own
  <2> QED BY <1>1, <1>3, <1>5, <1>6, <2>1, <2>2 DEF Up!PatchAccepted, Up!Begins, Up!stores, Up!telemetry
<1>8. Seen
  <2>1. m \in Up!PatchMsg
    BY DEF PatchMsg, Up!PatchMsg, LengthHeader, Up!LengthHeader
  <2> QED BY <1>7, <2>1 DEF Seen, Up!Next, Up!Arrive
<1>9. PlacedFor(r)' /\ Reads(r)' /\ Joins(r)
  <2>1. Placed(i, info[i]) /\ info[i] \in FileInfo /\ info[i].id = i
    BY <1>1, UndisturbedPlaced DEF PatchAdmissible
  <2>2. info[i].offset \in Nat
    BY <2>1, FileFields
  <2>3. ~Finished(info[i]) /\ ~Finished(Resized(info[i], m)) /\ Resized(info[i], m).id = i
    BY <1>1, <2>1, <2>2, NoneAssumption DEF Resized, Finished, PatchAdmissible, FileInfo
  <2>4. data[i] # None /\ object[i] = None
    BY <2>1, <2>3 DEF Placed
  <2>5. Readable(i)
    BY <1>1 DEF PatchAdmissible, Visible, Torn
  <2> QED BY <1>1, <2>3, <2>4, <2>5 DEF PlacedFor, Moving, Reads, Joins
<1> QED BY <1>1, <1>2, <1>8, <1>9, Entering

(* What a GET finds when it has read the info. *)
LEMMA SettledAtFirst ==
  ASSUME Calm, CalmInv, NEW i \in Id, Visible(i), Finished(info[i])
  PROVE  Settled(i, info[i])
<1>1. info[i] # None /\ info[i] # Empty /\ Readable(i)
  BY DEF Visible, Torn
<1>2. i \in used
  BY <1>1 DEF CalmInv, Up!TusInv, Up!ExactInv, Up!SerialInv, Up!Inv, Up!IdsInv, Up!UsedInv
<1>3. ASSUME NEW q \in Req, Working(q), file[q].id = i
      PROVE  Method[q] = "DELETE" /\ pc[q] = "removeInfo"
  <2>1. Up!Current(q) /\ Up!Works(q) /\ localFile[q].id = i /\ ~Unserved(q)
    BY <1>3, WorkingSeen DEF CalmInv, Up!TusInv, Up!ExactInv, Up!SerialInv
  <2>2. localPc[q] # "saving"
    BY <1>1, <2>1 DEF Up!Current
  <2>3. Method[q] # "POST"
    BY <1>1, <2>1, <2>2 DEF Up!Current
  <2>4. Method[q] # "PATCH"
    BY <2>1, <2>2 DEF Up!Current, Finished, Up!Finished
  <2>5. Method[q] = "DELETE" /\ InFlight(q)
    BY <1>3, <2>3, <2>4 DEF Working, Modifying
  <2>6. pc[q] \in {"removeInfo", "removeFile"}
    <3>1. /\ pc[q] \in Pcs /\ pc[q] \notin {"idle", "done"} /\ LocalsOK(q) /\ HybridLocals(q) /\ pc[q] # "complete"
      BY <2>5 DEF CalmInv, HybridTyped, HybridTypeOK, TypeOK, PlacedFor
    <3> QED BY <2>5, <3>1 DEF Pcs, LocalsOK, HybridLocals, Reading, Joining
  <2>7. pc[q] # "removeFile"
    <3>1. pc[q] = "removeFile" => Up!Sound(q) /\ localPc[q] = "removeFile"
      BY StandingHere
    <3> QED BY <1>1, <2>1, <3>1 DEF Up!Sound
  <2> QED BY <2>5, <2>6, <2>7
<1>4. Placed(i, info[i])
  <2>1. CASE \A q \in Req : Working(q) => file[q].id # i
    BY <2>1 DEF CalmInv, OnePlace
  <2>2. ASSUME NEW q \in Req, Working(q), file[q].id = i PROVE Placed(i, info[i])
    <3>1. pc[q] = "removeInfo"
      BY <1>3, <2>2
    <3>2. Up!Current(q) /\ Up!Works(q) /\ PlacedFor(q) /\ localFile[q] = file[q] /\ localPc[q] = "removeInfo"
      BY <2>2, <3>1, StandingHere, WorkingSeen
    <3>3. info[i] = file[q]
      BY <2>2, <3>2 DEF Up!Current
    <3> QED BY <2>2, <3>1, <3>2, <3>3 DEF PlacedFor
  <2> QED BY <2>1, <2>2
<1> QED BY <1>2, <1>3, <1>4 DEF Settled, Placed

(* So it does until it reads on. *)
LEMMA ReadsAtFirst ==
  ASSUME Calm, CalmInv, NEW r \in Req, NEW i \in Id, GetAccepted(r, i), object' = object, HybridTyped'
  PROVE  Reads(r)'
<1>1. /\ pc[r] = "idle" /\ Method[r] = "GET" /\ Visible(i)
      /\ UNCHANGED <<info, data, used, object>>
      /\ file'[r] = info[i] /\ pc'[r] = "read" /\ resp'[r] = resp[r]
  BY DEF GetAccepted, Begins, stores, telemetry, CalmInv, HybridTyped, HybridTypeOK, TypeOK
<1>2. Others(r) /\ resp'[r] = "none"
  BY <1>1, Waiting DEF Others, GetAccepted, CalmInv, HybridTyped, HybridTypeOK, TypeOK
<1>3. Joins(r)
  BY <1>1 DEF Joins, Working, Modifying
<1>4. info[i] \in FileInfo /\ info[i].id = i
  <2>1. info[i] \in FileInfo
    BY <1>1 DEF Visible, CalmInv, HybridTyped, HybridTypeOK, TypeOK
  <2>2. info[i].id = i
    BY <1>1 DEF Visible, CalmInv, Up!TusInv, Up!ExactInv, Up!SerialInv, Up!Inv, Up!IdsInv, Up!UsedInv, Torn, Up!Torn
  <2> QED BY <2>1, <2>2
<1>5. ASSUME NEW f, f = info[i], Finished(f) PROVE Settled(i, f)'
  <2>1. Settled(i, f) /\ f \in FileInfo
    BY <1>1, <1>4, <1>5, SettledAtFirst
  <2> QED BY <1>1, <1>2, <1>3, <2>1, SettledKept
<1>6. ASSUME Finished(file[r])' PROVE Settled(file[r].id, file[r])'
  <2>1. Finished(info[i])
    BY <1>1, <1>6 DEF Finished
  <2>2. ASSUME NEW f, f = info[i] PROVE Settled(i, f)'
    BY <1>5, <2>1, <2>2
  <2> QED BY <1>1, <1>4, <2>2 DEF Settled
<1> QED BY <1>1, <1>2, <1>6 DEF Reads, Finished, Settled

(* The mapping leaves out the downloads that would find nothing. *)
LEMMA UnservedEntry ==
  ASSUME Calm, CalmInv, NEW r \in Req, NEW i \in Id, GetAccepted(r, i), Unserved(r)',
         object' = object, HybridTyped'
  PROVE  Seen /\ CalmInv'
<1>1. /\ pc[r] = "idle" /\ Method[r] = "GET" /\ Visible(i)
      /\ UNCHANGED <<info, data, used, body, partsInfo, cursor, gone, resp, metrics, hooks, delivered>>
      /\ file'[r] = info[i] /\ pc'[r] = "read"
  BY DEF GetAccepted, Begins, stores, telemetry, CalmInv, HybridTyped, HybridTypeOK, TypeOK
<1>2. Others(r) /\ resp'[r] = "none" /\ resp[r] = "none"
  BY <1>1, Waiting DEF Others, GetAccepted, CalmInv, HybridTyped, HybridTypeOK, TypeOK
<1>3. ~Moving(r) /\ ~Unserved(r) /\ localPc[r] = "idle" /\ file[r] = None /\ localData' = localData
  BY <1>1, <1>2, Entering
<1>4. localPc' = localPc /\ localResp' = localResp /\ localFile' = localFile /\ localBody' = localBody
  <2>1. ~Moving(r)'
    BY <1>1 DEF Moving
  <2>2. /\ localPc'[r] = localPc[r] /\ localResp'[r] = localResp[r]
        /\ localFile'[r] = localFile[r] /\ localBody'[r] = localBody[r]
    BY <1>1, <1>2, <1>3, <2>1, LocalAt, LocalAtNext
  <2> QED BY <1>2, <2>2, LocalResting
<1>5. Seen
  BY <1>1, <1>3, <1>4 DEF Seen, Up!vars
<1>6. PlacedFor(r)' /\ Joins(r)
  BY <1>1 DEF PlacedFor, Moving, Joins, Working, Modifying
<1>7. Reads(r)'
  BY <1>1, <1>2, ReadsAtFirst
<1> QED BY <1>1, <1>2, <1>5, <1>6, <1>7, Entering

(* DELETE, GET and HEAD start with the info they read. *)
LEMMA ReadEntry ==
  ASSUME Calm, CalmInv, NEW r \in Req, NEW i \in Id, ~Unserved(r)',
         DeleteAccepted(r, i) \/ GetAccepted(r, i) \/ HeadAnswered(r, i),
         object' = object, HybridTyped'
  PROVE  Seen /\ CalmInv'
<1>1. /\ pc[r] = "idle" /\ Method[r] \in {"DELETE", "GET", "HEAD"} /\ Visible(i)
      /\ UNCHANGED <<info, data, used, body, partsInfo, cursor, gone, metrics, hooks, delivered>>
      /\ file'[r] = info[i]
      /\ pc'[r] \in {"removeInfo", "read", "done"} /\ (pc'[r] = "removeInfo" => Undisturbed({i}))
  BY DEF DeleteAccepted, GetAccepted, HeadAnswered, Begins, Answer, stores, telemetry,
         CalmInv, HybridTyped, HybridTypeOK, TypeOK
<1>2. Others(r) /\ (resp'[r] = "ok" => Method[r] # "DELETE") /\ resp'[r] # "error"
  BY <1>1, Waiting DEF Others, DeleteAccepted, GetAccepted, HeadAnswered, Begins, Answer,
     CalmInv, HybridTyped, HybridTypeOK, TypeOK
<1>3. ~Moving(r) /\ ~gone[r] /\ localPc[r] = "idle" /\ file[r] = None /\ localData' = localData
  BY <1>1, <1>2, Entering
<1>4. ~Moving(r)' /\ ~Unserved(r)' /\ ~Unserved(r)
  BY <1>1, <1>2, <1>3 DEF Moving, Unserved
<1>5. /\ localPc' = [localPc EXCEPT ![r] = pc'[r]] /\ localResp' = [localResp EXCEPT ![r] = resp'[r]]
      /\ resp'[r] = resp[r] => localResp' = localResp
  <2>1. localPc'[r] = pc'[r] /\ localResp'[r] = resp'[r] /\ localResp[r] = resp[r]
    BY <1>1, <1>4, LocalAt, LocalAtNext
  <2> QED BY <1>2, <2>1, LocalOthers DEF localResp
<1>6. localFile' = [localFile EXCEPT ![r] = info[i]] /\ localBody' = localBody
  BY <1>1, <1>2, <1>3, <1>4, StillSeen
<1>7. Up!Visible(i)
  BY <1>1 DEF Visible, Up!Visible, Torn, Up!Torn, Own, Up!Own
<1>8. Up!DeleteAccepted(r, i) \/ Up!GetAccepted(r, i) \/ Up!HeadAnswered(r, i)
  <2>1. CASE DeleteAccepted(r, i)
    <3>1. pc'[r] = "removeInfo" /\ resp'[r] = resp[r] /\ Method[r] = "DELETE" /\ "termination" \in Extensions
      BY <2>1 DEF DeleteAccepted, Begins, CalmInv, HybridTyped, HybridTypeOK, TypeOK
    <3>2. Up!Undisturbed({i})
      BY <1>1, <3>1, UndisturbedSeen
    <3> QED BY <1>1, <1>3, <1>5, <1>6, <1>7, <3>1, <3>2 DEF Up!DeleteAccepted, Up!Begins, Up!stores, Up!telemetry
  <2>2. CASE GetAccepted(r, i)
    <3>1. pc'[r] = "read" /\ resp'[r] = resp[r] /\ Method[r] = "GET" /\ "getting" \in Extensions
      BY <2>2 DEF GetAccepted, Begins, CalmInv, HybridTyped, HybridTypeOK, TypeOK
    <3> QED BY <1>1, <1>3, <1>5, <1>6, <1>7, <3>1 DEF Up!GetAccepted, Up!Begins, Up!stores, Up!telemetry
  <2>3. CASE HeadAnswered(r, i)
    <3>1. pc'[r] = "done" /\ resp'[r] = "ok" /\ Method[r] = "HEAD"
      BY <1>3, <2>3 DEF HeadAnswered, Answer, Begins, CalmInv, HybridTyped, HybridTypeOK, TypeOK
    <3> QED BY <1>1, <1>3, <1>5, <1>6, <1>7, <3>1 DEF Up!HeadAnswered, Up!Answer, Up!Begins, Up!stores, Up!telemetry
  <2> QED BY <2>1, <2>2, <2>3
<1>9. Seen
  BY <1>8 DEF Seen, Up!Next, Up!Arrive
<1>10. PlacedFor(r)' /\ Reads(r)' /\ Joins(r)
  <2>1. pc'[r] = "removeInfo" => Placed(i, info[i]) /\ info[i].id = i
    BY <1>1, UndisturbedPlaced
  <2>2. PlacedFor(r)'
    BY <1>1, <2>1 DEF PlacedFor, Placed, Moving
  <2>3. Reads(r)'
    <3>1. Method[r] = "GET" => GetAccepted(r, i)
      BY DEF DeleteAccepted, HeadAnswered, Begins
    <3>2. GetAccepted(r, i) => Reads(r)'
      BY ReadsAtFirst
    <3> QED BY <3>1, <3>2 DEF Reads
  <2>4. Joins(r)
    BY <1>1 DEF Joins, Working, Modifying
  <2> QED BY <2>2, <2>3, <2>4
<1> QED BY <1>1, <1>2, <1>9, <1>10, Entering

(***************************************************************************)
(* Handlers at work.                                                       *)
(***************************************************************************)

(* A step of a handler at work concerns its own upload. *)
LEMMA WorkStep ==
  ASSUME Calm, CalmInv, NEW r \in Req, Working(r), Others(r), HybridTyped', used' = used,
         \A j \in Id \ {file[r].id} : info'[j] = info[j] /\ data'[j] = data[j] /\ object'[j] = object[j],
         file'[r].id = file[r].id, resp'[r] = "ok" => Method[r] # "DELETE",
         NEW i, i = file[r].id, Method[r] = "DELETE" => Kept(i)
  PROVE  /\ localData[i] = IF data[i] # None THEN data[i] ELSE object[i]
         /\ localData'[i] = IF data'[i] # None THEN data'[i] ELSE object'[i]
         /\ localData' = [localData EXCEPT ![i] = localData'[i]]
         /\ localData'[i] = localData[i] => localData' = localData
         /\ ~Emptied(i)'
         /\ Seen /\ PlacedFor(r)' /\ OnePlace(i)' => CalmInv'
<1>1. i \in Id /\ ~Emptied(i) /\ pc[r] # "done"
  BY WorkingSeen, WorkingSound DEF Working
<1>2. \A j \in Id : Emptied(j)' <=> Emptied(j)
  BY <1>1, EmptiedKept
<1>3. \A j \in Id \ {i} : localData'[j] = localData[j]
  BY <1>2, LocalDataKept
<1>4. localData' = [localData EXCEPT ![i] = localData'[i]]
  BY <1>1, <1>3, LocalDataSet
<1>5. localData'[i] = localData[i] => localData' = localData
  BY <1>3, LocalDataSame
<1>6. ASSUME NEW j \in Id, j # i PROVE OnePlace(j)'
  BY <1>2, <1>6, OnePlaceKept
<1>7. Joins(r) /\ Reads(r)'
  BY DEF Joins, Reads, Working, Modifying
<1>8. \A j \in Id : j # i => info'[j] = info[j] /\ data'[j] = data[j] /\ object'[j] = object[j]
  OBVIOUS
<1>9. ASSUME Seen, PlacedFor(r)', OnePlace(i)' PROVE CalmInv'
  BY <1>6, <1>7, <1>8, <1>9, CalmKept
<1> QED BY <1>1, <1>2, <1>4, <1>5, <1>9, LocalDataAt, LocalDataNext

(* Until the step is over its upload is where the handler says. *)
LEMMA WorkingPlace ==
  ASSUME CalmInv, NEW r \in Req, NEW i \in Id, i \in used, ~Emptied(i)', used' = used,
         Working(r)' /\ file'[r].id = i,
         object'[i] = None \/ data'[i] = None \/ pc'[r] = "dropLocal"
  PROVE  OnePlace(i)'
BY DEF OnePlace

(* create_file. *)
LEMMA CreateCalm ==
  ASSUME Calm, CalmInv, NEW r \in Req, CreateFile(r), object' = object, HybridTyped'
  PROVE  Seen /\ CalmInv'
<1> DEFINE i == file[r].id
           next == IF file[r].final THEN "readPart" ELSE IF body[r] # <<>> THEN "write" ELSE "save"
<1>0. TypeOK
  BY DEF CalmInv, HybridTyped, HybridTypeOK
<1>1. /\ pc[r] = "create" /\ Working(r) /\ PlacedFor(r) /\ ~gone[r] /\ ~Moving(r) /\ ~Unserved(r)
      /\ file[r] \in FileInfo /\ i \in Id /\ i \in used /\ ~file[r].final /\ file[r].offset = 0
      /\ Method[r] = "POST"
  BY WorkersWork, WorkingSeen, Waiting, NoFinals
  DEF CreateFile, CalmInv, HybridTyped, LocalsOK, Moving
<1>2. /\ data' = [data EXCEPT ![i] = <<>>] /\ GoTo(r, next)
      /\ UNCHANGED <<info, used, file, body, partsInfo, cursor, gone, resp, hooks, delivered>>
      /\ metrics' = [metrics EXCEPT !.active = @ + 1, !.started = @ + 1]
  BY <1>1 DEF CreateFile
<1>3. Others(r) /\ resp'[r] # "ok" /\ pc'[r] = next /\ next \in {"write", "save"}
  BY <1>0, <1>1, <1>2, Waiting DEF Others, GoTo, TypeOK
<1>4. Up!GoTo(r, next) /\ localResp' = localResp /\ ~Moving(r)'
  BY <1>1, <1>2, <1>3, GoSeen DEF Pcs
<1>5. localFile' = localFile /\ localBody' = localBody /\ localFile[r] = file[r] /\ localBody[r] = body[r]
  BY <1>1, <1>2, <1>3, <1>4, StillSeen DEF Unserved
<1>6. data'[i] = <<>> /\ \A j \in Id \ {i} : data'[j] = data[j]
  BY <1>0, <1>1, <1>2 DEF TypeOK
<1>7. /\ localData'[i] = IF data'[i] # None THEN data'[i] ELSE object'[i]
      /\ localData' = [localData EXCEPT ![i] = localData'[i]]
      /\ ~Emptied(i)' /\ (Seen /\ PlacedFor(r)' /\ OnePlace(i)' => CalmInv')
  BY <1>1, <1>2, <1>3, <1>6, WorkStep
<1>8. <<>> # None
  <2>1. <<>> \in Seq(Nat)
    OBVIOUS
  <2> QED BY <2>1, NoneAssumption
<1>9. Up!CreateFile(r)
  <2>1. localPc[r] = "create"
    BY <1>1, LocalAt
  <2>2. localData' = [localData EXCEPT ![localFile[r].id] = <<>>]
    BY <1>5, <1>6, <1>7, <1>8
  <2>3. Up!GoTo(r, IF localFile[r].final THEN "readPart" ELSE IF localBody[r] # <<>> THEN "write" ELSE "save")
    BY <1>4, <1>5
  <2> QED BY <1>1, <1>2, <1>4, <1>5, <2>1, <2>2, <2>3 DEF Up!CreateFile
<1>10. Seen
  BY <1>9 DEF Seen, Up!Next, Up!Proceed
<1>11. object'[i] = None /\ data'[i] # None
  BY <1>1, <1>6, <1>8 DEF PlacedFor
<1>12. PlacedFor(r)'
  <2>1. next = "save" => Placed(i, file[r])'
    BY <1>1, <1>2, <1>11 DEF Placed, Finished
  <2> QED BY <1>2, <1>3, <1>11, <2>1 DEF PlacedFor, Moving
<1>13. OnePlace(i)'
  BY <1>1, <1>2, <1>3, <1>7, <1>11, WorkingPlace DEF Working
<1> QED BY <1>7, <1>10, <1>12, <1>13

(* The local part of add_bytes is all of add_bytes, as it is seen. *)
LEMMA AddLocallyCalm ==
  ASSUME Calm, CalmInv, NEW r \in Req, AddLocally(r), HybridTyped'
  PROVE  Seen /\ CalmInv'
<1> DEFINE i == file[r].id
<1>0. TypeOK
  BY DEF CalmInv, HybridTyped, HybridTypeOK
<1>1. /\ pc[r] = "write" /\ Working(r) /\ PlacedFor(r) /\ ~gone[r] /\ ~Moving(r) /\ ~Unserved(r)
      /\ file[r] \in FileInfo /\ file[r] # None /\ i \in Id /\ i \in used /\ file[r].offset \in Nat /\ body[r] \in Seq(Nat)
      /\ Method[r] # "DELETE" /\ file[r].length \in Nat \cup {None}
  BY <1>0, WorkersWork, WorkingSeen, Waiting, FileFields DEF AddLocally, CalmInv, Moving, TypeOK
<1>2. data[i] # None /\ object[i] = None /\ (body[r] # <<>> \/ ~Finished(file[r]))
  BY <1>1 DEF PlacedFor
<1>3. /\ data' = [data EXCEPT ![i] = Appended(@, body[r])]
      /\ UNCHANGED <<info, used, partsInfo, cursor, gone, resp, metrics, hooks, delivered, object>>
  BY <1>2 DEF AddLocally, telemetry
<1>4. data'[i] = Appended(data[i], body[r]) /\ \A j \in Id \ {i} : data'[j] = data[j]
  BY <1>0, <1>1, <1>3 DEF TypeOK
<1>5. data'[i] # None
  <2>1. data[i] \in Seq(Nat)
    BY <1>0, <1>1, <1>2 DEF TypeOK
  <2>2. Appended(data[i], body[r]) \in Seq(Nat)
    BY <1>1, <2>1, ConcatProperties DEF Appended
  <2> QED BY <1>4, <2>2, NoneAssumption
<1>6. /\ localPc[r] = "write" /\ localFile[r] = file[r] /\ localBody[r] = body[r] /\ localResp[r] = resp[r]
  BY <1>1, LocalAt
<1>7. /\ Others(r) /\ resp'[r] # "ok" /\ file'[r].id = i /\ ~Unserved(r)'
      /\ localPc'[r] = "save" /\ localFile'[r] = [file[r] EXCEPT !.offset = @ + Len(body[r])] /\ localBody'[r] = <<>>
      /\ Working(r)' /\ PlacedFor(r)'
  <2>1. CASE Completes(r)
    <3>1. pc'[r] = "open" /\ UNCHANGED <<file, body>> /\ Others(r) /\ resp'[r] # "ok"
      BY <1>0, <1>1, <1>2, <1>3, <2>1, Waiting DEF AddLocally, GoTo, Others, TypeOK
    <3>2. Moving(r)' /\ file[r].length = file[r].offset + Len(body[r]) /\ ~Unserved(r)'
      BY <1>1, <2>1, <3>1 DEF Moving, Completes, Unserved, Working, Modifying
    <3>3. file[r].length # 0
      <4>1. Len(body[r]) \in Nat /\ (Len(body[r]) = 0 => body[r] = <<>>)
        BY <1>1, EmptySeq, LenProperties
      <4> QED BY <1>1, <1>2, <3>2, <4>1 DEF Finished
    <3>4. PlacedFor(r)'
      BY <1>2, <1>3, <1>5, <2>1, <3>1, <3>3 DEF PlacedFor, Moving, Completes
    <3> QED BY <1>1, <3>1, <3>2, <3>4, LocalAtNext DEF Working
  <2>2. CASE ~Completes(r)
    <3>1. /\ pc'[r] = "save" /\ file'[r] = [file[r] EXCEPT !.offset = @ + Len(body[r])] /\ body'[r] = <<>>
          /\ Others(r) /\ resp'[r] # "ok"
      BY <1>0, <1>1, <1>2, <1>3, <2>2, Waiting DEF AddLocally, GoTo, Others, TypeOK
    <3>2. ~Moving(r)' /\ ~Unserved(r)'
      BY <1>1, <3>1 DEF Moving, Unserved, Working, Modifying
    <3>3. file'[r].id = i /\ file'[r].length = file[r].length /\ file'[r].offset = file[r].offset + Len(body[r])
      BY <1>1, <3>1 DEF FileInfo
    <3>4. ~Finished(file'[r])
      BY <2>2, <3>3 DEF Finished, Completes
    <3>5. PlacedFor(r)'
      BY <1>2, <1>3, <1>5, <3>1, <3>3, <3>4 DEF PlacedFor, Moving, Placed
    <3> QED BY <1>1, <3>1, <3>2, <3>3, <3>5, LocalAtNext DEF Working
  <2> QED BY <2>1, <2>2
<1>8. /\ localData[i] = IF data[i] # None THEN data[i] ELSE object[i]
      /\ localData'[i] = IF data'[i] # None THEN data'[i] ELSE object'[i]
      /\ localData' = [localData EXCEPT ![i] = localData'[i]]
      /\ ~Emptied(i)' /\ (Seen /\ PlacedFor(r)' /\ OnePlace(i)' => CalmInv')
  BY <1>1, <1>3, <1>4, <1>7, WorkStep
<1>9. /\ localPc' = [localPc EXCEPT ![r] = "save"] /\ localResp' = localResp
      /\ localFile' = [localFile EXCEPT ![r] = [file[r] EXCEPT !.offset = @ + Len(body[r])]]
      /\ localBody' = [localBody EXCEPT ![r] = <<>>]
  <2>1. localResp'[r] = localResp[r]
    BY <1>1, <1>3, <1>6, <1>7, LocalAtNext
  <2> QED BY <1>7, <2>1, LocalOthers DEF localResp
<1>10. Up!AddBytes(r)
  <2>1. localData[localFile[r].id] # None
        /\ localData' = [localData EXCEPT ![localFile[r].id] = Up!Appended(@, localBody[r])]
    BY <1>2, <1>4, <1>5, <1>6, <1>8 DEF Appended, Up!Appended
  <2>2. localFile' = [localFile EXCEPT ![r].offset = @ + Len(localBody[r])]
    BY <1>6, <1>9
  <2>3. Up!GoTo(r, "save")
    BY <1>1, <1>9 DEF Up!GoTo
  <2> QED BY <1>3, <1>6, <1>9, <2>1, <2>2, <2>3 DEF Up!AddBytes, Up!telemetry
<1>11. Seen
  BY <1>10 DEF Seen, Up!Next, Up!Proceed
<1>12. OnePlace(i)'
  BY <1>1, <1>2, <1>3, <1>7, <1>8, WorkingPlace
<1> QED BY <1>7, <1>8, <1>11, <1>12

(***************************************************************************)
(* Moving an upload to S3 is not seen.                                     *)
(***************************************************************************)

(* A handler that moves its upload: the file is there, and it is complete. *)
LEMMA MovingHere ==
  ASSUME CalmInv, NEW r \in Req, Moving(r)
  PROVE  /\ Working(r) /\ PlacedFor(r) /\ ~gone[r] /\ ~Unserved(r) /\ Method[r] # "DELETE"
         /\ file[r] \in FileInfo /\ file[r] # None /\ file[r].id \in Id /\ file[r].id \in used
         /\ file[r].length \in Nat /\ file[r].length # 0 /\ data[file[r].id] # None
         /\ resp[r] = "none" /\ TypeOK
<1>1. pc[r] \in {"open", "put", "dropLocal"}
  BY DEF Moving
<1>2. Working(r) /\ Method[r] # "DELETE"
  BY <1>1, WorkersWork
<1>3. /\ ~gone[r] /\ ~Unserved(r) /\ file[r] \in FileInfo /\ file[r] # None /\ file[r].id \in Id
      /\ file[r].id \in used /\ resp[r] = "none"
  BY <1>1, <1>2, WorkingSeen, Waiting
<1>4. PlacedFor(r) /\ HybridLocals(r) /\ TypeOK
  BY DEF CalmInv, HybridTyped, HybridTypeOK
<1> QED BY <1>1, <1>2, <1>3, <1>4 DEF PlacedFor, HybridLocals, Moving

(* Steps that leave everything as it is seen. *)
LEMMA UnseenCalm ==
  ASSUME Calm, CalmInv, NEW r \in Req, Moving(r), Others(r), HybridTyped',
         UNCHANGED <<info, used, partsInfo, cursor, gone, resp, metrics, hooks, delivered>>,
         NEW i, i = file[r].id,
         \A j \in Id \ {i} : data'[j] = data[j] /\ object'[j] = object[j],
         IF data'[i] # None THEN data'[i] = data[i] ELSE object'[i] = data[i],
         \/ Moving(r)' /\ file'[r] = file[r]
         \/ /\ pc'[r] = "save" /\ body'[r] = <<>>
            /\ file'[r] = [file[r] EXCEPT !.offset = file[r].length],
         PlacedFor(r)', object'[i] = None \/ data'[i] = None \/ pc'[r] = "dropLocal"
  PROVE  Seen /\ CalmInv'
<1>1. /\ Working(r) /\ ~Unserved(r) /\ file[r] \in FileInfo /\ i \in Id /\ i \in used /\ data[i] # None
      /\ resp'[r] # "ok" /\ Method[r] # "DELETE"
  BY MovingHere
<1>2. file'[r].id = i /\ Working(r)'
  <2>1. file'[r].id = i
    BY <1>1 DEF FileInfo
  <2>2. pc'[r] \in {"open", "put", "dropLocal", "save"}
    BY DEF Moving
  <2> QED BY <1>1, <2>1, <2>2 DEF Working
<1>3. ~Unserved(r)'
  BY <1>1 DEF Unserved, Working, Modifying
<1>4. localPc'[r] = localPc[r] /\ localResp'[r] = localResp[r] /\ localFile'[r] = localFile[r] /\ localBody'[r] = localBody[r]
  <2>1. localPc[r] = "save" /\ localResp[r] = resp[r] /\ localBody[r] = <<>>
        /\ localFile[r] = [file[r] EXCEPT !.offset = file[r].length]
    BY <1>1, LocalAt
  <2>2. CASE Moving(r)' /\ file'[r] = file[r]
    BY <1>3, <2>1, <2>2, LocalAtNext
  <2>3. CASE pc'[r] = "save" /\ body'[r] = <<>> /\ file'[r] = [file[r] EXCEPT !.offset = file[r].length]
    <3>1. ~Moving(r)'
      BY <2>3 DEF Moving
    <3> QED BY <1>3, <2>1, <2>3, <3>1, LocalAtNext
  <2> QED BY <2>2, <2>3
<1>5. localPc' = localPc /\ localResp' = localResp /\ localFile' = localFile /\ localBody' = localBody
  BY <1>4, LocalResting
<1>6. /\ localData[i] = IF data[i] # None THEN data[i] ELSE object[i]
      /\ localData'[i] = IF data'[i] # None THEN data'[i] ELSE object'[i]
      /\ localData'[i] = localData[i] => localData' = localData
      /\ ~Emptied(i)' /\ (Seen /\ PlacedFor(r)' /\ OnePlace(i)' => CalmInv')
  BY <1>1, <1>2, WorkStep
<1>7. localData' = localData
  BY <1>1, <1>6
<1>8. Seen
  BY <1>5, <1>7 DEF Seen, Up!vars
<1>9. OnePlace(i)'
  BY <1>1, <1>2, <1>6, WorkingPlace
<1> QED BY <1>6, <1>8, <1>9

(* upload_file opens the file and streams it, ... *)
LEMMA OpenLocalCalm ==
  ASSUME Calm, CalmInv, NEW r \in Req, OpenLocal(r) \/ StreamMore(r), HybridTyped'
  PROVE  Seen /\ CalmInv'
<1> DEFINE i == file[r].id
<1>1. Moving(r) /\ pc[r] \in {"open", "put"}
  BY DEF Moving, OpenLocal, StreamMore
<1>2. /\ ~gone[r] /\ PlacedFor(r) /\ i \in Id /\ data[i] # None /\ object[i] = None /\ file[r].length # 0
      /\ TypeOK /\ resp[r] = "none"
  BY <1>1, MovingHere DEF PlacedFor
<1>3. /\ pc'[r] = "put" /\ body'[r] = data[i] /\ Others(r)
      /\ UNCHANGED <<info, data, used, file, partsInfo, cursor, gone, resp, metrics, hooks, delivered, object>>
  <2>1. CASE OpenLocal(r)
    BY <1>2, <2>1 DEF OpenLocal, GoTo, Others, TypeOK, stores, telemetry
  <2>2. CASE StreamMore(r)
    BY <1>2, <2>2 DEF StreamMore, Others, TypeOK, stores, telemetry
  <2> QED BY <2>1, <2>2
<1>4. Moving(r)' /\ PlacedFor(r)'
  BY <1>2, <1>3 DEF Moving, PlacedFor
<1> QED BY <1>1, <1>2, <1>3, <1>4, UnseenCalm

(* ... S3 has it all, ... *)
LEMMA PutObjectCalm ==
  ASSUME Calm, CalmInv, NEW r \in Req, PutObject(r), HybridTyped'
  PROVE  Seen /\ CalmInv'
<1> DEFINE i == file[r].id
<1>1. Moving(r) /\ pc[r] = "put"
  BY DEF Moving, PutObject
<1>2. /\ ~gone[r] /\ PlacedFor(r) /\ i \in Id /\ data[i] # None /\ object[i] = None /\ file[r].length # 0
      /\ TypeOK /\ resp[r] = "none" /\ body[r] = data[i] /\ object \in [Id -> Seq(Nat) \cup {None}]
  BY <1>1, MovingHere DEF PlacedFor, CalmInv, HybridTyped, HybridTypeOK
<1>3. /\ pc'[r] = "dropLocal" /\ Others(r) /\ object' = [object EXCEPT ![i] = body[r]]
      /\ UNCHANGED <<info, data, used, file, partsInfo, cursor, gone, resp, metrics, hooks, delivered>>
  BY <1>2 DEF PutObject, GoTo, Others, TypeOK, stores, telemetry
<1>4. object'[i] = data[i] /\ \A j \in Id \ {i} : object'[j] = object[j]
  BY <1>2, <1>3
<1>5. Moving(r)' /\ PlacedFor(r)'
  BY <1>2, <1>3, <1>4 DEF Moving, PlacedFor
<1> QED BY <1>1, <1>2, <1>3, <1>4, <1>5, UnseenCalm

(* ... and the local storage removes it. *)
LEMMA DropLocalCalm ==
  ASSUME Calm, CalmInv, NEW r \in Req, DropLocal(r), HybridTyped'
  PROVE  Seen /\ CalmInv'
<1> DEFINE i == file[r].id
<1>1. Moving(r) /\ pc[r] = "dropLocal"
  BY DEF Moving, DropLocal
<1>2. /\ ~gone[r] /\ PlacedFor(r) /\ i \in Id /\ data[i] # None /\ object[i] = data[i] /\ file[r].length # 0
      /\ TypeOK /\ resp[r] = "none" /\ file[r] \in FileInfo
  BY <1>1, MovingHere DEF PlacedFor
<1>3. /\ pc'[r] = "save" /\ Others(r) /\ data' = [data EXCEPT ![i] = None] /\ body'[r] = <<>>
      /\ file'[r] = [file[r] EXCEPT !.offset = file[r].length]
      /\ UNCHANGED <<info, object, used, partsInfo, cursor, gone, resp, metrics, hooks, delivered>>
  BY <1>1, <1>2 DEF DropLocal, GoTo, Others, TypeOK, telemetry
<1>4. data'[i] = None /\ \A j \in Id \ {i} : data'[j] = data[j]
  BY <1>2, <1>3 DEF TypeOK
<1>5. file'[r].id = i /\ file'[r].length # 0 /\ Finished(file'[r])
  BY <1>2, <1>3 DEF FileInfo, Finished
<1>6. PlacedFor(r)'
  BY <1>2, <1>3, <1>4, <1>5 DEF Moving, PlacedFor, Placed, Finished
<1> QED BY <1>1, <1>2, <1>3, <1>4, <1>6, UnseenCalm

(****************************************************************************)
(* The info of an upload is saved and removed while its bytes are in place. *)
(****************************************************************************)

(* The bytes of all uploads stay where they are. *)
LEMMA BytesStay ==
  ASSUME Calm, CalmInv, NEW r \in Req, Working(r), ~Moving(r), ~Moving(r)', Others(r), HybridTyped',
         UNCHANGED <<data, object, used, file, body>>, resp'[r] = "ok" => Method[r] # "DELETE",
         NEW i, i = file[r].id, Method[r] = "DELETE" => info'[i] \in {info[i], None},
         \A j \in Id \ {i} : info'[j] = info[j]
  PROVE  /\ localData' = localData /\ localFile' = localFile /\ localBody' = localBody /\ ~Emptied(i)'
         /\ Seen /\ PlacedFor(r)' /\ OnePlace(i)' => CalmInv'
<1>1. file'[r].id = file[r].id /\ i \in Id
  BY WorkingSeen
<1>2. /\ localData[i] = IF data[i] # None THEN data[i] ELSE object[i]
      /\ localData'[i] = IF data'[i] # None THEN data'[i] ELSE object'[i]
      /\ localData'[i] = localData[i] => localData' = localData
      /\ ~Emptied(i)' /\ (Seen /\ PlacedFor(r)' /\ OnePlace(i)' => CalmInv')
  BY <1>1, WorkStep DEF Kept
<1>3. localFile' = localFile /\ localBody' = localBody
  BY StillSeen DEF Working, Modifying, Unserved
<1> QED BY <1>2, <1>3

(* A handler that ends leaves the upload in one place, the one its info tells. *)
LEMMA EndedPlace ==
  ASSUME CalmInv, NEW r \in Req, NEW i \in Id, i \in used, used' = used,
         Emptied(i)' => object'[i] = None,
         object'[i] = None \/ data'[i] = None, Visible(i)' => Placed(i, info[i])'
  PROVE  OnePlace(i)'
BY DEF OnePlace

(* Placed says of an upload that it is in one place. *)
LEMMA InOnePlace ==
  ASSUME NEW i \in Id, NEW f, Placed(i, f)
  PROVE  object[i] = None \/ data[i] = None
BY DEF Placed

(* A handler that is refused, or finds no info. *)
LEMMA ErrorCalm ==
  ASSUME Calm, CalmInv, NEW r \in Req, Answer(r, "error"), pc[r] \in {"create", "save", "removeInfo"}, HybridTyped',
         info[file[r].id] = None \/ pc[r] = "removeInfo",
         UNCHANGED <<info, data, object, used, file, body, partsInfo, cursor, gone, metrics, hooks, delivered>>
  PROVE  /\ Up!Answer(r, "error") /\ localData' = localData /\ localFile' = localFile /\ localBody' = localBody
         /\ Seen => CalmInv'
<1> DEFINE i == file[r].id
<1>1. /\ Working(r) /\ PlacedFor(r) /\ ~gone[r] /\ ~Moving(r) /\ file[r] \in FileInfo /\ file[r] # None /\ i \in Id
      /\ i \in used /\ TypeOK /\ Up!Current(r) /\ localFile[r] = file[r] /\ localPc[r] = pc[r]
      /\ Method[r] \in {"POST", "PATCH", "DELETE"} /\ Up!Works(r)
  BY StandingHere, WorkingSeen
<1>2. Others(r) /\ resp'[r] = "error" /\ pc'[r] = "done"
  BY <1>1 DEF Others, Answer, TypeOK
<1>3. Up!Answer(r, "error") /\ ~Moving(r)'
  BY <1>1, <1>2, AnswerSeen
<1>4. /\ localData' = localData /\ localFile' = localFile /\ localBody' = localBody /\ ~Emptied(i)'
      /\ Seen /\ PlacedFor(r)' /\ OnePlace(i)' => CalmInv'
  BY <1>1, <1>2, <1>3, BytesStay
<1>5. PlacedFor(r)'
  BY <1>2 DEF PlacedFor, Moving
<1>6. pc[r] # "create" => Placed(i, file[r])
  BY <1>1 DEF PlacedFor
<1>7. object'[i] = None \/ data'[i] = None
  BY <1>1, <1>6, InOnePlace DEF PlacedFor
<1>8. ASSUME Visible(i)' PROVE Placed(i, info[i])'
  <2>1. info[i] # None /\ info' = info
    BY <1>8 DEF Visible
  <2>2. pc[r] = "removeInfo" /\ info[i] = file[r]
    BY <1>1, <2>1 DEF Up!Current
  <2> QED BY <1>6, <2>1, <2>2 DEF Placed
<1>9. OnePlace(i)'
  BY <1>1, <1>4, <1>7, <1>8, EndedPlace
<1> QED BY <1>3, <1>4, <1>5, <1>9

(* pre-create and pre-terminate. *)
LEMMA HookCalm ==
  ASSUME Calm, CalmInv, NEW r \in Req, HookRefused(r), object' = object, HybridTyped'
  PROVE  Seen /\ CalmInv'
<1>1. /\ Answer(r, "error") /\ pc[r] \in {"create", "removeInfo"}
      /\ UNCHANGED <<info, data, used, file, body, partsInfo, cursor, gone, metrics, hooks, delivered>>
  BY DEF HookRefused, stores, telemetry
<1>2. localPc[r] = pc[r] /\ localFile[r] = file[r] /\ Up!Current(r) /\ Up!Works(r) /\ Method[r] \in {"POST", "PATCH", "DELETE"}
  BY <1>1, StandingHere, WorkingSeen
<1>3. info[file[r].id] = None \/ pc[r] = "removeInfo"
  <2>1. pc[r] = "create" => Method[r] = "POST"
    BY DEF CalmInv, HybridTyped, LocalsOK
  <2> QED BY <1>1, <1>2, <2>1 DEF Up!Current
<1>4. /\ Up!Answer(r, "error") /\ localData' = localData /\ localFile' = localFile /\ localBody' = localBody
      /\ Seen => CalmInv'
  BY <1>1, <1>3, ErrorCalm
<1>5. Up!HookRefused(r)
  BY <1>1, <1>2, <1>4 DEF HookRefused, Up!HookRefused, Up!stores, Up!telemetry
<1> QED BY <1>4, <1>5 DEF Seen, Up!Next, Up!Interfere

(* set_info opens the info file. *)
LEMMA OpenInfoCalm ==
  ASSUME Calm, CalmInv, NEW r \in Req, OpenInfo(r), object' = object, HybridTyped'
  PROVE  Seen /\ CalmInv'
<1> DEFINE i == file[r].id
<1>1. /\ pc[r] = "save" /\ InfoKind = "file"
      /\ UNCHANGED <<data, used, file, body, partsInfo, cursor, gone, metrics, hooks, delivered>>
  BY DEF OpenInfo, telemetry
<1>2. /\ Working(r) /\ PlacedFor(r) /\ ~gone[r] /\ ~Moving(r) /\ ~Unserved(r) /\ file[r] \in FileInfo /\ file[r] # None
      /\ i \in Id /\ i \in used /\ TypeOK /\ localFile[r] = file[r] /\ localPc[r] = "save" /\ resp[r] = "none"
      /\ Method[r] # "DELETE"
  BY <1>1, StandingHere
<1>3. Up!Openable(r) <=> Openable(r)
  BY <1>2 DEF Openable, Up!Openable
<1>4. CASE Openable(r)
  <2>1. /\ info' = [info EXCEPT ![i] = Empty] /\ pc' = [pc EXCEPT ![r] = "saving"] /\ resp' = resp
    BY <1>4 DEF OpenInfo
  <2>2. /\ Others(r) /\ pc'[r] = "saving" /\ resp'[r] # "ok" /\ ~Moving(r)' /\ ~Unserved(r)'
        /\ \A j \in Id \ {i} : info'[j] = info[j]
    BY <1>1, <1>2, <2>1 DEF Others, Moving, Unserved, TypeOK
  <2>3. /\ localData' = localData /\ localFile' = localFile /\ localBody' = localBody /\ ~Emptied(i)'
        /\ Seen /\ PlacedFor(r)' /\ OnePlace(i)' => CalmInv'
    BY <1>1, <1>2, <2>2, BytesStay
  <2>4. localPc' = [localPc EXCEPT ![r] = "saving"] /\ localResp' = localResp
    <3>1. localPc'[r] = "saving" /\ localResp'[r] = localResp[r]
      BY <1>2, <2>1, <2>2, LocalAt, LocalAtNext
    <3> QED BY <2>2, <3>1, LocalOthers DEF localResp
  <2>5. Up!OpenInfo(r)
    BY <1>1, <1>2, <1>3, <1>4, <2>1, <2>3, <2>4 DEF Up!OpenInfo, Up!telemetry
  <2>6. PlacedFor(r)'
    BY <1>1, <1>2, <2>2 DEF PlacedFor, Moving, Placed
  <2>7. OnePlace(i)'
    <3>1. object'[i] = None \/ data'[i] = None
      BY <1>1, <1>2, InOnePlace DEF PlacedFor
    <3>2. Working(r)' /\ file'[r].id = i
      BY <1>1, <1>2, <2>2 DEF Working
    <3> QED BY <1>1, <1>2, <2>3, <3>1, <3>2, WorkingPlace
  <2> QED BY <2>3, <2>5, <2>6, <2>7 DEF Seen, Up!Next, Up!Proceed
<1>5. CASE ~Openable(r)
  <2>1. Answer(r, "error") /\ info' = info /\ info[i] = None
    BY <1>5 DEF OpenInfo, Openable
  <2>2. /\ Up!Answer(r, "error") /\ localData' = localData /\ localFile' = localFile /\ localBody' = localBody
        /\ Seen => CalmInv'
    BY <1>1, <2>1, ErrorCalm
  <2>3. Up!OpenInfo(r)
    BY <1>1, <1>2, <1>3, <1>5, <2>1, <2>2 DEF Up!OpenInfo, Up!telemetry
  <2> QED BY <2>2, <2>3 DEF Seen, Up!Next, Up!Proceed
<1> QED BY <1>4, <1>5

(* ... and writes it: the info tells the place from now on. *)
LEMMA WriteInfoCalm ==
  ASSUME Calm, CalmInv, NEW r \in Req, WriteInfo(r), object' = object, HybridTyped'
  PROVE  Seen /\ CalmInv'
<1> DEFINE i == file[r].id
<1>1. /\ pc[r] = "saving" /\ Saved(r) /\ Answer(r, "ok")
      /\ UNCHANGED <<data, used, file, body, partsInfo, cursor, gone, delivered>>
  BY DEF WriteInfo, Saved
<1>2. /\ Working(r) /\ PlacedFor(r) /\ ~gone[r] /\ ~Moving(r) /\ ~Unserved(r) /\ file[r] \in FileInfo /\ file[r] # None
      /\ i \in Id /\ i \in used /\ TypeOK /\ localFile[r] = file[r] /\ localPc[r] = "saving" /\ resp[r] = "none"
      /\ Method[r] # "DELETE" /\ Up!Current(r) /\ Up!Works(r) /\ Method[r] \in {"POST", "PATCH", "DELETE"}
  BY <1>1, StandingHere, WorkingSeen
<1>3. Written(i, file[r]) = {file[r]} /\ Up!Written(i, file[r]) = {file[r]}
  <2>1. info[i] = Empty
    BY <1>2 DEF Up!Current
  <2>2. Empty # None
    BY TornAssumption DEF Torn
  <2> QED BY <2>1, <2>2 DEF Written, Up!Written
<1>4. info' = [info EXCEPT ![i] = file[r]]
  BY <1>3 DEF WriteInfo
<1>5. /\ Others(r) /\ pc'[r] = "done" /\ resp'[r] = "ok" /\ \A j \in Id \ {i} : info'[j] = info[j]
      /\ info'[i] = file[r]
  BY <1>1, <1>2, <1>4 DEF Others, Answer, TypeOK
<1>6. Up!Answer(r, "ok") /\ ~Moving(r)'
  BY <1>1, <1>2, <1>5, AnswerSeen
<1>7. /\ localData' = localData /\ localFile' = localFile /\ localBody' = localBody /\ ~Emptied(i)'
      /\ Seen /\ PlacedFor(r)' /\ OnePlace(i)' => CalmInv'
  BY <1>1, <1>2, <1>5, <1>6, BytesStay
<1>8. Up!Saved(r)
  BY <1>1, <1>2, <1>6 DEF Saved, Up!Saved, Spawn, Up!Spawn, PostHook, Up!PostHook, Finished, Up!Finished
<1>9. Up!WriteInfo(r)
  BY <1>1, <1>2, <1>3, <1>4, <1>7, <1>8 DEF Up!WriteInfo
<1>10. Placed(i, file[r])
  BY <1>1, <1>2 DEF PlacedFor
<1>11. PlacedFor(r)'
  BY <1>5 DEF PlacedFor, Moving
<1>12. OnePlace(i)'
  <2>1. object'[i] = None \/ data'[i] = None
    BY <1>1, <1>2, <1>10, InOnePlace
  <2>2. Placed(i, info[i])'
    BY <1>1, <1>5, <1>10 DEF Placed
  <2> QED BY <1>1, <1>2, <1>7, <2>1, <2>2, EndedPlace
<1> QED BY <1>7, <1>9, <1>11, <1>12 DEF Seen, Up!Next, Up!Proceed

(* remove_info. *)
LEMMA RemoveInfoCalm ==
  ASSUME Calm, CalmInv, NEW r \in Req, RemoveInfo(r), object' = object, HybridTyped'
  PROVE  Seen /\ CalmInv'
<1> DEFINE i == file[r].id
<1>1. /\ pc[r] = "removeInfo"
      /\ UNCHANGED <<data, used, file, body, partsInfo, cursor, gone, metrics, hooks, delivered>>
  BY DEF RemoveInfo, telemetry
<1>2. /\ Working(r) /\ PlacedFor(r) /\ ~gone[r] /\ ~Moving(r) /\ ~Unserved(r) /\ file[r] \in FileInfo /\ file[r] # None
      /\ i \in Id /\ i \in used /\ TypeOK /\ localFile[r] = file[r] /\ localPc[r] = "removeInfo" /\ resp[r] = "none"
      /\ Method[r] = "DELETE"
  BY <1>1, StandingHere
<1>4. CASE info[i] # None
  <2>1. /\ info' = [info EXCEPT ![i] = None] /\ GoTo(r, "removeFile") /\ resp' = resp
    BY <1>4 DEF RemoveInfo
  <2>2. /\ Others(r) /\ pc'[r] = "removeFile" /\ resp'[r] # "ok"
        /\ info'[i] = None /\ \A j \in Id \ {i} : info'[j] = info[j]
    BY <1>1, <1>2, <2>1 DEF Others, GoTo, TypeOK
  <2>3. Up!GoTo(r, "removeFile") /\ localResp' = localResp /\ ~Moving(r)'
    BY <1>1, <1>2, <2>1, <2>2, GoSeen DEF Pcs
  <2>4. /\ localData' = localData /\ localFile' = localFile /\ localBody' = localBody /\ ~Emptied(i)'
        /\ Seen /\ PlacedFor(r)' /\ OnePlace(i)' => CalmInv'
    BY <1>1, <1>2, <2>2, <2>3, BytesStay
  <2>5. Up!RemoveInfo(r)
    BY <1>1, <1>2, <1>4, <2>1, <2>3, <2>4 DEF Up!RemoveInfo, Up!telemetry
  <2>6. PlacedFor(r)'
    BY <1>1, <1>2, <2>2 DEF PlacedFor, Moving, Placed
  <2>7. OnePlace(i)'
    <3>1. object'[i] = None \/ data'[i] = None
      BY <1>1, <1>2, InOnePlace DEF PlacedFor
    <3>2. Working(r)' /\ file'[r].id = i
      BY <1>1, <1>2, <2>2 DEF Working
    <3> QED BY <1>1, <1>2, <2>4, <3>1, <3>2, WorkingPlace
  <2> QED BY <2>4, <2>5, <2>6, <2>7 DEF Seen, Up!Next, Up!Proceed
<1>5. CASE info[i] = None
  <2>1. Answer(r, "error") /\ info' = info
    BY <1>5 DEF RemoveInfo
  <2>2. /\ Up!Answer(r, "error") /\ localData' = localData /\ localFile' = localFile /\ localBody' = localBody
        /\ Seen => CalmInv'
    BY <1>1, <2>1, ErrorCalm
  <2>3. Up!RemoveInfo(r)
    BY <1>1, <1>2, <1>5, <2>1, <2>2 DEF Up!RemoveInfo, Up!telemetry
  <2> QED BY <2>2, <2>3 DEF Seen, Up!Next, Up!Proceed
<1> QED BY <1>4, <1>5

(*********************************************************************************)
(* The bytes of an upload are removed and read where its FileInfo says they are. *)
(*********************************************************************************)

(* remove_file finds the bytes; what it may leave is the local file of an empty upload. *)
LEMMA RemoveStoredCalm ==
  ASSUME Calm, CalmInv, NEW r \in Req, RemoveStored(r), HybridTyped'
  PROVE  Seen /\ CalmInv'
<1> DEFINE i == file[r].id
<1>1. /\ pc[r] = "removeFile"
      /\ UNCHANGED <<info, used, file, body, partsInfo, cursor, gone, delivered>>
  BY DEF RemoveStored
<1>2. /\ Working(r) /\ PlacedFor(r) /\ ~gone[r] /\ ~Moving(r) /\ ~Unserved(r) /\ file[r] \in FileInfo /\ file[r] # None
      /\ i \in Id /\ i \in used /\ TypeOK /\ localFile[r] = file[r] /\ localPc[r] = "removeFile" /\ resp[r] = "none"
      /\ Method[r] = "DELETE" /\ Up!Sound(r)
  BY <1>1, StandingHere
<1>3. object \in [Id -> Seq(Nat) \cup {None}]
  BY DEF CalmInv, HybridTyped, HybridTypeOK
<1>4. info[i] = None /\ localData[i] # None
  BY <1>2 DEF Up!Sound
<1>5. Placed(i, file[r])
  BY <1>1, <1>2 DEF PlacedFor
<1>6. /\ \A j \in Id \ {i} : data'[j] = data[j] /\ object'[j] = object[j]
      /\ object'[i] = None /\ Kept(i)
  <2>1. CASE Finished(file[r])
    <3>1. object' = [object EXCEPT ![i] = None] /\ data' = data
      BY <2>1 DEF RemoveStored
    <3> QED BY <1>1, <1>2, <1>3, <3>1 DEF Kept
  <2>2. CASE ~Finished(file[r])
    <3>1. data' = [data EXCEPT ![i] = None] /\ object' = object
      BY <2>2 DEF RemoveStored
    <3> QED BY <1>1, <1>2, <1>5, <2>2, <3>1 DEF Placed, TypeOK, Kept
  <2> QED BY <2>1, <2>2
<1>7. Finished(file[r]) \/ data[i] # None
  BY <1>5 DEF Placed
<1>8. /\ Answer(r, "ok") /\ Count("terminated", 1) /\ Spawn("post-terminate", r)
  BY <1>2, <1>7 DEF RemoveStored
<1>9. Others(r) /\ pc'[r] = "done" /\ resp'[r] = "ok"
  BY <1>1, <1>2, <1>8 DEF Others, Answer, TypeOK
<1>10. Up!Answer(r, "ok") /\ ~Moving(r)'
  BY <1>1, <1>2, <1>8, <1>9, AnswerSeen
<1>11. localFile' = localFile /\ localBody' = localBody
  BY <1>1, <1>2, <1>9, <1>10, StillSeen DEF Unserved
<1>12. ASSUME NEW u, u = i PROVE Emptied(u)'
  BY <1>1, <1>2, <1>9, <1>12 DEF Emptied
<1>13. ASSUME NEW j \in Id, j # i PROVE Emptied(j)' <=> Emptied(j)
  <2>1. ASSUME NEW q \in Req
        PROVE  Method[q] = "DELETE" /\ resp'[q] = "ok" /\ file'[q] # None /\ file'[q].id = j
                 <=> Method[q] = "DELETE" /\ resp[q] = "ok" /\ file[q] # None /\ file[q].id = j
    BY <1>1, <1>9, <1>13 DEF Others
  <2> QED BY <2>1 DEF Emptied
<1>14. localData' = [localData EXCEPT ![i] = None]
  <2>1. localData'[i] = None
    <3>1. ASSUME NEW u \in Id, u = i PROVE localData'[u] = None
      BY <1>12, <3>1, LocalDataNext
    <3> QED BY <1>2, <3>1
  <2>2. \A j \in Id \ {i} : localData'[j] = localData[j]
    BY <1>6, <1>13, LocalDataKept
  <2> QED BY <1>2, <2>1, <2>2, LocalDataSet
<1>15. Up!RemoveFile(r)
  BY <1>1, <1>2, <1>4, <1>8, <1>10, <1>11, <1>14 DEF Up!RemoveFile, Up!Count, Count, Up!Spawn, Spawn
<1>16. Seen
  BY <1>15 DEF Seen, Up!Next, Up!Proceed
<1>17. ASSUME NEW j \in Id PROVE OnePlace(j)'
  <2>1. CASE j = i
    <3>1. ~Visible(i)'
      BY <1>1, <1>4 DEF Visible
    <3> QED BY <1>1, <1>2, <1>6, <2>1, <3>1, EndedPlace
  <2>2. CASE j # i
    BY <1>1, <1>6, <1>9, <1>13, <2>2, OnePlaceKept
  <2> QED BY <2>1, <2>2
<1>18. PlacedFor(r)' /\ Reads(r)' /\ Joins(r)
  BY <1>2, <1>9 DEF PlacedFor, Moving, Reads, Joins
<1>19. \A j \in Id : \/ info'[j] = info[j] /\ data'[j] = data[j] /\ object'[j] = object[j]
                     \/ Working(r) /\ file[r].id = j /\ Kept(j)
  BY <1>1, <1>2, <1>6
<1> QED BY <1>1, <1>9, <1>16, <1>17, <1>18, <1>19, CalmKept

(* get_contents reads what the upload is, or finds that it was removed. *)
LEMMA ReadStoredCalm ==
  ASSUME Calm, CalmInv, NEW r \in Req, ReadStored(r), HybridTyped'
  PROVE  Seen /\ CalmInv'
<1> DEFINE i == file[r].id
<1>1. /\ pc[r] = "read" /\ pc[r] # "done"
      /\ UNCHANGED <<info, data, used, file, partsInfo, cursor, gone, metrics, hooks, delivered, object>>
  BY DEF ReadStored, stores, telemetry
<1>2. /\ TypeOK /\ Method[r] = "GET" /\ ~Working(r) /\ ~Moving(r) /\ ~gone[r] /\ resp[r] = "none"
  BY <1>1, Waiting DEF CalmInv, HybridTyped, HybridTypeOK, LocalsOK, Working, Modifying, Moving
<1>3. file[r] # None /\ i \in Id
  BY <1>1, Holding DEF CalmInv
<1>4. Others(r) /\ pc'[r] = "done" /\ resp'[r] \in {"ok", "error"}
  BY <1>1, <1>2 DEF ReadStored, Others, Answer, TypeOK
<1>5. localData' = localData /\ \A j \in Id : OnePlace(j)'
  BY <1>1, <1>2, <1>4, StoresKept
<1>6. PlacedFor(r)' /\ Joins(r)
  BY <1>2, <1>4 DEF PlacedFor, Moving, Joins, Working, Modifying
<1>7. ~Moving(r)' /\ (Unserved(r)' <=> Unserved(r))
  BY <1>1, <1>4 DEF Moving, Unserved, Finished
<1>8. ASSUME Unserved(r) PROVE Seen /\ Reads(r)'
  <2>1. ~(Finished(file[r]) /\ object[i] # None)
    BY <1>1, <1>2, <1>8 DEF CalmInv, Reads, Settled, Unserved
  <2>2. resp'[r] = "error" /\ body' = body
    BY <1>2, <2>1 DEF ReadStored, Answer, TypeOK
  <2>3. /\ localPc'[r] = localPc[r] /\ localResp'[r] = localResp[r]
        /\ localFile'[r] = localFile[r] /\ localBody'[r] = localBody[r]
    BY <1>2, <1>7, <1>8, <2>2, LocalAt, LocalAtNext
  <2>4. localPc' = localPc /\ localResp' = localResp /\ localFile' = localFile /\ localBody' = localBody
    BY <1>4, <2>3, LocalResting
  <2>5. Reads(r)'
    BY <1>4, <2>2 DEF Reads
  <2> QED BY <1>1, <1>5, <2>4, <2>5 DEF Seen, Up!vars
<1>9. ASSUME ~Unserved(r) PROVE Seen /\ Reads(r)'
  <2>1. /\ localPc[r] = "read" /\ localFile[r] = file[r] /\ localBody[r] = body[r] /\ localResp[r] = "none"
        /\ Finished(file[r]) /\ file[r].length # 0
    BY <1>1, <1>2, <1>3, <1>9, LocalAt DEF Unserved
  <2>2. Reads(r)'
    BY <1>4, <1>7, <1>9 DEF Reads
  <2>3. CASE object[i] # None
    <3>1. Answer(r, "ok") /\ body' = [body EXCEPT ![r] = object[i]]
      BY <2>1, <2>3 DEF ReadStored
    <3>2. Up!Answer(r, "ok")
      BY <1>1, <1>4, <1>7, <1>9, <3>1, AnswerSeen
    <3>3. localData[i] = object[i]
      <4>1. OnePlace(i)
        BY <1>3 DEF CalmInv
      <4>2. ~Emptied(i)
        BY <2>3, <4>1 DEF OnePlace
      <4>3. data[i] = None
        BY <1>1, <1>2, <2>1 DEF CalmInv, Reads, Settled
      <4> QED BY <1>3, <4>2, <4>3, LocalDataAt
    <3>4. localFile' = localFile /\ localBody' = [localBody EXCEPT ![r] = object[i]]
      <4>1. body'[r] = object[i]
        BY <1>2, <3>1 DEF TypeOK
      <4> QED BY <1>1, <1>2, <1>4, <1>7, <1>9, <4>1, StillSeen
    <3>5. Up!GetContents(r)
      BY <1>1, <1>5, <2>1, <2>3, <3>2, <3>3, <3>4 DEF Up!GetContents, Up!stores, Up!telemetry
    <3> QED BY <2>2, <3>5 DEF Seen, Up!Next, Up!Proceed
  <2>4. CASE object[i] = None
    <3>1. Answer(r, "error") /\ body' = body
      BY <2>4 DEF ReadStored
    <3>2. Up!Answer(r, "error")
      BY <1>1, <1>4, <1>7, <1>9, <3>1, AnswerSeen
    <3>3. localData[i] = None
      <4>1. data[i] = None
        BY <1>1, <1>2, <2>1 DEF CalmInv, Reads, Settled
      <4> QED BY <1>3, <2>4, <4>1, LocalDataAt
    <3>4. localFile' = localFile /\ localBody' = localBody
      BY <1>1, <1>2, <1>4, <1>7, <1>9, <3>1, StillSeen
    <3>5. Up!GetContents(r)
      BY <1>1, <1>5, <2>1, <3>2, <3>3, <3>4 DEF Up!GetContents, Up!stores, Up!telemetry
    <3> QED BY <2>2, <3>5 DEF Seen, Up!Next, Up!Proceed
  <2> QED BY <2>3, <2>4
<1> QED BY <1>1, <1>2, <1>4, <1>5, <1>6, <1>8, <1>9, CalmKept

(* The hooks. *)
LEMMA BackgroundCalm ==
  ASSUME Calm, CalmInv, (\E h \in hooks : Send(h)) \/ UNCHANGED vars, object' = object, HybridTyped'
  PROVE  Seen /\ CalmInv'
<1>1. UNCHANGED <<info, data, used, pc, file, body, partsInfo, cursor, gone, resp, object>>
  BY DEF Send, vars, stores, handlers
<1>2. localPc' = localPc /\ localResp' = localResp /\ localFile' = localFile /\ localBody' = localBody
  BY <1>1 DEF localPc, localResp, localFile, localBody, Moving, Unserved
<1>3. \A i : Emptied(i)' <=> Emptied(i)
  BY <1>1 DEF Emptied
<1>4. localData' = localData
  BY <1>1, <1>3 DEF localData
<1>5. Seen
  <2>1. ASSUME NEW h \in hooks, Send(h) PROVE Up!Send(h)
    BY <1>1, <1>2, <1>4, <2>1 DEF Send, Up!Send, Up!stores, Up!handlers
  <2>2. CASE UNCHANGED vars
    BY <1>2, <1>4, <2>2 DEF vars, Up!vars, Seen
  <2> QED BY <2>1, <2>2 DEF Seen, Up!Next
<1>6. Up!TusInv'
  BY <1>5, LocalTusNext DEF CalmInv, Seen
<1>7. ASSUME NEW q \in Req PROVE PlacedFor(q)'
  BY <1>1 DEF CalmInv, PlacedFor, Placed, Moving, Completes, Finished
<1>8. ASSUME NEW i \in Id PROVE OnePlace(i)'
  BY <1>1, <1>3 DEF CalmInv, OnePlace, Placed, Visible, Working, Finished
<1>9. ASSUME NEW q \in Req PROVE Reads(q)'
  BY <1>1 DEF CalmInv, Reads, Settled, Unserved, Working, Finished
<1> QED BY <1>5, <1>6, <1>7, <1>8, <1>9 DEF CalmInv

(* Every step, when nothing fails. *)
LEMMA NextCalm == Calm /\ CalmInv /\ [HybridNext]_<<vars, object>> => Seen /\ CalmInv'
<1> SUFFICES ASSUME Calm, CalmInv, [HybridNext]_<<vars, object>> PROVE Seen /\ CalmInv'
  OBVIOUS
<1>0. HybridTyped'
  BY HybridNextTyped DEF CalmInv
<1>1. ASSUME NEW r \in Req, StorageStep(r) PROVE Seen /\ CalmInv'
  <2>1. ~DownloadPart(r) /\ ~PutJoined(r) /\ ~DropObject(r) /\ ~StorageFault(r)
    BY NoFinals DEF DownloadPart, PutJoined, DropObject, StorageFault, Calm
  <2> QED BY <1>0, <1>1, <2>1, AddLocallyCalm, OpenLocalCalm, PutObjectCalm, DropLocalCalm, RemoveStoredCalm,
             ReadStoredCalm DEF StorageStep
<1>2. ASSUME NEW r \in Req, Arrive(r), object' = object PROVE Seen /\ CalmInv'
  <2>1. ASSUME NEW i \in Id, DeleteAccepted(r, i) \/ GetAccepted(r, i) \/ HeadAnswered(r, i)
        PROVE  Seen /\ CalmInv'
    <3>1. CASE Unserved(r)'
      <4>1. GetAccepted(r, i)
        BY <2>1, <3>1 DEF Unserved, DeleteAccepted, HeadAnswered, Begins
      <4> QED BY <1>0, <1>2, <3>1, <4>1, UnservedEntry
    <3>2. CASE ~Unserved(r)'
      BY <1>0, <1>2, <2>1, <3>2, ReadEntry
    <3> QED BY <3>1, <3>2
  <2> QED BY <1>0, <1>2, <2>1, RefusedEntry, PostEntry, PatchEntry DEF Arrive
<1>3. ASSUME NEW r \in Req, SameStep(r), ~Arrive(r), object' = object PROVE Seen /\ CalmInv'
  <2>1. ~ReadPart(r) /\ ~DropInfo(r) /\ ~Disconnect(r)
    BY NoFinals DEF ReadPart, DropInfo, Disconnect, Calm
  <2> QED BY <1>0, <1>3, <2>1, CreateCalm, OpenInfoCalm, WriteInfoCalm, RemoveInfoCalm, HookCalm DEF SameStep
<1>4. ~Crash /\ \A h : ~SendFails(h)
  BY DEF Crash, SendFails, Calm
<1>5. ASSUME UNCHANGED vars \/ Quiet, object' = object PROVE Seen /\ CalmInv'
  BY <1>0, <1>5, BackgroundCalm DEF Quiet
<1>6. ASSUME NEW h \in hooks, Send(h), object' = object PROVE Seen /\ CalmInv'
  BY <1>0, <1>6, BackgroundCalm
<1>7. CASE UNCHANGED <<vars, object>>
  BY <1>5, <1>7
<1>8. CASE HybridNext
  BY <1>1, <1>2, <1>3, <1>4, <1>5, <1>6, <1>8 DEF HybridNext
<1> QED BY <1>7, <1>8

(***************************************************************************)
(* The theorems.                                                           *)
(***************************************************************************)

(* At first nothing is anywhere. *)
LEMMA InitCalm == HybridInit => CalmInv /\ Up!Init
<1> SUFFICES ASSUME HybridInit PROVE CalmInv /\ Up!Init
  OBVIOUS
<1>1. /\ pc = [r \in Req |-> "idle"] /\ file = [r \in Req |-> None] /\ body = [r \in Req |-> <<>>]
      /\ resp = [r \in Req |-> "none"] /\ data = [i \in Id |-> None] /\ object = [i \in Id |-> None]
      /\ info = [i \in Id |-> IF i \in Foreign THEN ForeignInfo(i) ELSE None]
  BY DEF HybridInit, Init
<1>2. \A r \in Req : ~Moving(r) /\ ~Unserved(r)
  BY <1>1 DEF Moving, Unserved
<1>3. \A i : ~Emptied(i)
  BY <1>1 DEF Emptied
<1>4. /\ localPc = [r \in Req |-> "idle"] /\ localFile = [r \in Req |-> None]
      /\ localBody = [r \in Req |-> <<>>] /\ localResp = [r \in Req |-> "none"]
  BY <1>1, <1>2 DEF localPc, localFile, localBody, localResp
<1>5. localData = [i \in Id |-> None]
  BY <1>1, <1>3 DEF localData
<1>6. Up!Init
  BY <1>4, <1>5 DEF HybridInit, Init, Up!Init, ForeignInfo, Up!ForeignInfo, ZeroMetrics, Up!ZeroMetrics,
                    OtherStorage, Up!OtherStorage
<1>7. \A r \in Req : PlacedFor(r) /\ Reads(r)
  BY <1>1, <1>2 DEF PlacedFor, Reads
<1>8. ASSUME NEW i \in Id PROVE OnePlace(i)
  <2>1. ~Visible(i)
    BY <1>1 DEF Visible, ForeignInfo, Own, OtherStorage
  <2> QED BY <1>1, <2>1 DEF OnePlace
<1> QED BY <1>6, <1>7, <1>8, HybridInitTyped, LocalTusInit DEF CalmInv

(* The instance of UploadServer that is proved about is the one that is checked: *)
(* its first states ... *)
LEMMA SameInit == Up!Init <=> Local!Init
  BY DEF Up!Init, Local!Init, Up!ForeignInfo, Local!ForeignInfo, Up!ZeroMetrics, Local!ZeroMetrics,
         Up!OtherStorage, Local!OtherStorage

(* ... and its steps. *)
LEMMA SameNext == Seen <=> [Local!Next]_Local!vars
  BY
  DEF Seen, Up!FileInfo, Local!FileInfo, Up!EnvKinds, Local!EnvKinds, Up!Methods, Local!Methods,
      Up!ExtensionNames, Local!ExtensionNames, Up!Torn, Local!Torn, Up!HookNames,
      Local!HookNames, Up!Own, Local!Own, Up!OtherStorage, Local!OtherStorage, Up!stores,
      Local!stores, Up!handlers, Local!handlers, Up!telemetry, Local!telemetry, Up!vars,
      Local!vars, Up!Bytes, Local!Bytes, Up!Appended, Local!Appended, Up!LengthHeader,
      Local!LengthHeader, Up!PostMsg, Local!PostMsg, Up!PatchMsg, Local!PatchMsg,
      Up!Unreadable, Local!Unreadable, Up!Readable, Local!Readable, Up!InFlight,
      Local!InFlight, Up!PartIds, Local!PartIds, Up!Modifying, Local!Modifying,
      Up!Undisturbed, Local!Undisturbed, Up!Begins, Local!Begins, Up!GoTo, Local!GoTo,
      Up!Answer, Local!Answer, Up!Count, Local!Count, Up!Spawn, Local!Spawn, Up!Concat,
      Local!Concat, Up!PostAdmissible, Local!PostAdmissible, Up!NewFileInfo,
      Local!NewFileInfo, Up!PostRefused, Local!PostRefused, Up!PostAccepted,
      Local!PostAccepted, Up!HookRefused, Local!HookRefused, Up!CreateFile,
      Local!CreateFile, Up!Part, Local!Part, Up!LastPart, Local!LastPart, Up!Advance,
      Local!Advance, Up!PartAcceptable, Local!PartAcceptable, Up!ReadPart, Local!ReadPart,
      Up!Opened, Local!Opened, Up!Joined, Local!Joined, Up!CopyPart, Local!CopyPart,
      Up!DropFile, Local!DropFile, Up!DropInfo, Local!DropInfo, Up!NewLength,
      Local!NewLength, Up!Resized, Local!Resized, Up!Visible, Local!Visible,
      Up!PatchAdmissible, Local!PatchAdmissible, Up!PatchRefused, Local!PatchRefused,
      Up!PatchAccepted, Local!PatchAccepted, Up!AddBytes, Local!AddBytes, Up!Finished,
      Local!Finished, Up!PostHook, Local!PostHook, Up!Saved, Local!Saved, Up!SaveInfo,
      Local!SaveInfo, Up!Openable, Local!Openable, Up!OpenInfo, Local!OpenInfo, Up!Written,
      Local!Written, Up!WriteInfo, Local!WriteInfo, Up!DeleteRefused, Local!DeleteRefused,
      Up!DeleteAccepted, Local!DeleteAccepted, Up!RemoveInfo, Local!RemoveInfo,
      Up!RemoveFile, Local!RemoveFile, Up!ReadRefused, Local!ReadRefused, Up!GetAccepted,
      Local!GetAccepted, Up!GetContents, Local!GetContents, Up!HeadAnswered,
      Local!HeadAnswered, Up!Send, Local!Send, Up!SendFails, Local!SendFails, Up!Disconnect,
      Local!Disconnect, Up!ZeroMetrics, Local!ZeroMetrics, Up!Crash, Local!Crash,
      Up!PartlyAppended, Local!PartlyAppended, Up!HalfWritten, Local!HalfWritten, Up!Fault,
      Local!Fault, Up!RedisAnswerLost, Local!RedisAnswerLost, Up!Arrive, Local!Arrive,
      Up!Proceed, Local!Proceed, Up!Interfere, Local!Interfere, Up!Quiet, Local!Quiet,
      Up!Next, Local!Next, Up!ForeignInfo, Local!ForeignInfo, Up!Init, Local!Init

(* For any number of clients that wait for their answers, without concatenation and *)
(* when nothing fails, every step over the hybrid storage is a step over the file   *)
(* storage with the same answer, or moves bytes and changes nothing there.  Of the  *)
(* downloads this covers those of complete uploads that are not empty; the others,  *)
(* which this storage does not serve, are left out by the mapping.                  *)
THEOREM HybridIsUploadServer ==
  ASSUME Calm
  PROVE  HybridSpec => HybridImplementsUploadServer
<1>1. HybridInit => CalmInv /\ Local!Init
  BY InitCalm, SameInit
<1>2. CalmInv /\ [HybridNext]_<<vars, object>> => CalmInv' /\ [Local!Next]_Local!vars
  BY NextCalm, SameNext
<1> QED BY <1>1, <1>2, PTL DEF HybridSpec, HybridImplementsUploadServer, Local!Spec

(* CalmInv is an invariant. *)
LEMMA CalmInvariant ==
  ASSUME Calm
  PROVE  HybridSpec => []CalmInv
<1>1. HybridInit => CalmInv
  BY InitCalm
<1>2. CalmInv /\ [HybridNext]_<<vars, object>> => CalmInv'
  BY NextCalm
<1> QED BY <1>1, <1>2, PTL DEF HybridSpec

(* So the bytes of an upload are in exactly one place, all of them and in order, *)
(* while nobody is modifying it: in the object if it is complete, in the local   *)
(* file if not.                                                                  *)
THEOREM HybridStoredExactly ==
  ASSUME Calm
  PROVE  HybridSpec => []HybridStored
<1>1. CalmInv => HybridStored
  <2> SUFFICES ASSUME CalmInv, NEW i \in Id, Visible(i), ~info[i].final,
                      \A r \in Req : InFlight(r) /\ Modifying(r) => file[r].id # i
               PROVE  LET bytes == Bytes(0, info[i].offset)
                      IN IF Finished(info[i]) /\ info[i].length # 0
                         THEN object[i] = bytes /\ data[i] = None
                         ELSE data[i] = bytes /\ object[i] = None
    BY DEF HybridStored
  <2>1. Placed(i, info[i]) /\ OnePlace(i)
    BY DEF CalmInv, OnePlace, Working
  <2>2. i \notin Foreign
    <3>1. i \in Foreign => info[i] = Up!ForeignInfo(i)
      BY DEF CalmInv, Up!TusInv, Up!ExactInv, Up!SerialInv, Up!Inv, Up!ForeignInv, Up!ForeignUntouched
    <3>2. Up!ForeignInfo(i).storage = "s3_storage"
      BY DEF Up!ForeignInfo, Up!OtherStorage
    <3>3. info[i].storage = "file_storage"
      BY DEF Visible, Own
    <3> QED BY <3>1, <3>2, <3>3
  <2>3. localData[i] = Bytes(0, info[i].offset)
    <3>1. ~\E r \in Req : localPc[r] = "dropInfo" /\ Up!Part(r) = i
      BY NoFinals, LocalAt
    <3>2. ASSUME NEW r \in Req, localPc[r] = "save", localFile[r].id = i PROVE FALSE
      <4>1. pc[r] \in {"open", "put", "dropLocal", "save"}
        BY <3>2, LocalAt DEF Moving
      <4>2. Working(r) /\ file[r].id = i
        BY <3>2, <4>1, WorkersWork, WorkingSeen
      <4> QED BY <4>2 DEF Working
    <3>3. Up!Exact(i) /\ info[i] \notin Up!Unreadable
      BY DEF CalmInv, Up!TusInv, Up!ExactInv, Visible, Torn, Up!Torn
    <3>4. localData[i] = Up!Bytes(0, info[i].offset)
      BY <2>2, <3>1, <3>2, <3>3 DEF Up!Exact
    <3> QED BY <3>4 DEF Bytes, Up!Bytes
  <2>4. localData[i] # None
    <3>1. info[i] \in FileInfo
      BY DEF Visible, CalmInv, HybridTyped, HybridTypeOK, TypeOK
    <3> QED BY <2>3, <3>1, BytesType, FileFields, NoneAssumption
  <2>5. localData[i] = IF data[i] # None THEN data[i] ELSE object[i]
    BY <2>4, LocalDataAt
  <2> QED BY <2>1, <2>3, <2>5 DEF Placed
<1> QED BY <1>1, CalmInvariant, PTL

(* A download of a complete upload returns exactly its bytes, although the info is *)
(* read before the object.                                                         *)
THEOREM HybridDownloadIsExact ==
  ASSUME Calm
  PROVE  HybridSpec => []DownloadIsUpload
<1>1. CalmInv => DownloadIsUpload
  <2> SUFFICES ASSUME CalmInv, NEW r \in Req, Method[r] = "GET", resp[r] = "ok", Finished(file[r]), ~file[r].final
               PROVE  body[r] = Bytes(0, file[r].length)
    BY DEF DownloadIsUpload
  <2>1. ~Moving(r) /\ ~Unserved(r)
    BY Waiting DEF Moving, CalmInv, Reads
  <2>2. Up!Sound(r)
    BY DEF CalmInv, Up!TusInv, Up!ExactInv
  <2>3. localFile[r] = file[r] /\ localBody[r] = body[r] /\ localResp[r] = "ok"
    BY <2>1, LocalAt
  <2> QED BY <2>2, <2>3 DEF Up!Sound, Finished, Up!Finished, Bytes, Up!Bytes
<1> QED BY <1>1, CalmInvariant, PTL

(***************************************************************************)
(* TusUpload                                                               *)
(***************************************************************************)

HybridUploads == [i \in Id \ Foreign |-> HybridUpload(i)]

(* What UploadRefinementProofs shows of a step holds of the mapped variables. *)
LEMMA LocalNextTus == Calm /\ Up!TusInv /\ Up!TusInv' /\ [Up!Next]_Up!vars => [Up!Tus!Next]_Up!Uploads
  BY Up!NextTus, IdAssumption, MethodAssumption, InputAssumption, ConfigAssumption,
     NoneAssumption, TornAssumption, AbsentAssumption
  DEF Up!NextTus, FileInfo, EnvKinds, Methods, ExtensionNames, Torn, HookNames, Own, OtherStorage,
      Up!FileInfo, Up!EnvKinds, Up!Methods, Up!ExtensionNames, Up!Torn, Up!HookNames, Up!Own,
      Up!OtherStorage, Calm, Up!NothingFails

(* Who saves an info there saves the same one here. *)
LEMMA SaversSeen ==
  ASSUME CalmInv, NEW r \in Req
  PROVE  /\ localPc[r] = "saving" <=> pc[r] = "saving"
         /\ pc[r] = "saving" => localFile[r] = file[r]
  BY Waiting, LocalAt DEF Moving

(* The recorded info of an upload is the same through the mapping. *)
LEMMA RecordedSeen ==
  ASSUME CalmInv, NEW i \in Id
  PROVE  Up!Recorded(i) = Recorded(i)
<1>1. Up!Visible(i) <=> Visible(i)
  BY DEF Up!Visible, Visible, Up!Own, Own, Torn, Up!Torn
<1>2. \A r \in Req : localPc[r] = "saving" /\ localFile[r].id = i <=> pc[r] = "saving" /\ file[r].id = i
  BY SaversSeen
<1>3. CASE \E r \in Req : pc[r] = "saving" /\ file[r].id = i
  <2>1. PICK r \in Req : pc[r] = "saving" /\ file[r].id = i
    BY <1>3
  <2>2. \A q \in Req : pc[q] = "saving" /\ file[q].id = i => q = r
    <3> SUFFICES ASSUME NEW q \in Req, pc[q] = "saving", file[q].id = i, q # r PROVE FALSE
      OBVIOUS
    <3>1. Working(q) /\ Working(r)
      BY <2>1, WorkersWork
    <3> QED BY <2>1, <3>1, WorkingAlone
  <2>3. (CHOOSE q \in Req : pc[q] = "saving" /\ file[q].id = i) = r
    BY <2>1, <2>2
  <2>4. (CHOOSE q \in Req : localPc[q] = "saving" /\ localFile[q].id = i) = r
    BY <1>2, <2>1, <2>2
  <2>5. Recorded(i) = file[r]
    BY <1>3, <2>3 DEF Recorded
  <2>6. Up!Recorded(i) = localFile[r]
    BY <1>2, <1>3, <2>4 DEF Up!Recorded
  <2> QED BY <2>1, <2>5, <2>6, SaversSeen
<1>4. CASE ~\E r \in Req : pc[r] = "saving" /\ file[r].id = i
  <2>1. Recorded(i) = IF Visible(i) THEN info[i] ELSE None
    BY <1>4 DEF Recorded
  <2>2. Up!Recorded(i) = IF Up!Visible(i) THEN info[i] ELSE None
    BY <1>2, <1>4 DEF Up!Recorded
  <2> QED BY <1>1, <2>1, <2>2
<1> QED BY <1>3, <1>4

(* A terminated upload has no info, and nobody saves one. *)
LEMMA RecordedHere ==
  ASSUME CalmInv, NEW i \in Id \ Foreign, Recorded(i) # None
  PROVE  ~Emptied(i)
<1>1. ASSUME NEW r \in Req, pc[r] = "saving", file[r].id = i PROVE ~Emptied(i)
  BY <1>1, WorkersWork, WorkingSound
<1>2. CASE ~\E r \in Req : pc[r] = "saving" /\ file[r].id = i
  <2>1. Visible(i)
    BY <1>2 DEF Recorded
  <2>2. ~\E r \in Req : localPc[r] = "dropInfo" /\ Up!Part(r) = i
    BY NoFinals, LocalAt
  <2>3. Up!Exact(i) /\ info[i] \notin Up!Unreadable
    BY <2>1 DEF CalmInv, Up!TusInv, Up!ExactInv, Visible, Torn, Up!Torn
  <2>4. localData[i] # None
    BY <2>2, <2>3 DEF Up!Exact
  <2> QED BY <2>4, LocalDataAt
<1> QED BY <1>1, <1>2

(* The uploads that clients see are the same through the mapping. *)
SeenAlike == Up!Uploads = HybridUploads

(* By the invariant they are. *)
LEMMA SameUploads == CalmInv => SeenAlike
<1> SUFFICES ASSUME CalmInv, NEW i \in Id \ Foreign PROVE Up!Upload(i) = HybridUpload(i)
  BY DEF Up!Uploads, HybridUploads, SeenAlike
<1>1. Up!Recorded(i) = Recorded(i)
  BY RecordedSeen
<1>2. Up!Deleted(i) <=> \E r \in Req : Method[r] = "DELETE" /\ file[r] # None /\ file[r].id = i
  <2>1. \A r \in Req : ~Unserved(r) => /\ localFile[r] # None <=> file[r] # None
                                       /\ file[r] # None => localFile[r].id = file[r].id
    BY LocalInfo, LocalNone DEF CalmInv
  <2>2. \A r \in Req : Method[r] = "DELETE" => ~Unserved(r)
    BY DEF Unserved
  <2> QED BY <2>1, <2>2 DEF Up!Deleted
<1>3. CASE Recorded(i) # None
  <2>1. localData[i] = IF data[i] # None THEN data[i] ELSE object[i]
    BY <1>3, RecordedHere, LocalDataAt
  <2> QED BY <1>1, <1>3, <2>1 DEF Up!Upload, HybridUpload
<1>4. CASE Recorded(i) = None
  BY <1>1, <1>2, <1>4 DEF Up!Upload, HybridUpload
<1> QED BY <1>3, <1>4

(* The same after a step. *)
LEMMA SameUploadsNext == CalmInv' => SeenAlike'
  BY SameUploads, PTL

(* The instance of TusUpload that is proved about is the one that is checked. *)
LEMMA SameTusNext ==
  ASSUME SeenAlike, SeenAlike', [Up!Tus!Next]_Up!Uploads
  PROVE  [HybridTus!Next]_HybridUploads
<1>0. Up!Uploads = HybridUploads /\ Up!Uploads' = HybridUploads'
  BY DEF SeenAlike
<1>1. CASE Up!Uploads' = Up!Uploads
  BY <1>0, <1>1
<1>2. CASE Up!Tus!Next
  <2>1. PICK i \in Id \ Foreign :
          \/ \E length \in Lengths \cup {None}, n \in Chunks \cup {0} :
               Up!Tus!CreateUpload(i, length, n) \/ Up!Tus!AppendChunk(i, length, n)
          \/ Up!Tus!Terminate(i)
    BY <1>2 DEF Up!Tus!Next
  <2>2. ASSUME NEW length, NEW n, Up!Tus!CreateUpload(i, length, n)
        PROVE  HybridTus!CreateUpload(i, length, n)
    BY <1>0, <2>2 DEF Up!Tus!CreateUpload, HybridTus!CreateUpload, Up!Tus!Chunk, HybridTus!Chunk, HybridUploads
  <2>3. ASSUME NEW length, NEW n, Up!Tus!AppendChunk(i, length, n)
        PROVE  HybridTus!AppendChunk(i, length, n)
    BY <1>0, <2>3
    DEF Up!Tus!AppendChunk, HybridTus!AppendChunk, Up!Tus!Chunk, HybridTus!Chunk, HybridUploads,
        Up!Tus!Exists, HybridTus!Exists, Up!Tus!Complete, HybridTus!Complete
  <2>4. ASSUME Up!Tus!Terminate(i) PROVE HybridTus!Terminate(i)
    BY <1>0, <2>4 DEF Up!Tus!Terminate, HybridTus!Terminate, HybridUploads, Up!Tus!Exists, HybridTus!Exists
  <2>5. HybridTus!Next
    BY <2>4, <2>1, <2>2, <2>3 DEF HybridTus!Next
  <2> QED BY <2>5
<1> QED BY <1>1, <1>2

(* No upload exists at first. *)
LEMMA InitHybridTus == HybridInit => HybridTus!Init
<1> SUFFICES ASSUME HybridInit, NEW i \in Id \ Foreign PROVE HybridUpload(i) = Absent
  BY DEF HybridTus!Init
<1>1. Recorded(i) = None /\ \A r \in Req : file[r] = None
  BY DEF HybridInit, Init, Recorded, Visible
<1> QED BY <1>1 DEF HybridUpload

(* For any number of clients that wait for their answers, without concatenation and *)
(* when nothing fails, the handlers over the hybrid storage do what TusUpload does: *)
(* that the bytes move to S3 in the middle of a PATCH is not visible to clients.    *)
THEOREM HybridIsTusUpload ==
  ASSUME Calm
  PROVE  HybridSpec => HybridImplementsTusUpload
<1>1. CalmInv /\ CalmInv' /\ [HybridNext]_<<vars, object>> => [HybridTus!Next]_HybridUploads
  <2> SUFFICES ASSUME CalmInv, CalmInv', [HybridNext]_<<vars, object>>
               PROVE  [HybridTus!Next]_HybridUploads
    OBVIOUS
  <2>1. [Up!Next]_Up!vars
    BY NextCalm DEF Seen
  <2>2. [Up!Tus!Next]_Up!Uploads
    BY <2>1, LocalNextTus DEF CalmInv
  <2> QED BY <2>2, SameUploads, SameUploadsNext, SameTusNext
<1>2. [HybridTus!Next]_HybridUploads => [HybridTus!Next]_([i \in Id \ Foreign |-> HybridUpload(i)])
  BY DEF HybridUploads
<1> QED BY <1>1, <1>2, CalmInvariant, InitHybridTus, PTL DEF HybridSpec, HybridImplementsTusUpload, HybridTus!Spec
=============================================================================

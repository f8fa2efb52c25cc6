-------------------------- MODULE UploadTypeProofs --------------------------
(***************************************************************************)
(* TypeOK is an invariant of UploadServer, for every set of ids and        *)
(* requests, every configuration and every environment.  It is inductive   *)
(* together with LocalsOK: where a handler is determines what its local    *)
(* variables hold, e.g. that the loops of a final upload stay inside the   *)
(* list of its parts.                                                      *)
(***************************************************************************)
EXTENDS UploadServer, TLAPS, SequenceTheorems

Reading(r) == pc[r] = "readPart"
Joining(r) == pc[r] \in {"copyPart", "dropFile", "dropInfo"}

(* Where a handler is determines what its local variables hold. *)
LocalsOK(r) ==
  /\ InFlight(r) => file[r] # None
  /\ pc[r] = "idle" => cursor[r] = 1 /\ partsInfo[r] = <<>>
  /\ pc[r] = "create" => /\ Method[r] = "POST" /\ cursor[r] = 1 /\ partsInfo[r] = <<>>
                         /\ file[r].offset = 0
                         /\ file[r].final => file[r].parts # <<>>
  /\ Reading(r) => /\ Method[r] = "POST" /\ file[r].offset = 0
                   /\ cursor[r] <= Len(file[r].parts)
                   /\ Len(partsInfo[r]) = cursor[r] - 1
  /\ Joining(r) => /\ Method[r] = "POST"
                   /\ cursor[r] <= Len(file[r].parts)
                   /\ Len(partsInfo[r]) = Len(file[r].parts)
  /\ pc[r] \in {"dropFile", "dropInfo"} => RemoveParts
  /\ pc[r] \in {"removeInfo", "removeFile"} => Method[r] = "DELETE"
  /\ pc[r] = "read" => Method[r] = "GET"
  /\ pc[r] \in {"write", "save", "saving"} => Method[r] \in {"POST", "PATCH"}

TypeInv == TypeOK /\ \A r \in Req : LocalsOK(r)

USE DEF InFlight, Readable, Unreadable

(* The bytes of a chunk are a sequence of numbers, as long as asked for. *)
LEMMA BytesType == ASSUME NEW o \in Nat, NEW n \in Nat
                   PROVE  Bytes(o, n) \in Seq(Nat) /\ Len(Bytes(o, n)) = n
  BY DEF Bytes

(* The fields of a FileInfo have their types, and a FileInfo is no unreadable file. *)
LEMMA FileFields ==
  ASSUME NEW f \in FileInfo
  PROVE  /\ f # None /\ f \notin Torn /\ f.id \in Id /\ f.offset \in Nat /\ f.length \in Nat \cup {None}
         /\ f.parts \in Seq(Id) /\ f.final \in BOOLEAN /\ f.partial \in BOOLEAN
         /\ \A k \in 1..Len(f.parts) : f.parts[k] \in Id
  BY NoneAssumption, TornAssumption DEF FileInfo

(* [file_info EXCEPT its offset and length] *)
LEMMA FileUpdated ==
  ASSUME NEW f \in FileInfo, NEW o \in Nat, NEW l \in Nat \cup {None}
  PROVE  /\ [f EXCEPT !.offset = o] \in FileInfo
         /\ [f EXCEPT !.length = l] \in FileInfo
         /\ [f EXCEPT !.offset = o, !.length = l] \in FileInfo
<1>1. [f EXCEPT !.offset = o] \in FileInfo /\ [f EXCEPT !.length = l] \in FileInfo
  BY DEF FileInfo
<1>2. [f EXCEPT !.offset = o, !.length = l] \in FileInfo
  BY DEF FileInfo
<1> QED BY <1>1, <1>2

(* FileInfo::new and the concatenation flags give a FileInfo. *)
LEMMA NewFileInfoType ==
  ASSUME NEW i \in Id, NEW m \in PostMsg
  PROVE  NewFileInfo(i, m) \in FileInfo /\ m.n \in Nat
<1>1. /\ m.length \in Lengths \cup {None} /\ m.n \in Chunks \cup {0}
      /\ m.parts \in PartLists \cup {<<>>}
  BY DEF PostMsg, LengthHeader
<1>2. /\ \A n \in Chunks \cup {0} : n \in Nat
      /\ \A l \in Lengths \cup {None} : l \in Nat \cup {None}
      /\ \A list \in PartLists \cup {<<>>} : list \in Seq(Id)
  <2>1. \A list \in PartLists \cup {<<>>} : list \in Seq(Id)
    <3>1. <<>> \in Seq(Id)
      OBVIOUS
    <3> QED BY <3>1, InputAssumption
  <2>2. Chunks \subseteq Nat /\ Lengths \subseteq Nat
    BY InputAssumption
  <2> QED BY <2>1, <2>2
<1>3. m.length \in Nat \cup {None} /\ m.n \in Nat /\ m.parts \in Seq(Id)
  BY <1>1, <1>2, Zenon
<1>4. (IF Concat(m) = "final" THEN m.parts ELSE <<>>) \in Seq(Id)
  BY <1>3
<1>5. (Concat(m) = "partial") \in BOOLEAN /\ (Concat(m) = "final") \in BOOLEAN
  OBVIOUS
<1> QED BY <1>3, <1>4, <1>5 DEF NewFileInfo, FileInfo

(* A deferred length set by a PATCH gives a FileInfo. *)
LEMMA ResizedType ==
  ASSUME NEW f \in FileInfo, NEW m \in PatchMsg
  PROVE  Resized(f, m) \in FileInfo /\ m.n \in Nat /\ m.offset \in Nat
<1>1. m.length \in Nat \cup {None} /\ m.n \in Nat /\ m.offset \in Nat
  BY InputAssumption DEF PatchMsg, LengthHeader
<1> QED BY <1>1, FileUpdated DEF Resized, NewLength

(* The empty server has its types. *)
LEMMA InitTypeInv == Init => TypeInv
  BY IdAssumption, NoneAssumption, MethodAssumption
  DEF Init, TypeInv, TypeOK, LocalsOK, ForeignInfo, FileInfo, Own, OtherStorage, Pcs, ZeroMetrics,
      Reading, Joining

(* The steps that end a handler and the steps that let it go on. *)
LEMMA AnswerType ==
  ASSUME TypeOK, NEW r \in Req, NEW a \in {"ok", "error"}, Answer(r, a)
  PROVE  /\ pc' \in [Req -> Pcs] /\ resp' \in [Req -> {"none", "ok", "error"}]
         /\ pc'[r] = "done" /\ \A q \in Req \ {r} : pc'[q] = pc[q]
  BY DEF Answer, TypeOK, Pcs

(* A handler goes to its next call, or ends if its client is gone. *)
LEMMA GoToType ==
  ASSUME TypeOK, NEW r \in Req, NEW next \in Pcs, GoTo(r, next)
  PROVE  /\ pc' \in [Req -> Pcs] /\ pc'[r] \in {next, "done"}
         /\ \A q \in Req \ {r} : pc'[q] = pc[q]
  BY DEF GoTo, TypeOK, Pcs

(* The loops over the parts move to the next part, or back to the first. *)
LEMMA AdvanceType ==
  ASSUME TypeOK, NEW r \in Req, Advance(r)
  PROVE  /\ cursor' \in [Req -> Nat \ {0}] /\ \A q \in Req \ {r} : cursor'[q] = cursor[q]
         /\ cursor'[r] = IF LastPart(r) THEN 1 ELSE cursor[r] + 1
<1> DEFINE c == IF LastPart(r) THEN 1 ELSE cursor[r] + 1
<1>1. c \in Nat \ {0}
  BY DEF TypeOK
<1>2. cursor' = [cursor EXCEPT ![r] = c]
  BY DEF Advance
<1> HIDE DEF c
<1>3. cursor' \in [Req -> Nat \ {0}] /\ cursor'[r] = c /\ \A q \in Req \ {r} : cursor'[q] = cursor[q]
  BY <1>1, <1>2 DEF TypeOK
<1> QED BY <1>3 DEF c

(* A spawned hook is a hook. *)
LEMMA SpawnType ==
  ASSUME TypeOK, NEW r \in Req, file[r] # None, NEW hook \in HookNames, Spawn(hook, r)
  PROVE  hooks' \subseteq Hook
  BY FileFields DEF Spawn, TypeOK, Hook

(* LocalsOK(q) speaks of the handler of q alone, and says nothing once it has ended. *)
LEMMA LocalsFrame ==
  ASSUME NEW q \in Req, LocalsOK(q), pc'[q] = pc[q], file'[q] = file[q],
         partsInfo'[q] = partsInfo[q], cursor'[q] = cursor[q]
  PROVE  LocalsOK(q)'
  BY DEF LocalsOK, Reading, Joining

(* A handler that ended holds nothing that has to be right. *)
LEMMA LocalsDone ==
  ASSUME NEW q \in Req, pc'[q] = "done"
  PROVE  LocalsOK(q)'
  BY DEF LocalsOK, Reading, Joining

(* POST, its checks passed, holds a new FileInfo and is at its first call. *)
LEMMA PostTypeInv ==
  ASSUME TypeInv, NEW r \in Req, NEW i \in Id, NEW m \in PostMsg, PostAccepted(r, i, m)
  PROVE  TypeInv'
<1> USE DEF PostAccepted, Begins, TypeInv
<1>1. NewFileInfo(i, m) \in FileInfo /\ m.n \in Nat /\ NewFileInfo(i, m) # None
  BY NewFileInfoType, FileFields
<1>2. body' \in [Req -> Seq(Nat)]
  <2>1. Bytes(0, m.n) \in Seq(Nat)
    BY <1>1, BytesType
  <2> QED BY <2>1 DEF TypeOK
<1>3. TypeOK'
  BY <1>1, <1>2 DEF TypeOK, Pcs, stores, telemetry
<1>4. LocalsOK(r)'
  <2>1. pc'[r] = "create" /\ pc[r] = "idle" /\ Method[r] = "POST" /\ file'[r] = NewFileInfo(i, m)
    BY DEF TypeOK
  <2>2. NewFileInfo(i, m).offset = 0
    BY DEF NewFileInfo
  <2>3. NewFileInfo(i, m).final => NewFileInfo(i, m).parts # <<>>
    BY DEF NewFileInfo, PostAdmissible
  <2> QED BY <1>1, <2>1, <2>2, <2>3 DEF LocalsOK, Reading, Joining
<1>5. ASSUME NEW q \in Req, q # r PROVE LocalsOK(q)'
  BY <1>5, LocalsFrame DEF TypeOK
<1> QED BY <1>3, <1>4, <1>5

(* A handler at work holds a FileInfo. *)
LEMMA AtWork ==
  ASSUME TypeInv, NEW r \in Req, InFlight(r)
  PROVE  /\ file[r] \in FileInfo /\ file[r] # None /\ file[r].id \in Id /\ file[r].offset \in Nat
         /\ file[r].parts \in Seq(Id) /\ file[r].final \in BOOLEAN
         /\ \A k \in 1..Len(file[r].parts) : file[r].parts[k] \in Id
<1>1. file[r] \in FileInfo
  BY DEF TypeInv, TypeOK, LocalsOK
<1> QED BY <1>1, FileFields

Metrics == [active : Int, started : Nat, finished : Nat, terminated : Nat]

(* Counting keeps the counters numbers. *)
LEMMA MetricsType ==
  ASSUME TypeOK
  PROVE  /\ [metrics EXCEPT !.active = @ + 1, !.started = @ + 1] \in Metrics
         /\ [metrics EXCEPT !.active = @ - 1, !.finished = @ + 1] \in Metrics
         /\ [metrics EXCEPT !.terminated = @ + 1] \in Metrics
<1>1. ASSUME NEW x \in Metrics, NEW a \in Int, NEW n \in Nat
      PROVE  /\ [x EXCEPT !.active = a, !.started = n] \in Metrics
             /\ [x EXCEPT !.active = a, !.finished = n] \in Metrics
             /\ [x EXCEPT !.terminated = n] \in Metrics
  BY DEF Metrics
<1>2. /\ metrics \in Metrics /\ metrics.active + 1 \in Int /\ metrics.active - 1 \in Int
      /\ metrics.started + 1 \in Nat /\ metrics.finished + 1 \in Nat /\ metrics.terminated + 1 \in Nat
  BY DEF TypeOK, Metrics
<1> QED BY <1>1, <1>2

(* The handlers that are not at work in a step stay as they were. *)
LEMMA OthersFrame ==
  ASSUME NEW r \in Req, \A q \in Req : LocalsOK(q), LocalsOK(r)',
         \A q \in Req \ {r} : /\ pc'[q] = pc[q] /\ file'[q] = file[q]
                              /\ partsInfo'[q] = partsInfo[q] /\ cursor'[q] = cursor[q]
  PROVE  \A q \in Req : LocalsOK(q)'
  BY LocalsFrame

(* A handler that only answers, or only ends, keeps every type. *)
LEMMA RefusedTypeInv ==
  ASSUME TypeInv, NEW r \in Req, Answer(r, "error"),
         UNCHANGED <<stores, used, file, body, partsInfo, cursor, gone, telemetry>>
  PROVE  TypeInv'
<1> USE DEF TypeInv, stores, telemetry
<1>1. TypeOK'
  BY AnswerType DEF TypeOK
<1>2. LocalsOK(r)'
  BY AnswerType, LocalsDone
<1> QED BY <1>1, <1>2, AnswerType, OthersFrame

(* PATCH, its checks passed, holds the FileInfo it read. *)
LEMMA PatchTypeInv ==
  ASSUME TypeInv, NEW r \in Req, NEW i \in Id, NEW m \in PatchMsg, PatchAccepted(r, i, m)
  PROVE  TypeInv'
<1> USE DEF PatchAccepted, Begins, TypeInv, stores, telemetry
<1>1. info[i] \in FileInfo
  BY DEF TypeOK, PatchAdmissible, Visible
<1>2. Resized(info[i], m) \in FileInfo /\ Resized(info[i], m) # None /\ Bytes(m.offset, m.n) \in Seq(Nat)
  BY <1>1, ResizedType, FileFields, BytesType
<1>3. TypeOK'
  BY <1>2 DEF TypeOK, Pcs
<1>4. LocalsOK(r)'
  BY <1>2 DEF LocalsOK, Reading, Joining, TypeOK
<1> QED BY <1>3, <1>4, OthersFrame DEF TypeOK

(* DELETE holds the FileInfo it read. *)
LEMMA DeleteTypeInv ==
  ASSUME TypeInv, NEW r \in Req, NEW i \in Id, DeleteAccepted(r, i)
  PROVE  TypeInv'
<1> USE DEF DeleteAccepted, Begins, TypeInv, stores, telemetry
<1>1. info[i] \in FileInfo /\ info[i] # None
  BY FileFields DEF TypeOK, Visible
<1>2. TypeOK'
  BY <1>1 DEF TypeOK, Pcs
<1>3. LocalsOK(r)'
  BY <1>1 DEF LocalsOK, Reading, Joining, TypeOK
<1> QED BY <1>2, <1>3, OthersFrame DEF TypeOK

(* GET holds the FileInfo it read. *)
LEMMA GetTypeInv ==
  ASSUME TypeInv, NEW r \in Req, NEW i \in Id, GetAccepted(r, i)
  PROVE  TypeInv'
<1> USE DEF GetAccepted, Begins, TypeInv, stores, telemetry
<1>1. info[i] \in FileInfo /\ info[i] # None
  BY FileFields DEF TypeOK, Visible
<1>2. TypeOK'
  BY <1>1 DEF TypeOK, Pcs
<1>3. LocalsOK(r)'
  BY <1>1 DEF LocalsOK, Reading, Joining, TypeOK
<1> QED BY <1>2, <1>3, OthersFrame DEF TypeOK

(* HEAD answers from the FileInfo it read. *)
LEMMA HeadTypeInv ==
  ASSUME TypeInv, NEW r \in Req, NEW i \in Id, HeadAnswered(r, i)
  PROVE  TypeInv'
<1> USE DEF HeadAnswered, TypeInv, stores, telemetry
<1>1. info[i] \in FileInfo /\ info[i] # None
  BY FileFields DEF TypeOK, Visible
<1>2. TypeOK'
  BY <1>1, AnswerType DEF TypeOK, Pcs
<1>3. LocalsOK(r)'
  BY AnswerType, LocalsDone
<1> QED BY <1>2, <1>3, AnswerType, OthersFrame DEF TypeOK

(* create_file leaves a handler at the loop over its parts, at its write or at its save. *)
LEMMA CreateTypeInv ==
  ASSUME TypeInv, NEW r \in Req, CreateFile(r)
  PROVE  TypeInv'
<1> USE DEF CreateFile, TypeInv
<1> DEFINE next == IF file[r].final THEN "readPart" ELSE IF body[r] # <<>> THEN "write" ELSE "save"
<1>1. next \in Pcs
  BY DEF Pcs
<1>2. file[r] \in FileInfo /\ file[r] # None /\ file[r].id \in Id
  BY AtWork
<1>3. metrics' \in [active : Int, started : Nat, finished : Nat, terminated : Nat]
  BY MetricsType DEF TypeOK, Metrics
<1>4. TypeOK'
  <2>1. pc' \in [Req -> Pcs]
    BY <1>1, GoToType
  <2>2. data' \in [Id -> Seq(Nat) \cup {None}]
    BY <1>2 DEF TypeOK
  <2> QED BY <1>3, <2>1, <2>2 DEF TypeOK
<1>5. LocalsOK(r)'
  <2>1. pc'[r] \in {next, "done"}
    BY <1>1, GoToType
  <2>2. Method[r] = "POST" /\ cursor[r] = 1 /\ partsInfo[r] = <<>> /\ file[r].offset = 0
    BY DEF LocalsOK
  <2>3. file[r].final => 1 <= Len(file[r].parts)
    BY AtWork DEF LocalsOK
  <2> QED BY <1>2, <2>1, <2>2, <2>3 DEF LocalsOK, Reading, Joining
<1> QED BY <1>1, <1>4, <1>5, GoToType, OthersFrame

(* The loop that checks the parts stays inside the list and keeps one info for each part seen. *)
LEMMA ReadPartTypeInv ==
  ASSUME TypeInv, NEW r \in Req, ReadPart(r)
  PROVE  TypeInv'
<1> USE DEF ReadPart, TypeInv, stores, telemetry
<1>1. /\ file[r] \in FileInfo /\ file[r] # None /\ file[r].parts \in Seq(Id)
      /\ cursor[r] \in 1..Len(file[r].parts) /\ Part(r) \in Id
      /\ Len(partsInfo[r]) = cursor[r] - 1 /\ Method[r] = "POST"
  <2>1. cursor[r] <= Len(file[r].parts) /\ Len(partsInfo[r]) = cursor[r] - 1 /\ Method[r] = "POST"
    BY DEF LocalsOK, Reading
  <2>2. cursor[r] \in Nat \ {0}
    BY DEF TypeOK
  <2> QED BY <2>1, <2>2, AtWork DEF Part
<1>2. CASE PartAcceptable(info[Part(r)])
  <2>1. info[Part(r)] \in {f \in FileInfo : f.length # None}
    BY <1>1, <1>2, FileFields, NoneAssumption DEF TypeOK, PartAcceptable
  <2>2. /\ partsInfo' \in [Req -> Seq({f \in FileInfo : f.length # None})]
        /\ Len(partsInfo'[r]) = cursor[r]
    <3>1. partsInfo[r] \in Seq({f \in FileInfo : f.length # None})
      BY DEF TypeOK
    <3>2. /\ Append(partsInfo[r], info[Part(r)]) \in Seq({f \in FileInfo : f.length # None})
          /\ Len(Append(partsInfo[r], info[Part(r)])) = cursor[r]
      BY <1>1, <2>1, <3>1, AppendProperties
    <3> QED BY <1>2, <3>2 DEF TypeOK
  <2>3. cursor' \in [Req -> Nat \ {0}] /\ cursor'[r] = IF LastPart(r) THEN 1 ELSE cursor[r] + 1
    BY <1>2, AdvanceType
  <2>4. GoTo(r, IF LastPart(r) THEN "copyPart" ELSE "readPart")
    BY <1>2
  <2>5. TypeOK'
    BY <1>2, <2>2, <2>3, <2>4, GoToType DEF TypeOK, Pcs
  <2>6. LocalsOK(r)'
    <3>1. pc'[r] \in {IF LastPart(r) THEN "copyPart" ELSE "readPart", "done"}
      BY <2>4 DEF TypeOK, GoTo
    <3>2. Method[r] = "POST" /\ file[r].offset = 0
      BY DEF LocalsOK, Reading, Joining
    <3> QED BY <1>1, <2>2, <2>3, <3>1, <3>2 DEF LocalsOK, Reading, Joining, LastPart
  <2>7. \A q \in Req \ {r} : pc'[q] = pc[q] /\ cursor'[q] = cursor[q]
    BY <1>2, <2>4 DEF TypeOK, GoTo, Advance
  <2> QED BY <1>2, <2>5, <2>6, <2>7, OthersFrame DEF TypeOK
<1>3. CASE ~PartAcceptable(info[Part(r)])
  BY <1>3, RefusedTypeInv
<1> QED BY <1>2, <1>3

(* In the loops after the check, the cursor is at a part whose info was read. *)
LEMMA AtPart ==
  ASSUME TypeInv, NEW r \in Req, Joining(r)
  PROVE  /\ Part(r) \in Id /\ Method[r] = "POST"
         /\ cursor[r] \in 1..Len(file[r].parts) /\ Len(partsInfo[r]) = Len(file[r].parts)
         /\ partsInfo[r][cursor[r]] \in FileInfo /\ partsInfo[r][cursor[r]].length \in Nat
<1>1. cursor[r] <= Len(file[r].parts) /\ Len(partsInfo[r]) = Len(file[r].parts) /\ Method[r] = "POST"
  BY DEF TypeInv, LocalsOK
<1>2. cursor[r] \in Nat \ {0} /\ partsInfo[r] \in Seq({f \in FileInfo : f.length # None})
  BY DEF TypeInv, TypeOK
<1>3. partsInfo[r][cursor[r]] \in {f \in FileInfo : f.length # None}
  BY <1>1, <1>2
<1> QED BY <1>1, <1>2, <1>3, AtWork, FileFields DEF Part, Joining

(* The final upload grows by the length of a part, which is a number. *)
LEMMA JoinedType ==
  ASSUME TypeInv, NEW r \in Req, Joining(r)
  PROVE  /\ Joined(r) \in FileInfo /\ Joined(r) # None /\ Joined(r).id = file[r].id
         /\ Joined(r).parts = file[r].parts /\ Joined(r).final = file[r].final
         /\ Joined(r).metadata = file[r].metadata
         /\ Joined(r).offset = file[r].offset + partsInfo[r][cursor[r]].length
<1> DEFINE size == file[r].offset + partsInfo[r][cursor[r]].length
<1>1. file[r] \in FileInfo /\ size \in Nat
  BY AtWork, AtPart DEF Joining
<1>2. (IF LastPart(r) THEN size ELSE file[r].length) \in Nat \cup {None}
  BY <1>1, FileFields
<1>3. /\ \A o \in Nat, l \in Nat \cup {None} : [file[r] EXCEPT !.offset = o, !.length = l] \in FileInfo
  BY <1>1, FileUpdated
<1>4. Joined(r) \in FileInfo
  BY <1>1, <1>2, <1>3, Zenon DEF Joined
<1>5. /\ Joined(r).id = file[r].id /\ Joined(r).parts = file[r].parts /\ Joined(r).offset = size
      /\ Joined(r).final = file[r].final /\ Joined(r).metadata = file[r].metadata
  BY <1>1 DEF Joined, FileInfo
<1> QED BY <1>4, <1>5, FileFields

(* concat_files stays inside the list of parts. *)
LEMMA CopyPartTypeInv ==
  ASSUME TypeInv, NEW r \in Req, CopyPart(r)
  PROVE  TypeInv'
<1> USE DEF CopyPart, TypeInv, stores, telemetry
<1> DEFINE size == file[r].offset + partsInfo[r][cursor[r]].length
           last == LastPart(r)
<1>1. /\ file[r] \in FileInfo /\ file[r].id \in Id /\ file[r].length \in Nat \cup {None}
      /\ Part(r) \in Id /\ size \in Nat /\ Method[r] = "POST"
      /\ cursor[r] \in 1..Len(file[r].parts) /\ Len(partsInfo[r]) = Len(file[r].parts)
  BY AtWork, AtPart, FileFields DEF Joining
<1>2. CASE data[Part(r)] # None
  <2>1. data' \in [Id -> Seq(Nat) \cup {None}]
    <3>1. data[Part(r)] \in Seq(Nat) /\ Opened(file[r].id) \in Seq(Nat)
      BY <1>1, <1>2 DEF TypeOK, Opened
    <3>2. Appended(Opened(file[r].id), data[Part(r)]) \in Seq(Nat)
      BY <3>1, ConcatProperties DEF Appended
    <3> QED BY <1>2, <3>2 DEF TypeOK
  <2>2. /\ file' \in [Req -> FileInfo \cup {None}] /\ file'[r] # None
        /\ \A q \in Req \ {r} : file'[q] = file[q]
        /\ file'[r].parts = file[r].parts
    <3>1. Joined(r) \in FileInfo /\ Joined(r) # None /\ Joined(r).parts = file[r].parts
      BY <1>1, JoinedType DEF Joining
    <3> QED BY <1>2, <3>1 DEF TypeOK
  <2>3. /\ cursor' \in [Req -> Nat \ {0}]
        /\ \A q \in Req \ {r} : cursor'[q] = cursor[q]
        /\ cursor'[r] = IF last THEN 1 ELSE cursor[r] + 1
    BY <1>2, AdvanceType
  <2>4. /\ pc' \in [Req -> Pcs] /\ \A q \in Req \ {r} : pc'[q] = pc[q]
        /\ pc'[r] \in IF last THEN {"dropFile", "save", "done"} ELSE {"copyPart"}
        /\ pc'[r] = "dropFile" => RemoveParts
    <3> DEFINE next == IF RemoveParts THEN "dropFile" ELSE "save"
    <3>1. CASE last
      <4>1. next \in Pcs /\ GoTo(r, next)
        BY <1>2, <3>1 DEF Pcs
      <4>2. pc' \in [Req -> Pcs] /\ pc'[r] \in {next, "done"} /\ \A q \in Req \ {r} : pc'[q] = pc[q]
        BY <4>1, GoToType
      <4> QED BY <3>1, <4>2
    <3>2. CASE ~last
      BY <1>2, <3>2 DEF TypeOK
    <3> QED BY <3>1, <3>2
  <2>5. TypeOK'
    BY <1>2, <2>1, <2>2, <2>3, <2>4 DEF TypeOK
  <2>6. LocalsOK(r)'
    BY <1>1, <1>2, <2>2, <2>3, <2>4 DEF LocalsOK, Reading, Joining, LastPart
  <2> QED BY <1>2, <2>2, <2>3, <2>4, <2>5, <2>6, OthersFrame
<1>3. CASE data[Part(r)] = None
  BY <1>3, RefusedTypeInv
<1> QED BY <1>2, <1>3

(* Removing the file of a part keeps the types. *)
LEMMA DropFileTypeInv ==
  ASSUME TypeInv, NEW r \in Req, DropFile(r)
  PROVE  TypeInv'
<1> USE DEF DropFile, TypeInv, stores, telemetry
<1>1. /\ Part(r) \in Id /\ Method[r] = "POST" /\ RemoveParts
      /\ cursor[r] \in 1..Len(file[r].parts) /\ Len(partsInfo[r]) = Len(file[r].parts)
  BY AtPart DEF Joining, LocalsOK
<1>2. CASE data[Part(r)] # None
  <2>1. GoTo(r, "dropInfo") /\ "dropInfo" \in Pcs
    BY <1>2 DEF Pcs
  <2>2. TypeOK'
    BY <1>1, <1>2, <2>1, GoToType DEF TypeOK
  <2>3. LocalsOK(r)'
    BY <1>1, <1>2, <2>1, GoToType, AtWork DEF LocalsOK, Reading, Joining
  <2> QED BY <1>2, <2>1, <2>2, <2>3, GoToType, OthersFrame
<1>3. CASE data[Part(r)] = None
  BY <1>3, RefusedTypeInv
<1> QED BY <1>2, <1>3

(* Removing the info of a part stays inside the list of parts. *)
LEMMA DropInfoTypeInv ==
  ASSUME TypeInv, NEW r \in Req, DropInfo(r)
  PROVE  TypeInv'
<1> USE DEF DropInfo, TypeInv, stores, telemetry
<1>1. /\ Part(r) \in Id /\ Method[r] = "POST" /\ RemoveParts
      /\ cursor[r] \in 1..Len(file[r].parts) /\ Len(partsInfo[r]) = Len(file[r].parts)
  BY AtPart DEF Joining, LocalsOK
<1>2. CASE info[Part(r)] # None
  <2>1. GoTo(r, IF LastPart(r) THEN "save" ELSE "dropFile") /\ {"save", "dropFile"} \subseteq Pcs
    BY <1>2 DEF Pcs
  <2>2. /\ cursor' \in [Req -> Nat \ {0}]
        /\ \A q \in Req \ {r} : cursor'[q] = cursor[q]
        /\ cursor'[r] = IF LastPart(r) THEN 1 ELSE cursor[r] + 1
    BY <1>2, AdvanceType
  <2>3. TypeOK'
    BY <1>1, <1>2, <2>1, <2>2, GoToType DEF TypeOK
  <2>4. LocalsOK(r)'
    BY <1>1, <1>2, <2>1, <2>2, GoToType, AtWork DEF LocalsOK, Reading, Joining, LastPart
  <2> QED BY <1>2, <2>1, <2>2, <2>3, <2>4, GoToType, OthersFrame
<1>3. CASE info[Part(r)] = None
  BY <1>3, RefusedTypeInv
<1> QED BY <1>2, <1>3

(* add_bytes appends bytes to bytes. *)
LEMMA AddBytesTypeInv ==
  ASSUME TypeInv, NEW r \in Req, AddBytes(r)
  PROVE  TypeInv'
<1> USE DEF AddBytes, TypeInv, stores, telemetry
<1>1. file[r] \in FileInfo /\ file[r].offset \in Nat /\ file[r].id \in Id /\ body[r] \in Seq(Nat)
  BY AtWork DEF TypeOK
<1>2. CASE data[file[r].id] # None
  <2>1. data' \in [Id -> Seq(Nat) \cup {None}]
    <3>1. data[file[r].id] \in Seq(Nat)
      BY <1>1, <1>2 DEF TypeOK
    <3>2. Appended(data[file[r].id], body[r]) \in Seq(Nat)
      BY <1>1, <3>1, ConcatProperties DEF Appended
    <3> QED BY <1>2, <3>2 DEF TypeOK
  <2>2. /\ file' \in [Req -> FileInfo \cup {None}] /\ file'[r] # None
        /\ \A q \in Req \ {r} : file'[q] = file[q]
    <3> DEFINE f == [file[r] EXCEPT !.offset = file[r].offset + Len(body[r])]
    <3>1. f \in FileInfo /\ f # None
      <4>1. file[r].offset + Len(body[r]) \in Nat
        BY <1>1
      <4> QED BY <1>1, <4>1, FileUpdated, FileFields
    <3>2. file' = [file EXCEPT ![r] = f]
      BY <1>2
    <3> HIDE DEF f
    <3> QED BY <3>1, <3>2 DEF TypeOK
  <2>3. GoTo(r, "save") /\ "save" \in Pcs
    BY <1>2 DEF Pcs
  <2>4. body' \in [Req -> Seq(Nat)]
    <3>1. <<>> \in Seq(Nat)
      OBVIOUS
    <3> QED BY <1>2, <3>1 DEF TypeOK
  <2>5. TypeOK'
    BY <1>2, <2>1, <2>2, <2>3, <2>4, GoToType DEF TypeOK
  <2>6. LocalsOK(r)'
    BY <1>1, <1>2, <2>2, <2>3, GoToType DEF LocalsOK, Reading, Joining
  <2> QED BY <1>2, <2>2, <2>3, <2>5, <2>6, GoToType, OthersFrame
<1>3. CASE data[file[r].id] = None
  BY <1>3, RefusedTypeInv
<1> QED BY <1>2, <1>3

(* What POST and PATCH do after set_info keeps the types. *)
LEMMA SavedType ==
  ASSUME TypeInv, NEW r \in Req, InFlight(r), Saved(r)
  PROVE  metrics' \in Metrics /\ hooks' \subseteq Hook
<1> USE DEF Saved, TypeInv
<1>1. metrics' \in Metrics
  BY MetricsType DEF TypeOK, Metrics
<1>2. hooks' \subseteq Hook
  <2>1. PostHook(r) \in HookNames
    BY DEF PostHook, HookNames
  <2> QED BY <2>1, AtWork, SpawnType DEF TypeOK
<1> QED BY <1>1, <1>2

(* A handler that has stored its info, in whatever way, and answers. *)
LEMMA StoredTypeInv ==
  ASSUME TypeInv, NEW r \in Req, InFlight(r), Saved(r),
         NEW content \in FileInfo \cup Unreadable, info' = [info EXCEPT ![file[r].id] = content],
         UNCHANGED <<data, used, file, body, partsInfo, cursor, gone, delivered>>
  PROVE  TypeInv'
<1> USE DEF TypeInv
<1>1. Answer(r, "ok")
  BY DEF Saved
<1>2. info' \in [Id -> FileInfo \cup Unreadable]
  BY DEF TypeOK
<1>3. metrics' \in Metrics /\ hooks' \subseteq Hook
  BY SavedType
<1>4. TypeOK'
  BY <1>1, <1>2, <1>3, AnswerType DEF TypeOK, Metrics
<1>5. LocalsOK(r)'
  BY <1>1, AnswerType, LocalsDone
<1> QED BY <1>1, <1>4, <1>5, AnswerType, OthersFrame

(* set_info of Redis stores a FileInfo. *)
LEMMA SaveInfoTypeInv ==
  ASSUME TypeInv, NEW r \in Req, SaveInfo(r)
  PROVE  TypeInv'
<1>1. file[r] \in FileInfo \cup Unreadable /\ InFlight(r)
  BY AtWork DEF SaveInfo
<1> QED BY <1>1, StoredTypeInv DEF SaveInfo

(* Truncating the info file leaves an empty one. *)
LEMMA OpenInfoTypeInv ==
  ASSUME TypeInv, NEW r \in Req, OpenInfo(r)
  PROVE  TypeInv'
<1> USE DEF OpenInfo, TypeInv, stores, telemetry
<1>1. CASE Openable(r)
  <2>1. TypeOK'
    BY <1>1 DEF TypeOK, Pcs, Torn
  <2>2. /\ pc'[r] = "saving" /\ file[r] # None /\ Method[r] \in {"POST", "PATCH"}
        /\ \A q \in Req \ {r} : pc'[q] = pc[q]
    BY <1>1 DEF TypeOK, LocalsOK
  <2>3. LocalsOK(r)'
    BY <1>1, <2>2 DEF LocalsOK, Reading, Joining
  <2> QED BY <1>1, <2>1, <2>2, <2>3, OthersFrame
<1>2. CASE ~Openable(r)
  BY <1>2, RefusedTypeInv
<1> QED BY <1>1, <1>2

(* Writing the info file leaves a FileInfo, or a torn file, or none. *)
LEMMA WriteInfoTypeInv ==
  ASSUME TypeInv, NEW r \in Req, WriteInfo(r)
  PROVE  TypeInv'
<1>1. InFlight(r) /\ file[r] \in FileInfo
  BY AtWork DEF WriteInfo
<1>2. PICK content \in Written(file[r].id, file[r]) : info' = [info EXCEPT ![file[r].id] = content]
  BY DEF WriteInfo
<1>3. content \in FileInfo \cup Unreadable
  BY <1>1, <1>2 DEF Written, Torn
<1> QED BY <1>1, <1>2, <1>3, StoredTypeInv DEF WriteInfo

(* remove_info leaves the other infos alone. *)
LEMMA RemoveInfoTypeInv ==
  ASSUME TypeInv, NEW r \in Req, RemoveInfo(r)
  PROVE  TypeInv'
<1> USE DEF RemoveInfo, TypeInv, stores, telemetry
<1>1. file[r] # None /\ file[r].id \in Id /\ Method[r] = "DELETE"
  BY AtWork DEF LocalsOK
<1>2. CASE info[file[r].id] # None
  <2>1. GoTo(r, "removeFile") /\ "removeFile" \in Pcs
    BY <1>2 DEF Pcs
  <2>2. TypeOK'
    BY <1>1, <1>2, <2>1, GoToType DEF TypeOK
  <2>3. LocalsOK(r)'
    BY <1>1, <1>2, <2>1, GoToType DEF LocalsOK, Reading, Joining
  <2> QED BY <1>2, <2>1, <2>2, <2>3, GoToType, OthersFrame
<1>3. CASE info[file[r].id] = None
  BY <1>3, RefusedTypeInv
<1> QED BY <1>2, <1>3

(* remove_file leaves the other files alone. *)
LEMMA RemoveFileTypeInv ==
  ASSUME TypeInv, NEW r \in Req, RemoveFile(r)
  PROVE  TypeInv'
<1> USE DEF RemoveFile, TypeInv, stores, telemetry
<1>1. file[r] # None /\ file[r].id \in Id
  BY AtWork
<1>2. CASE data[file[r].id] # None
  <2>1. metrics' \in Metrics
    BY <1>2, MetricsType DEF TypeOK, Metrics, Count
  <2>2. hooks' \subseteq Hook
    BY <1>1, <1>2, SpawnType DEF TypeOK, HookNames
  <2>3. Answer(r, "ok")
    BY <1>2
  <2>4. TypeOK'
    BY <1>1, <1>2, <2>1, <2>2, <2>3, AnswerType DEF TypeOK, Metrics
  <2>5. LocalsOK(r)'
    BY <2>3, AnswerType, LocalsDone
  <2> QED BY <1>2, <2>3, <2>4, <2>5, AnswerType, OthersFrame
<1>3. CASE data[file[r].id] = None
  BY <1>3, RefusedTypeInv
<1> QED BY <1>2, <1>3

(* get_contents answers with bytes. *)
LEMMA GetContentsTypeInv ==
  ASSUME TypeInv, NEW r \in Req, GetContents(r)
  PROVE  TypeInv'
<1> USE DEF GetContents, TypeInv, stores, telemetry
<1>1. file[r].id \in Id
  BY AtWork
<1>2. CASE data[file[r].id] # None
  <2>1. Answer(r, "ok")
    BY <1>2
  <2>2. TypeOK'
    BY <1>1, <1>2, <2>1, AnswerType DEF TypeOK
  <2>3. LocalsOK(r)'
    BY <2>1, AnswerType, LocalsDone
  <2> QED BY <1>2, <2>1, <2>2, <2>3, AnswerType, OthersFrame
<1>3. CASE data[file[r].id] = None
  BY <1>3, RefusedTypeInv
<1> QED BY <1>2, <1>3

(* A dropped handler keeps the types. *)
LEMMA DisconnectTypeInv ==
  ASSUME TypeInv, NEW r \in Req, Disconnect(r)
  PROVE  TypeInv'
<1> USE DEF Disconnect, TypeInv, stores, telemetry
<1>1. TypeOK'
  BY DEF TypeOK, Pcs
<1>2. pc'[r] \in {pc[r], "done"}
  BY DEF TypeOK
<1>3. LocalsOK(r)'
  BY <1>2, LocalsFrame, LocalsDone
<1>4. \A q \in Req \ {r} : pc'[q] = pc[q]
  BY DEF TypeOK
<1> QED BY <1>1, <1>3, <1>4, OthersFrame

(* A restart ends every handler and empties the counters. *)
LEMMA CrashTypeInv ==
  ASSUME TypeInv, Crash
  PROVE  TypeInv'
<1> USE DEF Crash, TypeInv, stores
<1>1. TypeOK'
  BY DEF TypeOK, Pcs, ZeroMetrics
<1>2. ASSUME NEW r \in Req PROVE LocalsOK(r)'
  <2>1. pc'[r] \in {pc[r], "done"}
    OBVIOUS
  <2> QED BY <2>1, LocalsFrame, LocalsDone
<1> QED BY <1>1, <1>2

(* A failing call may leave a prefix of its bytes, which are bytes. *)
LEMMA FaultTypeInv ==
  ASSUME TypeInv, NEW r \in Req, Fault(r)
  PROVE  TypeInv'
<1> USE DEF Fault, TypeInv, telemetry
<1>1. Answer(r, "error")
  OBVIOUS
<1>2. file[r].id \in Id
  BY AtWork
<1>3. data' \in [Id -> Seq(Nat) \cup {None}]
  <2>1. ASSUME NEW bytes \in Seq(Nat), PartlyAppended(file[r].id, bytes)
        PROVE  data' \in [Id -> Seq(Nat) \cup {None}]
    <3>1. PICK n \in 0..Len(bytes) :
            data' = [data EXCEPT ![file[r].id] = Appended(Opened(file[r].id), SubSeq(bytes, 1, n))]
      BY <2>1 DEF PartlyAppended
    <3>2. Opened(file[r].id) \in Seq(Nat)
      BY <1>2 DEF TypeOK, Opened
    <3>3. SubSeq(bytes, 1, n) \in Seq(Nat)
      BY <2>1, SubSeqProperties
    <3>4. Appended(Opened(file[r].id), SubSeq(bytes, 1, n)) \in Seq(Nat)
      BY <3>2, <3>3, ConcatProperties DEF Appended
    <3> QED BY <3>1, <3>4 DEF TypeOK
  <2>2. pc[r] = "write" => body[r] \in Seq(Nat)
    BY DEF TypeOK
  <2>3. pc[r] = "copyPart" /\ data[Part(r)] # None => data[Part(r)] \in Seq(Nat)
    BY AtPart DEF TypeOK, Joining
  <2> QED BY <2>1, <2>2, <2>3 DEF TypeOK, stores
<1>4. info' \in [Id -> FileInfo \cup Unreadable]
  <2>1. HalfWritten(file[r].id) => info' \in [Id -> FileInfo \cup Unreadable]
    BY <1>2 DEF TypeOK, HalfWritten, Torn
  <2>2. info' = info \/ HalfWritten(file[r].id)
    BY DEF stores
  <2> QED BY <2>1, <2>2 DEF TypeOK
<1>5. TypeOK'
  BY <1>1, <1>3, <1>4, AnswerType DEF TypeOK
<1>6. LocalsOK(r)'
  BY <1>1, AnswerType, LocalsDone
<1> QED BY <1>1, <1>5, <1>6, AnswerType, OthersFrame

(* A lost answer of Redis leaves the infos as the command made them. *)
LEMMA RedisTypeInv ==
  ASSUME TypeInv, NEW r \in Req, RedisAnswerLost(r)
  PROVE  TypeInv'
<1> USE DEF RedisAnswerLost, TypeInv, telemetry
<1>1. Answer(r, "error")
  OBVIOUS
<1>2. info' \in [Id -> FileInfo \cup Unreadable]
  BY AtWork DEF TypeOK
<1>3. TypeOK'
  BY <1>1, <1>2, AnswerType DEF TypeOK
<1>4. LocalsOK(r)'
  BY <1>1, AnswerType, LocalsDone
<1> QED BY <1>1, <1>3, <1>4, AnswerType, OthersFrame

(* Sending a hook, or failing to, touches the hooks only. *)
LEMMA SendTypeInv ==
  ASSUME TypeInv, NEW h \in hooks, Send(h) \/ SendFails(h)
  PROVE  TypeInv'
<1> USE DEF Send, SendFails, TypeInv, stores, handlers
<1>1. TypeOK'
  BY DEF TypeOK
<1> QED BY <1>1, LocalsFrame

(* Every way a request enters keeps the invariant. *)
LEMMA ArriveTypeInv ==
  ASSUME TypeInv, NEW r \in Req, Arrive(r)
  PROVE  TypeInv'
<1>1. CASE PostRefused(r)
  BY <1>1, RefusedTypeInv DEF PostRefused
<1>2. ASSUME NEW m \in PostMsg, NEW i \in Id, PostAccepted(r, i, m) PROVE TypeInv'
  BY <1>2, PostTypeInv
<1>3. ASSUME NEW i \in Id, PatchRefused(r, i) \/ DeleteRefused(r, i) \/ ReadRefused(r, i) PROVE TypeInv'
  BY <1>3, RefusedTypeInv DEF PatchRefused, DeleteRefused, ReadRefused
<1>4. ASSUME NEW i \in Id, NEW m \in PatchMsg, PatchAccepted(r, i, m) PROVE TypeInv'
  BY <1>4, PatchTypeInv
<1>5. ASSUME NEW i \in Id, DeleteAccepted(r, i) PROVE TypeInv'
  BY <1>5, DeleteTypeInv
<1>6. ASSUME NEW i \in Id, GetAccepted(r, i) PROVE TypeInv'
  BY <1>6, GetTypeInv
<1>7. ASSUME NEW i \in Id, HeadAnswered(r, i) PROVE TypeInv'
  BY <1>7, HeadTypeInv
<1> QED BY <1>1, <1>2, <1>3, <1>4, <1>5, <1>6, <1>7 DEF Arrive

(* Every storage call of a handler keeps the invariant. *)
LEMMA ProceedTypeInv ==
  ASSUME TypeInv, NEW r \in Req, Proceed(r)
  PROVE  TypeInv'
  BY CreateTypeInv, ReadPartTypeInv, CopyPartTypeInv, DropFileTypeInv, DropInfoTypeInv,
     AddBytesTypeInv, SaveInfoTypeInv, OpenInfoTypeInv, WriteInfoTypeInv, RemoveInfoTypeInv, RemoveFileTypeInv, GetContentsTypeInv
  DEF Proceed

(* Everything that happens to a handler keeps the invariant. *)
LEMMA InterfereTypeInv ==
  ASSUME TypeInv, NEW r \in Req, Interfere(r)
  PROVE  TypeInv'
<1>1. CASE HookRefused(r)
  BY <1>1, RefusedTypeInv DEF HookRefused
<1> QED BY <1>1, DisconnectTypeInv, FaultTypeInv, RedisTypeInv DEF Interfere

(* A step that changes nothing keeps the invariant. *)
LEMMA StutterTypeInv ==
  ASSUME TypeInv, UNCHANGED vars
  PROVE  TypeInv'
<1>1. TypeOK'
  BY DEF TypeInv, TypeOK, vars
<1> QED BY <1>1, LocalsFrame DEF TypeInv, vars

(* TypeInv is inductive. *)
LEMMA NextTypeInv == TypeInv /\ [Next]_vars => TypeInv'
<1> SUFFICES ASSUME TypeInv, [Next]_vars PROVE TypeInv'
  OBVIOUS
<1> QED BY ArriveTypeInv, ProceedTypeInv, InterfereTypeInv, SendTypeInv, CrashTypeInv, StutterTypeInv
        DEF Next, Quiet

(* The inductive invariant: the types and the local variables of the handlers. *)
THEOREM TypeInvariant == Spec => []TypeInv
  BY InitTypeInv, NextTypeInv, PTL DEF Spec

(* Every variable has its type in every reachable state, whatever the        *)
(* configuration, the clients and the environment do.                        *)
THEOREM TypeCorrect == Spec => []TypeOK
<1>1. TypeInv => TypeOK
  BY DEF TypeInv
<1> QED BY <1>1, TypeInvariant, PTL
=============================================================================

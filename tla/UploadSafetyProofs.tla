------------------------- MODULE UploadSafetyProofs -------------------------
(***************************************************************************)
(* Four safety properties of UploadServer, for every set of ids and        *)
(* requests and every environment: the data file covers the offset the     *)
(* server reports (DataCoversOffset), uploads of another data storage are  *)
(* left alone (ForeignUntouched) and, over the file info storage,          *)
(* terminated uploads stay terminated (TerminatedIsGone) and, without      *)
(* remove_parts, an upload with info has its data file (InfoHasData).      *)
(*                                                                         *)
(* DataCoversOffset is inductive only together with what the handlers hold *)
(* between two awaits: the offset a PATCH is about to save is already      *)
(* backed by data (Backed), and so is the length of each part a final      *)
(* upload has checked; nobody but its own handler knows an upload that is  *)
(* not saved yet (Private), so that create_file, which empties the file,   *)
(* empties nobody's data.                                                  *)
(***************************************************************************)
EXTENDS UploadTypeProofs

(* A POST that has not saved its info is the only one to know its id, and   *)
(* from create_file on its data file exists.                                *)
Unpublished(r, i) == Method[r] = "POST" /\ InFlight(r) /\ file[r].id = i
Names(q, i) == file[q] # None /\ file[q].id = i
Joins(q, i) == \E k \in 1..Len(partsInfo[q]) : partsInfo[q][k].id = i
Private(r, i) ==
  Unpublished(r, i) =>
    /\ ~Readable(i)
    /\ pc[r] # "create" => data[i] # None
    /\ \A q \in Req \ {r} : ~Names(q, i)
    /\ \A q \in Req : ~Joins(q, i)

(* The infos a final upload has read are those of the parts it names. *)
PartsRead(r) ==
  \A k \in 1..Len(partsInfo[r]) :
    /\ partsInfo[r][k].id \in used
    /\ Reading(r) \/ Joining(r) => partsInfo[r][k].id = file[r].parts[k]

UsedInv ==
  /\ Foreign \subseteq used
  /\ \A i \in Id : info[i] # None => i \in used
  /\ \A i \in Id : Readable(i) => info[i].id = i
  /\ \A r \in Req : file[r] # None => file[r].id \in used \ Foreign
IdsInv == UsedInv /\ \A r \in Req : PartsRead(r) /\ \A i \in Id : Private(r, i)

ForeignInv ==
  /\ ForeignUntouched
  /\ \A r \in Req : pc[r] = "dropInfo" => Part(r) \notin Foreign

(* The bytes a handler counts on are in the data files, unless the file is gone. *)
Holds(i, n) == data[i] # None => Len(data[i]) >= n
Backed(r) ==
  /\ pc[r] \in {"write", "save", "saving"} \/ Joining(r) => Holds(file[r].id, file[r].offset)
  /\ Reading(r) \/ pc[r] = "copyPart" =>
       \A k \in 1..Len(partsInfo[r]) : Holds(partsInfo[r][k].id, partsInfo[r][k].length)

CoverInv == DataCoversOffset /\ \A r \in Req : Backed(r)

Inv == TypeInv /\ IdsInv /\ ForeignInv /\ CoverInv

USE DEF InFlight, Readable, Unreadable

(* The empty server satisfies the invariant. *)
LEMMA InitInv == Init => Inv
<1> SUFFICES ASSUME Init PROVE Inv
  OBVIOUS
<1>1. TypeInv
  BY InitTypeInv
<1>2. IdsInv
  <2>1. UsedInv
    BY IdAssumption DEF Init, UsedInv, ForeignInfo
  <2>2. ASSUME NEW r \in Req PROVE PartsRead(r)
    BY DEF Init, PartsRead
  <2>3. ASSUME NEW r \in Req, NEW i \in Id PROVE Private(r, i)
    BY DEF Init, Private, Unpublished
  <2> QED BY <2>1, <2>2, <2>3 DEF IdsInv
<1>3. ForeignInv
  BY IdAssumption DEF Init, ForeignInv, ForeignUntouched
<1>4. CoverInv
  BY DEF Init, CoverInv, DataCoversOffset, Backed, Reading, Joining
<1> QED BY <1>1, <1>2, <1>3, <1>4 DEF Inv

(* An unpublished upload stays private if nobody learns its id and its file stays. *)
LEMMA PrivateKept ==
  ASSUME NEW r \in Req, NEW i \in Id, Private(r, i),
         Unpublished(r, i)' =>
           /\ Unpublished(r, i) /\ ~Readable(i)'
           /\ pc'[r] = pc[r] \/ data'[i] # None
           /\ data[i] # None => data'[i] # None
           /\ \A q \in Req \ {r} : Names(q, i)' => Names(q, i)
           /\ \A q \in Req : Joins(q, i)' => Joins(q, i)
  PROVE  Private(r, i)'
  BY DEF Private

(* A step that changes no storage and no local variable, and ends some handlers. *)
OnlyEnds ==
  /\ UNCHANGED <<info, data, used, file, partsInfo, cursor>>
  /\ \A q \in Req : pc'[q] \in {pc[q], "done"}

(* A handler that ends, with nothing else changed, keeps the invariant. *)
LEMMA OnlyEndsInv ==
  ASSUME Inv, TypeInv', OnlyEnds
  PROVE  Inv'
<1> USE DEF OnlyEnds
<1>1. IdsInv'
  <2>1. UsedInv'
    BY DEF Inv, IdsInv, UsedInv
  <2>2. ASSUME NEW q \in Req PROVE PartsRead(q)'
    BY DEF Inv, IdsInv, PartsRead, Reading, Joining
  <2>3. ASSUME NEW q \in Req, NEW i \in Id PROVE Private(q, i)'
    <3>1. \A p \in Req : Names(p, i)' = Names(p, i) /\ Joins(p, i)' = Joins(p, i)
      BY DEF Names, Joins
    <3>2. Unpublished(q, i)' => Unpublished(q, i) /\ pc'[q] = pc[q]
      BY DEF Unpublished
    <3> QED BY <3>1, <3>2, PrivateKept DEF Inv, IdsInv, Private
  <2> QED BY <2>1, <2>2, <2>3 DEF IdsInv
<1>2. ForeignInv'
  BY DEF Inv, ForeignInv, ForeignUntouched, Part
<1>3. CoverInv'
  BY DEF Inv, CoverInv, DataCoversOffset, Backed, Reading, Joining, Holds
<1> QED BY <1>1, <1>2, <1>3 DEF Inv

(* PATCH, DELETE, GET and HEAD take the id of an upload the server knows. *)
Takes(r, f) ==
  /\ pc[r] = "idle" /\ Method[r] # "POST"
  /\ f.id \notin Foreign /\ Readable(f.id) /\ f.offset = info[f.id].offset
  /\ file' = [file EXCEPT ![r] = f]
  /\ \A q \in Req \ {r} : pc'[q] = pc[q]
  /\ pc'[r] \in {"write", "removeInfo", "read", "done"}
  /\ UNCHANGED <<info, data, used, partsInfo, cursor>>

(* A handler that starts from the info of a published upload keeps the invariant. *)
LEMMA TakesInv ==
  ASSUME Inv, TypeInv', NEW r \in Req, NEW f \in FileInfo, Takes(r, f)
  PROVE  Inv'
<1> USE DEF Takes
<1>1. /\ file'[r] = f /\ f # None /\ f.id \in Id
      /\ \A q \in Req \ {r} : file'[q] = file[q]
  BY FileFields DEF Inv, TypeInv, TypeOK
<1>2. IdsInv'
  <2>1. UsedInv'
    BY <1>1 DEF Inv, IdsInv, UsedInv
  <2>2. ASSUME NEW q \in Req PROVE PartsRead(q)'
    BY <1>1 DEF Inv, IdsInv, PartsRead, Reading, Joining
  <2>3. ASSUME NEW q \in Req, NEW i \in Id PROVE Private(q, i)'
    <3>1. CASE Unpublished(q, i)'
      <4>1. q # r /\ Unpublished(q, i)
        BY <1>1, <3>1 DEF Unpublished
      <4>2. ~Readable(i) /\ f.id # i
        BY <4>1 DEF Inv, IdsInv, Private
      <4>3. \A p \in Req : (Names(p, i)' => Names(p, i)) /\ Joins(p, i)' = Joins(p, i)
        BY <1>1, <4>2 DEF Names, Joins
      <4> QED BY <4>1, <4>2, <4>3, PrivateKept DEF Inv, IdsInv
    <3> QED BY <3>1 DEF Private
  <2> QED BY <2>1, <2>2, <2>3 DEF IdsInv
<1>3. ForeignInv'
  BY <1>1 DEF Inv, ForeignInv, ForeignUntouched, Part
<1>4. CoverInv'
  <2>1. DataCoversOffset'
    BY DEF Inv, CoverInv, DataCoversOffset
  <2>2. ASSUME NEW q \in Req PROVE Backed(q)'
    BY <1>1 DEF Inv, CoverInv, DataCoversOffset, Backed, Reading, Joining, Holds
  <2> QED BY <2>1, <2>2 DEF CoverInv
<1> QED BY <1>2, <1>3, <1>4 DEF Inv

(* A POST that draws a fresh id has an id nobody names. *)
LEMMA PostInv ==
  ASSUME Inv, TypeInv', NEW r \in Req, NEW i \in Id, NEW m \in PostMsg, PostAccepted(r, i, m)
  PROVE  Inv'
<1> USE DEF PostAccepted, Begins, stores, telemetry
<1>1. NewFileInfo(i, m).id = i /\ NewFileInfo(i, m).offset = 0 /\ NewFileInfo(i, m) # None
  BY NewFileInfoType, FileFields DEF NewFileInfo
<1>2. /\ file'[r] = NewFileInfo(i, m) /\ partsInfo[r] = <<>> /\ pc'[r] = "create"
      /\ \A q \in Req \ {r} : pc'[q] = pc[q] /\ file'[q] = file[q]
  BY DEF Inv, TypeInv, TypeOK, LocalsOK
<1>3. IdsInv'
  <2>1. UsedInv'
    BY <1>1, <1>2 DEF Inv, IdsInv, UsedInv
  <2>2. ASSUME NEW q \in Req PROVE PartsRead(q)'
    BY <1>1, <1>2 DEF Inv, IdsInv, UsedInv, PartsRead, Reading, Joining
  <2>3. ASSUME NEW q \in Req, NEW j \in Id PROVE Private(q, j)'
    <3>1. CASE q = r /\ j = i
      <4>1. info[i] = None /\ \A p \in Req : ~Names(p, i) /\ ~Joins(p, i)
        BY DEF Inv, IdsInv, UsedInv, PartsRead, Names, Joins
      <4>2. \A p \in Req : (Names(p, i)' => p = r) /\ Joins(p, i)' = Joins(p, i)
        BY <1>2, <4>1 DEF Names, Joins
      <4> QED BY <1>2, <3>1, <4>1, <4>2 DEF Private
    <3>2. CASE q # r /\ Unpublished(q, j)'
      <4>1. Unpublished(q, j) /\ j # i
        BY <1>2, <3>2 DEF Unpublished, Inv, IdsInv, UsedInv, TypeInv, LocalsOK
      <4>2. \A p \in Req : (Names(p, j)' => Names(p, j)) /\ Joins(p, j)' = Joins(p, j)
        BY <1>1, <1>2, <4>1 DEF Names, Joins
      <4> QED BY <1>2, <3>2, <4>1, <4>2, PrivateKept DEF Inv, IdsInv, Private
    <3> QED BY <1>1, <1>2, <3>1, <3>2 DEF Private, Unpublished
  <2> QED BY <2>1, <2>2, <2>3 DEF IdsInv
<1>4. ForeignInv'
  BY <1>2 DEF Inv, ForeignInv, ForeignUntouched, Part
<1>5. CoverInv'
  <2>1. DataCoversOffset'
    BY DEF Inv, CoverInv, DataCoversOffset
  <2>2. ASSUME NEW q \in Req PROVE Backed(q)'
    <3>1. Backed(q)
      BY DEF Inv, CoverInv
    <3> QED BY <1>2, <3>1 DEF Backed, Reading, Joining, Holds
  <2> QED BY <2>1, <2>2 DEF CoverInv
<1> QED BY <1>3, <1>4, <1>5 DEF Inv

(* The steps that follow keep the ids the handlers know. *)
IdsKept ==
  /\ UNCHANGED <<used, partsInfo>>
  /\ \A q \in Req : (file'[q] = None) = (file[q] = None) /\ file'[q].id = file[q].id

(* While ids, infos and files stay, every unpublished upload stays private. *)
LEMMA PrivateIdsKept ==
  ASSUME NEW r \in Req, NEW i \in Id, Private(r, i), IdsKept, pc'[r] \in {pc[r], "done"},
         Unpublished(r, i) => /\ ~Readable(i)'
                              /\ data[i] # None => data'[i] # None
  PROVE  Private(r, i)'
<1>1. \A q \in Req : (Names(q, i)' => Names(q, i)) /\ Joins(q, i)' = Joins(q, i)
  BY DEF IdsKept, Names, Joins
<1>2. Unpublished(r, i)' => Unpublished(r, i) /\ pc'[r] = pc[r]
  BY DEF IdsKept, Unpublished
<1> QED BY <1>1, <1>2, PrivateKept DEF Private

(* Data files are removed as a whole, and else only grow. *)
Grows(i) == data[i] # None /\ data'[i] # None /\ Len(data'[i]) >= Len(data[i])
DataKept == \A i \in Id : data'[i] = data[i] \/ data'[i] = None \/ Grows(i)

(* A file that only grows, or goes, still covers what it covered. *)
LEMMA HoldsKept ==
  ASSUME TypeOK, TypeOK', DataKept, NEW i \in Id, NEW n \in Nat, Holds(i, n)
  PROVE  Holds(i, n)'
<1>1. data'[i] # None => data[i] \in Seq(Nat) /\ data'[i] \in Seq(Nat) /\ Len(data'[i]) >= Len(data[i])
  BY DEF TypeOK, DataKept, Grows
<1>2. data'[i] # None => Len(data[i]) \in Nat /\ Len(data'[i]) \in Nat /\ Len(data[i]) >= n
  BY <1>1 DEF Holds, DataKept, Grows
<1> QED BY <1>1, <1>2 DEF Holds

(* Where no file gets shorter, an unchanged info stays covered. *)
LEMMA CoversKept ==
  ASSUME Inv, TypeInv', DataKept, NEW i \in Id, info'[i] = info[i]
  PROVE  Readable(i)' /\ data'[i] # None => Len(data'[i]) >= info'[i].offset
<1> SUFFICES ASSUME Readable(i) PROVE Holds(i, info[i].offset)'
  BY DEF Holds
<1>1. info[i].offset \in Nat
  BY FileFields DEF Inv, TypeInv, TypeOK
<1>2. Holds(i, info[i].offset)
  BY DEF Inv, CoverInv, DataCoversOffset, Holds
<1>3. \A n \in Nat : Holds(i, n) => Holds(i, n)'
  BY HoldsKept DEF Inv, TypeInv
<1> QED BY <1>1, <1>2, <1>3 DEF Holds

(* The lengths a final upload has read are covered by the files of its parts. *)
LEMMA PartsHold ==
  ASSUME TypeInv, NEW r \in Req, NEW k \in 1..Len(partsInfo[r])
  PROVE  partsInfo[r][k].id \in Id /\ partsInfo[r][k].length \in Nat
<1>1. partsInfo[r] \in Seq({f \in FileInfo : f.length # None})
  BY DEF TypeInv, TypeOK
<1>2. partsInfo[r][k] \in {f \in FileInfo : f.length # None}
  BY <1>1
<1> QED BY <1>2, FileFields

(* What a handler counts on survives growing or removed files. *)
LEMMA BackedKept ==
  ASSUME Inv, TypeInv', DataKept, NEW r \in Req,
         pc'[r] \in {pc[r], "done"}, file'[r] = file[r], partsInfo'[r] = partsInfo[r]
  PROVE  Backed(r)'
<1>1. \A i \in Id, n \in Nat : Holds(i, n) => Holds(i, n)'
  BY HoldsKept DEF Inv, TypeInv
<1>2. Backed(r)
  BY DEF Inv, CoverInv
<1>3. InFlight(r) => file[r].id \in Id /\ file[r].offset \in Nat
  BY AtWork DEF Inv
<1>4. \A k \in 1..Len(partsInfo[r]) : partsInfo[r][k].id \in Id /\ partsInfo[r][k].length \in Nat
  BY PartsHold DEF Inv
<1>5. pc'[r] \in {"write", "save", "saving"} \/ Joining(r)' => Holds(file[r].id, file[r].offset)
  BY <1>2 DEF Backed, Joining
<1>6. pc'[r] \in {"write", "save", "saving"} \/ Joining(r)' => (Holds(file[r].id, file[r].offset))'
  BY <1>1, <1>3, <1>5 DEF Joining, Holds
<1>7. ASSUME NEW k \in 1..Len(partsInfo[r]), Reading(r)' \/ pc'[r] = "copyPart"
      PROVE  Holds(partsInfo[r][k].id, partsInfo[r][k].length)'
  <2>1. Holds(partsInfo[r][k].id, partsInfo[r][k].length)
    BY <1>2, <1>7 DEF Backed, Reading
  <2> QED BY <1>1, <1>4, <2>1 DEF Holds
<1> QED BY <1>6, <1>7 DEF Backed, Reading, Joining, Holds

(* A POST past its checks, on its own upload. *)
LEMMA AlonePost ==
  ASSUME Inv, NEW r \in Req, Method[r] = "POST", InFlight(r)
  PROVE  /\ file[r].id \in Id /\ file[r].id \in used \ Foreign /\ ~Readable(file[r].id)
         /\ pc[r] # "create" => data[file[r].id] # None
         /\ \A q \in Req \ {r} : file[q] # None => file[q].id # file[r].id
         /\ \A q \in Req : \A k \in 1..Len(partsInfo[q]) : partsInfo[q][k].id # file[r].id
<1>1. file[r].id \in Id /\ file[r].id \in used \ Foreign
  BY AtWork DEF Inv, IdsInv, UsedInv
<1>2. Private(r, file[r].id) /\ Unpublished(r, file[r].id)
  BY <1>1 DEF Inv, IdsInv, Unpublished
<1> QED BY <1>1, <1>2 DEF Private, Names, Joins

(* create_file makes an empty file of an upload nobody else knows. *)
LEMMA CreateInv ==
  ASSUME Inv, TypeInv', NEW r \in Req, CreateFile(r)
  PROVE  Inv'
<1> USE DEF CreateFile
<1> DEFINE i == file[r].id
<1>1. /\ i \in Id /\ i \in used \ Foreign /\ ~Readable(i)
      /\ \A q \in Req \ {r} : file[q] # None => file[q].id # i
      /\ \A q \in Req : \A k \in 1..Len(partsInfo[q]) : partsInfo[q][k].id # i
      /\ Method[r] = "POST" /\ file[r].offset = 0 /\ partsInfo[r] = <<>>
  BY AlonePost DEF Inv, TypeInv, LocalsOK
<1>2. /\ data'[i] = <<>> /\ <<>> # None
      /\ \A j \in Id \ {i} : data'[j] = data[j]
      /\ \A q \in Req \ {r} : pc'[q] = pc[q]
      /\ pc'[r] \in {"readPart", "write", "save", "done"}
  <2>1. <<>> # None
    <3>1. <<>> \in Seq(Nat)
      OBVIOUS
    <3> QED BY <3>1, NoneAssumption, Zenon
  <2> QED BY <1>1, <2>1 DEF Inv, TypeInv, TypeOK, GoTo
<1> HIDE DEF i
<1>3. IdsInv'
  <2>1. UsedInv'
    BY DEF Inv, IdsInv, UsedInv
  <2>2. ASSUME NEW q \in Req PROVE PartsRead(q)'
    BY <1>1, <1>2 DEF Inv, IdsInv, PartsRead, Reading, Joining
  <2>3. ASSUME NEW q \in Req, NEW j \in Id PROVE Private(q, j)'
    <3>1. \A p \in Req : Names(p, j)' = Names(p, j) /\ Joins(p, j)' = Joins(p, j)
      BY DEF Names, Joins
    <3>2. Unpublished(q, j)' => Unpublished(q, j) /\ ~Readable(j)'
      BY <1>1, <1>2 DEF Unpublished, Inv, IdsInv, Private
    <3>3. Unpublished(q, j)' => pc'[q] = pc[q] \/ data'[j] # None
      BY <1>2 DEF Unpublished, i
    <3>4. data[j] # None => data'[j] # None
      BY <1>2
    <3> QED BY <3>1, <3>2, <3>3, <3>4, PrivateKept DEF Inv, IdsInv
  <2> QED BY <2>1, <2>2, <2>3 DEF IdsInv
<1>4. ForeignInv'
  BY <1>1, <1>2, IdAssumption DEF Inv, ForeignInv, ForeignUntouched, Part
<1>5. CoverInv'
  <2>1. DataCoversOffset'
    BY <1>1, <1>2 DEF Inv, CoverInv, DataCoversOffset
  <2>2. Backed(r)'
    BY <1>1, <1>2 DEF Backed, Reading, Joining, Holds, i
  <2>3. ASSUME NEW q \in Req \ {r} PROVE Backed(q)'
    <3>1. Backed(q) /\ pc'[q] = pc[q]
      BY <1>2 DEF Inv, CoverInv
    <3>2. InFlight(q) => file[q].id \in Id \ {i}
      BY <1>1, AtWork DEF Inv
    <3>3. \A k \in 1..Len(partsInfo[q]) : partsInfo[q][k].id \in Id \ {i}
      BY <1>1, PartsHold DEF Inv
    <3> QED BY <1>2, <3>1, <3>2, <3>3 DEF Backed, Reading, Joining, Holds
  <2> QED BY <2>1, <2>2, <2>3 DEF CoverInv
<1> QED BY <1>3, <1>4, <1>5 DEF Inv

(* A part the loops of a final upload are at was read, and is another upload. *)
LEMMA PartKnown ==
  ASSUME Inv, NEW r \in Req, Joining(r)
  PROVE  /\ Part(r) \in Id /\ cursor[r] \in 1..Len(partsInfo[r])
         /\ partsInfo[r][cursor[r]].id = Part(r) /\ partsInfo[r][cursor[r]].length \in Nat
         /\ Joins(r, Part(r))
<1>1. /\ Part(r) \in Id /\ cursor[r] \in 1..Len(partsInfo[r])
      /\ partsInfo[r][cursor[r]].length \in Nat
  BY AtPart DEF Inv
<1>2. partsInfo[r][cursor[r]].id = Part(r)
  BY <1>1 DEF Inv, IdsInv, PartsRead, Part
<1> QED BY <1>1, <1>2 DEF Joins

(* A part that is accepted has the id it was asked for and is covered. *)
LEMMA ReadPartInv ==
  ASSUME Inv, TypeInv', NEW r \in Req, ReadPart(r), PartAcceptable(info[Part(r)])
  PROVE  Inv'
<1> USE DEF ReadPart, stores, telemetry
<1> DEFINE p == info[Part(r)]
<1>1. /\ Method[r] = "POST" /\ file[r].offset = 0 /\ file[r].id \in Id
      /\ cursor[r] <= Len(file[r].parts) /\ Len(partsInfo[r]) = cursor[r] - 1
      /\ cursor[r] \in Nat \ {0} /\ Part(r) \in Id
  <2>1. /\ Method[r] = "POST" /\ file[r].offset = 0
        /\ cursor[r] <= Len(file[r].parts) /\ Len(partsInfo[r]) = cursor[r] - 1
    BY DEF Inv, TypeInv, LocalsOK, Reading
  <2>2. cursor[r] \in Nat \ {0}
    BY DEF Inv, TypeInv, TypeOK
  <2> QED BY <2>1, <2>2, AtWork DEF Inv, Part
<1>2. /\ p \in FileInfo /\ p # None /\ p.id = Part(r) /\ Part(r) \in used
      /\ p.offset \in Nat /\ p.length = p.offset
  BY <1>1, FileFields DEF Inv, TypeInv, TypeOK, IdsInv, UsedInv, PartAcceptable
<1>8. Readable(Part(r))
  BY DEF PartAcceptable, Readable
<1>3. /\ \A q \in Req \ {r} : pc'[q] = pc[q] /\ partsInfo'[q] = partsInfo[q] /\ cursor'[q] = cursor[q]
      /\ pc'[r] \in {"copyPart", "readPart", "done"}
      /\ Len(partsInfo'[r]) = cursor[r] /\ partsInfo'[r][cursor[r]] = p
      /\ \A k \in 1..Len(partsInfo[r]) : partsInfo'[r][k] = partsInfo[r][k]
  <2>1. partsInfo[r] \in Seq({f \in FileInfo : f.length # None}) /\ p \in {f \in FileInfo : f.length # None}
    BY <1>2, FileFields, NoneAssumption DEF Inv, TypeInv, TypeOK
  <2>2. /\ Len(Append(partsInfo[r], p)) = cursor[r] /\ Append(partsInfo[r], p)[cursor[r]] = p
        /\ \A k \in 1..Len(partsInfo[r]) : Append(partsInfo[r], p)[k] = partsInfo[r][k]
    BY <1>1, <1>2, <2>1, AppendProperties
  <2>3. partsInfo' = [partsInfo EXCEPT ![r] = Append(partsInfo[r], p)]
    OBVIOUS
  <2>4. \A q \in Req \ {r} : pc'[q] = pc[q]
    BY DEF Inv, TypeInv, TypeOK, GoTo
  <2>5. pc'[r] \in {"copyPart", "readPart", "done"}
    BY DEF Inv, TypeInv, TypeOK, GoTo
  <2>6. \A q \in Req \ {r} : cursor'[q] = cursor[q]
    BY AdvanceType DEF Inv, TypeInv
  <2> QED BY <2>2, <2>3, <2>4, <2>5, <2>6 DEF Inv, TypeInv, TypeOK
<1> HIDE DEF p
<1>9. \A k \in 1..Len(partsInfo'[r]) : k = cursor[r] \/ k \in 1..Len(partsInfo[r])
  BY <1>1, <1>3
<1>4. IdsInv'
  <2>1. UsedInv'
    BY DEF Inv, IdsInv, UsedInv
  <2>2. ASSUME NEW q \in Req \ {r} PROVE PartsRead(q)'
    BY <1>3 DEF Inv, IdsInv, PartsRead, Reading, Joining
  <2>3. PartsRead(r)'
    <3>1. \A k \in 1..Len(partsInfo[r]) :
            partsInfo[r][k].id \in used /\ partsInfo[r][k].id = file[r].parts[k]
      BY DEF Inv, IdsInv, PartsRead, Reading
    <3>2. p.id \in used /\ p.id = file[r].parts[cursor[r]]
      BY <1>2 DEF Part
    <3> QED BY <1>3, <1>9, <3>1, <3>2 DEF PartsRead
  <2>4. ASSUME NEW q \in Req, NEW j \in Id PROVE Private(q, j)'
    <3>1. CASE Unpublished(q, j)'
      <4>1. Unpublished(q, j) /\ (pc[q] # "create" => data[j] # None)
        BY <1>3, <3>1 DEF Unpublished, Inv, IdsInv, Private
      <4>2. ~Readable(j) /\ Part(r) # j
        BY <1>8, <4>1 DEF Inv, IdsInv, Private
      <4>3. \A k \in Req : Names(k, j)' = Names(k, j) /\ (Joins(k, j)' => Joins(k, j))
        <5>1. Joins(r, j)' => Joins(r, j)
          BY <1>2, <1>3, <1>9, <4>2 DEF Joins
        <5>2. \A k \in Req \ {r} : Joins(k, j)' = Joins(k, j)
          BY <1>3 DEF Joins
        <5> QED BY <5>1, <5>2 DEF Names
      <4>4. pc'[q] = pc[q] \/ data'[j] # None
        BY <1>3, <4>1
      <4> QED BY <4>1, <4>2, <4>3, <4>4, PrivateKept DEF Inv, IdsInv
    <3> QED BY <3>1 DEF Private
  <2> QED BY <2>1, <2>2, <2>3, <2>4 DEF IdsInv
<1>5. ForeignInv'
  BY <1>3 DEF Inv, ForeignInv, ForeignUntouched, Part
<1>6. CoverInv'
  <2>1. DataCoversOffset'
    BY DEF Inv, CoverInv, DataCoversOffset
  <2>2. Holds(p.id, p.length)
    BY <1>1, <1>2, <1>8 DEF Inv, CoverInv, DataCoversOffset, Holds, p
  <2>3. Holds(file[r].id, 0)
    BY <1>1, AtWork DEF Holds, Inv, TypeInv, TypeOK
  <2>4. \A k \in 1..Len(partsInfo[r]) : Holds(partsInfo[r][k].id, partsInfo[r][k].length)
    BY DEF Inv, CoverInv, Backed, Reading
  <2>6. Backed(r)'
    BY <1>1, <1>3, <1>9, <2>2, <2>3, <2>4 DEF Backed, Reading, Joining, Holds
  <2>7. ASSUME NEW q \in Req \ {r} PROVE Backed(q)'
    <3>1. Backed(q)
      BY DEF Inv, CoverInv
    <3> QED BY <1>3, <3>1 DEF Backed, Reading, Joining, Holds
  <2> QED BY <2>1, <2>6, <2>7 DEF CoverInv
<1> QED BY <1>4, <1>5, <1>6 DEF Inv

(* What a step of the handler r on the storages, after its upload exists, must not do. *)
Harmless(r) ==
  /\ IdsKept /\ DataKept
  /\ \A q \in Req \ {r} : pc'[q] = pc[q] /\ file'[q] = file[q] /\ cursor'[q] = cursor[q]
  /\ InFlight(r) /\ pc[r] # "create"
  /\ \A i \in Id : info'[i] \in {info[i], None} \/ (info'[i] \in Torn /\ i \in used)
  /\ \A i \in Foreign : info'[i] = info[i] /\ data'[i] = data[i]
  /\ \A q \in Req, i \in Id : Unpublished(q, i) /\ data[i] # None => data'[i] # None
  /\ Reading(r)' \/ Joining(r)' => (Reading(r) \/ Joining(r)) /\ file'[r].parts = file[r].parts
  /\ pc'[r] = "dropInfo" => Part(r)' \notin Foreign
  /\ Backed(r)'

(* A step that publishes nothing and takes no file from an unpublished upload keeps the invariant. *)
LEMMA HarmlessInv ==
  ASSUME Inv, TypeInv', NEW r \in Req, Harmless(r)
  PROVE  Inv'
<1> USE DEF Harmless
<1>1. IdsInv'
  <2>1. UsedInv'
    BY DEF Inv, IdsInv, UsedInv, IdsKept
  <2>2. ASSUME NEW q \in Req PROVE PartsRead(q)'
    BY DEF Inv, IdsInv, PartsRead, Reading, Joining, IdsKept
  <2>3. ASSUME NEW q \in Req, NEW i \in Id PROVE Private(q, i)'
    <3>1. Private(q, i) /\ (Unpublished(q, i) => ~Readable(i)')
      BY DEF Inv, IdsInv, Private
    <3>2. CASE q # r
      BY <3>1, <3>2, PrivateIdsKept
    <3>3. CASE q = r
      <4>1. \A p \in Req : (Names(p, i)' => Names(p, i)) /\ Joins(p, i)' = Joins(p, i)
        BY DEF IdsKept, Names, Joins
      <4>2. Unpublished(r, i)' => Unpublished(r, i)
        BY DEF IdsKept, Unpublished
      <4> QED BY <3>1, <3>3, <4>1, <4>2, PrivateKept DEF Private
    <3> QED BY <3>2, <3>3
  <2> QED BY <2>1, <2>2, <2>3 DEF IdsInv
<1>2. ForeignInv'
  <2>1. ForeignUntouched'
    BY DEF Inv, ForeignInv, ForeignUntouched
  <2>2. ASSUME NEW q \in Req, pc'[q] = "dropInfo" PROVE Part(q)' \notin Foreign
    BY <2>2 DEF Inv, ForeignInv, Part
  <2> QED BY <2>1, <2>2 DEF ForeignInv
<1>3. CoverInv'
  <2>1. DataCoversOffset'
    BY CoversKept DEF DataCoversOffset
  <2>2. ASSUME NEW q \in Req \ {r} PROVE Backed(q)'
    BY BackedKept DEF IdsKept
  <2> QED BY <2>1, <2>2 DEF CoverInv
<1> QED BY <1>1, <1>2, <1>3 DEF Inv

(* Arithmetic: a sum covers what its parts cover. *)
LEMMA SumGrows ==
  ASSUME NEW a \in Nat, NEW b \in Nat, NEW c \in Nat, NEW d \in Nat, a >= c, b >= d
  PROVE  a + b >= c + d
  OBVIOUS

(* Appending makes a file longer by what was appended. *)
LEMMA AppendGrows ==
  ASSUME NEW old \in Seq(Nat), NEW new \in Seq(Nat)
  PROVE  Len(Appended(old, new)) = Len(old) + Len(new) /\ Appended(old, new) \in Seq(Nat)
         /\ Appended(old, new) # None /\ Len(Appended(old, new)) >= Len(old)
         /\ Len(old) \in Nat /\ Len(new) \in Nat
<1>1. Len(old \o new) = Len(old) + Len(new) /\ old \o new \in Seq(Nat)
  BY ConcatProperties
<1>2. old \o new # None
  BY <1>1, NoneAssumption, Zenon
<1>3. Len(old) \in Nat /\ Len(new) \in Nat
  OBVIOUS
<1> QED BY <1>1, <1>2, <1>3 DEF Appended

(* After add_bytes the file covers the new offset of the handler. *)
LEMMA AddBytesInv ==
  ASSUME Inv, TypeInv', NEW r \in Req, AddBytes(r), data[file[r].id] # None
  PROVE  Inv'
<1> USE DEF AddBytes, telemetry
<1> DEFINE i == file[r].id
           bytes == Appended(data[i], body[r])
<1>1. /\ i \in Id \ Foreign /\ file[r] \in FileInfo /\ file[r] # None /\ file[r].offset \in Nat
      /\ data[i] \in Seq(Nat) /\ body[r] \in Seq(Nat)
  BY AtWork DEF Inv, TypeInv, TypeOK, IdsInv, UsedInv
<1>2. /\ bytes # None /\ Len(bytes) = Len(data[i]) + Len(body[r]) /\ Len(bytes) >= Len(data[i])
      /\ Len(data[i]) \in Nat /\ Len(body[r]) \in Nat
  BY <1>1, AppendGrows
<1>3. data' = [data EXCEPT ![i] = bytes]
  OBVIOUS
<1>4. /\ data'[i] = bytes /\ \A j \in Id \ {i} : data'[j] = data[j]
  BY <1>1, <1>3 DEF Inv, TypeInv, TypeOK
<1>5. /\ file'[r] = [file[r] EXCEPT !.offset = file[r].offset + Len(body[r])]
      /\ \A q \in Req \ {r} : pc'[q] = pc[q] /\ file'[q] = file[q]
      /\ pc'[r] \in {"save", "done"}
  BY DEF Inv, TypeInv, TypeOK, GoTo
<1>6. file'[r].id = i /\ file'[r].offset = file[r].offset + Len(body[r]) /\ file'[r] # None
  <2>1. file'[r].id = i /\ file'[r].offset = file[r].offset + Len(body[r])
    BY <1>1, <1>5 DEF FileInfo
  <2>2. file'[r] # None
    <3>1. file[r].offset + Len(body[r]) \in Nat
      BY <1>1, <1>2
    <3>2. \A o \in Nat : [file[r] EXCEPT !.offset = o] \in FileInfo
      BY <1>1, FileUpdated, Zenon
    <3>3. file'[r] \in FileInfo
      BY <1>5, <3>1, <3>2, Zenon
    <3> QED BY <3>3, FileFields, Zenon
  <2> QED BY <2>1, <2>2
<1> HIDE DEF bytes
<1>7. DataKept
  BY <1>2, <1>4 DEF DataKept, Grows
<1>8. IdsKept
  BY <1>1, <1>5, <1>6 DEF IdsKept
<1>9. Backed(r)'
  <2>1. Len(data[i]) >= file[r].offset
    BY DEF Inv, CoverInv, Backed, Holds
  <2>2. Len(bytes) >= file[r].offset + Len(body[r])
    <3>1. Len(body[r]) >= Len(body[r])
      BY <1>2
    <3>2. Len(data[i]) + Len(body[r]) >= file[r].offset + Len(body[r])
      BY <1>1, <1>2, <2>1, <3>1, SumGrows
    <3> QED BY <1>2, <3>2
  <2> QED BY <1>4, <1>5, <1>6, <2>2 DEF Backed, Reading, Joining, Holds
<1> HIDE DEF i
<1>10. Harmless(r)
  BY <1>1, <1>2, <1>4, <1>5, <1>7, <1>8, <1>9, IdAssumption DEF Harmless, Reading, Joining
<1> QED BY <1>10, HarmlessInv

(* A copied part covers the length the final upload adds for it. *)
LEMMA CopyPartInv ==
  ASSUME Inv, TypeInv', NEW r \in Req, CopyPart(r), data[Part(r)] # None
  PROVE  Inv'
<1> USE DEF CopyPart, telemetry
<1> DEFINE i == file[r].id
           bytes == Appended(data[i], data[Part(r)])
           p == partsInfo[r][cursor[r]]
<1>1. /\ i \in Id \ Foreign /\ file[r] # None /\ file[r].offset \in Nat /\ data[i] # None
      /\ Part(r) \in Id /\ p.id = Part(r) /\ p.length \in Nat /\ cursor[r] \in 1..Len(partsInfo[r])
  BY AtWork, AtPart, AlonePost, PartKnown DEF Inv, Joining
<1>2. data[i] \in Seq(Nat) /\ data[Part(r)] \in Seq(Nat)
  BY <1>1 DEF Inv, TypeInv, TypeOK
<1>3. /\ bytes # None /\ Len(bytes) = Len(data[i]) + Len(data[Part(r)]) /\ Len(bytes) >= Len(data[i])
      /\ Len(data[i]) \in Nat /\ Len(data[Part(r)]) \in Nat
  BY <1>2, AppendGrows
<1>4. data'[i] = bytes /\ \A j \in Id \ {i} : data'[j] = data[j]
  BY <1>1 DEF Inv, TypeInv, TypeOK, Opened
<1>5. /\ file'[r] = Joined(r)
      /\ \A q \in Req \ {r} : pc'[q] = pc[q] /\ file'[q] = file[q] /\ cursor'[q] = cursor[q]
      /\ pc'[r] \in {"copyPart", "dropFile", "save", "done"}
  <2>1. \A q \in Req \ {r} : cursor'[q] = cursor[q]
    BY AdvanceType DEF Inv, TypeInv
  <2> QED BY <2>1 DEF Inv, TypeInv, TypeOK, GoTo
<1>6. /\ Joined(r) # None /\ Joined(r).id = i /\ Joined(r).parts = file[r].parts
      /\ Joined(r).offset = file[r].offset + p.length
  BY JoinedType DEF Inv, Joining
<1> HIDE DEF bytes, p
<1>7. DataKept
  BY <1>1, <1>3, <1>4 DEF DataKept, Grows
<1>8. IdsKept
  BY <1>1, <1>5, <1>6 DEF IdsKept
<1>9. Backed(r)'
  <2>1. Len(data[i]) >= file[r].offset
    BY <1>1 DEF Inv, CoverInv, Backed, Holds, Joining
  <2>2. \A k \in 1..Len(partsInfo[r]) : Holds(partsInfo[r][k].id, partsInfo[r][k].length)
    BY DEF Inv, CoverInv, Backed
  <2>3. Len(data[Part(r)]) >= p.length
    BY <1>1, <2>2 DEF Holds, p
  <2>4. Len(bytes) >= file[r].offset + p.length
    <3>1. Len(data[i]) + Len(data[Part(r)]) >= file[r].offset + p.length
      BY <1>1, <1>3, <2>1, <2>3, SumGrows
    <3> QED BY <1>3, <3>1
  <2>5. \A k \in 1..Len(partsInfo[r]) : Holds(partsInfo[r][k].id, partsInfo[r][k].length)'
    <3>1. \A j \in Id, n \in Nat : Holds(j, n) => Holds(j, n)'
      BY <1>7, HoldsKept DEF Inv, TypeInv
    <3> QED BY <2>2, <3>1, PartsHold DEF Inv, Holds
  <2> QED BY <1>4, <1>5, <1>6, <2>4, <2>5 DEF Backed, Reading, Joining, Holds
<1> HIDE DEF i
<1>10. Harmless(r)
  BY <1>1, <1>2, <1>3, <1>4, <1>5, <1>6, <1>7, <1>8, <1>9, IdAssumption DEF Harmless, Reading, Joining
<1> QED BY <1>10, HarmlessInv

(* A file that is gone backs nobody, and is not needed to; a foreign file is never removed. *)
LEMMA DropFileInv ==
  ASSUME Inv, TypeInv', NEW r \in Req, DropFile(r), data[Part(r)] # None
  PROVE  Inv'
<1> USE DEF DropFile, stores, telemetry
<1>1. Part(r) \in Id \ Foreign /\ Joins(r, Part(r))
  BY PartKnown DEF Inv, Joining, ForeignInv, ForeignUntouched
<1>2. /\ data'[Part(r)] = None /\ \A j \in Id \ {Part(r)} : data'[j] = data[j]
      /\ \A q \in Req \ {r} : pc'[q] = pc[q]
      /\ pc'[r] \in {"dropInfo", "done"}
  BY <1>1 DEF Inv, TypeInv, TypeOK, GoTo
<1>3. DataKept
  BY <1>2 DEF DataKept
<1>4. IdsKept
  BY DEF IdsKept
<1>5. Backed(r)'
  <2>1. Holds(file[r].id, file[r].offset)
    BY DEF Inv, CoverInv, Backed, Joining
  <2>2. file[r].id \in Id /\ file[r].offset \in Nat
    BY AtWork DEF Inv
  <2> QED BY <1>2, <2>1, <2>2 DEF Backed, Reading, Joining, Holds
<1>6. ASSUME NEW q \in Req, NEW i \in Id, Unpublished(q, i), data[i] # None PROVE data'[i] # None
  BY <1>1, <1>2, <1>6 DEF Inv, IdsInv, Private
<1>7. Part(r)' = Part(r)
  BY DEF Part
<1>8. Harmless(r)
  BY <1>1, <1>2, <1>3, <1>4, <1>5, <1>6, <1>7, IdAssumption DEF Harmless, Reading, Joining
<1> QED BY <1>8, HarmlessInv

(* One info is removed, and the handler goes on or ends. *)
LEMMA InfoRemovedInv ==
  ASSUME Inv, TypeInv', NEW r \in Req, NEW i \in Id \ Foreign,
         info' = [info EXCEPT ![i] = None],
         UNCHANGED <<data, used, file, partsInfo>>,
         \A q \in Req \ {r} : pc'[q] = pc[q] /\ cursor'[q] = cursor[q],
         \/ pc[r] = "dropInfo" /\ pc'[r] \in {"save", "dropFile", "done"}
         \/ InFlight(r) /\ pc[r] # "create" /\ pc'[r] \in {"removeFile", "done"}
  PROVE  Inv'
<1>1. info'[i] = None /\ \A j \in Id \ {i} : info'[j] = info[j]
  BY DEF Inv, TypeInv, TypeOK
<1>2. DataKept /\ IdsKept
  BY DEF DataKept, IdsKept
<1>3. Backed(r)'
  BY DEF Inv, CoverInv, Backed, Reading, Joining, Holds
<1>4. Harmless(r)
  BY <1>1, <1>2, <1>3, IdAssumption DEF Harmless, Reading, Joining
<1> QED BY <1>4, HarmlessInv

(* Removing the info of a part keeps the invariant. *)
LEMMA DropInfoInv ==
  ASSUME Inv, TypeInv', NEW r \in Req, DropInfo(r), info[Part(r)] # None
  PROVE  Inv'
<1> USE DEF DropInfo, telemetry
<1>1. Part(r) \in Id \ Foreign
  BY PartKnown DEF Inv, Joining, ForeignInv
<1>2. \A q \in Req \ {r} : cursor'[q] = cursor[q]
  BY AdvanceType DEF Inv, TypeInv
<1>3. (\A q \in Req \ {r} : pc'[q] = pc[q]) /\ pc'[r] \in {"save", "dropFile", "done"}
  BY DEF Inv, TypeInv, TypeOK, GoTo
<1> QED BY <1>1, <1>2, <1>3, InfoRemovedInv

(* terminate, first half: the info goes. *)
LEMMA RemoveInfoInv ==
  ASSUME Inv, TypeInv', NEW r \in Req, RemoveInfo(r), info[file[r].id] # None
  PROVE  Inv'
<1> USE DEF RemoveInfo, telemetry
<1>1. file[r].id \in Id \ Foreign
  BY AtWork DEF Inv, IdsInv, UsedInv
<1>2. (\A q \in Req \ {r} : pc'[q] = pc[q]) /\ pc'[r] \in {"removeFile", "done"}
  BY DEF Inv, TypeInv, TypeOK, GoTo
<1> QED BY <1>1, <1>2, InfoRemovedInv

(* terminate, second half: the file goes. *)
LEMMA RemoveFileInv ==
  ASSUME Inv, TypeInv', NEW r \in Req, RemoveFile(r), data[file[r].id] # None
  PROVE  Inv'
<1> USE DEF RemoveFile
<1> DEFINE i == file[r].id
<1>1. i \in Id \ Foreign /\ Names(r, i) /\ Method[r] = "DELETE"
  BY AtWork DEF Inv, IdsInv, UsedInv, TypeInv, LocalsOK, Names
<1>2. /\ data'[i] = None /\ \A j \in Id \ {i} : data'[j] = data[j]
      /\ \A q \in Req \ {r} : pc'[q] = pc[q]
      /\ pc'[r] = "done"
  BY <1>1, AnswerType DEF Inv, TypeInv, TypeOK
<1>3. DataKept /\ IdsKept
  BY <1>2 DEF DataKept, IdsKept
<1>4. Backed(r)'
  BY <1>2 DEF Backed, Reading, Joining
<1> HIDE DEF i
<1>5. ASSUME NEW q \in Req, NEW j \in Id, Unpublished(q, j), data[j] # None PROVE data'[j] # None
  <2>1. q # r
    BY <1>1, <1>5 DEF Unpublished
  <2>2. j # i
    BY <1>1, <1>5, <2>1 DEF Inv, IdsInv, Private
  <2> QED BY <1>2, <1>5, <2>2
<1>6. Harmless(r)
  BY <1>1, <1>2, <1>3, <1>4, <1>5, IdAssumption DEF Harmless, Reading, Joining
<1> QED BY <1>6, HarmlessInv

(* set_info publishes an offset that is backed by data. *)
LEMMA SaveInv ==
  ASSUME Inv, TypeInv', NEW r \in Req, pc[r] \in {"save", "saving"},
         info' = [info EXCEPT ![file[r].id] = file[r]],
         UNCHANGED <<data, used, file, partsInfo, cursor>>,
         pc'[r] = "done", \A q \in Req \ {r} : pc'[q] = pc[q]
  PROVE  Inv'
<1> DEFINE i == file[r].id
<1>1. /\ i \in Id \ Foreign /\ i \in used /\ Names(r, i)
      /\ file[r] # None /\ file[r].offset \in Nat
  BY AtWork DEF Inv, IdsInv, UsedInv, Names
<1>2. info'[i] = file[r] /\ \A j \in Id \ {i} : info'[j] = info[j]
  BY <1>1 DEF Inv, TypeInv, TypeOK
<1>3. Holds(i, file[r].offset)
  BY DEF Inv, CoverInv, Backed
<1>4. DataKept /\ IdsKept
  BY DEF DataKept, IdsKept
<1>5. IdsInv'
  <2>1. UsedInv'
    BY <1>1, <1>2 DEF Inv, IdsInv, UsedInv
  <2>2. ASSUME NEW q \in Req PROVE PartsRead(q)'
    BY DEF Inv, IdsInv, PartsRead, Reading, Joining
  <2>3. ASSUME NEW q \in Req, NEW j \in Id PROVE Private(q, j)'
    <3>1. CASE q = r
      BY <3>1 DEF Private, Unpublished
    <3>2. CASE q # r
      <4>1. Private(q, j) /\ (Unpublished(q, j) => ~Readable(j))
        BY DEF Inv, IdsInv, Private
      <4>2. Unpublished(q, j) => ~Readable(j)'
        BY <1>1, <1>2, <3>2, <4>1 DEF Private
      <4> QED BY <1>4, <3>2, <4>1, <4>2, PrivateIdsKept
    <3> QED BY <3>1, <3>2
  <2> QED BY <2>1, <2>2, <2>3 DEF IdsInv
<1>6. ForeignInv'
  BY <1>1, <1>2, IdAssumption DEF Inv, ForeignInv, ForeignUntouched, Part
<1>7. CoverInv'
  <2>1. DataCoversOffset'
    BY <1>1, <1>2, <1>3 DEF Inv, CoverInv, DataCoversOffset, Holds
  <2>2. ASSUME NEW q \in Req PROVE Backed(q)'
    BY <1>4, BackedKept
  <2> QED BY <2>1, <2>2 DEF CoverInv
<1> QED BY <1>5, <1>6, <1>7 DEF Inv

(* An info that becomes unreadable says nothing, and was no info of an unpublished upload. *)
LEMMA TornInv ==
  ASSUME Inv, TypeInv', NEW r \in Req, pc[r] \in {"save", "saving"},
         NEW content \in Unreadable, info' = [info EXCEPT ![file[r].id] = content],
         UNCHANGED <<data, used, file, partsInfo, cursor>>,
         pc'[r] \in {"saving", "done"}, \A q \in Req \ {r} : pc'[q] = pc[q]
  PROVE  Inv'
<1>1. file[r].id \in Id \ Foreign /\ file[r].id \in used
  BY AtWork DEF Inv, IdsInv, UsedInv
<1>2. info'[file[r].id] = content /\ \A j \in Id \ {file[r].id} : info'[j] = info[j]
  BY <1>1 DEF Inv, TypeInv, TypeOK
<1>3. DataKept /\ IdsKept
  BY DEF DataKept, IdsKept
<1>4. Backed(r)'
  BY DEF Inv, CoverInv, Backed, Reading, Joining, Holds
<1>5. Harmless(r)
  BY <1>1, <1>2, <1>3, <1>4, IdAssumption DEF Harmless, Reading, Joining
<1> QED BY <1>5, HarmlessInv

(* set_info of the file info storage, first half: the old info is gone. *)
LEMMA OpenInfoInv ==
  ASSUME Inv, TypeInv', NEW r \in Req, OpenInfo(r), Openable(r)
  PROVE  Inv'
<1> USE DEF OpenInfo, telemetry
<1>1. pc'[r] = "saving" /\ \A q \in Req \ {r} : pc'[q] = pc[q]
  BY DEF Inv, TypeInv, TypeOK
<1> QED BY <1>1, TornInv DEF Torn

(* Second half: the new info is there, or the file stays torn, or is removed. *)
LEMMA WriteInfoInv ==
  ASSUME Inv, TypeInv', NEW r \in Req, WriteInfo(r)
  PROVE  Inv'
<1> USE DEF WriteInfo
<1>1. pc'[r] = "done" /\ \A q \in Req \ {r} : pc'[q] = pc[q]
  BY AnswerType DEF Saved, Inv, TypeInv
<1>2. PICK content \in Written(file[r].id, file[r]) : info' = [info EXCEPT ![file[r].id] = content]
  OBVIOUS
<1>3. content \in Unreadable \/ content = file[r]
  BY <1>2 DEF Written, Torn
<1> QED BY <1>1, <1>2, <1>3, TornInv, SaveInv

(* A prefix of the bytes appended by a failing call only makes the file longer. *)
LEMMA PartlyAppendedInv ==
  ASSUME Inv, TypeInv', NEW r \in Req, pc[r] \in {"write", "copyPart"}, pc'[r] = "done",
         \A q \in Req \ {r} : pc'[q] = pc[q],
         data[file[r].id] # None,
         NEW bytes \in Seq(Nat), PartlyAppended(file[r].id, bytes),
         UNCHANGED <<info, used, file, partsInfo, cursor>>
  PROVE  Inv'
<1> DEFINE i == file[r].id
<1>1. i \in Id \ Foreign /\ data[i] \in Seq(Nat)
  BY AtWork DEF Inv, IdsInv, UsedInv, TypeInv, TypeOK
<1>2. PICK n \in 0..Len(bytes) : data' = [data EXCEPT ![i] = Appended(Opened(i), SubSeq(bytes, 1, n))]
  BY DEF PartlyAppended
<1>3. SubSeq(bytes, 1, n) \in Seq(Nat)
  BY <1>2, SubSeqProperties
<1>4. /\ data'[i] = Appended(data[i], SubSeq(bytes, 1, n))
      /\ \A j \in Id \ {i} : data'[j] = data[j]
  BY <1>1, <1>2 DEF Inv, TypeInv, TypeOK, Opened
<1>5. data'[i] # None /\ Len(data'[i]) >= Len(data[i])
  BY <1>1, <1>3, <1>4, AppendGrows
<1>6. DataKept /\ IdsKept
  BY <1>4, <1>5 DEF DataKept, Grows, IdsKept
<1>7. Backed(r)'
  BY DEF Backed, Reading, Joining
<1> HIDE DEF i
<1>8. Harmless(r)
  BY <1>1, <1>4, <1>5, <1>6, <1>7, IdAssumption DEF Harmless, Reading, Joining
<1> QED BY <1>8, HarmlessInv

(* A failing storage call keeps the invariant. *)
LEMMA FaultInv ==
  ASSUME Inv, TypeInv', NEW r \in Req, Fault(r)
  PROVE  Inv'
<1> USE DEF Fault, stores, telemetry
<1>1. pc'[r] = "done" /\ \A q \in Req \ {r} : pc'[q] = pc[q]
  BY AnswerType DEF Inv, TypeInv
<1>2. CASE UNCHANGED stores
  BY <1>1, <1>2, OnlyEndsInv DEF OnlyEnds
<1>3. CASE pc[r] = "write" /\ data[file[r].id] # None /\ PartlyAppended(file[r].id, body[r]) /\ UNCHANGED info
  <2>1. body[r] \in Seq(Nat)
    BY DEF Inv, TypeInv, TypeOK
  <2> QED BY <1>1, <1>3, <2>1, PartlyAppendedInv
<1>4. CASE pc[r] = "copyPart" /\ data[Part(r)] # None /\ PartlyAppended(file[r].id, data[Part(r)])
           /\ UNCHANGED info
  <2>1. data[Part(r)] \in Seq(Nat) /\ data[file[r].id] # None
    <3>1. Part(r) \in Id /\ Method[r] = "POST"
      BY <1>4, AtPart DEF Inv, Joining
    <3>2. data[file[r].id] # None
      BY <1>4, <3>1, AlonePost
    <3> QED BY <1>4, <3>1, <3>2 DEF Inv, TypeInv, TypeOK
  <2> QED BY <1>1, <1>4, <2>1, PartlyAppendedInv
<1>5. CASE pc[r] = "saving" /\ HalfWritten(file[r].id) /\ UNCHANGED data
  BY <1>1, <1>5, TornInv DEF HalfWritten, Torn
<1> QED BY <1>2, <1>3, <1>4, <1>5

(* A Redis command whose answer is lost did what the command does. *)
LEMMA RedisInv ==
  ASSUME Inv, TypeInv', NEW r \in Req, RedisAnswerLost(r)
  PROVE  Inv'
<1> USE DEF RedisAnswerLost, telemetry
<1>1. pc'[r] = "done" /\ \A q \in Req \ {r} : pc'[q] = pc[q]
  BY AnswerType DEF Inv, TypeInv
<1>2. CASE pc[r] = "save" /\ info' = [info EXCEPT ![file[r].id] = file[r]]
  BY <1>1, <1>2, SaveInv
<1>3. CASE pc[r] = "removeInfo" /\ info' = [info EXCEPT ![file[r].id] = None]
  <2>1. file[r].id \in Id \ Foreign
    BY <1>3, AtWork DEF Inv, IdsInv, UsedInv
  <2> QED BY <1>1, <1>3, <2>1, InfoRemovedInv
<1>4. CASE pc[r] = "dropInfo" /\ info' = [info EXCEPT ![Part(r)] = None]
  <2>1. Part(r) \in Id \ Foreign
    BY <1>4, PartKnown DEF Inv, Joining, ForeignInv
  <2> QED BY <1>1, <1>4, <2>1, InfoRemovedInv
<1> QED BY <1>2, <1>3, <1>4

(* Every way a request enters keeps the invariant. *)
LEMMA ArriveInv ==
  ASSUME Inv, TypeInv', NEW r \in Req, Arrive(r)
  PROVE  Inv'
<1> USE DEF Begins, stores, telemetry
<1>1. ASSUME NEW i \in Id, Visible(i)
      PROVE  info[i] \in FileInfo /\ info[i].id = i /\ i \notin Foreign /\ Readable(i)
  <2>1. info[i] \in FileInfo /\ info[i].id = i /\ Readable(i)
    BY <1>1, FileFields DEF Visible, Inv, TypeInv, TypeOK, IdsInv, UsedInv
  <2>2. ForeignInfo(i).storage # Own
    BY DEF ForeignInfo, Own, OtherStorage
  <2> QED BY <1>1, <2>1, <2>2 DEF Visible, Inv, ForeignInv, ForeignUntouched
<1>2. ASSUME Answer(r, "error"), UNCHANGED <<stores, used, file, body, partsInfo, cursor, gone, telemetry>>
      PROVE  Inv'
  <2>1. \A q \in Req : pc'[q] \in {pc[q], "done"}
    BY <1>2, AnswerType DEF Inv, TypeInv
  <2> QED BY <1>2, <2>1, OnlyEndsInv DEF OnlyEnds
<1>3. ASSUME NEW i \in Id, NEW m \in PatchMsg, PatchAccepted(r, i, m) PROVE Inv'
  <2>1. Visible(i)
    BY <1>3 DEF PatchAccepted, PatchAdmissible
  <2>2. /\ Resized(info[i], m) \in FileInfo /\ Resized(info[i], m).id = i
        /\ Resized(info[i], m).offset = info[i].offset
    <3>1. \A f \in FileInfo : Resized(f, m) \in FileInfo
      BY ResizedType
    <3>2. \A f \in FileInfo : Resized(f, m).id = f.id /\ Resized(f, m).offset = f.offset
      BY DEF Resized, FileInfo
    <3> QED BY <1>1, <2>1, <3>1, <3>2
  <2>3. Takes(r, Resized(info[i], m))
    BY <1>1, <1>3, <2>1, <2>2 DEF Takes, PatchAccepted, Inv, TypeInv, TypeOK
  <2> QED BY <2>2, <2>3, TakesInv
<1>4. ASSUME NEW i \in Id, DeleteAccepted(r, i) \/ GetAccepted(r, i) PROVE Inv'
  <2>1. Visible(i)
    BY <1>4 DEF DeleteAccepted, GetAccepted
  <2>2. Takes(r, info[i])
    BY <1>1, <1>4, <2>1 DEF Takes, DeleteAccepted, GetAccepted, Inv, TypeInv, TypeOK
  <2> QED BY <1>1, <2>1, <2>2, TakesInv
<1>5. ASSUME NEW i \in Id, HeadAnswered(r, i) PROVE Inv'
  <2>1. Visible(i)
    BY <1>5 DEF HeadAnswered
  <2>2. Takes(r, info[i])
    BY <1>1, <1>5, <2>1, AnswerType DEF Takes, HeadAnswered, Inv, TypeInv
  <2> QED BY <1>1, <2>1, <2>2, TakesInv
<1>6. CASE PostRefused(r)
  BY <1>2, <1>6 DEF PostRefused
<1>7. ASSUME NEW i \in Id, PatchRefused(r, i) \/ DeleteRefused(r, i) \/ ReadRefused(r, i) PROVE Inv'
  BY <1>2, <1>7 DEF PatchRefused, DeleteRefused, ReadRefused
<1> QED BY <1>3, <1>4, <1>5, <1>6, <1>7, PostInv DEF Arrive

(* Every storage call of a handler keeps the invariant. *)
LEMMA ProceedInv ==
  ASSUME Inv, TypeInv', NEW r \in Req, Proceed(r)
  PROVE  Inv'
<1> USE DEF stores, telemetry
<1>1. ASSUME Answer(r, "error") \/ Answer(r, "ok"),
             UNCHANGED <<info, data, used, file, partsInfo, cursor>>
      PROVE  Inv'
  <2>1. \A q \in Req : pc'[q] \in {pc[q], "done"}
    BY <1>1, AnswerType DEF Inv, TypeInv
  <2> QED BY <1>1, <2>1, OnlyEndsInv DEF OnlyEnds
<1>2. CASE ReadPart(r)
  BY <1>1, <1>2, ReadPartInv DEF ReadPart
<1>3. CASE CopyPart(r)
  BY <1>1, <1>3, CopyPartInv DEF CopyPart
<1>4. CASE DropFile(r)
  BY <1>1, <1>4, DropFileInv DEF DropFile
<1>5. CASE DropInfo(r)
  BY <1>1, <1>5, DropInfoInv DEF DropInfo
<1>6. CASE AddBytes(r)
  BY <1>1, <1>6, AddBytesInv DEF AddBytes
<1>7. CASE SaveInfo(r)
  <2>1. pc'[r] = "done" /\ \A q \in Req \ {r} : pc'[q] = pc[q]
    BY <1>7, AnswerType DEF SaveInfo, Saved, Inv, TypeInv
  <2> QED BY <1>7, <2>1, SaveInv DEF SaveInfo
<1>8. CASE RemoveInfo(r)
  BY <1>1, <1>8, RemoveInfoInv DEF RemoveInfo
<1>9. CASE RemoveFile(r)
  BY <1>1, <1>9, RemoveFileInv DEF RemoveFile
<1>10. CASE GetContents(r)
  BY <1>1, <1>10 DEF GetContents
<1>11. CASE OpenInfo(r)
  BY <1>1, <1>11, OpenInfoInv DEF OpenInfo
<1> QED BY <1>2, <1>3, <1>4, <1>5, <1>6, <1>7, <1>8, <1>9, <1>10, <1>11, CreateInv, WriteInfoInv
        DEF Proceed

(* Everything that happens to a handler keeps the invariant. *)
LEMMA InterfereInv ==
  ASSUME Inv, TypeInv', NEW r \in Req, Interfere(r)
  PROVE  Inv'
<1> USE DEF stores, telemetry
<1>1. CASE HookRefused(r)
  <2>1. \A q \in Req : pc'[q] \in {pc[q], "done"}
    BY <1>1, AnswerType DEF HookRefused, Inv, TypeInv
  <2> QED BY <1>1, <2>1, OnlyEndsInv DEF HookRefused, OnlyEnds
<1>2. CASE Disconnect(r)
  BY <1>2, OnlyEndsInv DEF Disconnect, OnlyEnds, Inv, TypeInv, TypeOK
<1> QED BY <1>1, <1>2, FaultInv, RedisInv DEF Interfere

(* Inv is inductive. *)
LEMMA NextInv == Inv /\ [Next]_vars => Inv'
<1> SUFFICES ASSUME Inv, [Next]_vars PROVE Inv'
  OBVIOUS
<1>1. TypeInv'
  BY NextTypeInv DEF Inv
<1>2. CASE Crash
  BY <1>1, <1>2, OnlyEndsInv DEF Crash, stores, OnlyEnds
<1>3. ASSUME NEW h \in hooks, Send(h) \/ SendFails(h) PROVE Inv'
  BY <1>1, <1>3, OnlyEndsInv DEF Send, SendFails, stores, handlers, OnlyEnds
<1>4. CASE UNCHANGED vars
  BY <1>1, <1>4, OnlyEndsInv DEF vars, OnlyEnds
<1> QED BY <1>1, <1>2, <1>3, <1>4, ArriveInv, ProceedInv, InterfereInv DEF Next, Quiet

(* The inductive invariant: types, private ids, foreign uploads and coverage. *)
THEOREM Invariance == Spec => []Inv
  BY InitInv, NextInv, PTL DEF Spec

(* The data file never falls behind the offset the server reports: for every *)
(* configuration, any number of clients, and whatever crashes, fails or is   *)
(* dropped between add_bytes and set_info.                                   *)
THEOREM DataCovered == Spec => []DataCoversOffset
<1>1. Inv => DataCoversOffset
  BY DEF Inv, CoverInv
<1> QED BY <1>1, Invariance, PTL

(* No handler changes an upload of another data storage, not even a final    *)
(* upload with remove_parts that names it as a part.                         *)
THEOREM ForeignSafe == Spec => []ForeignUntouched
<1>1. Inv => ForeignUntouched
  BY DEF Inv, ForeignInv
<1> QED BY <1>1, Invariance, PTL

(********************************************************************************)
(* What the file info storage adds: set_info with create = false never brings a *)
(* removed info back.                                                           *)
(********************************************************************************)

(* Every upload of this server is marked as such, and so is what the handlers hold. *)
StorageInv ==
  /\ \A i \in Id \ Foreign : Readable(i) => info[i].storage = Own
  /\ \A r \in Req : file[r] # None => file[r].storage = Own

(* Once terminate has removed the info it stays removed, and so does the data. *)
RemovedInv ==
  \A r \in Req : pc[r] = "removeFile" => info[file[r].id] = None
GoneInv ==
  \A r \in Req : Method[r] = "DELETE" /\ resp[r] = "ok" =>
    pc[r] = "done" /\ file[r] # None /\ info[file[r].id] = None /\ data[file[r].id] = None

(* Every upload with an info file has a data file. *)
FilesKept == \A i \in Id \ Foreign : info[i] # None => data[i] # None

FileInv == Inv /\ StorageInv /\ RemovedInv /\ GoneInv
-----------------------------------------------------------------------------

(* The empty server satisfies the invariant. *)
LEMMA InitFileInv == Init => FileInv
<1> SUFFICES ASSUME Init PROVE FileInv
  OBVIOUS
<1>1. Inv
  BY InitInv
<1>2. StorageInv /\ RemovedInv /\ GoneInv
  BY DEF Init, StorageInv, RemovedInv, GoneInv
<1> QED BY <1>1, <1>2 DEF FileInv

(* All a step does to the storages and to what the handlers hold of them. *)
FilesEffect(r) ==
  /\ file'[r] = file[r] \/ (file'[r].storage = Own /\ pc[r] # "done")
  /\ pc'[r] = "removeFile" =>
       file'[r] = file[r] /\ (pc[r] = "removeFile" \/ info'[file[r].id] = None)
  /\ Method[r] = "DELETE" /\ resp'[r] = "ok" =>
       /\ pc'[r] = "done"
       /\ \/ resp[r] = "ok"
          \/ pc[r] = "removeFile" /\ file'[r] = file[r] /\ info' = info /\ data'[file[r].id] = None
StoresEffect(i) ==
  /\ \/ info'[i] \in {info[i], None}
     \/ \E r \in Req : /\ pc[r] \in {"save", "saving"} /\ file[r].id = i
                       /\ info'[i] \in Torn \cup {file[r]}
                       /\ Method[r] = "POST" \/ info[i] # None
  /\ data[i] = None /\ data'[i] # None => \E r \in Req : Unpublished(r, i)
  /\ data[i] # None /\ data'[i] = None =>
       \/ RemoveParts
       \/ \E r \in Req : pc[r] = "removeFile" /\ file[r].id = i /\ info' = info
FileEffect == (\A r \in Req : FilesEffect(r)) /\ (\A i \in Id : StoresEffect(i))

(* A step with these effects keeps the invariant. *)
LEMMA EffectFileInv ==
  ASSUME FileInv, Inv', FileEffect
  PROVE  FileInv'
<1> USE DEF FileEffect
<1>1. ASSUME NEW r \in Req, NEW i \in Id, Method[r] = "DELETE", Names(r, i), info[i] = None
      PROVE  info'[i] = None /\ (data[i] = None => data'[i] = None)
  <2>1. \A q \in Req : ~Unpublished(q, i)
    BY <1>1 DEF FileInv, Inv, IdsInv, Private, Unpublished
  <2>2. \A q \in Req : pc[q] \in {"save", "saving"} /\ file[q].id = i => Method[q] # "POST"
    BY <2>1 DEF Unpublished
  <2> QED BY <1>1, <2>1, <2>2 DEF StoresEffect
<1>2. StorageInv'
  <2>1. ASSUME NEW i \in Id \ Foreign, Readable(i)' PROVE info'[i].storage = Own
    <3>1. CASE info'[i] = info[i]
      BY <2>1, <3>1 DEF FileInv, StorageInv
    <3>2. ASSUME NEW r \in Req, info'[i] = file[r] PROVE info'[i].storage = Own
      BY <2>1, <3>2 DEF FileInv, StorageInv
    <3> QED BY <2>1, <3>1, <3>2 DEF StoresEffect
  <2>2. ASSUME NEW r \in Req, file'[r] # None PROVE file'[r].storage = Own
    BY <2>2 DEF FilesEffect, FileInv, StorageInv
  <2> QED BY <2>1, <2>2 DEF StorageInv
<1>3. RemovedInv'
  <2> SUFFICES ASSUME NEW r \in Req, pc'[r] = "removeFile" PROVE info'[file'[r].id] = None
    BY DEF RemovedInv
  <2>1. file'[r] = file[r] /\ (pc[r] = "removeFile" \/ info'[file[r].id] = None)
    BY DEF FilesEffect
  <2>2. CASE pc[r] = "removeFile"
    <3>1. file[r].id \in Id /\ Method[r] = "DELETE" /\ Names(r, file[r].id) /\ info[file[r].id] = None
      BY <2>2, AtWork DEF FileInv, Inv, TypeInv, LocalsOK, Names, RemovedInv
    <3> QED BY <1>1, <2>1, <3>1
  <2> QED BY <2>1, <2>2
<1>4. GoneInv'
  <2> SUFFICES ASSUME NEW r \in Req, Method[r] = "DELETE", resp'[r] = "ok"
               PROVE  /\ pc'[r] = "done" /\ file'[r] # None
                      /\ info'[file'[r].id] = None /\ data'[file'[r].id] = None
    BY DEF GoneInv
  <2>1. CASE resp[r] = "ok"
    <3>1. /\ pc[r] = "done" /\ file[r] # None
          /\ info[file[r].id] = None /\ data[file[r].id] = None
      BY <2>1 DEF FileInv, GoneInv
    <3>2. pc'[r] = "done" /\ file'[r] = file[r]
      BY <3>1 DEF FilesEffect
    <3>3. file[r].id \in Id
      BY <3>1, FileFields DEF FileInv, Inv, TypeInv, TypeOK
    <3>4. Names(r, file[r].id)
      BY <3>1 DEF Names
    <3> QED BY <1>1, <3>1, <3>2, <3>3, <3>4
  <2>2. CASE resp[r] # "ok"
    <3>1. /\ pc'[r] = "done" /\ pc[r] = "removeFile" /\ file'[r] = file[r]
          /\ info' = info /\ data'[file[r].id] = None
      BY <2>2 DEF FilesEffect
    <3>2. file[r] # None /\ info[file[r].id] = None
      BY <3>1, AtWork DEF FileInv, Inv, RemovedInv
    <3> QED BY <3>1, <3>2
  <2> QED BY <2>1, <2>2
<1> QED BY <1>2, <1>3, <1>4 DEF FileInv

(* The handlers that are not at work in a step. *)
Elsewhere(r) ==
  \A q \in Req \ {r} : pc'[q] = pc[q] /\ file'[q] = file[q] /\ resp'[q] = resp[q]

(* A step of r that leaves the other handlers alone has its own effects only. *)
LEMMA OthersEffect ==
  ASSUME FileInv, NEW r \in Req, Elsewhere(r), FilesEffect(r), \A i \in Id : StoresEffect(i)
  PROVE  FileEffect
  BY DEF Elsewhere, FilesEffect, FileEffect, FileInv, GoneInv

(* A handler that ends without having touched a storage. *)
LEMMA AnswerEffect ==
  ASSUME FileInv, NEW r \in Req, NEW a \in {"ok", "error"}, Answer(r, a),
         a = "error" \/ Method[r] # "DELETE",
         UNCHANGED <<info, data>>,
         file'[r] = file[r] \/ (file'[r].storage = Own /\ pc[r] # "done"),
         \A q \in Req \ {r} : file'[q] = file[q]
  PROVE  FileEffect
<1>1. /\ pc'[r] = "done" /\ resp'[r] \in {a, "none"}
      /\ \A q \in Req \ {r} : pc'[q] = pc[q] /\ resp'[q] = resp[q]
  BY DEF Answer, FileInv, Inv, TypeInv, TypeOK
<1>2. FilesEffect(r)
  BY <1>1 DEF FilesEffect
<1>3. \A i \in Id : StoresEffect(i)
  BY DEF StoresEffect
<1> QED BY <1>1, <1>2, <1>3, OthersEffect DEF Elsewhere

(* A step that leaves the storages and what handlers hold alone has the effects. *)
LEMMA QuietEffect ==
  ASSUME FileInv, UNCHANGED <<info, data, file, resp>>, \A q \in Req : pc'[q] \in {pc[q], "done"}
  PROVE  FileEffect
<1>1. \A i \in Id : StoresEffect(i)
  BY DEF StoresEffect
<1>2. \A r \in Req : FilesEffect(r)
  BY DEF FilesEffect, FileInv, GoneInv
<1> QED BY <1>1, <1>2 DEF FileEffect

(* The storages stay as they are while a handler starts or goes on. *)
LEMMA GoEffect ==
  ASSUME FileInv, NEW r \in Req, Elsewhere(r), UNCHANGED <<info, data, resp>>,
         pc[r] # "done", pc'[r] # "removeFile", file'[r] = file[r] \/ file'[r].storage = Own
  PROVE  FileEffect
<1>1. \A i \in Id : StoresEffect(i)
  BY DEF StoresEffect
<1>2. FilesEffect(r)
  BY DEF FilesEffect, FileInv, GoneInv
<1> QED BY <1>1, <1>2, OthersEffect

(* A request that enters takes an info of this server, or a new one. *)
LEMMA ArriveFiles ==
  ASSUME FileInv, NEW r \in Req, Arrive(r)
  PROVE  FileEffect
<1> USE DEF Begins, stores, telemetry
<1>1. CASE PostRefused(r)
  BY <1>1, AnswerEffect DEF PostRefused
<1>2. ASSUME NEW i \in Id, PatchRefused(r, i) \/ DeleteRefused(r, i) \/ ReadRefused(r, i) PROVE FileEffect
  BY <1>2, AnswerEffect DEF PatchRefused, DeleteRefused, ReadRefused
<1>3. ASSUME NEW i \in Id, NEW m \in PostMsg, PostAccepted(r, i, m) PROVE FileEffect
  <2>1. NewFileInfo(i, m).storage = Own
    BY DEF NewFileInfo
  <2> QED BY <1>3, <2>1, GoEffect DEF PostAccepted, Elsewhere, FileInv, Inv, TypeInv, TypeOK
<1>4. ASSUME NEW i \in Id, NEW m \in PatchMsg, PatchAccepted(r, i, m) PROVE FileEffect
  <2>1. info[i] \in FileInfo /\ info[i].storage = Own
    BY <1>4 DEF PatchAccepted, PatchAdmissible, Visible, FileInv, Inv, TypeInv, TypeOK
  <2>2. \A f \in FileInfo : Resized(f, m).storage = f.storage
    BY DEF Resized, FileInfo
  <2>3. Resized(info[i], m).storage = Own
    BY <2>1, <2>2
  <2> QED BY <1>4, <2>3, GoEffect DEF PatchAccepted, Elsewhere, FileInv, Inv, TypeInv, TypeOK
<1>5. ASSUME NEW i \in Id, DeleteAccepted(r, i) \/ GetAccepted(r, i) PROVE FileEffect
  BY <1>5, GoEffect DEF DeleteAccepted, GetAccepted, Visible, Elsewhere, FileInv, Inv, TypeInv, TypeOK
<1>6. ASSUME NEW i \in Id, HeadAnswered(r, i) PROVE FileEffect
  <2>1. /\ file'[r].storage = Own /\ pc[r] # "done" /\ Method[r] # "DELETE"
        /\ \A q \in Req \ {r} : file'[q] = file[q]
    BY <1>6 DEF HeadAnswered, Visible, FileInv, Inv, TypeInv, TypeOK
  <2> QED BY <1>6, <2>1, AnswerEffect DEF HeadAnswered
<1> QED BY <1>1, <1>2, <1>3, <1>4, <1>5, <1>6 DEF Arrive

(* One data file changes: a POST creates it or a handler adds bytes to it ... *)
LEMMA WriteEffect ==
  ASSUME FileInv, NEW r \in Req, Elsewhere(r), NEW i \in Id, NEW bytes, bytes # None,
         data' = [data EXCEPT ![i] = bytes], data[i] # None \/ Unpublished(r, i),
         UNCHANGED info, FilesEffect(r)
  PROVE  FileEffect
<1>1. data'[i] = bytes /\ \A j \in Id \ {i} : data'[j] = data[j]
  BY DEF FileInv, Inv, TypeInv, TypeOK
<1>2. \A j \in Id : StoresEffect(j)
  BY <1>1 DEF StoresEffect
<1> QED BY <1>2, OthersEffect

(* ... or one info is removed. *)
LEMMA RemoveEffect ==
  ASSUME FileInv, NEW r \in Req, Elsewhere(r), NEW i \in Id,
         info' = [info EXCEPT ![i] = None], UNCHANGED data, FilesEffect(r)
  PROVE  FileEffect
<1>1. \A j \in Id : StoresEffect(j)
  BY DEF StoresEffect, FileInv, Inv, TypeInv, TypeOK
<1> QED BY <1>1, OthersEffect

(* A handler that goes on leaves the other handlers alone. *)
LEMMA GoElsewhere ==
  ASSUME FileInv, NEW r \in Req, NEW next \in Pcs, GoTo(r, next), UNCHANGED resp,
         \A q \in Req \ {r} : file'[q] = file[q]
  PROVE  Elsewhere(r) /\ pc'[r] \in {next, "done"}
  BY DEF GoTo, Elsewhere, FileInv, Inv, TypeInv, TypeOK

(* A handler that answers leaves the other handlers alone. *)
LEMMA AnswerElsewhere ==
  ASSUME FileInv, NEW r \in Req, NEW a \in {"ok", "error"}, Answer(r, a), UNCHANGED file
  PROVE  Elsewhere(r) /\ pc'[r] = "done" /\ resp'[r] \in {a, "none"}
  BY DEF Answer, Elsewhere, FileInv, Inv, TypeInv, TypeOK

(* A handler that goes on while it changes a storage. *)
LEMMA GoFilesEffect ==
  ASSUME FileInv, NEW r \in Req, InFlight(r), UNCHANGED resp,
         file'[r] = file[r] \/ file'[r].storage = Own,
         pc'[r] = "removeFile" => file'[r] = file[r] /\ info'[file[r].id] = None
  PROVE  FilesEffect(r)
  BY DEF FilesEffect, FileInv, GoneInv

(* Every storage call has only these effects. *)
LEMMA ProceedFiles ==
  ASSUME InfoKind = "file", FileInv, TypeInv', NEW r \in Req, Proceed(r)
  PROVE  FileEffect
<1> USE DEF stores, telemetry
<1>1. ASSUME Answer(r, "error"), UNCHANGED <<info, data, file>> PROVE FileEffect
  BY <1>1, AnswerEffect
<1>2. InFlight(r) => /\ file[r] \in FileInfo /\ file[r].id \in Id /\ file[r] # None
                     /\ file[r].storage = Own
  BY AtWork DEF FileInv, Inv, StorageInv
<1>3. CASE CreateFile(r)
  <2>1. Method[r] = "POST" /\ InFlight(r) /\ UNCHANGED <<info, resp, file>>
    BY <1>3 DEF CreateFile, FileInv, Inv, TypeInv, LocalsOK
  <2>2. Elsewhere(r) /\ pc'[r] # "removeFile"
    BY <1>3 DEF CreateFile, GoTo, Elsewhere, FileInv, Inv, TypeInv, TypeOK
  <2>3. <<>> # None
    <3>1. <<>> \in Seq(Nat)
      OBVIOUS
    <3> QED BY <3>1, NoneAssumption, Zenon
  <2>4. FilesEffect(r)
    BY <2>1, <2>2, GoFilesEffect
  <2> QED BY <1>2, <1>3, <2>1, <2>2, <2>3, <2>4, WriteEffect DEF CreateFile, Unpublished
<1>4. CASE ReadPart(r) /\ PartAcceptable(info[Part(r)])
  <2>1. Elsewhere(r) /\ pc'[r] # "removeFile" /\ pc[r] # "done" /\ UNCHANGED <<info, data, resp, file>>
    BY <1>4 DEF ReadPart, GoTo, Elsewhere, FileInv, Inv, TypeInv, TypeOK
  <2> QED BY <2>1, GoEffect
<1>5. CASE CopyPart(r) /\ data[Part(r)] # None
  <2>1. /\ InFlight(r) /\ Method[r] = "POST" /\ data[file[r].id] # None /\ Part(r) \in Id
        /\ UNCHANGED <<info, resp>>
    BY <1>5, AtPart, AlonePost DEF CopyPart, FileInv, Inv, Joining
  <2>2. Elsewhere(r) /\ pc'[r] # "removeFile" /\ file'[r] = Joined(r)
    BY <1>2, <1>5 DEF CopyPart, GoTo, Elsewhere, FileInv, Inv, TypeInv, TypeOK
  <2>3. file'[r].storage = Own
    BY <1>2, <2>1, <2>2 DEF Joined, FileInfo
  <2>4. Appended(Opened(file[r].id), data[Part(r)]) # None
    BY <1>2, <1>5, <2>1, AppendGrows DEF Opened, FileInv, Inv, TypeInv, TypeOK
  <2>5. FilesEffect(r)
    BY <2>1, <2>2, <2>3, GoFilesEffect
  <2> QED BY <1>2, <1>5, <2>1, <2>2, <2>4, <2>5, WriteEffect DEF CopyPart
<1>6. CASE DropFile(r) /\ data[Part(r)] # None
  <2>1. InFlight(r) /\ RemoveParts /\ Part(r) \in Id /\ UNCHANGED <<info, resp, file>>
    BY <1>6, AtPart DEF DropFile, FileInv, Inv, TypeInv, LocalsOK, Joining
  <2>2. Elsewhere(r) /\ pc'[r] # "removeFile"
    BY <1>6 DEF DropFile, GoTo, Elsewhere, FileInv, Inv, TypeInv, TypeOK
  <2>3. FilesEffect(r)
    BY <2>1, <2>2, GoFilesEffect
  <2>4. \A j \in Id : StoresEffect(j)
    BY <1>6, <2>1 DEF StoresEffect, DropFile, FileInv, Inv, TypeInv, TypeOK
  <2> QED BY <2>2, <2>3, <2>4, OthersEffect
<1>7. CASE DropInfo(r) /\ info[Part(r)] # None
  <2>1. InFlight(r) /\ Part(r) \in Id /\ UNCHANGED <<data, resp, file>>
    BY <1>7, AtPart DEF DropInfo, FileInv, Inv, Joining
  <2>2. Elsewhere(r) /\ pc'[r] # "removeFile"
    BY <1>7 DEF DropInfo, GoTo, Elsewhere, FileInv, Inv, TypeInv, TypeOK
  <2>3. FilesEffect(r)
    BY <2>1, <2>2, GoFilesEffect
  <2> QED BY <1>7, <2>1, <2>2, <2>3, RemoveEffect DEF DropInfo
<1>8. CASE AddBytes(r) /\ data[file[r].id] # None
  <2>1. /\ InFlight(r) /\ UNCHANGED <<info, resp>>
        /\ data' = [data EXCEPT ![file[r].id] = Appended(data[file[r].id], body[r])]
    BY <1>8 DEF AddBytes
  <2>2. /\ Elsewhere(r) /\ pc'[r] # "removeFile"
        /\ file'[r] = [file[r] EXCEPT !.offset = file[r].offset + Len(body[r])]
    BY <1>8 DEF AddBytes, GoTo, Elsewhere, FileInv, Inv, TypeInv, TypeOK
  <2>3. file'[r].storage = Own
    BY <1>2, <2>1, <2>2 DEF FileInfo
  <2>4. Appended(data[file[r].id], body[r]) # None
    BY <1>2, <1>8, <2>1, AppendGrows DEF FileInv, Inv, TypeInv, TypeOK
  <2>5. FilesEffect(r)
    BY <2>1, <2>2, <2>3, GoFilesEffect
  <2> QED BY <1>2, <1>8, <2>1, <2>2, <2>4, <2>5, WriteEffect
<1>9. CASE OpenInfo(r) /\ Openable(r)
  <2>1. /\ InFlight(r) /\ pc[r] = "save" /\ UNCHANGED <<data, file, resp>>
        /\ info' = [info EXCEPT ![file[r].id] = Empty]
        /\ pc' = [pc EXCEPT ![r] = "saving"]
    BY <1>9 DEF OpenInfo
  <2>2. Method[r] = "POST" \/ info[file[r].id] # None
    BY <1>9 DEF Openable
  <2>3. Elsewhere(r) /\ pc'[r] # "removeFile"
    BY <2>1 DEF Elsewhere, FileInv, Inv, TypeInv, TypeOK
  <2>4. FilesEffect(r)
    BY <2>1, <2>3, GoFilesEffect
  <2>5. ASSUME NEW i \in Id PROVE StoresEffect(i)
    BY <1>2, <2>1, <2>2 DEF StoresEffect, Torn, FileInv, Inv, TypeInv, TypeOK
  <2> QED BY <2>3, <2>4, <2>5, OthersEffect
<1>21. CASE WriteInfo(r)
  <2>1. /\ Elsewhere(r) /\ pc'[r] = "done" /\ pc[r] = "saving" /\ UNCHANGED <<data, file>>
    BY <1>21, AnswerElsewhere DEF WriteInfo, Saved
  <2>2. PICK content \in Written(file[r].id, file[r]) : info' = [info EXCEPT ![file[r].id] = content]
    BY <1>21 DEF WriteInfo
  <2>3. content \in {info[file[r].id], None} \/ (content \in Torn \cup {file[r]} /\ info[file[r].id] # None)
    BY <1>2, <2>1, <2>2, TornAssumption DEF Written, Torn, InFlight
  <2>4. Method[r] # "DELETE"
    BY <2>1 DEF FileInv, Inv, TypeInv, LocalsOK
  <2>5. FilesEffect(r)
    BY <2>1, <2>4 DEF FilesEffect
  <2>6. ASSUME NEW i \in Id PROVE StoresEffect(i)
    BY <1>2, <2>1, <2>2, <2>3 DEF StoresEffect, FileInv, Inv, TypeInv, TypeOK
  <2> QED BY <2>1, <2>5, <2>6, OthersEffect
<1>10. CASE RemoveInfo(r) /\ info[file[r].id] # None
  <2>1. InFlight(r) /\ UNCHANGED <<data, resp, file>> /\ info' = [info EXCEPT ![file[r].id] = None]
    BY <1>10 DEF RemoveInfo
  <2>2. Elsewhere(r) /\ info'[file[r].id] = None
    BY <1>2, <1>10, <2>1 DEF RemoveInfo, GoTo, Elsewhere, FileInv, Inv, TypeInv, TypeOK
  <2>3. FilesEffect(r)
    BY <2>1, <2>2, GoFilesEffect
  <2> QED BY <1>2, <2>1, <2>2, <2>3, RemoveEffect
<1>11. CASE RemoveFile(r) /\ data[file[r].id] # None
  <2>1. /\ Elsewhere(r) /\ pc'[r] = "done" /\ pc[r] = "removeFile" /\ UNCHANGED <<info, file>>
        /\ data' = [data EXCEPT ![file[r].id] = None]
    BY <1>11, AnswerElsewhere DEF RemoveFile
  <2>2. data'[file[r].id] = None /\ \A j \in Id \ {file[r].id} : data'[j] = data[j]
    BY <1>2, <2>1 DEF FileInv, Inv, TypeInv, TypeOK
  <2>3. FilesEffect(r)
    BY <2>1, <2>2 DEF FilesEffect
  <2>4. \A i \in Id : StoresEffect(i)
    BY <2>1, <2>2 DEF StoresEffect
  <2> QED BY <2>1, <2>3, <2>4, OthersEffect
<1>12. CASE GetContents(r)
  <2>1. Method[r] = "GET" /\ UNCHANGED <<info, data, file>> /\ (Answer(r, "ok") \/ Answer(r, "error"))
    BY <1>12 DEF GetContents, FileInv, Inv, TypeInv, LocalsOK
  <2> QED BY <2>1, AnswerEffect
<1>13. CASE ReadPart(r) /\ ~PartAcceptable(info[Part(r)])
  BY <1>1, <1>13 DEF ReadPart
<1>14. CASE CopyPart(r) /\ data[Part(r)] = None
  BY <1>1, <1>14 DEF CopyPart
<1>15. CASE DropFile(r) /\ data[Part(r)] = None
  BY <1>1, <1>15 DEF DropFile
<1>16. CASE DropInfo(r) /\ info[Part(r)] = None
  BY <1>1, <1>16 DEF DropInfo
<1>17. CASE AddBytes(r) /\ data[file[r].id] = None
  BY <1>1, <1>17 DEF AddBytes
<1>18. CASE OpenInfo(r) /\ ~Openable(r)
  BY <1>1, <1>18 DEF OpenInfo
<1>19. CASE RemoveInfo(r) /\ info[file[r].id] = None
  BY <1>1, <1>19 DEF RemoveInfo
<1>20. CASE RemoveFile(r) /\ data[file[r].id] = None
  BY <1>1, <1>20 DEF RemoveFile
<1> QED BY <1>3, <1>4, <1>5, <1>6, <1>7, <1>8, <1>9, <1>10, <1>11, <1>12, <1>13, <1>14, <1>15,
           <1>16, <1>17, <1>18, <1>19, <1>20, <1>21 DEF Proceed, SaveInfo

(* Everything that happens to a handler has only these effects. *)
LEMMA InterfereFiles ==
  ASSUME InfoKind = "file", FileInv, NEW r \in Req, Interfere(r)
  PROVE  FileEffect
<1> USE DEF stores, telemetry
<1>1. CASE HookRefused(r)
  BY <1>1, AnswerEffect DEF HookRefused
<1>2. CASE Disconnect(r)
  BY <1>2, QuietEffect DEF Disconnect, FileInv, Inv, TypeInv, TypeOK
<1>3. ASSUME Fault(r), NEW bytes \in Seq(Nat), data[file[r].id] # None, UNCHANGED info,
             PartlyAppended(file[r].id, bytes)
      PROVE  FileEffect
  <2> DEFINE i == file[r].id
  <2>1. InFlight(r) /\ Answer(r, "error") /\ UNCHANGED <<info, file>>
    BY <1>3 DEF Fault
  <2>2. i \in Id /\ data[i] \in Seq(Nat)
    BY <1>3, <2>1, AtWork DEF FileInv, Inv, TypeInv, TypeOK
  <2>3. PICK n \in 0..Len(bytes) : data' = [data EXCEPT ![i] = Appended(Opened(i), SubSeq(bytes, 1, n))]
    BY <1>3 DEF PartlyAppended
  <2>4. SubSeq(bytes, 1, n) \in Seq(Nat)
    BY <2>3, SubSeqProperties
  <2>5. Appended(Opened(i), SubSeq(bytes, 1, n)) # None
    BY <1>3, <2>2, <2>4, AppendGrows DEF Opened
  <2>6. Elsewhere(r) /\ FilesEffect(r)
    BY <2>1, AnswerElsewhere DEF FilesEffect
  <2> QED BY <1>3, <2>1, <2>2, <2>3, <2>5, <2>6, WriteEffect
<1>4. CASE Fault(r)
  <2>1. CASE UNCHANGED <<info, data>>
    BY <1>4, <2>1, AnswerEffect DEF Fault
  <2>2. CASE pc[r] = "write" /\ data[file[r].id] # None /\ PartlyAppended(file[r].id, body[r])
             /\ UNCHANGED info
    <3>1. body[r] \in Seq(Nat)
      BY DEF FileInv, Inv, TypeInv, TypeOK
    <3> QED BY <1>3, <1>4, <2>2, <3>1
  <2>3. CASE pc[r] = "copyPart" /\ data[Part(r)] # None /\ PartlyAppended(file[r].id, data[Part(r)])
             /\ UNCHANGED info
    <3>1. Part(r) \in Id /\ Method[r] = "POST"
      BY <2>3, AtPart DEF FileInv, Inv, Joining
    <3>2. data[Part(r)] \in Seq(Nat) /\ data[file[r].id] # None
      BY <2>3, <3>1, AlonePost DEF FileInv, Inv, TypeInv, TypeOK
    <3> QED BY <1>3, <1>4, <2>3, <3>2
  <2>4. CASE pc[r] = "saving" /\ HalfWritten(file[r].id) /\ UNCHANGED data
    <3>1. /\ Elsewhere(r) /\ pc'[r] = "done" /\ resp'[r] # "ok" /\ UNCHANGED file
      BY <1>4, AnswerElsewhere DEF Fault
    <3>2. FilesEffect(r)
      BY <2>4, <3>1 DEF FilesEffect
    <3>3. ASSUME NEW i \in Id PROVE StoresEffect(i)
      BY <2>4 DEF HalfWritten, StoresEffect, Torn, FileInv, Inv, TypeInv, TypeOK
    <3> QED BY <3>1, <3>2, <3>3, OthersEffect
  <2> QED BY <1>4, <2>1, <2>2, <2>3, <2>4 DEF Fault
<1> QED BY <1>1, <1>2, <1>4 DEF Interfere, RedisAnswerLost

(* Every step has only these effects. *)
LEMMA NextFiles ==
  ASSUME InfoKind = "file", FileInv, TypeInv', [Next]_vars
  PROVE  FileEffect
<1>1. CASE Crash
  BY <1>1, QuietEffect DEF Crash, stores
<1>2. ASSUME NEW h \in hooks, Send(h) \/ SendFails(h) PROVE FileEffect
  BY <1>2, QuietEffect DEF Send, SendFails, stores, handlers
<1>3. CASE UNCHANGED vars
  BY <1>3, QuietEffect DEF vars
<1> QED BY <1>1, <1>2, <1>3, ArriveFiles, ProceedFiles, InterfereFiles DEF Next, Quiet

(* FileInv is inductive. *)
LEMMA NextFileInv ==
  ASSUME InfoKind = "file"
  PROVE  FileInv /\ [Next]_vars => FileInv'
<1> SUFFICES ASSUME FileInv, [Next]_vars PROVE FileInv'
  OBVIOUS
<1>1. Inv' /\ TypeInv'
  BY NextInv DEF FileInv, Inv
<1>2. FileEffect
  BY <1>1, NextFiles
<1> QED BY <1>1, <1>2, EffectFileInv

(* No step takes the file of an upload that still has its info, readable or not. *)
LEMMA NextFilesKept ==
  ASSUME InfoKind = "file", ~RemoveParts
  PROVE  FileInv /\ FilesKept /\ [Next]_vars => FilesKept'
<1> SUFFICES ASSUME FileInv, FilesKept, [Next]_vars,
                    NEW i \in Id \ Foreign, info'[i] # None, data'[i] = None
             PROVE  FALSE
  BY DEF FilesKept
<1>1. TypeInv'
  BY NextInv DEF FileInv, Inv
<1>2. StoresEffect(i)
  BY <1>1, NextFiles DEF FileEffect
<1>3. data[i] # None
  <2>1. ASSUME NEW r \in Req, pc[r] \in {"save", "saving"}, file[r].id = i, Method[r] = "POST"
        PROVE  data[i] # None
    BY <2>1, AlonePost DEF FileInv
  <2> QED BY <1>2, <2>1 DEF StoresEffect, FilesKept
<1>4. PICK r \in Req : pc[r] = "removeFile" /\ file[r].id = i /\ info' = info
  BY <1>2, <1>3 DEF StoresEffect
<1> QED BY <1>4 DEF FileInv, RemovedInv

(* File info storage.  After terminate answered 204 neither info nor data of *)
(* the upload exist, now or later, whatever PATCH requests were under way.   *)
THEOREM TerminatedStaysGone ==
  ASSUME InfoKind = "file"
  PROVE  Spec => []TerminatedIsGone
<1>1. FileInv => TerminatedIsGone
  BY DEF FileInv, GoneInv, TerminatedIsGone
<1>2. FileInv /\ [Next]_vars => FileInv'
  BY NextFileInv
<1> QED BY <1>1, <1>2, InitFileInv, PTL DEF Spec

(* File info storage, remove_parts off.  An upload the server still knows    *)
(* has its data file: it can be resumed, read and terminated.                *)
THEOREM InfoKeepsData ==
  ASSUME InfoKind = "file", ~RemoveParts
  PROVE  Spec => []InfoHasData
<1>1. Init => FilesKept
  BY DEF Init, FilesKept
<1>2. FileInv /\ [Next]_vars => FileInv'
  BY NextFileInv
<1>3. FileInv /\ FilesKept /\ [Next]_vars => FilesKept'
  BY NextFilesKept
<1>4. FileInv /\ FilesKept => InfoHasData
  <2> SUFFICES ASSUME FileInv, FilesKept, NEW i \in Id, Visible(i) PROVE data[i] # None
    BY DEF InfoHasData
  <2>1. CASE i \in Foreign
    <3>1. ForeignInfo(i).storage # Own
      BY DEF ForeignInfo, Own, OtherStorage
    <3>2. info[i] = ForeignInfo(i)
      BY <2>1 DEF FileInv, Inv, ForeignInv, ForeignUntouched
    <3> QED BY <3>1, <3>2 DEF Visible
  <2> QED BY <2>1 DEF FilesKept, Visible
<1> QED BY <1>1, <1>2, <1>3, <1>4, InitFileInv, PTL DEF Spec
=============================================================================

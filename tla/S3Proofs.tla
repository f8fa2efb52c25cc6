------------------------------ MODULE S3Proofs ------------------------------
(***************************************************************************)
(* Theorems about S3Server, for every set of ids and requests, every       *)
(* configuration and every environment: requests race, are dropped, calls  *)
(* fail after S3 has executed them, and the server is restarted.  Clients  *)
(* are those of S3Server, which leave the keys of the storage alone.       *)
(*                                                                         *)
(* The argument: an upload has one multipart upload in its life, and it is *)
(* completed at most once.  While it is open nobody holds the upload as    *)
(* complete (OpenIncomplete); the one request that completed it makes the  *)
(* object and is alone in holding the upload as complete until it saved    *)
(* the info (OnePending); from then on nothing can make another object.    *)
(***************************************************************************)
EXTENDS S3Server, UploadTypeProofs, WellFoundedInduction

(***************************************************************************)
(* The joined parts.  FlattenSeq is defined by a recursive function; these *)
(* lemmas establish its equation, by induction over the numbers.           *)
(***************************************************************************)

(* A set that holds 0 and with every number the next one holds all numbers. *)
LEMMA AllNumbers ==
  ASSUME NEW S, 0 \in S, \A n \in Nat : n \in S => n + 1 \in S
  PROVE  Nat \subseteq S
<1> DEFINE T == Nat \ S
<1> SUFFICES ASSUME T # {} PROVE FALSE
  OBVIOUS
<1>1. PICK x \in T : \A y \in T : ~(<<y, x>> \in OpToRel(<, Nat))
  BY WFMin, NatLessThanWellFounded, Zenon
<1>2. x \in Nat /\ x \notin S /\ x # 0 /\ x - 1 \in Nat
  OBVIOUS
<1>3. x - 1 \notin S
  BY <1>2
<1>4. <<x - 1, x>> \in OpToRel(<, Nat)
  BY <1>2 DEF OpToRel
<1> QED BY <1>1, <1>2, <1>3, <1>4

(* f[k] joins the first k pieces of m, for k up to n. *)
Joins(f, m, n) ==
  f = [k \in 1..n |-> IF k = 1 THEN m[k] ELSE f[k - 1] \o m[k]]

(* The function that FlattenSeq is defined by. *)
Joinings(m) == CHOOSE f : Joins(f, m, Len(m))

(* FlattenSeq takes the last of its joinings. *)
LEMMA FlattenByJoins ==
  ASSUME NEW m
  PROVE  FlattenSeq(m) = IF Len(m) = 0 THEN m ELSE Joinings(m)[Len(m)]
  BY DEF FlattenSeq, Joinings, Joins

(* There are such joinings, of any number of pieces. *)
LEMMA JoinsExists ==
  ASSUME NEW m, NEW n \in Nat
  PROVE  \E f : Joins(f, m, n)
<1> DEFINE S == {k \in Nat : \E f : Joins(f, m, k)}
<1>1. 0 \in S
  <2>1. Joins([k \in 1..0 |-> IF k = 1 THEN m[k] ELSE <<>>], m, 0)
    BY DEF Joins
  <2> QED BY <2>1
<1>2. ASSUME NEW k \in Nat, k \in S PROVE k + 1 \in S
  <2>1. PICK f : Joins(f, m, k)
    BY <1>2
  <2> DEFINE g == [j \in 1..(k + 1) |-> IF j = k + 1
                                        THEN IF j = 1 THEN m[j] ELSE f[k] \o m[j]
                                        ELSE f[j]]
  <2>2. \A j \in 1..k : f[j] = IF j = 1 THEN m[j] ELSE f[j - 1] \o m[j]
    BY <2>1 DEF Joins
  <2>3. \A j \in 1..(k + 1) : g[j] = IF j = 1 THEN m[j] ELSE g[j - 1] \o m[j]
    <3> SUFFICES ASSUME NEW j \in 1..(k + 1) PROVE g[j] = IF j = 1 THEN m[j] ELSE g[j - 1] \o m[j]
      OBVIOUS
    <3>1. CASE j = k + 1
      BY <3>1
    <3>2. CASE j \in 1..k
      BY <2>2, <3>2
    <3> QED BY <3>1, <3>2
  <2>4. Joins(g, m, k + 1)
    BY <2>3 DEF Joins
  <2> QED BY <2>4
<1> HIDE DEF S
<1>3. n \in S
  BY <1>1, <1>2, AllNumbers, Zenon
<1> QED BY <1>3 DEF S

(* Each joining adds a piece to the one before. *)
LEMMA JoinsValues ==
  ASSUME NEW f, NEW m, NEW n \in Nat, Joins(f, m, n), NEW k \in Nat, k + 1 \in 1..n
  PROVE  f[k + 1] = IF k = 0 THEN m[1] ELSE f[k] \o m[k + 1]
<1>1. \A j \in 1..n : f[j] = IF j = 1 THEN m[j] ELSE f[j - 1] \o m[j]
  BY DEF Joins
<1>2. (k + 1) - 1 = k /\ (k + 1 = 1 <=> k = 0)
  OBVIOUS
<1> QED BY <1>1, <1>2

(* Lists that agree on the first n pieces have the same first n joinings. *)
LEMMA JoinsUnique ==
  ASSUME NEW f, NEW g, NEW m, NEW s, NEW n \in Nat, Joins(f, m, n + 1), Joins(g, s, n),
         \A k \in 1..n : m[k] = s[k]
  PROVE  \A k \in 1..n : f[k] = g[k]
<1> DEFINE S == {k \in Nat : k \in 1..n => f[k] = g[k]}
<1>1. 0 \in S
  OBVIOUS
<1>2. ASSUME NEW k \in Nat, k \in S, k + 1 \in 1..n PROVE f[k + 1] = g[k + 1]
  <2>1. f[k + 1] = IF k = 0 THEN m[1] ELSE f[k] \o m[k + 1]
    BY <1>2, JoinsValues
  <2>2. g[k + 1] = IF k = 0 THEN s[1] ELSE g[k] \o s[k + 1]
    BY <1>2, JoinsValues
  <2>3. k # 0 => f[k] = g[k]
    BY <1>2
  <2> QED BY <1>2, <2>1, <2>2, <2>3
<1>3. \A k \in Nat : k \in S => k + 1 \in S
  BY <1>2
<1> HIDE DEF S
<1>4. Nat \subseteq S
  BY <1>1, <1>3, AllNumbers, Zenon
<1> QED BY <1>4 DEF S

(* The joinings of bytes are bytes. *)
LEMMA JoinedBytes ==
  ASSUME NEW f, NEW n \in Nat, NEW m \in Seq(Seq(Nat)), n <= Len(m), Joins(f, m, n)
  PROVE  \A k \in 1..n : f[k] \in Seq(Nat)
<1> DEFINE S == {k \in Nat : k \in 1..n => f[k] \in Seq(Nat)}
<1>1. 0 \in S
  OBVIOUS
<1>2. ASSUME NEW k \in Nat, k \in S, k + 1 \in 1..n PROVE f[k + 1] \in Seq(Nat)
  <2>1. f[k + 1] = IF k = 0 THEN m[1] ELSE f[k] \o m[k + 1]
    BY <1>2, JoinsValues
  <2>2. m[k + 1] \in Seq(Nat)
    BY <1>2
  <2>3. k # 0 => f[k] \in Seq(Nat)
    BY <1>2
  <2>4. k # 0 => f[k] \o m[k + 1] \in Seq(Nat)
    BY <2>2, <2>3, ConcatProperties
  <2> QED BY <2>1, <2>2, <2>4
<1>3. ASSUME NEW k \in Nat, k \in S PROVE k + 1 \in S
  <2>1. CASE k + 1 \in 1..n
    <3>1. k + 1 \in Nat
      OBVIOUS
    <3> HIDE DEF S
    <3>2. f[k + 1] \in Seq(Nat)
      BY <1>2, <1>3, <2>1
    <3> QED BY <3>1, <3>2 DEF S
  <2>2. CASE k + 1 \notin 1..n
    BY <2>2
  <2> QED BY <2>1, <2>2
<1> HIDE DEF S
<1>4. Nat \subseteq S
  BY <1>1, <1>3, AllNumbers, Zenon
<1> QED BY <1>4 DEF S

(* No parts hold no bytes. *)
LEMMA FlattenEmpty == FlattenSeq(<<>>) = <<>>
<1>1. Len(<<>>) = 0
  OBVIOUS
<1> QED BY <1>1, FlattenByJoins

(* Parts of bytes hold bytes. *)
LEMMA FlattenType ==
  ASSUME NEW m \in Seq(Seq(Nat))
  PROVE  FlattenSeq(m) \in Seq(Nat)
<1>1. CASE Len(m) = 0
  BY <1>1, FlattenByJoins, EmptySeq
<1>2. CASE Len(m) # 0
  <2>1. Len(m) \in Nat /\ Len(m) \in 1..Len(m)
    BY <1>2
  <2>2. Joins(Joinings(m), m, Len(m))
    BY <2>1, JoinsExists DEF Joinings
  <2>3. Joinings(m)[Len(m)] \in Seq(Nat)
    BY <2>1, <2>2, JoinedBytes
  <2> QED BY <1>2, <2>3, FlattenByJoins
<1> QED BY <1>1, <1>2

(* One more part adds its bytes at the end. *)
LEMMA FlattenAppend ==
  ASSUME NEW m \in Seq(Seq(Nat)), NEW b \in Seq(Nat)
  PROVE  FlattenSeq(Append(m, b)) = FlattenSeq(m) \o b
<1> DEFINE n == Len(m)
           s == Append(m, b)
<1>1. /\ n \in Nat /\ Len(s) = n + 1 /\ s[n + 1] = b
      /\ \A k \in 1..n : s[k] = m[k]
  OBVIOUS
<1> HIDE DEF s
<1>2. Joins(Joinings(s), s, n + 1) /\ Joins(Joinings(m), m, n)
  <2>1. \A t : Len(t) \in Nat => Joins(Joinings(t), t, Len(t))
    BY JoinsExists DEF Joinings
  <2> QED BY <1>1, <2>1
<1>3. FlattenSeq(s) = Joinings(s)[n + 1]
  BY <1>1, FlattenByJoins
<1>4. Joinings(s)[n + 1] = IF n = 0 THEN b ELSE Joinings(s)[n] \o b
  <2>1. n + 1 \in 1..(n + 1) /\ n + 1 \in Nat
    BY <1>1
  <2>2. Joinings(s)[n + 1] = IF n = 0 THEN s[1] ELSE Joinings(s)[n] \o s[n + 1]
    BY <1>1, <1>2, <2>1, JoinsValues
  <2> QED BY <1>1, <2>2
<1>5. CASE n = 0
  <2>1. FlattenSeq(m) = <<>>
    BY <1>5, FlattenByJoins
  <2>2. <<>> \o b = b
    OBVIOUS
  <2> QED BY <1>3, <1>4, <1>5, <2>1, <2>2 DEF s
<1>6. CASE n # 0
  <2>1. Joinings(s)[n] = Joinings(m)[n]
    <3>1. n \in 1..n
      BY <1>1, <1>6
    <3> HIDE DEF n
    <3>2. \A k \in 1..n : Joinings(s)[k] = Joinings(m)[k]
      <4>1. \A k \in 1..n : s[k] = m[k]
        BY <1>1
      <4>2. n \in Nat
        BY <1>1
      <4> QED BY <1>2, <4>1, <4>2, JoinsUnique
    <3> QED BY <3>1, <3>2
  <2>2. FlattenSeq(m) = Joinings(m)[n]
    BY <1>6, FlattenByJoins
  <2> QED BY <1>3, <1>4, <1>6, <2>1, <2>2 DEF s
<1> QED BY <1>5, <1>6

(***************************************************************************)
(* The invariant.  `file[r]` outlives the handler of r, so what is said of *)
(* file[r] without InFlight(r) is also said of requests that have ended.   *)
(***************************************************************************)

(* An upload with all its bytes, which is not final and not empty. *)
Whole(f) == ~f.final /\ Finished(f) /\ f.length # 0

NoDeferral == "creation-defer-length" \notin Extensions

(* A final upload that removes its parts was made, or is being made, from i. *)
Taken(i) == RemoveParts /\ \E r \in Req : file[r] # None /\ i \in PartIds(file[r])

(* Where a handler is determines what its local variables hold. *)
S3Locals(r) ==
  /\ pc[r] = "idle" => file[r] = None
  /\ pc[r] # "done" => resp[r] = "none"
  /\ resp[r] = "ok" => file[r] # None
  /\ pc[r] = "create" => file[r].metadata = None /\ body[r] = Bytes(0, Len(body[r]))
  /\ pc[r] = "complete" => Method[r] \in {"POST", "PATCH"}
  /\ pc[r] = "putJoined" => /\ Method[r] = "POST" /\ cursor[r] = 1 /\ file[r].parts # <<>>
                            /\ Len(partsInfo[r]) = Len(file[r].parts)
  /\ Joining(r) \/ Reading(r) \/ pc[r] = "putJoined" => file[r].final

S3Typed == S3TypeOK /\ \A r \in Req : LocalsOK(r) /\ S3Locals(r)

(* What is stored is stored under an id that was drawn, and records that id. *)
IdsUsed ==
  /\ \A i \in Id : i \notin used => info[i] = None /\ object[i] = None /\ multipart[i] = None
  /\ \A r \in Req : file[r] # None => file[r].id \in used
  /\ \A i \in Id : Visible(i) => info[i].id = i

(* Until its info is saved an upload is known to its own POST alone. *)
PostUnknown(r) ==
  InFlight(r) /\ Method[r] = "POST" =>
    /\ info[file[r].id] = None
    /\ \A q \in Req \ {r} : file[q] # None => file[q].id # file[r].id

(* Two FileInfos of the same upload. *)
Agree(f, g) ==
  /\ f.final = g.final
  /\ ~f.final => (f.length = 0 <=> g.length = 0) /\ (NoDeferral => f.length = g.length)

Agreement ==
  /\ \A q, r \in Req : file[q] # None /\ file[r] # None /\ file[q].id = file[r].id =>
       Agree(file[q], file[r])
  /\ \A r \in Req : file[r] # None /\ Visible(file[r].id) => Agree(file[r], info[file[r].id])

(* The multipart upload has a part for each part that is listed. *)
Numbered(i, f) == multipart[i] # None /\ f.metadata # None => Len(f.metadata) <= Len(multipart[i])
PartsNumbered ==
  /\ \A i \in Id : Visible(i) => Numbered(i, info[i])
  /\ \A r \in Req : InFlight(r) => Numbered(file[r].id, file[r])

(* The listed parts are the first n bytes. *)
Lists(f, n) == FlattenSeq(f.metadata) = Bytes(0, n)
Listed(f) == ~f.final /\ f.metadata # None => Lists(f, f.offset)

(* ListedPartsExact, of the info and of the handlers that are about to save theirs. *)
PartsExact ==
  /\ \A i \in Id : Visible(i) => Listed(info[i])
  /\ \A r \in Req : InFlight(r) /\ pc[r] # "complete" => Listed(file[r])

(* The chunk under way follows the bytes stored; it only completes an incomplete upload. *)
ChunkExact(r) ==
  /\ pc[r] = "write" => /\ ~file[r].final
                        /\ body[r] = Bytes(file[r].offset, Len(body[r]))
                        /\ body[r] # <<>> \/ ~Finished(file[r])
  /\ pc[r] = "complete" => /\ ~file[r].final /\ file[r].metadata # None /\ body[r] # <<>>
                           /\ Completes(r) /\ Lists(file[r], file[r].length)

(* While the multipart upload is open nobody holds the upload as complete. *)
OpenIncomplete ==
  \A i \in Id : multipart[i] # None =>
    /\ Visible(i) => ~Whole(info[i])
    /\ \A r \in Req : file[r] # None /\ file[r].id = i => ~Whole(file[r])

(* The request that completed the multipart upload and has not saved the info yet: *)
(* nobody else holds the upload as complete.                                       *)
Pending(r) == pc[r] = "save" /\ Whole(file[r])
OnePending ==
  \A r \in Req : Pending(r) =>
    /\ Visible(file[r].id) => ~Whole(info[file[r].id])
    /\ \A q \in Req \ {r} : file[q] # None /\ file[q].id = file[r].id => ~Whole(file[q])

(* When terminate removes the object the info, if a PATCH brought it back, is incomplete. *)
RemovedIncomplete ==
  \A r \in Req : pc[r] = "removeFile" /\ Whole(file[r]) /\ Visible(file[r].id) =>
    ~Whole(info[file[r].id])

HasObject(i, f) == object[i] = Bytes(0, f.length) \/ Taken(i)
WholeStored ==
  /\ \A i \in Id : Visible(i) /\ Whole(info[i]) => HasObject(i, info[i])
  /\ \A r \in Req : Pending(r) => HasObject(file[r].id, file[r])

(* There is no object but the complete one. *)
ObjectWhole(i, f) == NoDeferral /\ object[i] # None /\ ~f.final => object[i] = Bytes(0, f.length)
ObjectsWhole ==
  /\ \A i \in Id : Visible(i) => ObjectWhole(i, info[i])
  /\ \A r \in Req : file[r] # None => ObjectWhole(file[r].id, file[r])

DownloadsWhole == NoDeferral => DownloadIsWhole

S3Inv ==
  /\ S3Typed /\ IdsUsed /\ \A r \in Req : PostUnknown(r)
  /\ Agreement /\ PartsNumbered /\ PartsExact /\ \A r \in Req : ChunkExact(r)
  /\ OpenIncomplete /\ OnePending /\ RemovedIncomplete
  /\ WholeStored /\ ObjectsWhole /\ DeletedObjectGone /\ DownloadsWhole

USE DEF InFlight, Readable, Unreadable

(* What a step may leave as it was.  Infos are kept or removed; a handler goes on  *)
(* with the same upload; it was already at work; it holds no more complete uploads. *)
InfosKept == \A i \in Id : info'[i] \in {info[i], None}
SameUpload(q) ==
  \/ file'[q] = file[q]
  \/ /\ file[q] # None /\ file'[q] # None /\ file'[q].id = file[q].id
     /\ file'[q].final = file[q].final /\ file'[q].parts = file[q].parts
     /\ ~file[q].final => file'[q].length = file[q].length
FilesKept == \A q \in Req : SameUpload(q)
FlightKept == \A q \in Req : InFlight(q)' => InFlight(q)
WholeKept == \A q \in Req : file'[q] # None /\ Whole(file'[q]) => Whole(file[q])

(* A request that holds a FileInfo, in particular one at work. *)
LEMMA Holding ==
  ASSUME S3Typed, NEW r \in Req, file[r] # None \/ InFlight(r)
  PROVE  /\ file[r] \in FileInfo /\ file[r] # None /\ file[r].id \in Id /\ file[r].offset \in Nat
         /\ file[r].length \in Nat \cup {None} /\ file[r].parts \in Seq(Id)
         /\ file[r].final \in BOOLEAN
<1>1. file[r] # None
  BY DEF S3Typed, LocalsOK
<1>2. file[r] \in FileInfo
  BY <1>1 DEF S3Typed, S3TypeOK, HybridTypeOK, TypeOK
<1> QED BY <1>1, <1>2, FileFields

(* A visible info was there before. *)
LEMMA KeptVisible ==
  ASSUME InfosKept, NEW i \in Id, Visible(i)'
  PROVE  Visible(i) /\ info'[i] = info[i]
  BY DEF InfosKept, Visible

(* Nothing is stored under an id that was not drawn. *)
LEMMA IdsUsedKept ==
  ASSUME IdsUsed, InfosKept, FilesKept, used' = used,
         \A i \in Id : i \notin used => object'[i] = object[i] /\ multipart'[i] = multipart[i]
  PROVE  IdsUsed'
<1>1. \A i \in Id : i \notin used' => info'[i] = None /\ object'[i] = None /\ multipart'[i] = None
  BY DEF IdsUsed, InfosKept
<1>2. \A r \in Req : file'[r] # None => file'[r].id \in used'
  BY DEF IdsUsed, FilesKept, SameUpload
<1>3. \A i \in Id : Visible(i)' => info'[i].id = i
  BY KeptVisible DEF IdsUsed
<1> QED BY <1>1, <1>2, <1>3 DEF IdsUsed

(* Nobody learns of an upload before its info is saved. *)
LEMMA PostUnknownKept ==
  ASSUME S3Typed, \A r \in Req : PostUnknown(r), InfosKept, FilesKept, FlightKept
  PROVE  \A r \in Req : PostUnknown(r)'
<1> SUFFICES ASSUME NEW r \in Req, InFlight(r)', Method[r] = "POST"
             PROVE  /\ info'[file'[r].id] = None
                    /\ \A q \in Req \ {r} : file'[q] # None => file'[q].id # file'[r].id
  BY DEF PostUnknown
<1>1. InFlight(r) /\ file[r] # None /\ file[r] \in FileInfo
  BY DEF FlightKept, S3Typed, S3TypeOK, HybridTypeOK, TypeOK, LocalsOK
<1>2. file'[r].id = file[r].id /\ file[r].id \in Id
  BY <1>1, FileFields DEF FilesKept, SameUpload
<1>3. info'[file'[r].id] = None
  BY <1>1, <1>2 DEF PostUnknown, InfosKept
<1>4. ASSUME NEW q \in Req \ {r}, file'[q] # None PROVE file'[q].id # file'[r].id
  BY <1>1, <1>2, <1>4 DEF PostUnknown, FilesKept, SameUpload
<1> QED BY <1>3, <1>4

(* Handlers that go on with their uploads still agree on them. *)
LEMMA AgreementKept ==
  ASSUME S3Typed, Agreement, InfosKept, FilesKept
  PROVE  Agreement'
<1>1. ASSUME NEW q \in Req, file'[q] # None
      PROVE  /\ file[q] # None /\ file[q].id \in Id /\ file'[q].id = file[q].id
             /\ file'[q].final = file[q].final
             /\ ~file[q].final => file'[q].length = file[q].length
  BY <1>1, FileFields DEF FilesKept, SameUpload, S3Typed, S3TypeOK, HybridTypeOK, TypeOK
<1>2. ASSUME NEW q \in Req, NEW r \in Req, file'[q] # None, file'[r] # None, file'[q].id = file'[r].id
      PROVE  Agree(file'[q], file'[r])
  <2>1. Agree(file[q], file[r])
    BY <1>1, <1>2 DEF Agreement
  <2> QED BY <1>1, <1>2, <2>1 DEF Agree
<1>3. ASSUME NEW r \in Req, file'[r] # None, Visible(file[r].id)'
      PROVE  Agree(file'[r], info'[file'[r].id])
  <2>1. Visible(file[r].id) /\ info'[file'[r].id] = info[file[r].id]
    BY <1>1, <1>3, KeptVisible DEF Visible
  <2>2. Agree(file[r], info[file[r].id])
    BY <1>1, <1>3, <2>1 DEF Agreement
  <2> QED BY <1>1, <1>3, <2>1, <2>2 DEF Agree
<1> QED BY <1>2, <1>3 DEF Agreement

(* Parts are only added, or all forgotten. *)
LEMMA PartsNumberedKept ==
  ASSUME S3Typed, PartsNumbered, InfosKept,
         \A i \in Id : \/ multipart'[i] \in {multipart[i], None}
                       \/ /\ multipart[i] # None /\ Len(multipart'[i]) \in Nat
                          /\ Len(multipart[i]) <= Len(multipart'[i]),
         \A r \in Req : InFlight(r)' =>
           \/ InFlight(r) /\ file'[r].id = file[r].id /\ file'[r].metadata = file[r].metadata
           \/ Numbered(file[r].id, file[r])'
  PROVE  PartsNumbered'
<1>1. ASSUME NEW i \in Id, NEW f \in FileInfo, Numbered(i, f)
      PROVE  multipart'[i] # None /\ f.metadata # None => Len(f.metadata) <= Len(multipart'[i])
  <2> SUFFICES ASSUME multipart'[i] # None, f.metadata # None
               PROVE  Len(f.metadata) <= Len(multipart'[i])
    OBVIOUS
  <2>1. f.metadata \in Seq(Seq(Nat)) /\ multipart[i] \in Seq(Seq(Nat))
    BY DEF FileInfo, S3Typed, S3TypeOK
  <2>2. Len(f.metadata) <= Len(multipart[i])
    BY <1>1 DEF Numbered
  <2>3. Len(f.metadata) \in Nat /\ Len(multipart[i]) \in Nat
    BY <2>1
  <2> QED BY <2>2, <2>3
<1>2. ASSUME NEW i \in Id, Visible(i)' PROVE Numbered(i, info[i])'
  <2>1. Visible(i) /\ info'[i] = info[i] /\ info[i] \in FileInfo
    BY <1>2, KeptVisible DEF Visible, S3Typed, S3TypeOK, HybridTypeOK, TypeOK
  <2>2. Numbered(i, info[i])
    BY <2>1 DEF PartsNumbered
  <2> QED BY <1>1, <2>1, <2>2 DEF Numbered
<1>3. ASSUME NEW r \in Req, InFlight(r)' PROVE Numbered(file[r].id, file[r])'
  <2>1. CASE InFlight(r) /\ file'[r].id = file[r].id /\ file'[r].metadata = file[r].metadata
    <3>1. file[r] \in FileInfo /\ file[r].id \in Id
      BY <2>1, FileFields DEF S3Typed, S3TypeOK, HybridTypeOK, TypeOK, LocalsOK
    <3>2. Numbered(file[r].id, file[r])
      BY <2>1 DEF PartsNumbered
    <3> QED BY <1>1, <2>1, <3>1, <3>2 DEF Numbered
  <2> QED BY <1>3, <2>1
<1> QED BY <1>2, <1>3 DEF PartsNumbered

(* The lists of parts that are kept are as exact as before. *)
LEMMA PartsExactKept ==
  ASSUME PartsExact, InfosKept,
         \A r \in Req : InFlight(r)' /\ pc'[r] # "complete" =>
           \/ InFlight(r) /\ pc[r] # "complete" /\ file'[r] = file[r]
           \/ Listed(file'[r])
  PROVE  PartsExact'
<1>1. ASSUME NEW i \in Id, Visible(i)' PROVE Listed(info[i])'
  <2>1. Visible(i) /\ info'[i] = info[i]
    BY <1>1, KeptVisible
  <2>2. Listed(info[i])
    BY <2>1 DEF PartsExact
  <2> QED BY <2>1, <2>2 DEF Listed, Lists
<1>2. ASSUME NEW r \in Req, InFlight(r)', pc'[r] # "complete" PROVE Listed(file[r])'
  <2>1. Listed(file'[r])
    BY <1>2 DEF PartsExact
  <2> QED BY <2>1 DEF Listed, Lists
<1> QED BY <1>1, <1>2 DEF PartsExact

(* A chunk stays exact while its handler waits. *)
LEMMA ChunkExactKept ==
  ASSUME \A q \in Req : ChunkExact(q),
         \A q \in Req : pc'[q] \in {"write", "complete"} =>
           pc'[q] = pc[q] /\ file'[q] = file[q] /\ body'[q] = body[q]
  PROVE  \A q \in Req : ChunkExact(q)'
  BY DEF ChunkExact, Completes, Lists, Finished

(* No upload becomes complete, and no multipart upload is opened. *)
LEMMA OpenIncompleteKept ==
  ASSUME OpenIncomplete, InfosKept, FilesKept, WholeKept,
         \A i \in Id : multipart'[i] # None => multipart[i] # None
  PROVE  OpenIncomplete'
<1>1. ASSUME NEW i \in Id, multipart'[i] # None, Visible(i)' PROVE ~Whole(info'[i])
  BY <1>1, KeptVisible DEF OpenIncomplete
<1>2. ASSUME NEW i \in Id, multipart'[i] # None, NEW r \in Req, file'[r] # None, file'[r].id = i
      PROVE  ~Whole(file'[r])
  BY <1>2 DEF OpenIncomplete, FilesKept, SameUpload, WholeKept
<1> QED BY <1>1, <1>2 DEF OpenIncomplete, Whole, Finished

(* No upload becomes complete. *)
LEMMA OnePendingKept ==
  ASSUME S3Typed, OnePending, InfosKept, FilesKept, WholeKept,
         \A q \in Req : Pending(q)' => Pending(q)
  PROVE  OnePending'
<1> SUFFICES ASSUME NEW r \in Req, Pending(r)'
             PROVE  /\ Visible(file[r].id)' => ~Whole(info'[file'[r].id])
                    /\ \A q \in Req \ {r} : file'[q] # None /\ file'[q].id = file'[r].id =>
                         ~Whole(file'[q])
  BY DEF OnePending, Whole, Finished
<1>1. Pending(r) /\ file[r] # None /\ file[r].id \in Id /\ file'[r].id = file[r].id
  <2>1. Pending(r) /\ pc[r] = "save"
    BY DEF Pending
  <2>2. file[r] # None /\ file[r].id \in Id
    BY <2>1, Holding
  <2> QED BY <2>1, <2>2 DEF FilesKept, SameUpload
<1>2. Visible(file[r].id)' => ~Whole(info'[file'[r].id])
  <2> SUFFICES ASSUME Visible(file[r].id)' PROVE ~Whole(info'[file'[r].id])
    OBVIOUS
  <2>1. Visible(file[r].id) /\ info'[file'[r].id] = info[file[r].id]
    BY <1>1, KeptVisible DEF Visible
  <2> QED BY <1>1, <2>1 DEF OnePending
<1>3. ASSUME NEW q \in Req \ {r}, file'[q] # None, file'[q].id = file'[r].id PROVE ~Whole(file'[q])
  BY <1>1, <1>3 DEF OnePending, FilesKept, SameUpload, WholeKept
<1> QED BY <1>2, <1>3

(* terminate goes on to remove the object of an upload without info. *)
LEMMA RemovedIncompleteKept ==
  ASSUME S3Typed, RemovedIncomplete, InfosKept,
         \A q \in Req : pc'[q] = "removeFile" =>
           \/ pc[q] = "removeFile" /\ file'[q] = file[q]
           \/ ~Visible(file[q].id)'
  PROVE  RemovedIncomplete'
<1> SUFFICES ASSUME NEW r \in Req, pc'[r] = "removeFile", Whole(file'[r]), Visible(file[r].id)'
             PROVE  ~Whole(info'[file'[r].id])
  BY DEF RemovedIncomplete, Whole, Finished
<1>1. pc[r] = "removeFile" /\ file'[r] = file[r]
  OBVIOUS
<1>2. file[r].id \in Id
  BY <1>1, Holding
<1>3. Visible(file[r].id) /\ info'[file'[r].id] = info[file[r].id]
  BY <1>1, <1>2, KeptVisible DEF Visible
<1> QED BY <1>1, <1>3 DEF RemovedIncomplete

(* What was taken stays taken. *)
LEMMA TakenKept ==
  ASSUME FilesKept, NEW i, Taken(i)
  PROVE  Taken(i)'
  BY DEF Taken, FilesKept, SameUpload, PartIds

(* An object that is replaced or removed is not that of a complete upload. *)
LEMMA WholeStoredKept ==
  ASSUME S3Typed, WholeStored, InfosKept, FilesKept,
         \A q \in Req : Pending(q)' => Pending(q) /\ file'[q] = file[q],
         \A i \in Id : \/ object'[i] = object[i]
                       \/ Taken(i)'
                       \/ /\ Visible(i) => ~Whole(info[i])
                          /\ \A q \in Req : Pending(q) => file[q].id # i
  PROVE  WholeStored'
<1>1. ASSUME NEW i \in Id, NEW f, HasObject(i, f), object'[i] = object[i] \/ Taken(i)'
      PROVE  object'[i] = Bytes(0, f.length) \/ Taken(i)'
  BY <1>1, TakenKept DEF HasObject
<1>2. ASSUME NEW i \in Id, Visible(i)', Whole(info'[i]) PROVE HasObject(i, info[i])'
  <2>1. Visible(i) /\ info'[i] = info[i]
    BY <1>2, KeptVisible
  <2>2. HasObject(i, info[i])
    BY <1>2, <2>1 DEF WholeStored
  <2> QED BY <1>1, <1>2, <2>1, <2>2 DEF HasObject
<1>3. ASSUME NEW r \in Req, Pending(r)' PROVE HasObject(file[r].id, file[r])'
  <2>1. Pending(r) /\ file'[r] = file[r] /\ file[r].id \in Id
    <3>1. Pending(r) /\ file'[r] = file[r] /\ pc[r] = "save"
      BY <1>3 DEF Pending
    <3> QED BY <3>1, Holding
  <2>2. HasObject(file[r].id, file[r])
    BY <2>1 DEF WholeStored
  <2> QED BY <1>1, <2>1, <2>2 DEF HasObject
<1> QED BY <1>2, <1>3 DEF WholeStored, Whole, Finished

(* No object is made but for a final upload. *)
LEMMA ObjectsWholeKept ==
  ASSUME S3Typed, ObjectsWhole, InfosKept, FilesKept,
         \A i \in Id : \/ object'[i] \in {object[i], None}
                       \/ /\ Visible(i)' => info'[i].final
                          /\ \A r \in Req : file'[r] # None /\ file'[r].id = i => file'[r].final
  PROVE  ObjectsWhole'
<1>1. ASSUME NEW i \in Id, Visible(i)' PROVE ObjectWhole(i, info[i])'
  BY <1>1, KeptVisible DEF ObjectsWhole, ObjectWhole
<1>2. ASSUME NEW r \in Req, file'[r] # None PROVE ObjectWhole(file[r].id, file[r])'
  <2>1. /\ file[r] # None /\ file[r].id \in Id /\ file'[r].id = file[r].id
        /\ file'[r].final = file[r].final
        /\ ~file[r].final => file'[r].length = file[r].length
    BY <1>2, FileFields DEF FilesKept, SameUpload, S3Typed, S3TypeOK, HybridTypeOK, TypeOK
  <2>2. ObjectWhole(file[r].id, file[r])
    BY <2>1 DEF ObjectsWhole
  <2> QED BY <1>2, <2>1, <2>2 DEF ObjectWhole
<1> QED BY <1>1, <1>2 DEF ObjectsWhole, ObjectWhole

(* No object comes back. *)
LEMMA DeletedObjectGoneKept ==
  ASSUME S3Typed, DeletedObjectGone,
         \A i \in Id : \/ object'[i] \in {object[i], None}
                       \/ \A q \in Req : Method[q] = "DELETE" /\ resp'[q] = "ok"
                                         /\ Finished(file'[q]) => file'[q].id # i,
         \A q \in Req : Method[q] = "DELETE" /\ resp'[q] = "ok" /\ Finished(file'[q]) =>
           \/ resp[q] = "ok" /\ file'[q] = file[q] /\ file[q].id \in Id
           \/ object'[file'[q].id] = None
  PROVE  DeletedObjectGone'
  BY DEF DeletedObjectGone, Finished

(* No download is answered. *)
LEMMA DownloadsWholeKept ==
  ASSUME DownloadsWhole,
         \A q \in Req : Method[q] = "GET" /\ resp'[q] = "ok" =>
           resp[q] = "ok" /\ file'[q] = file[q] /\ body'[q] = body[q]
  PROVE  DownloadsWhole'
  BY DEF DownloadsWhole, DownloadIsWhole

(***************************************************************************)
(* The steps.                                                              *)
(***************************************************************************)

(* What is typed over S3 is typed as in UploadServer. *)
LEMMA TypedTypeInv ==
  ASSUME S3Typed
  PROVE  TypeInv
  BY DEF S3Typed, S3TypeOK, HybridTypeOK, TypeInv

(* The handlers that are not at work in a step stay as they were. *)
LEMMA S3OthersFrame ==
  ASSUME NEW r \in Req, \A q \in Req : LocalsOK(q) /\ S3Locals(q), LocalsOK(r)', S3Locals(r)',
         \A q \in Req \ {r} : /\ pc'[q] = pc[q] /\ file'[q] = file[q] /\ body'[q] = body[q]
                              /\ partsInfo'[q] = partsInfo[q] /\ cursor'[q] = cursor[q]
                              /\ resp'[q] = resp[q]
  PROVE  \A q \in Req : LocalsOK(q)' /\ S3Locals(q)'
<1>1. ASSUME NEW q \in Req \ {r} PROVE LocalsOK(q)'
  BY LocalsFrame
<1>2. ASSUME NEW q \in Req \ {r} PROVE S3Locals(q)'
  BY DEF S3Locals, Joining, Reading
<1> QED BY <1>1, <1>2

(* A handler that ended holds nothing that has to be right. *)
LEMMA S3Done ==
  ASSUME NEW q \in Req, pc'[q] = "done", resp'[q] = "ok" => file'[q] # None
  PROVE  LocalsOK(q)' /\ S3Locals(q)'
  BY LocalsDone DEF S3Locals, Joining, Reading

(* Handlers end, and nothing is stored. *)
LEMMA EndsStep ==
  ASSUME S3Inv, S3TypeOK', UNCHANGED <<info, used, file, body, object, multipart>>,
         \A q \in Req : \/ pc'[q] = "done"
                        \/ /\ pc'[q] = pc[q] /\ resp'[q] = resp[q]
                           /\ partsInfo'[q] = partsInfo[q] /\ cursor'[q] = cursor[q],
         \A q \in Req : resp'[q] \in {resp[q], "error", "none"}
  PROVE  S3Inv'
<1> USE DEF S3Inv
<1>1. S3Typed'
  <2> USE DEF S3Typed
  <2>1. ASSUME NEW q \in Req PROVE LocalsOK(q)' /\ S3Locals(q)'
    <3>1. CASE pc'[q] = "done"
      <4>1. resp'[q] = "ok" => file'[q] # None
        BY DEF S3Typed, S3Locals
      <4> QED BY <3>1, <4>1, S3Done
    <3>2. CASE pc'[q] # "done"
      <4>1. LocalsOK(q) /\ S3Locals(q)
        BY DEF S3Typed
      <4>2. LocalsOK(q)'
        BY <3>2, <4>1, LocalsFrame
      <4>3. S3Locals(q)'
        BY <3>2, <4>1 DEF S3Locals, Joining, Reading
      <4> QED BY <4>2, <4>3
    <3> QED BY <3>1, <3>2
  <2> QED BY <2>1 DEF S3Typed
<1>2. InfosKept /\ FilesKept /\ FlightKept /\ WholeKept
  BY DEF InfosKept, FilesKept, SameUpload, FlightKept, WholeKept
<1>3. \A q \in Req : Pending(q)' => Pending(q)
  BY DEF Pending, Whole, Finished
<1>4. \A q \in Req : Method[q] = "DELETE" /\ resp'[q] = "ok" /\ Finished(file'[q]) =>
        resp[q] = "ok" /\ file'[q] = file[q] /\ file[q].id \in Id
  <2> SUFFICES ASSUME NEW q \in Req, Method[q] = "DELETE", resp'[q] = "ok"
               PROVE  resp[q] = "ok" /\ file'[q] = file[q] /\ file[q].id \in Id
    OBVIOUS
  <2>1. resp[q] = "ok" /\ file'[q] = file[q]
    OBVIOUS
  <2>2. file[q].id \in Id
    BY <2>1, Holding DEF S3Typed, S3Locals
  <2> QED BY <2>1, <2>2
<1>5. IdsUsed'
  BY <1>2, IdsUsedKept
<1>6. \A q \in Req : PostUnknown(q)'
  BY <1>2, PostUnknownKept
<1>7. Agreement'
  BY <1>2, AgreementKept
<1>8. PartsNumbered'
  BY <1>2, PartsNumberedKept DEF FlightKept
<1>9. PartsExact'
  BY <1>2, PartsExactKept DEF FlightKept
<1>10. \A q \in Req : ChunkExact(q)'
  BY ChunkExactKept
<1>11. OpenIncomplete' /\ OnePending'
  BY <1>2, <1>3, OpenIncompleteKept, OnePendingKept
<1>12. RemovedIncomplete'
  BY <1>2, RemovedIncompleteKept
<1>13. WholeStored' /\ ObjectsWhole'
  BY <1>2, <1>3, WholeStoredKept, ObjectsWholeKept
<1>14. DeletedObjectGone'
  BY <1>4, DeletedObjectGoneKept
<1>15. DownloadsWhole'
  BY DownloadsWholeKept
<1> QED BY <1>1, <1>5, <1>6, <1>7, <1>8, <1>9, <1>10, <1>11, <1>12, <1>13, <1>14, <1>15

(* A request takes up the visible upload i, as its info says or with the length *)
(* that was deferred.                                                           *)
LEMMA EnterStep ==
  ASSUME S3Inv, S3TypeOK', NEW r \in Req, NEW i \in Id, NEW f \in FileInfo,
         Visible(i), pc[r] = "idle", Method[r] # "POST",
         pc'[r] \in {"write", "removeInfo", "read", "done"}, LocalsOK(r)',
         file' = [file EXCEPT ![r] = f],
         f.id = i, f.final = info[i].final, f.metadata = info[i].metadata,
         f.offset = info[i].offset, Agree(f, info[i]), f = info[i] \/ ~Whole(f),
         pc'[r] # "done" => resp'[r] = "none",
         resp'[r] = "ok" => Method[r] = "HEAD",
         \A q \in Req \ {r} : pc'[q] = pc[q] /\ body'[q] = body[q] /\ resp'[q] = resp[q],
         UNCHANGED <<info, used, partsInfo, cursor, object, multipart>>,
         pc'[r] = "write" => /\ ~f.final /\ body'[r] = Bytes(f.offset, Len(body'[r]))
                             /\ ~Finished(f)
  PROVE  S3Inv'
<1> USE DEF S3Inv
<1>0. /\ file[r] = None /\ file'[r] = f /\ f # None /\ info[i] \in FileInfo /\ info[i].id = i
      /\ i \in used
      /\ \A q \in Req \ {r} : file'[q] = file[q]
      /\ \A q \in Req : q # r => /\ pc'[q] = pc[q] /\ file'[q] = file[q] /\ body'[q] = body[q]
                                 /\ resp'[q] = resp[q]
      /\ \A j \in Id : Visible(j)' <=> Visible(j)
  <2>1. file[r] = None /\ r \in DOMAIN file
    BY DEF S3Typed, S3Locals, S3TypeOK, HybridTypeOK, TypeOK
  <2>2. info[i] \in FileInfo /\ info[i].id = i
    BY DEF S3Typed, S3TypeOK, HybridTypeOK, TypeOK, Visible, IdsUsed
  <2>3. i \in used
    BY DEF Visible, IdsUsed
  <2> QED BY <2>1, <2>2, <2>3, FileFields DEF Visible
<1>1. S3Typed'
  <2>1. S3Locals(r)'
    BY <1>0 DEF S3Locals, Joining, Reading
  <2>2. \A q \in Req : LocalsOK(q) /\ S3Locals(q)
    BY DEF S3Typed
  <2>3. \A q \in Req : LocalsOK(q)' /\ S3Locals(q)'
    BY <1>0, <2>1, <2>2, S3OthersFrame
  <2> QED BY <2>3 DEF S3Typed
<1>2. IdsUsed'
  BY <1>0 DEF IdsUsed
<1>3. ASSUME NEW q \in Req PROVE PostUnknown(q)'
  <2>1. CASE q = r
    BY <2>1 DEF PostUnknown
  <2>2. CASE q # r
    <3>1. PostUnknown(q) /\ pc'[q] = pc[q] /\ file'[q] = file[q]
      BY <1>0, <2>2
    <3>2. InFlight(q) /\ Method[q] = "POST" => file[q].id # i
      BY <3>1 DEF PostUnknown, Visible
    <3> QED BY <1>0, <2>2, <3>1, <3>2 DEF PostUnknown
  <2> QED BY <2>1, <2>2
<1>4. Agreement'
  <2>1. ASSUME NEW q \in Req, file[q] # None, file[q].id = i PROVE Agree(file[q], f) /\ Agree(f, file[q])
    <3>1. Agree(file[q], info[i])
      BY <2>1 DEF Agreement
    <3> QED BY <3>1 DEF Agree
  <2>2. Agree(f, f)
    BY DEF Agree
  <2>3. ASSUME NEW p \in Req, NEW q \in Req, file'[p] # None, file'[q] # None, file'[p].id = file'[q].id
        PROVE  Agree(file'[p], file'[q])
    BY <1>0, <2>1, <2>2, <2>3 DEF Agreement
  <2>4. ASSUME NEW q \in Req, file'[q] # None, Visible(file[q].id)' PROVE Agree(file'[q], info'[file'[q].id])
    <3>1. CASE q = r
      BY <1>0, <3>1
    <3>2. CASE q # r
      BY <1>0, <2>4, <3>2 DEF Agreement, Visible
    <3> QED BY <3>1, <3>2
  <2> QED BY <2>3, <2>4 DEF Agreement
<1>5. PartsNumbered'
  <2>1. \A j \in Id : Visible(j)' => Numbered(j, info[j])'
    BY <1>0 DEF PartsNumbered, Numbered
  <2>2. Numbered(i, info[i])
    BY DEF PartsNumbered
  <2>3. Numbered(i, f)
    BY <2>2 DEF Numbered
  <2>4. ASSUME NEW q \in Req, InFlight(q)' PROVE Numbered(file[q].id, file[q])'
    <3>1. CASE q = r
      BY <1>0, <2>3, <3>1 DEF Numbered
    <3>2. CASE q # r
      BY <1>0, <2>4, <3>2 DEF PartsNumbered, Numbered
    <3> QED BY <3>1, <3>2
  <2> QED BY <2>1, <2>4 DEF PartsNumbered
<1>6. PartsExact'
  <2>1. Listed(f)
    <3>1. Listed(info[i])
      BY DEF PartsExact
    <3> QED BY <3>1 DEF Listed, Lists
  <2>2. InfosKept
    BY DEF InfosKept
  <2>3. \A q \in Req : InFlight(q)' /\ pc'[q] # "complete" =>
          \/ InFlight(q) /\ pc[q] # "complete" /\ file'[q] = file[q]
          \/ Listed(file'[q])
    BY <1>0, <2>1
  <2> QED BY <2>2, <2>3, PartsExactKept
<1>7. ASSUME NEW q \in Req PROVE ChunkExact(q)'
  <2>1. CASE q = r
    BY <1>0, <2>1 DEF ChunkExact, Finished
  <2>2. CASE q # r
    <3>1. ChunkExact(q) /\ pc'[q] = pc[q] /\ file'[q] = file[q] /\ body'[q] = body[q]
      BY <1>0, <2>2
    <3> QED BY <3>1 DEF ChunkExact, Finished, Completes, Lists
  <2> QED BY <2>1, <2>2
<1>8. OpenIncomplete'
  BY <1>0 DEF OpenIncomplete, Whole, Finished
<1>9. ASSUME NEW q \in Req, Pending(q)' PROVE q # r /\ Pending(q) /\ file'[q] = file[q]
  BY <1>0, <1>9 DEF Pending
<1>10. OnePending'
  <2> SUFFICES ASSUME NEW q \in Req, Pending(q)'
               PROVE  /\ Visible(file[q].id)' => ~Whole(info'[file'[q].id])
                      /\ \A p \in Req \ {q} : file'[p] # None /\ file'[p].id = file'[q].id =>
                           ~Whole(file'[p])
    BY DEF OnePending, Whole, Finished
  <2>1. q # r /\ Pending(q) /\ file'[q] = file[q]
    BY <1>9
  <2>2. Visible(file[q].id)' => ~Whole(info'[file'[q].id])
    BY <2>1 DEF OnePending, Visible
  <2>3. file[q].id = i => ~Whole(f)
    BY <2>1 DEF OnePending
  <2>4. ASSUME NEW p \in Req \ {q}, file'[p] # None, file'[p].id = file'[q].id PROVE ~Whole(file'[p])
    BY <1>0, <2>1, <2>3, <2>4 DEF OnePending
  <2> QED BY <2>2, <2>4
<1>11. RemovedIncomplete'
  <2>1. \A q \in Req : pc'[q] = "removeFile" => q # r /\ pc[q] = "removeFile" /\ file'[q] = file[q]
    BY <1>0
  <2>2. InfosKept
    BY DEF InfosKept
  <2> QED BY <2>1, <2>2, RemovedIncompleteKept
<1>12. WholeStored'
  <2>1. ASSUME NEW j, NEW g, HasObject(j, g) PROVE object'[j] = Bytes(0, g.length) \/ Taken(j)'
    BY <1>0, <2>1 DEF HasObject, Taken
  <2>2. ASSUME NEW j \in Id, Visible(j)', Whole(info'[j]) PROVE HasObject(j, info[j])'
    <3>1. HasObject(j, info[j])
      BY <1>0, <2>2 DEF WholeStored
    <3> QED BY <2>1, <3>1 DEF HasObject
  <2>3. ASSUME NEW q \in Req, Pending(q)' PROVE HasObject(file[q].id, file[q])'
    <3>1. HasObject(file[q].id, file[q]) /\ file'[q] = file[q]
      BY <1>9, <2>3 DEF WholeStored
    <3> QED BY <2>1, <3>1 DEF HasObject
  <2> QED BY <2>2, <2>3 DEF WholeStored, Whole, Finished
<1>13. ObjectsWhole'
  <2>1. ASSUME NEW j \in Id, Visible(j)' PROVE ObjectWhole(j, info[j])'
    BY <1>0, <2>1 DEF ObjectsWhole, ObjectWhole
  <2>2. ObjectWhole(i, info[i])
    BY DEF ObjectsWhole
  <2>3. ObjectWhole(i, f)
    BY <2>2 DEF ObjectWhole, Agree
  <2>4. ASSUME NEW q \in Req, file'[q] # None PROVE ObjectWhole(file[q].id, file[q])'
    <3>1. CASE q = r
      BY <1>0, <2>3, <3>1 DEF ObjectWhole
    <3>2. CASE q # r
      BY <1>0, <2>4, <3>2 DEF ObjectsWhole, ObjectWhole
    <3> QED BY <3>1, <3>2
  <2> QED BY <2>1, <2>4 DEF ObjectsWhole
<1>14. DeletedObjectGone'
  BY <1>0 DEF DeletedObjectGone, Finished
<1>15. DownloadsWhole'
  <2>1. \A q \in Req : Method[q] = "GET" /\ resp'[q] = "ok" =>
          resp[q] = "ok" /\ file'[q] = file[q] /\ body'[q] = body[q]
    BY <1>0
  <2> QED BY <2>1, DownloadsWholeKept
<1> QED BY <1>1, <1>2, <1>3, <1>4, <1>5, <1>6, <1>7, <1>8, <1>10, <1>11, <1>12, <1>13, <1>14, <1>15

(* POST draws a fresh id: nothing is stored under it and nobody holds it. *)
LEMMA PostStep ==
  ASSUME S3Inv, TypeInv', NEW r \in Req, NEW i \in Id, NEW m \in PostMsg, PostAccepted(r, i, m),
         UNCHANGED <<object, multipart>>
  PROVE  S3Inv'
<1> USE DEF S3Inv
<1> DEFINE f == NewFileInfo(i, m)
<1>0. /\ file[r] = None /\ f \in FileInfo /\ f # None /\ file'[r] = f
      /\ f.id = i /\ f.offset = 0 /\ f.metadata = None /\ i \notin used /\ ~Whole(f)
      /\ info[i] = None /\ object[i] = None /\ multipart[i] = None
      /\ used' = used \cup {i} /\ info' = info
      /\ pc[r] = "idle" /\ pc'[r] = "create" /\ Method[r] = "POST" /\ resp' = resp
      /\ partsInfo' = partsInfo /\ cursor' = cursor
      /\ \A q \in Req : q # r => pc'[q] = pc[q] /\ file'[q] = file[q] /\ body'[q] = body[q]
      /\ \A q \in Req : file[q] # None => file[q].id # i
      /\ \A j \in Id : Visible(j)' => Visible(j) /\ j # i
  <2>1. pc[r] = "idle" /\ Method[r] = "POST" /\ i \notin used
    BY DEF PostAccepted, Begins
  <2>2. file[r] = None /\ r \in DOMAIN file /\ r \in DOMAIN body /\ r \in DOMAIN pc
    BY <2>1 DEF S3Typed, S3Locals, S3TypeOK, HybridTypeOK, TypeOK
  <2>3. f \in FileInfo /\ f # None /\ f.id = i /\ f.offset = 0 /\ f.metadata = None /\ ~Whole(f)
    BY NewFileInfoType, FileFields DEF NewFileInfo, Whole, Finished
  <2>4. /\ info[i] = None /\ object[i] = None /\ multipart[i] = None
        /\ \A q \in Req : file[q] # None => file[q].id # i
    BY <2>1 DEF IdsUsed
  <2>5. \A j \in Id : Visible(j)' => Visible(j) /\ j # i
    BY <2>4 DEF Visible, PostAccepted, stores
  <2> HIDE DEF f
  <2>6. file' = [file EXCEPT ![r] = f] /\ pc' = [pc EXCEPT ![r] = "create"]
    BY DEF PostAccepted, f
  <2> QED BY <2>1, <2>2, <2>3, <2>4, <2>5, <2>6 DEF PostAccepted, stores
<1> HIDE DEF f
<1>1. S3Typed'
  <2>1. S3TypeOK'
    BY DEF S3Typed, TypeInv, S3TypeOK, HybridTypeOK
  <2>2. LocalsOK(r)' /\ LocalsOK(r) /\ S3Locals(r)
    BY DEF TypeInv, S3Typed
  <2>3. body'[r] = Bytes(0, Len(body'[r]))
    <3>1. body'[r] \in {<<>>, Bytes(0, m.n)} /\ m.n \in Nat
      BY NewFileInfoType DEF PostAccepted, S3Typed, S3TypeOK, HybridTypeOK, TypeOK
    <3>2. <<>> = Bytes(0, 0) /\ Len(<<>>) = 0 /\ Len(Bytes(0, m.n)) = m.n
      BY <3>1, BytesType DEF Bytes
    <3> QED BY <3>1, <3>2
  <2>4. S3Locals(r)'
    BY <1>0, <2>2, <2>3 DEF S3Locals, Joining, Reading
  <2>5. \A q \in Req : LocalsOK(q) /\ S3Locals(q)
    BY DEF S3Typed
  <2>6. \A q \in Req : LocalsOK(q)' /\ S3Locals(q)'
    BY <1>0, <2>2, <2>4, <2>5, S3OthersFrame
  <2> QED BY <2>1, <2>6 DEF S3Typed
<1>2. IdsUsed'
  BY <1>0 DEF IdsUsed, Visible
<1>3. ASSUME NEW q \in Req PROVE PostUnknown(q)'
  <2>1. CASE q = r
    BY <1>0, <2>1 DEF PostUnknown
  <2>2. CASE q # r
    <3>1. PostUnknown(q) /\ pc'[q] = pc[q] /\ file'[q] = file[q]
      BY <1>0, <2>2
    <3>2. InFlight(q) => file[q].id # i
      BY <1>0, Holding
    <3> QED BY <1>0, <2>2, <3>1, <3>2 DEF PostUnknown
  <2> QED BY <2>1, <2>2
<1>4. Agreement'
  <2>1. Agree(f, f)
    BY DEF Agree
  <2>2. ASSUME NEW p \in Req, NEW q \in Req, file'[p] # None, file'[q] # None, file'[p].id = file'[q].id
        PROVE  Agree(file'[p], file'[q])
    BY <1>0, <2>1, <2>2 DEF Agreement
  <2>3. ASSUME NEW q \in Req, file'[q] # None, Visible(file[q].id)' PROVE Agree(file'[q], info'[file'[q].id])
    <3>1. CASE q = r
      BY <1>0, <2>3, <3>1 DEF Visible
    <3>2. CASE q # r
      BY <1>0, <2>3, <3>2 DEF Agreement, Visible
    <3> QED BY <3>1, <3>2
  <2> QED BY <2>2, <2>3 DEF Agreement
<1>5. PartsNumbered'
  <2>1. InfosKept
    BY <1>0 DEF InfosKept
  <2>2. \A q \in Req : InFlight(q)' =>
           \/ InFlight(q) /\ file'[q].id = file[q].id /\ file'[q].metadata = file[q].metadata
           \/ Numbered(file[q].id, file[q])'
    BY <1>0 DEF Numbered
  <2> QED BY <2>1, <2>2, PartsNumberedKept
<1>6. PartsExact'
  <2>1. InfosKept
    BY <1>0 DEF InfosKept
  <2>2. \A q \in Req : InFlight(q)' /\ pc'[q] # "complete" =>
          \/ InFlight(q) /\ pc[q] # "complete" /\ file'[q] = file[q]
          \/ Listed(file'[q])
    BY <1>0 DEF Listed
  <2> QED BY <2>1, <2>2, PartsExactKept
<1>7. \A q \in Req : ChunkExact(q)'
  <2>1. \A q \in Req : pc'[q] \in {"write", "complete"} =>
           pc'[q] = pc[q] /\ file'[q] = file[q] /\ body'[q] = body[q]
    BY <1>0
  <2> QED BY <2>1, ChunkExactKept
<1>8. OpenIncomplete'
  BY <1>0 DEF OpenIncomplete, Whole, Finished
<1>9. ASSUME NEW q \in Req, Pending(q)' PROVE q # r /\ Pending(q) /\ file'[q] = file[q]
  BY <1>0, <1>9 DEF Pending
<1>10. OnePending'
  <2> SUFFICES ASSUME NEW q \in Req, Pending(q)'
               PROVE  /\ Visible(file[q].id)' => ~Whole(info'[file'[q].id])
                      /\ \A p \in Req \ {q} : file'[p] # None /\ file'[p].id = file'[q].id =>
                           ~Whole(file'[p])
    BY DEF OnePending, Whole, Finished
  <2>1. q # r /\ Pending(q) /\ file'[q] = file[q]
    BY <1>9
  <2>2. Visible(file[q].id)' => ~Whole(info'[file'[q].id])
    BY <1>0, <2>1 DEF OnePending, Visible
  <2>3. ASSUME NEW p \in Req \ {q}, file'[p] # None, file'[p].id = file'[q].id PROVE ~Whole(file'[p])
    BY <1>0, <2>1, <2>3 DEF OnePending
  <2> QED BY <2>2, <2>3
<1>11. RemovedIncomplete'
  <2>1. \A q \in Req : pc'[q] = "removeFile" => q # r /\ pc[q] = "removeFile" /\ file'[q] = file[q]
    BY <1>0
  <2>2. InfosKept
    BY <1>0 DEF InfosKept
  <2> QED BY <2>1, <2>2, RemovedIncompleteKept
<1>12. WholeStored'
  <2>1. ASSUME NEW j, NEW g, HasObject(j, g) PROVE object'[j] = Bytes(0, g.length) \/ Taken(j)'
    BY <1>0, <2>1 DEF HasObject, Taken
  <2>2. ASSUME NEW j \in Id, Visible(j)', Whole(info'[j]) PROVE HasObject(j, info[j])'
    <3>1. HasObject(j, info[j]) /\ info'[j] = info[j]
      BY <1>0, <2>2 DEF WholeStored
    <3> QED BY <2>1, <3>1 DEF HasObject
  <2>3. ASSUME NEW q \in Req, Pending(q)' PROVE HasObject(file[q].id, file[q])'
    <3>1. HasObject(file[q].id, file[q]) /\ file'[q] = file[q]
      BY <1>9, <2>3 DEF WholeStored
    <3> QED BY <2>1, <3>1 DEF HasObject
  <2> QED BY <2>2, <2>3 DEF WholeStored, Whole, Finished
<1>13. ObjectsWhole'
  BY <1>0 DEF ObjectsWhole, ObjectWhole
<1>14. DeletedObjectGone'
  BY <1>0 DEF DeletedObjectGone, Finished
<1>15. DownloadsWhole'
  <2>1. \A q \in Req : Method[q] = "GET" /\ resp'[q] = "ok" =>
          resp[q] = "ok" /\ file'[q] = file[q] /\ body'[q] = body[q]
    BY <1>0
  <2> QED BY <2>1, DownloadsWholeKept
<1> QED BY <1>1, <1>2, <1>3, <1>4, <1>5, <1>6, <1>7, <1>8, <1>10, <1>11, <1>12, <1>13, <1>14, <1>15

(* set_info stores what the handler held; its handler ends. *)
LEMMA SaveStep ==
  ASSUME S3Inv, TypeInv', NEW r \in Req, pc[r] = "save",
         info' = [info EXCEPT ![file[r].id] = file[r]],
         pc'[r] = "done", UNCHANGED <<used, file, body, partsInfo, cursor, object, multipart>>,
         \A q \in Req \ {r} : pc'[q] = pc[q] /\ resp'[q] = resp[q]
  PROVE  S3Inv'
<1> USE DEF S3Inv
<1> DEFINE k == file[r].id
<1>0. /\ file[r] \in FileInfo /\ file[r] # None /\ k \in Id /\ k \in used
      /\ Method[r] \in {"POST", "PATCH"}
      /\ \A q \in Req : q # r => pc'[q] = pc[q] /\ resp'[q] = resp[q]
      /\ info'[k] = file[r] /\ \A j \in Id : j # k => info'[j] = info[j]
      /\ \A j \in Id : Visible(j)' /\ j # k => Visible(j)
      /\ \A q \in Req : file'[q] = file[q] /\ body'[q] = body[q]
  <2>1. file[r] \in FileInfo /\ file[r] # None /\ k \in Id
    BY Holding
  <2>2. k \in used /\ Method[r] \in {"POST", "PATCH"} /\ k \in DOMAIN info
    BY <2>1 DEF IdsUsed, S3Typed, LocalsOK, S3TypeOK, HybridTypeOK, TypeOK
  <2>3. info'[k] = file[r] /\ \A j \in Id : j # k => info'[j] = info[j]
    BY <2>2
  <2> QED BY <2>1, <2>2, <2>3 DEF Visible
<1> HIDE DEF k
<1>1. S3Typed'
  <2>1. S3TypeOK' /\ \A q \in Req : LocalsOK(q)'
    BY DEF TypeInv, S3Typed, S3TypeOK, HybridTypeOK
  <2>2. S3Locals(r)'
    BY <1>0, S3Done
  <2>3. \A q \in Req : LocalsOK(q) /\ S3Locals(q)
    BY DEF S3Typed
  <2>4. \A q \in Req : LocalsOK(q)' /\ S3Locals(q)'
    BY <1>0, <2>1, <2>2, <2>3, S3OthersFrame
  <2> QED BY <2>1, <2>4 DEF S3Typed
<1>2. IdsUsed'
  BY <1>0 DEF IdsUsed, k
<1>3. ASSUME NEW q \in Req PROVE PostUnknown(q)'
  <2>1. CASE q = r
    BY <2>1 DEF PostUnknown
  <2>2. CASE q # r
    <3>1. PostUnknown(q) /\ pc'[q] = pc[q]
      BY <1>0, <2>2
    <3>2. InFlight(q) /\ Method[q] = "POST" => file[q].id # k
      BY <1>0, <2>2, <3>1 DEF PostUnknown, k
    <3>3. InFlight(q) => file[q].id \in Id
      BY Holding
    <3> QED BY <1>0, <2>2, <3>1, <3>2, <3>3 DEF PostUnknown
  <2> QED BY <2>1, <2>2
<1>4. Agreement'
  <2>1. ASSUME NEW q \in Req, file[q] # None, Visible(file[q].id)' PROVE Agree(file[q], info'[file[q].id])
    <3>0. file[q].id \in Id
      BY <2>1, Holding
    <3>1. CASE file[q].id = k
      BY <1>0, <2>1, <3>1 DEF Agreement, k
    <3>2. CASE file[q].id # k
      BY <1>0, <2>1, <3>0, <3>2 DEF Agreement
    <3> QED BY <3>1, <3>2
  <2> QED BY <1>0, <2>1 DEF Agreement
<1>5. PartsNumbered'
  <2>1. Numbered(k, file[r])
    BY DEF PartsNumbered, k
  <2>2. ASSUME NEW j \in Id, Visible(j)' PROVE Numbered(j, info[j])'
    BY <1>0, <2>1, <2>2 DEF PartsNumbered, Numbered
  <2>3. ASSUME NEW q \in Req, InFlight(q)' PROVE Numbered(file[q].id, file[q])'
    BY <1>0, <2>3 DEF PartsNumbered, Numbered
  <2> QED BY <2>2, <2>3 DEF PartsNumbered
<1>6. PartsExact'
  <2>1. Listed(file[r])
    BY DEF PartsExact
  <2>2. ASSUME NEW j \in Id, Visible(j)' PROVE Listed(info[j])'
    <3>1. Listed(info'[j])
      BY <1>0, <2>1, <2>2 DEF PartsExact
    <3> QED BY <3>1 DEF Listed, Lists
  <2>3. ASSUME NEW q \in Req, InFlight(q)', pc'[q] # "complete" PROVE Listed(file[q])'
    <3>1. Listed(file[q])
      BY <1>0, <2>3 DEF PartsExact
    <3> QED BY <1>0, <3>1 DEF Listed, Lists
  <2> QED BY <2>2, <2>3 DEF PartsExact
<1>7. \A q \in Req : ChunkExact(q)'
  <2>1. \A q \in Req : pc'[q] \in {"write", "complete"} =>
           pc'[q] = pc[q] /\ file'[q] = file[q] /\ body'[q] = body[q]
    BY <1>0
  <2> QED BY <2>1, ChunkExactKept
<1>8. OpenIncomplete'
  <2>1. ASSUME NEW j \in Id, multipart[j] # None
        PROVE  /\ Visible(j)' => ~Whole(info'[j])
               /\ \A q \in Req : file[q] # None /\ file[q].id = j => ~Whole(file[q])
    BY <1>0, <2>1 DEF OpenIncomplete, k
  <2> QED BY <1>0, <2>1 DEF OpenIncomplete, Whole, Finished
<1>9. ASSUME NEW q \in Req, Pending(q)' PROVE q # r /\ Pending(q)
  BY <1>0, <1>9 DEF Pending, Whole, Finished
<1>10. OnePending'
  <2> SUFFICES ASSUME NEW q \in Req, Pending(q)'
               PROVE  /\ Visible(file[q].id)' => ~Whole(info'[file[q].id])
                      /\ \A p \in Req \ {q} : file[p] # None /\ file[p].id = file[q].id =>
                           ~Whole(file[p])
    BY <1>0 DEF OnePending, Whole, Finished
  <2>1. q # r /\ Pending(q) /\ file[q].id \in Id
    BY <1>9, Holding DEF Pending
  <2>2. Visible(file[q].id)' => ~Whole(info'[file[q].id])
    <3>1. CASE file[q].id = k
      BY <1>0, <2>1, <3>1 DEF OnePending, k
    <3>2. CASE file[q].id # k
      BY <1>0, <2>1, <3>2 DEF OnePending
    <3> QED BY <3>1, <3>2
  <2> QED BY <2>1, <2>2 DEF OnePending
<1>11. RemovedIncomplete'
  <2> SUFFICES ASSUME NEW q \in Req, pc'[q] = "removeFile", Whole(file[q]), Visible(file[q].id)'
               PROVE  ~Whole(info'[file[q].id])
    BY <1>0 DEF RemovedIncomplete, Whole, Finished
  <2>1. q # r /\ pc[q] = "removeFile" /\ file[q] # None /\ file[q].id \in Id
    BY <1>0, Holding
  <2>2. CASE file[q].id = k
    <3>1. ~Pending(r)
      BY <1>0, <2>1, <2>2 DEF OnePending, k
    <3> QED BY <1>0, <2>2, <3>1 DEF Pending
  <2>3. CASE file[q].id # k
    BY <1>0, <2>1, <2>3 DEF RemovedIncomplete
  <2> QED BY <2>2, <2>3
<1>12. WholeStored'
  <2>1. ASSUME NEW j, NEW g, HasObject(j, g) PROVE object'[j] = Bytes(0, g.length) \/ Taken(j)'
    BY <1>0, <2>1 DEF HasObject, Taken
  <2>2. ASSUME NEW j \in Id, Visible(j)', Whole(info'[j]) PROVE HasObject(j, info'[j])
    <3>1. CASE j = k
      BY <1>0, <2>2, <3>1 DEF WholeStored, Pending, k
    <3>2. CASE j # k
      BY <1>0, <2>2, <3>2 DEF WholeStored
    <3> QED BY <3>1, <3>2
  <2>3. ASSUME NEW q \in Req, Pending(q)' PROVE HasObject(file[q].id, file[q])
    BY <1>9, <2>3 DEF WholeStored
  <2>4. \A j \in Id : Visible(j)' /\ Whole(info'[j]) => HasObject(j, info[j])'
    BY <2>1, <2>2 DEF HasObject
  <2>5. \A q \in Req : Pending(q)' => HasObject(file[q].id, file[q])'
    BY <1>0, <2>1, <2>3 DEF HasObject
  <2> QED BY <2>4, <2>5 DEF WholeStored, Whole, Finished
<1>13. ObjectsWhole'
  <2>1. ObjectWhole(k, file[r])
    BY <1>0 DEF ObjectsWhole, k
  <2>2. ASSUME NEW j \in Id, Visible(j)' PROVE ObjectWhole(j, info[j])'
    BY <1>0, <2>1, <2>2 DEF ObjectsWhole, ObjectWhole
  <2> QED BY <1>0, <2>2 DEF ObjectsWhole, ObjectWhole
<1>14. DeletedObjectGone'
  BY <1>0 DEF DeletedObjectGone, Finished
<1>15. DownloadsWhole'
  <2>1. \A q \in Req : Method[q] = "GET" /\ resp'[q] = "ok" =>
          resp[q] = "ok" /\ file'[q] = file[q] /\ body'[q] = body[q]
    BY <1>0
  <2> QED BY <2>1, DownloadsWholeKept
<1> QED BY <1>1, <1>2, <1>3, <1>4, <1>5, <1>6, <1>7, <1>8, <1>10, <1>11, <1>12, <1>13, <1>14, <1>15

(* A step that stores no info and no part, completes nothing, and changes objects  *)
(* only of a final upload being made, or removes one that nobody counts on.        *)
LEMMA KeptStep ==
  ASSUME S3Inv, S3Typed', InfosKept, FilesKept, FlightKept, WholeKept,
         used' = used, multipart' = multipart,
         \A q \in Req : InFlight(q)' =>
           /\ file'[q].metadata = file[q].metadata
           /\ pc'[q] # "complete" => pc[q] # "complete" /\ (file'[q] = file[q] \/ file'[q].final),
         \A q \in Req : pc'[q] \in {"write", "complete"} =>
           pc'[q] = pc[q] /\ file'[q] = file[q] /\ body'[q] = body[q],
         \A q \in Req : Pending(q)' => Pending(q) /\ file'[q] = file[q],
         \A q \in Req : pc'[q] = "removeFile" =>
           (pc[q] = "removeFile" /\ file'[q] = file[q]) \/ ~Visible(file[q].id)',
         \A i \in Id :
           \/ object'[i] = object[i]
           \/ /\ object'[i] = None
              /\ \/ Taken(i)'
                 \/ /\ Visible(i) => ~Whole(info[i])
                    /\ \A q \in Req : Pending(q) => file[q].id # i
           \/ \E r \in Req : InFlight(r) /\ Method[r] = "POST" /\ file[r].id = i /\ file[r].final,
         \A i \in Id : i \notin used => object'[i] = object[i],
         \A q \in Req : Method[q] = "DELETE" /\ resp'[q] = "ok" /\ Finished(file'[q]) =>
           \/ resp[q] = "ok" /\ file'[q] = file[q]
           \/ object'[file'[q].id] = None,
         DownloadsWhole'
  PROVE  S3Inv'
<1> USE DEF S3Inv
<1>1. IdsUsed'
  <2>1. \A i \in Id : i \notin used => object'[i] = object[i] /\ multipart'[i] = multipart[i]
    OBVIOUS
  <2> QED BY <2>1, IdsUsedKept
<1>2. \A q \in Req : PostUnknown(q)'
  BY PostUnknownKept
<1>3. Agreement'
  BY AgreementKept
<1>4. PartsNumbered'
  <2>1. \A i \in Id : multipart'[i] \in {multipart[i], None}
    OBVIOUS
  <2>2. \A q \in Req : InFlight(q)' =>
          InFlight(q) /\ file'[q].id = file[q].id /\ file'[q].metadata = file[q].metadata
    BY DEF FlightKept, FilesKept, SameUpload
  <2> QED BY <2>1, <2>2, PartsNumberedKept
<1>5. PartsExact'
  <2>1. \A q \in Req : InFlight(q)' /\ pc'[q] # "complete" =>
          \/ InFlight(q) /\ pc[q] # "complete" /\ file'[q] = file[q]
          \/ Listed(file'[q])
    BY DEF FlightKept, Listed
  <2> QED BY <2>1, PartsExactKept
<1>6. \A q \in Req : ChunkExact(q)'
  BY ChunkExactKept
<1>7. OpenIncomplete'
  BY OpenIncompleteKept
<1>8. OnePending'
  BY OnePendingKept
<1>9. RemovedIncomplete'
  BY RemovedIncompleteKept
<1>10. ASSUME NEW i \in Id, NEW r \in Req, InFlight(r), Method[r] = "POST", file[r].id = i, file[r].final
       PROVE  /\ ~Visible(i) /\ ~Visible(i)'
              /\ \A q \in Req : Pending(q) => file[q].id # i
              /\ \A q \in Req : file'[q] # None /\ file'[q].id = i => q = r /\ file'[q].final
  <2>1. ~Visible(i) /\ \A q \in Req \ {r} : file[q] # None => file[q].id # i
    BY <1>10 DEF PostUnknown, Visible
  <2>2. ~Visible(i)'
    BY <2>1, KeptVisible
  <2>3. ASSUME NEW q \in Req, Pending(q) PROVE file[q].id # i
    <3>1. file[q] # None
      BY <2>3, Holding DEF Pending
    <3> QED BY <1>10, <2>1, <2>3, <3>1 DEF Pending, Whole
  <2>4. ASSUME NEW q \in Req, file'[q] # None, file'[q].id = i PROVE q = r /\ file'[q].final
    BY <1>10, <2>1, <2>4 DEF FilesKept, SameUpload
  <2> QED BY <2>1, <2>2, <2>3, <2>4
<1>11. WholeStored'
  <2>1. \A i \in Id : \/ object'[i] = object[i]
                      \/ Taken(i)'
                      \/ /\ Visible(i) => ~Whole(info[i])
                         /\ \A q \in Req : Pending(q) => file[q].id # i
    BY <1>10, Zenon
  <2> QED BY <2>1, WholeStoredKept
<1>12. ObjectsWhole'
  <2>1. \A i \in Id : \/ object'[i] \in {object[i], None}
                      \/ /\ Visible(i)' => info'[i].final
                         /\ \A q \in Req : file'[q] # None /\ file'[q].id = i => file'[q].final
    BY <1>10
  <2> QED BY <2>1, ObjectsWholeKept
<1>13. ASSUME NEW q \in Req, resp'[q] = "ok" PROVE file'[q] # None /\ (resp[q] = "ok" => file[q].id \in Id)
  <2>1. file'[q] # None
    BY <1>13 DEF S3Typed, S3Locals
  <2>2. resp[q] = "ok" => file[q] # None
    BY DEF S3Typed, S3Locals
  <2> QED BY <2>1, <2>2, Holding
<1>14. DeletedObjectGone'
  <2>1. \A i \in Id : \/ object'[i] \in {object[i], None}
                      \/ \A q \in Req : Method[q] = "DELETE" /\ resp'[q] = "ok"
                                        /\ Finished(file'[q]) => file'[q].id # i
    <3> SUFFICES ASSUME NEW i \in Id, object'[i] \notin {object[i], None},
                        NEW q \in Req, Method[q] = "DELETE", resp'[q] = "ok"
                 PROVE  file'[q].id # i
      OBVIOUS
    <3>1. PICK r \in Req : InFlight(r) /\ Method[r] = "POST" /\ file[r].id = i /\ file[r].final
      OBVIOUS
    <3>2. q # r
      BY <3>1
    <3> QED BY <1>10, <1>13, <3>1, <3>2
  <2>2. \A q \in Req : Method[q] = "DELETE" /\ resp'[q] = "ok" /\ Finished(file'[q]) =>
           \/ resp[q] = "ok" /\ file'[q] = file[q] /\ file[q].id \in Id
           \/ object'[file'[q].id] = None
    BY <1>13
  <2> QED BY <2>1, <2>2, DeletedObjectGoneKept
<1> QED BY <1>1, <1>2, <1>3, <1>4, <1>5, <1>6, <1>7, <1>8, <1>9, <1>11, <1>12, <1>14

(* The object of i can be removed: it was taken, or the upload is not known as complete. *)
NotWanted(i) ==
  \/ Taken(i)'
  \/ /\ Visible(i) => ~Whole(info[i])
     /\ \A q \in Req : Pending(q) => file[q].id # i

(* What the request r may do to the objects. *)
ObjectsFollow(r) ==
  \A i \in Id :
    \/ object'[i] = object[i]
    \/ object'[i] = None /\ NotWanted(i)
    \/ i = file[r].id /\ Method[r] = "POST" /\ file[r].final

(* KeptStep, when one request is at work. *)
LEMMA OneKept ==
  ASSUME S3Inv, NEW r \in Req, InFlight(r), S3TypeOK', LocalsOK(r)', S3Locals(r)',
         \A q \in Req \ {r} : /\ pc'[q] = pc[q] /\ file'[q] = file[q] /\ body'[q] = body[q]
                              /\ partsInfo'[q] = partsInfo[q] /\ cursor'[q] = cursor[q]
                              /\ resp'[q] = resp[q],
         InfosKept, SameUpload(r), file'[r] = file[r] \/ file'[r].final,
         file'[r].metadata = file[r].metadata, InFlight(r)' => pc[r] # "complete",
         pc'[r] \notin {"write", "complete"}, pc'[r] = "save" => file'[r].final,
         pc'[r] = "removeFile" => ~Visible(file[r].id)',
         used' = used, multipart' = multipart,
         ObjectsFollow(r),
         resp'[r] = "ok" => Method[r] \in {"DELETE", "GET"},
         resp'[r] = "ok" /\ Method[r] = "DELETE" /\ Finished(file'[r]) => object'[file'[r].id] = None,
         NoDeferral /\ resp'[r] = "ok" /\ Method[r] = "GET" /\ ~file'[r].final =>
           body'[r] = Bytes(0, file'[r].length)
  PROVE  S3Inv'
<1> USE DEF S3Inv
<1>0. \A q \in Req : q # r => /\ pc'[q] = pc[q] /\ file'[q] = file[q] /\ body'[q] = body[q]
                              /\ resp'[q] = resp[q]
  OBVIOUS
<1>1. S3Typed'
  <2>1. \A q \in Req : LocalsOK(q) /\ S3Locals(q)
    BY DEF S3Typed
  <2>2. \A q \in Req : LocalsOK(q)' /\ S3Locals(q)'
    BY <2>1, S3OthersFrame
  <2> QED BY <2>2 DEF S3Typed
<1>2. FilesKept
  BY <1>0 DEF FilesKept, SameUpload
<1>3. FlightKept /\ WholeKept
  BY <1>0 DEF FlightKept, WholeKept, Whole
<1>4. \A q \in Req : InFlight(q)' =>
           /\ file'[q].metadata = file[q].metadata
           /\ pc'[q] # "complete" => pc[q] # "complete" /\ (file'[q] = file[q] \/ file'[q].final)
  BY <1>0
<1>5. \A q \in Req : pc'[q] \in {"write", "complete"} =>
           pc'[q] = pc[q] /\ file'[q] = file[q] /\ body'[q] = body[q]
  BY <1>0
<1>6. \A q \in Req : Pending(q)' => Pending(q) /\ file'[q] = file[q]
  BY <1>0 DEF Pending, Whole, Finished
<1>7. \A q \in Req : pc'[q] = "removeFile" =>
           (pc[q] = "removeFile" /\ file'[q] = file[q]) \/ ~Visible(file[q].id)'
  BY <1>0
<1>8. \A i \in Id :
           \/ object'[i] = object[i]
           \/ /\ object'[i] = None
              /\ \/ Taken(i)'
                 \/ /\ Visible(i) => ~Whole(info[i])
                    /\ \A q \in Req : Pending(q) => file[q].id # i
           \/ \E q \in Req : InFlight(q) /\ Method[q] = "POST" /\ file[q].id = i /\ file[q].final
  BY DEF ObjectsFollow, NotWanted
<1>9. \A i \in Id : i \notin used => object'[i] = object[i]
  BY Holding DEF IdsUsed, ObjectsFollow
<1>10. \A q \in Req : Method[q] = "DELETE" /\ resp'[q] = "ok" /\ Finished(file'[q]) =>
           \/ resp[q] = "ok" /\ file'[q] = file[q]
           \/ object'[file'[q].id] = None
  BY <1>0
<1>11. DownloadsWhole'
  BY <1>0 DEF DownloadsWhole, DownloadIsWhole, NoDeferral
<1> QED BY <1>1, <1>2, <1>3, <1>4, <1>5, <1>6, <1>7, <1>8, <1>9, <1>10, <1>11, KeptStep

(* A handler that answers with an error, and stores nothing. *)
LEMMA RefusedStep ==
  ASSUME S3Inv, NEW r \in Req, Answer(r, "error"),
         UNCHANGED <<stores, used, file, body, partsInfo, cursor, gone, telemetry, object, multipart>>
  PROVE  S3Inv'
<1>1. TypeInv'
  BY TypedTypeInv, RefusedTypeInv DEF S3Inv
<1>2. S3TypeOK'
  BY <1>1 DEF TypeInv, S3Inv, S3Typed, S3TypeOK, HybridTypeOK
<1>3. \A q \in Req : /\ pc'[q] = "done" \/ (pc'[q] = pc[q] /\ resp'[q] = resp[q])
                     /\ resp'[q] \in {resp[q], "error", "none"}
  BY DEF Answer, S3Inv, S3Typed, S3TypeOK, HybridTypeOK, TypeOK
<1> QED BY <1>2, <1>3, EndsStep DEF stores

(* A client that leaves has its handler dropped. *)
LEMMA DisconnectStep ==
  ASSUME S3Inv, NEW r \in Req, Disconnect(r), UNCHANGED <<object, multipart>>
  PROVE  S3Inv'
<1>1. TypeInv'
  BY TypedTypeInv, DisconnectTypeInv DEF S3Inv
<1>2. S3TypeOK'
  BY <1>1 DEF TypeInv, S3Inv, S3Typed, S3TypeOK, HybridTypeOK
<1>3. \A q \in Req : /\ pc'[q] = "done" \/ (pc'[q] = pc[q] /\ resp'[q] = resp[q])
                     /\ resp'[q] \in {resp[q], "error", "none"}
  <2>1. resp' = resp /\ (pc' = [pc EXCEPT ![r] = "done"] \/ pc' = pc)
    BY DEF Disconnect
  <2>2. \A q \in Req : pc'[q] \in {"done", pc[q]}
    BY <2>1 DEF S3Inv, S3Typed, S3TypeOK, HybridTypeOK, TypeOK
  <2> QED BY <2>1, <2>2
<1> QED BY <1>2, <1>3, EndsStep DEF Disconnect, stores

(* The hooks, a restart, and the waiting server. *)
LEMMA BackgroundStep ==
  ASSUME S3Inv, S3Background
  PROVE  S3Inv'
<1>0. TypeInv /\ UNCHANGED <<object, multipart>>
  BY TypedTypeInv DEF S3Inv, S3Background
<1>1. TypeInv'
  BY <1>0, SendTypeInv, CrashTypeInv, StutterTypeInv DEF S3Background, Quiet
<1>2. S3TypeOK'
  BY <1>0, <1>1 DEF TypeInv, S3Inv, S3Typed, S3TypeOK, HybridTypeOK
<1>3. /\ UNCHANGED <<info, used, file, body, partsInfo, cursor, resp>>
      /\ \A q \in Req : pc'[q] = "done" \/ pc'[q] = pc[q]
  BY DEF S3Background, Send, SendFails, Crash, Quiet, vars, stores, handlers
<1> QED BY <1>0, <1>2, <1>3, EndsStep

(* Nothing happens. *)
LEMMA StutterStep ==
  ASSUME S3Inv, UNCHANGED s3vars
  PROVE  S3Inv'
<1>0. TypeInv /\ UNCHANGED <<object, multipart>> /\ UNCHANGED vars
  BY TypedTypeInv DEF S3Inv, s3vars
<1>1. TypeInv'
  BY <1>0, StutterTypeInv
<1>2. S3TypeOK'
  BY <1>0, <1>1 DEF TypeInv, S3Inv, S3Typed, S3TypeOK, HybridTypeOK
<1>3. UNCHANGED <<info, used, file, body, partsInfo, cursor, resp, pc>>
  BY <1>0 DEF vars
<1> QED BY <1>0, <1>2, <1>3, EndsStep

(* A PATCH that takes up an upload. *)
LEMMA PatchStep ==
  ASSUME S3Inv, NEW r \in Req, NEW i \in Id, NEW m \in PatchMsg, PatchAccepted(r, i, m),
         UNCHANGED <<object, multipart>>
  PROVE  S3Inv'
<1> DEFINE f == Resized(info[i], m)
<1>1. TypeInv' /\ S3TypeOK'
  <2>1. TypeInv'
    BY TypedTypeInv, PatchTypeInv DEF S3Inv
  <2> QED BY <2>1 DEF TypeInv, S3Inv, S3Typed, S3TypeOK, HybridTypeOK
<1>2. /\ Visible(i) /\ pc[r] = "idle" /\ Method[r] = "PATCH" /\ info[i] \in FileInfo /\ info[i].id = i
      /\ m.offset = info[i].offset /\ ~info[i].final /\ m \in PatchMsg
      /\ r \in DOMAIN pc /\ r \in DOMAIN file /\ r \in DOMAIN body
  <2>1. Visible(i) /\ pc[r] = "idle" /\ Method[r] = "PATCH" /\ m.offset = info[i].offset /\ ~info[i].final
    BY DEF PatchAccepted, PatchAdmissible, Begins
  <2> QED BY <2>1 DEF S3Inv, S3Typed, S3TypeOK, HybridTypeOK, TypeOK, Visible, IdsUsed
<1>3. /\ f \in FileInfo /\ m.n \in Nat /\ f.id = i /\ f.final = info[i].final
      /\ f.metadata = info[i].metadata /\ f.offset = info[i].offset
      /\ f.length = info[i].length \/ (NewLength(m) # None /\ f.length = NewLength(m))
  <2>1. f \in FileInfo /\ m.n \in Nat
    BY <1>2, ResizedType
  <2>2. /\ f.id = i /\ f.final = info[i].final /\ f.metadata = info[i].metadata
        /\ f.offset = info[i].offset
        /\ f.length = info[i].length \/ (NewLength(m) # None /\ f.length = NewLength(m))
    BY <1>2 DEF Resized, FileInfo
  <2> QED BY <2>1, <2>2
<1>4. f.length # f.offset /\ info[i].offset \in Nat
      /\ (NewLength(m) # None => NewLength(m) >= info[i].offset /\ info[i].length = None)
  BY <1>2, <1>3, FileFields DEF PatchAccepted, PatchAdmissible
<1>5. NewLength(m) \in Nat \cup {None} /\ (NoDeferral => NewLength(m) = None)
  <2>1. m.length \in Nat \cup {None}
    BY InputAssumption DEF PatchMsg, LengthHeader
  <2> QED BY <2>1 DEF NewLength, NoDeferral
<1> HIDE DEF f
<1>6. Agree(f, info[i]) /\ ~Whole(f) /\ ~Finished(f)
  BY <1>3, <1>4, <1>5, NoneAssumption DEF Agree, Whole, Finished
<1>7. /\ pc' = [pc EXCEPT ![r] = "write"] /\ file' = [file EXCEPT ![r] = f]
      /\ body' = [body EXCEPT ![r] = Bytes(m.offset, m.n)] /\ resp' = resp
      /\ UNCHANGED <<info, used, partsInfo, cursor>>
  BY DEF PatchAccepted, f, stores
<1>8. body'[r] = Bytes(f.offset, Len(body'[r]))
  <2>1. body'[r] = Bytes(m.offset, m.n) /\ m.offset = f.offset
    BY <1>2, <1>3, <1>7
  <2>2. Len(Bytes(m.offset, m.n)) = m.n
    BY <1>2, <1>3, <1>4, BytesType
  <2> QED BY <2>1, <2>2
<1>9. LocalsOK(r)' /\ resp[r] = "none"
  BY <1>1, <1>2 DEF TypeInv, S3Inv, S3Typed, S3Locals
<1>10. /\ pc'[r] = "write" /\ resp'[r] = "none"
       /\ \A q \in Req \ {r} : pc'[q] = pc[q] /\ body'[q] = body[q] /\ resp'[q] = resp[q]
  BY <1>2, <1>7, <1>9
<1> QED BY <1>1, <1>2, <1>3, <1>6, <1>7, <1>8, <1>9, <1>10, EnterStep

(* A DELETE, GET or HEAD that takes up an upload. *)
LEMMA TakeStep ==
  ASSUME S3Inv, NEW r \in Req, NEW i \in Id, UNCHANGED <<object, multipart>>,
         DeleteAccepted(r, i) \/ GetAccepted(r, i) \/ HeadAnswered(r, i)
  PROVE  S3Inv'
<1>1. TypeInv' /\ S3TypeOK'
  <2>1. TypeInv'
    BY TypedTypeInv, DeleteTypeInv, GetTypeInv, HeadTypeInv DEF S3Inv
  <2> QED BY <2>1 DEF TypeInv, S3Inv, S3Typed, S3TypeOK, HybridTypeOK
<1>2. Visible(i) /\ pc[r] = "idle" /\ Method[r] # "POST"
  BY DEF DeleteAccepted, GetAccepted, HeadAnswered, Begins
<1>3. /\ info[i] \in FileInfo /\ info[i].id = i /\ resp[r] = "none"
      /\ r \in DOMAIN pc /\ r \in DOMAIN resp
  BY <1>2 DEF S3Inv, S3Typed, S3Locals, S3TypeOK, HybridTypeOK, TypeOK, Visible, IdsUsed
<1>4. /\ file' = [file EXCEPT ![r] = info[i]]
      /\ UNCHANGED <<info, used, body, partsInfo, cursor>>
      /\ pc'[r] \in {"removeInfo", "read", "done"}
      /\ pc'[r] # "done" => resp'[r] = "none"
      /\ resp'[r] = "ok" => Method[r] = "HEAD"
      /\ \A q \in Req \ {r} : pc'[q] = pc[q] /\ body'[q] = body[q] /\ resp'[q] = resp[q]
  <2>1. CASE DeleteAccepted(r, i) \/ GetAccepted(r, i)
    <3>1. /\ file' = [file EXCEPT ![r] = info[i]]
          /\ UNCHANGED <<info, used, body, partsInfo, cursor, resp>>
          /\ pc' = [pc EXCEPT ![r] = "removeInfo"] \/ pc' = [pc EXCEPT ![r] = "read"]
      BY <2>1 DEF DeleteAccepted, GetAccepted, stores
    <3>2. pc'[r] \in {"removeInfo", "read"} /\ \A q \in Req \ {r} : pc'[q] = pc[q]
      BY <3>1 DEF S3Inv, S3Typed, S3TypeOK, HybridTypeOK, TypeOK
    <3> QED BY <1>3, <3>1, <3>2
  <2>2. CASE HeadAnswered(r, i)
    BY <1>3, <2>2 DEF HeadAnswered, Begins, stores, Answer
  <2> QED BY <2>1, <2>2
<1>5. Agree(info[i], info[i]) /\ LocalsOK(r)'
  BY <1>1 DEF Agree, TypeInv
<1> QED BY <1>1, <1>2, <1>3, <1>4, <1>5, EnterStep

(* get_info of a part, and its checks. *)
LEMMA ReadPartStep ==
  ASSUME S3Inv, NEW r \in Req, ReadPart(r), UNCHANGED <<object, multipart>>
  PROVE  S3Inv'
<1> USE DEF ReadPart
<1>1. TypeInv' /\ S3TypeOK'
  <2>1. TypeInv'
    BY TypedTypeInv, ReadPartTypeInv DEF S3Inv
  <2> QED BY <2>1 DEF TypeInv, S3Inv, S3Typed, S3TypeOK, HybridTypeOK
<1>2. CASE PartAcceptable(info[Part(r)])
  <2>1. /\ pc[r] = "readPart" /\ file[r].final /\ resp[r] = "none" /\ file[r] # None
        /\ r \in DOMAIN pc
    BY Holding DEF S3Inv, S3Typed, S3Locals, Reading, S3TypeOK, HybridTypeOK, TypeOK
  <2>2. /\ file' = file /\ body' = body /\ resp' = resp /\ info' = info /\ used' = used
        /\ pc'[r] \in {"copyPart", "readPart", "done"}
        /\ \A q \in Req \ {r} : /\ pc'[q] = pc[q] /\ cursor'[q] = cursor[q]
                                /\ partsInfo'[q] = partsInfo[q]
    BY <1>2, <2>1 DEF GoTo, Advance, stores, S3Inv, S3Typed, S3TypeOK, HybridTypeOK, TypeOK
  <2>3. S3Locals(r)' /\ LocalsOK(r)'
    BY <1>1, <2>1, <2>2 DEF S3Locals, Joining, Reading, TypeInv
  <2>4. InfosKept /\ SameUpload(r)
    BY <2>2 DEF InfosKept, SameUpload
  <2> QED BY <1>1, <2>1, <2>2, <2>3, <2>4, OneKept DEF ObjectsFollow
<1>3. CASE ~PartAcceptable(info[Part(r)])
  BY <1>3, RefusedStep
<1> QED BY <1>2, <1>3

(* remove_info of a part, and ... *)
LEMMA DropInfoStep ==
  ASSUME S3Inv, NEW r \in Req, DropInfo(r), UNCHANGED <<object, multipart>>
  PROVE  S3Inv'
<1> USE DEF DropInfo
<1>1. TypeInv' /\ S3TypeOK'
  <2>1. TypeInv'
    BY TypedTypeInv, DropInfoTypeInv DEF S3Inv
  <2> QED BY <2>1 DEF TypeInv, S3Inv, S3Typed, S3TypeOK, HybridTypeOK
<1>2. CASE info[Part(r)] # None
  <2>1. /\ pc[r] = "dropInfo" /\ file[r].final /\ resp[r] = "none" /\ file[r] # None
        /\ r \in DOMAIN pc
    BY Holding DEF S3Inv, S3Typed, S3Locals, Joining, S3TypeOK, HybridTypeOK, TypeOK
  <2>2. /\ file' = file /\ body' = body /\ resp' = resp /\ used' = used /\ partsInfo' = partsInfo
        /\ pc'[r] \in {"save", "dropFile", "done"}
        /\ \A q \in Req \ {r} : pc'[q] = pc[q] /\ cursor'[q] = cursor[q]
    BY <1>2, <2>1 DEF GoTo, Advance, S3Inv, S3Typed, S3TypeOK, HybridTypeOK, TypeOK
  <2>3. S3Locals(r)' /\ LocalsOK(r)'
    BY <1>1, <2>1, <2>2 DEF S3Locals, Joining, Reading, TypeInv
  <2>4. InfosKept /\ SameUpload(r)
    BY <1>2, <2>2 DEF InfosKept, SameUpload, S3Inv, S3Typed, S3TypeOK, HybridTypeOK, TypeOK
  <2> QED BY <1>1, <2>1, <2>2, <2>3, <2>4, OneKept DEF ObjectsFollow
<1>3. CASE info[Part(r)] = None
  BY <1>3, RefusedStep DEF stores
<1> QED BY <1>2, <1>3

(* ... of terminate. *)
LEMMA RemoveInfoStep ==
  ASSUME S3Inv, NEW r \in Req, RemoveInfo(r), UNCHANGED <<object, multipart>>
  PROVE  S3Inv'
<1> USE DEF RemoveInfo
<1>1. TypeInv' /\ S3TypeOK'
  <2>1. TypeInv'
    BY TypedTypeInv, RemoveInfoTypeInv DEF S3Inv
  <2> QED BY <2>1 DEF TypeInv, S3Inv, S3Typed, S3TypeOK, HybridTypeOK
<1>2. CASE info[file[r].id] # None
  <2>1. /\ pc[r] = "removeInfo" /\ resp[r] = "none" /\ file[r] # None /\ file[r].id \in Id
        /\ r \in DOMAIN pc
    BY Holding DEF S3Inv, S3Typed, S3Locals, S3TypeOK, HybridTypeOK, TypeOK
  <2>2. /\ file' = file /\ body' = body /\ resp' = resp /\ used' = used /\ partsInfo' = partsInfo
        /\ cursor' = cursor
        /\ pc'[r] \in {"removeFile", "done"}
        /\ \A q \in Req \ {r} : pc'[q] = pc[q]
    BY <1>2, <2>1 DEF GoTo, S3Inv, S3Typed, S3TypeOK, HybridTypeOK, TypeOK
  <2>3. S3Locals(r)' /\ LocalsOK(r)'
    BY <1>1, <2>1, <2>2 DEF S3Locals, Joining, Reading, TypeInv
  <2>4. InfosKept /\ SameUpload(r) /\ ~Visible(file[r].id)'
    BY <1>2, <2>1, <2>2 DEF InfosKept, SameUpload, Visible, S3Inv, S3Typed, S3TypeOK, HybridTypeOK, TypeOK
  <2> QED BY <1>1, <2>1, <2>2, <2>3, <2>4, OneKept DEF ObjectsFollow
<1>3. CASE info[file[r].id] = None
  BY <1>3, RefusedStep DEF stores
<1> QED BY <1>2, <1>3

(* set_info. *)
LEMMA SaveInfoStep ==
  ASSUME S3Inv, NEW r \in Req, SaveInfo(r), UNCHANGED <<object, multipart>>
  PROVE  S3Inv'
<1>1. TypeInv'
  BY TypedTypeInv, SaveInfoTypeInv DEF S3Inv
<1>2. /\ pc'[r] = "done"
      /\ \A q \in Req \ {r} : pc'[q] = pc[q] /\ resp'[q] = resp[q]
  BY DEF SaveInfo, Saved, Answer, S3Inv, S3Typed, S3TypeOK, HybridTypeOK, TypeOK
<1> QED BY <1>1, <1>2, SaveStep DEF SaveInfo

(* Redis executed the command, and its answer is lost. *)
LEMMA RedisStep ==
  ASSUME S3Inv, NEW r \in Req, RedisAnswerLost(r), UNCHANGED <<object, multipart>>
  PROVE  S3Inv'
<1>1. TypeInv' /\ S3TypeOK'
  <2>1. TypeInv'
    BY TypedTypeInv, RedisTypeInv DEF S3Inv
  <2> QED BY <2>1 DEF TypeInv, S3Inv, S3Typed, S3TypeOK, HybridTypeOK
<1>2. /\ pc'[r] = "done" /\ resp'[r] \in {"none", "error"}
      /\ \A q \in Req \ {r} : pc'[q] = pc[q] /\ resp'[q] = resp[q]
      /\ UNCHANGED <<used, file, body, partsInfo, cursor>>
  BY DEF RedisAnswerLost, Answer, S3Inv, S3Typed, S3TypeOK, HybridTypeOK, TypeOK
<1>3. CASE pc[r] = "save"
  <2>1. info' = [info EXCEPT ![file[r].id] = file[r]]
    BY <1>3 DEF RedisAnswerLost
  <2> QED BY <1>1, <1>2, <1>3, <2>1, SaveStep
<1>4. CASE pc[r] \in {"removeInfo", "dropInfo"}
  <2>1. InfosKept
    BY <1>4 DEF RedisAnswerLost, InfosKept, S3Inv, S3Typed, S3TypeOK, HybridTypeOK, TypeOK
  <2>2. InFlight(r) /\ SameUpload(r) /\ LocalsOK(r)' /\ S3Locals(r)'
    BY <1>1, <1>2, <1>4, S3Done DEF SameUpload
  <2> QED BY <1>1, <1>2, <1>4, <2>1, <2>2, OneKept DEF ObjectsFollow
<1> QED BY <1>3, <1>4 DEF RedisAnswerLost

(* A handler that ends although S3 did what it was asked for. *)
LEMMA LostStep ==
  ASSUME S3Inv, NEW r \in Req, InFlight(r), Answer(r, "error"), S3TypeOK', ObjectsFollow(r),
         UNCHANGED <<stores, used, file, body, partsInfo, cursor, multipart>>
  PROVE  S3Inv'
<1>1. TypeOK
  BY DEF S3Inv, S3Typed, S3TypeOK, HybridTypeOK
<1>2. /\ pc'[r] = "done" /\ resp'[r] \in {"none", "error"}
      /\ \A q \in Req \ {r} : pc'[q] = pc[q] /\ resp'[q] = resp[q]
  BY <1>1 DEF Answer, TypeOK
<1>3. InfosKept /\ SameUpload(r)
  BY DEF InfosKept, SameUpload, stores
<1>4. LocalsOK(r)' /\ S3Locals(r)'
  BY <1>2, S3Done
<1> QED BY <1>2, <1>3, <1>4, OneKept

(* concat_files fetches a part ... *)
LEMMA DownloadPartStep ==
  ASSUME S3Inv, NEW r \in Req, DownloadPart(r), UNCHANGED multipart
  PROVE  S3Inv'
<1> USE DEF DownloadPart
<1>0. TypeInv /\ TypeOK /\ Joining(r) /\ pc[r] = "copyPart"
  BY TypedTypeInv DEF S3Inv, TypeInv, Joining
<1>1. CASE object[Part(r)] # None
  <2>1. /\ file[r].final /\ resp[r] = "none" /\ file[r] # None /\ InFlight(r)
    BY <1>0, Holding DEF S3Inv, S3Typed, S3Locals
  <2>2. /\ Part(r) \in Id /\ Method[r] = "POST" /\ cursor[r] \in 1..Len(file[r].parts)
        /\ Len(partsInfo[r]) = Len(file[r].parts)
    BY <1>0, AtPart
  <2>3. /\ Joined(r) \in FileInfo /\ Joined(r) # None /\ Joined(r).id = file[r].id
        /\ Joined(r).parts = file[r].parts /\ Joined(r).final = file[r].final
        /\ Joined(r).metadata = file[r].metadata
    BY <1>0, JoinedType
  <2>4. /\ file'[r] = Joined(r) /\ \A q \in Req \ {r} : file'[q] = file[q]
        /\ file' \in [Req -> FileInfo \cup {None}]
    <3>1. /\ file' = [file EXCEPT ![r] = Joined(r)] /\ Joined(r) \in FileInfo
          /\ file \in [Req -> FileInfo \cup {None}]
      BY <1>0, <1>1, <2>3 DEF TypeOK
    <3> HIDE DEF DownloadPart
    <3> QED BY <3>1
  <2>5. /\ cursor' \in [Req -> Nat \ {0}] /\ \A q \in Req \ {r} : cursor'[q] = cursor[q]
        /\ cursor'[r] = IF LastPart(r) THEN 1 ELSE cursor[r] + 1
    BY <1>0, <1>1, AdvanceType
  <2>6. /\ pc' \in [Req -> Pcs] /\ \A q \in Req \ {r} : pc'[q] = pc[q]
        /\ pc'[r] \in {IF LastPart(r) THEN "putJoined" ELSE "copyPart", "done"}
    <3> DEFINE next == IF LastPart(r) THEN "putJoined" ELSE "copyPart"
    <3>1. next \in Pcs /\ GoTo(r, next)
      BY <1>1 DEF Pcs
    <3> QED BY <1>0, <3>1, GoToType
  <2>7. body' \in [Req -> Seq(Nat)] /\ \A q \in Req \ {r} : body'[q] = body[q]
    <3>1. body[r] \in Seq(Nat) /\ object[Part(r)] \in Seq(Nat)
      BY <1>0, <1>1, <2>2 DEF TypeOK, S3Inv, S3Typed, S3TypeOK, HybridTypeOK
    <3>2. body[r] \o object[Part(r)] \in Seq(Nat)
      BY <3>1, ConcatProperties
    <3> DEFINE b == body[r] \o object[Part(r)]
    <3>3. body' = [body EXCEPT ![r] = b] /\ body \in [Req -> Seq(Nat)] /\ b \in Seq(Nat)
      BY <1>0, <1>1, <3>2 DEF TypeOK
    <3> HIDE DEF b, DownloadPart
    <3> QED BY <3>3, Zenon
  <2>8. S3TypeOK'
    BY <1>0, <1>1, <2>4, <2>5, <2>6, <2>7
    DEF TypeOK, S3Inv, S3Typed, S3TypeOK, HybridTypeOK, stores, telemetry
  <2>9. LocalsOK(r)' /\ S3Locals(r)'
    <3>1. /\ file'[r] # None /\ file'[r].parts = file[r].parts /\ file'[r].final
          /\ resp'[r] = "none" /\ partsInfo'[r] = partsInfo[r] /\ file[r].parts \in Seq(Id)
      BY <1>0, <1>1, <2>1, <2>3, <2>4, AtWork
    <3>2. pc'[r] \in {"putJoined", "copyPart", "done"}
      BY <2>6
    <3>3. pc'[r] = "putJoined" => cursor'[r] = 1 /\ file[r].parts # <<>>
      BY <2>2, <2>5, <2>6, <3>1
    <3>4. pc'[r] = "copyPart" => cursor'[r] <= Len(file[r].parts)
      BY <2>2, <2>5, <2>6, <3>1 DEF LastPart
    <3> HIDE DEF DownloadPart
    <3>5. LocalsOK(r)'
      BY <2>2, <3>1, <3>2, <3>4 DEF LocalsOK, Joining, Reading
    <3>6. S3Locals(r)'
      BY <2>2, <3>1, <3>2, <3>3 DEF S3Locals, Joining, Reading
    <3> QED BY <3>5, <3>6
  <2>10. InfosKept /\ SameUpload(r) /\ ObjectsFollow(r)
    BY <2>1, <2>3, <2>4 DEF InfosKept, SameUpload, ObjectsFollow, stores
  <2> QED BY <1>0, <1>1, <2>1, <2>2, <2>3, <2>4, <2>5, <2>6, <2>7, <2>8, <2>9, <2>10, OneKept
<1>2. CASE object[Part(r)] = None
  BY <1>2, RefusedStep
<1> QED BY <1>1, <1>2

(* ... puts what it joined, ... *)
LEMMA PutJoinedObject ==
  ASSUME S3Inv, NEW r \in Req, pc[r] = "putJoined",
         object' = [object EXCEPT ![file[r].id] = body[r]]
  PROVE  ObjectsFollow(r) /\ object' \in [Id -> Seq(Nat) \cup {None}]
<1>1. file[r].final /\ Method[r] = "POST" /\ file[r].id \in Id
  BY Holding DEF S3Inv, S3Typed, S3Locals
<1> QED BY <1>1 DEF ObjectsFollow, S3Inv, S3Typed, S3TypeOK, HybridTypeOK, TypeOK

(* The object of a final upload, when the call succeeds. *)
LEMMA PutJoinedStep ==
  ASSUME S3Inv, NEW r \in Req, PutJoined(r), UNCHANGED multipart
  PROVE  S3Inv'
<1> USE DEF PutJoined
<1>0. TypeOK /\ S3Locals(r) /\ InFlight(r) /\ file[r] # None /\ file[r].parts \in Seq(Id)
  BY Holding DEF S3Inv, S3Typed, S3TypeOK, HybridTypeOK
<1>1. ObjectsFollow(r) /\ object' \in [Id -> Seq(Nat) \cup {None}]
  BY PutJoinedObject
<1>2. /\ pc' \in [Req -> Pcs] /\ \A q \in Req \ {r} : pc'[q] = pc[q]
      /\ pc'[r] \in {IF RemoveParts THEN "dropFile" ELSE "save", "done"}
  <2> DEFINE next == IF RemoveParts THEN "dropFile" ELSE "save"
  <2>1. next \in Pcs /\ GoTo(r, next)
    BY DEF Pcs
  <2> QED BY <1>0, <2>1, GoToType
<1>3. body' \in [Req -> Seq(Nat)] /\ \A q \in Req \ {r} : body'[q] = body[q]
  <2>1. <<>> \in Seq(Nat) /\ body \in [Req -> Seq(Nat)]
    BY <1>0 DEF TypeOK
  <2>2. body' = [body EXCEPT ![r] = <<>>]
    OBVIOUS
  <2> HIDE DEF PutJoined
  <2> QED BY <2>1, <2>2, Zenon
<1>4. S3TypeOK'
  BY <1>0, <1>1, <1>2, <1>3
  DEF TypeOK, S3Inv, S3Typed, S3TypeOK, HybridTypeOK, stores, telemetry
<1>5. LocalsOK(r)' /\ S3Locals(r)'
  <2>1. /\ Method[r] = "POST" /\ cursor[r] = 1 /\ file[r].parts # <<>> /\ file[r].final
        /\ Len(partsInfo[r]) = Len(file[r].parts)
    BY <1>0 DEF S3Locals
  <2>2. cursor[r] \in 1..Len(file[r].parts)
    BY <1>0, <2>1
  <2>3. pc'[r] = "dropFile" => RemoveParts
    BY <1>2
  <2>4. LocalsOK(r)'
    BY <1>0, <1>2, <2>1, <2>2, <2>3 DEF LocalsOK, Joining, Reading
  <2>5. S3Locals(r)'
    BY <1>0, <1>2, <2>1 DEF S3Locals, Joining, Reading
  <2> QED BY <2>4, <2>5
<1>6. InfosKept /\ SameUpload(r) /\ resp'[r] = "none" /\ file[r].final
  BY <1>0 DEF InfosKept, SameUpload, S3Locals, stores
<1> QED BY <1>0, <1>1, <1>2, <1>3, <1>4, <1>5, <1>6, OneKept

(* ... and remove_file removes the object of a part. *)
LEMMA DropObjectObject ==
  ASSUME S3Inv, NEW r \in Req, pc[r] = "dropFile", file' = file,
         object' = [object EXCEPT ![Part(r)] = None]
  PROVE  ObjectsFollow(r) /\ object' \in [Id -> Seq(Nat) \cup {None}]
<1>1. /\ RemoveParts /\ file[r] # None /\ Part(r) \in Id /\ cursor[r] \in 1..Len(file[r].parts)
      /\ file[r].parts \in Seq(Id)
  BY TypedTypeInv, AtPart, Holding DEF S3Inv, S3Typed, LocalsOK, Joining
<1>2. PICK i \in Id : i = Part(r)
  BY <1>1
<1>3. i \in PartIds(file[r])
  BY <1>1, <1>2 DEF Part, PartIds
<1>4. Taken(i)'
  BY <1>1, <1>3 DEF Taken, PartIds
<1>5. object' = [object EXCEPT ![i] = None]
  BY <1>2
<1>6. \A j \in Id : object'[j] = object[j] \/ (object'[j] = None /\ Taken(j)')
  BY <1>4, <1>5 DEF S3Inv, S3Typed, S3TypeOK, HybridTypeOK
<1>7. object' \in [Id -> Seq(Nat) \cup {None}]
  BY <1>5 DEF S3Inv, S3Typed, S3TypeOK, HybridTypeOK
<1> QED BY <1>6, <1>7 DEF ObjectsFollow, NotWanted

(* A part loses its object, when the call succeeds. *)
LEMMA DropObjectStep ==
  ASSUME S3Inv, NEW r \in Req, DropObject(r), UNCHANGED multipart
  PROVE  S3Inv'
<1> USE DEF DropObject
<1>0. /\ TypeOK /\ S3Locals(r) /\ LocalsOK(r) /\ InFlight(r) /\ file[r] # None
  BY Holding DEF S3Inv, S3Typed, S3TypeOK, HybridTypeOK
<1>1. ObjectsFollow(r) /\ object' \in [Id -> Seq(Nat) \cup {None}]
  BY DropObjectObject
<1>2. /\ pc' \in [Req -> Pcs] /\ \A q \in Req \ {r} : pc'[q] = pc[q]
      /\ pc'[r] \in {"dropInfo", "done"}
  <2>1. "dropInfo" \in Pcs /\ GoTo(r, "dropInfo")
    BY DEF Pcs
  <2> QED BY <1>0, <2>1, GoToType
<1>3. S3TypeOK'
  BY <1>0, <1>1, <1>2
  DEF TypeOK, S3Inv, S3Typed, S3TypeOK, HybridTypeOK, stores, telemetry
<1>4. LocalsOK(r)' /\ S3Locals(r)'
  BY <1>0, <1>2 DEF LocalsOK, S3Locals, Joining, Reading
<1>5. InfosKept /\ SameUpload(r) /\ resp'[r] = "none"
  BY <1>0 DEF InfosKept, SameUpload, S3Locals, stores
<1> QED BY <1>0, <1>1, <1>2, <1>3, <1>4, <1>5, OneKept

(* terminate removes the object: nobody knows the upload as complete any more. *)
LEMMA RemoveObjectObject ==
  ASSUME S3Inv, NEW r \in Req, pc[r] = "removeFile", Finished(file[r]),
         object' = [object EXCEPT ![file[r].id] = None]
  PROVE  ObjectsFollow(r) /\ object' \in [Id -> Seq(Nat) \cup {None}]
<1> DEFINE k == file[r].id
<1>1. file[r] # None /\ k \in Id /\ Method[r] = "DELETE"
  BY Holding DEF S3Inv, S3Typed, LocalsOK
<1>2. Visible(k) => ~Whole(info[k])
  <2> SUFFICES ASSUME Visible(k), Whole(info[k]) PROVE FALSE
    OBVIOUS
  <2>1. Agree(file[r], info[k])
    BY <1>1 DEF S3Inv, Agreement
  <2>2. Whole(file[r])
    BY <2>1 DEF Agree, Whole
  <2> QED BY <2>2 DEF S3Inv, RemovedIncomplete
<1>3. ASSUME NEW q \in Req, Pending(q), file[q].id = k PROVE FALSE
  <2>0. pc[q] = "save" /\ Whole(file[q]) /\ InFlight(q)
    BY <1>3 DEF Pending
  <2>1. file[q] # None /\ q # r /\ Whole(file[q])
    BY <2>0, Holding DEF S3Inv
  <2>2. Agree(file[r], file[q])
    BY <1>1, <1>3, <2>1 DEF S3Inv, Agreement
  <2>3. Whole(file[r])
    BY <2>1, <2>2 DEF Agree, Whole
  <2> QED BY <1>1, <1>3, <2>1, <2>3 DEF S3Inv, OnePending
<1>4. NotWanted(k)
  BY <1>2, <1>3 DEF NotWanted
<1> QED BY <1>1, <1>4 DEF ObjectsFollow, S3Inv, S3Typed, S3TypeOK, HybridTypeOK, TypeOK

(* An upload loses its object, when the call succeeds. *)
LEMMA RemoveObjectStep ==
  ASSUME S3Inv, NEW r \in Req, RemoveObject(r)
  PROVE  S3Inv'
<1> USE DEF RemoveObject
<1>0. /\ TypeOK /\ InFlight(r) /\ file[r] # None /\ file[r].id \in Id /\ Method[r] = "DELETE"
      /\ resp[r] = "none" /\ Answer(r, "ok")
  BY Holding DEF S3Inv, S3Typed, S3TypeOK, HybridTypeOK, S3Locals, LocalsOK
<1>1. ObjectsFollow(r) /\ object' \in [Id -> Seq(Nat) \cup {None}]
  BY RemoveObjectObject DEF ObjectsFollow, S3Inv, S3Typed, S3TypeOK, HybridTypeOK
<1>2. /\ pc' \in [Req -> Pcs] /\ resp' \in [Req -> {"none", "ok", "error"}]
      /\ pc'[r] = "done" /\ \A q \in Req \ {r} : pc'[q] = pc[q] /\ resp'[q] = resp[q]
  BY <1>0, AnswerType DEF Answer, TypeOK
<1>3. metrics' \in Metrics /\ hooks' \subseteq Hook
  <2>1. metrics' \in Metrics
    BY <1>0, MetricsType DEF Count, TypeOK, Metrics
  <2>2. hooks' \subseteq Hook
    BY <1>0, SpawnType DEF HookNames, TypeOK
  <2> QED BY <2>1, <2>2
<1>4. S3TypeOK'
  BY <1>0, <1>1, <1>2, <1>3
  DEF TypeOK, S3Inv, S3Typed, S3TypeOK, HybridTypeOK, stores, Metrics
<1>5. LocalsOK(r)' /\ S3Locals(r)'
  BY <1>0, <1>2, S3Done
<1>6. InfosKept /\ SameUpload(r)
  BY DEF InfosKept, SameUpload, stores
<1>7. Finished(file'[r]) => object'[file'[r].id] = None
  BY <1>0 DEF S3Inv, S3Typed, S3TypeOK, HybridTypeOK, Finished
<1> QED BY <1>0, <1>1, <1>2, <1>4, <1>5, <1>6, <1>7, OneKept

(* get_contents answers with the object, which is the whole upload. *)
LEMMA ReadObjectStep ==
  ASSUME S3Inv, NEW r \in Req, ReadObject(r)
  PROVE  S3Inv'
<1> USE DEF ReadObject
<1>0. TypeOK /\ InFlight(r) /\ file[r] # None /\ file[r].id \in Id /\ Method[r] = "GET"
  BY Holding DEF S3Inv, S3Typed, S3TypeOK, HybridTypeOK, LocalsOK
<1>1. CASE object[file[r].id] # None
  <2>1. /\ pc' \in [Req -> Pcs] /\ resp' \in [Req -> {"none", "ok", "error"}]
        /\ pc'[r] = "done" /\ \A q \in Req \ {r} : pc'[q] = pc[q] /\ resp'[q] = resp[q]
    BY <1>0, <1>1, AnswerType DEF Answer, TypeOK
  <2>2. /\ body' \in [Req -> Seq(Nat)] /\ body'[r] = object[file[r].id]
        /\ \A q \in Req \ {r} : body'[q] = body[q]
    BY <1>0, <1>1 DEF TypeOK, S3Inv, S3Typed, S3TypeOK, HybridTypeOK
  <2>3. S3TypeOK'
    BY <1>0, <2>1, <2>2 DEF TypeOK, S3Inv, S3Typed, S3TypeOK, HybridTypeOK, stores, telemetry
  <2>4. LocalsOK(r)' /\ S3Locals(r)'
    BY <1>0, <2>1, S3Done
  <2>5. InfosKept /\ SameUpload(r) /\ ObjectsFollow(r)
    BY DEF InfosKept, SameUpload, ObjectsFollow, stores
  <2>6. NoDeferral /\ ~file[r].final => body'[r] = Bytes(0, file[r].length)
    BY <1>0, <1>1, <2>2 DEF S3Inv, ObjectsWhole, ObjectWhole
  <2> QED BY <1>0, <2>1, <2>2, <2>3, <2>4, <2>5, <2>6, OneKept
<1>2. CASE object[file[r].id] = None
  BY <1>2, RefusedStep
<1> QED BY <1>1, <1>2

(***************************************************************************)
(* The multipart upload.                                                   *)
(***************************************************************************)

(* A FileInfo with other parts, or another offset, is the same upload. *)
LEMMA MetadataSet ==
  ASSUME NEW f \in FileInfo, NEW m \in Seq(Seq(Nat)) \cup {None}
  PROVE  LET g == [f EXCEPT !.metadata = m]
         IN /\ g \in FileInfo /\ g.metadata = m /\ g.offset = f.offset /\ g.id = f.id
            /\ g.length = f.length /\ g.final = f.final /\ g.parts = f.parts
  BY DEF FileInfo

(* The same with another offset. *)
LEMMA OffsetSet ==
  ASSUME NEW f \in FileInfo, NEW o \in Nat
  PROVE  LET g == [f EXCEPT !.offset = o]
         IN /\ g \in FileInfo /\ g.offset = o /\ g.metadata = f.metadata /\ g.id = f.id
            /\ g.length = f.length /\ g.final = f.final /\ g.parts = f.parts
  BY DEF FileInfo

(* A part is replaced, or added after the last one. *)
LEMMA WithPartType ==
  ASSUME NEW parts \in Seq(Seq(Nat)), NEW n \in 1..(Len(parts) + 1), NEW bytes \in Seq(Nat)
  PROVE  /\ WithPart(parts, n, bytes) \in Seq(Seq(Nat))
         /\ Len(WithPart(parts, n, bytes)) \in Nat
         /\ Len(parts) <= Len(WithPart(parts, n, bytes))
         /\ n <= Len(WithPart(parts, n, bytes))
<1> DEFINE len == IF n > Len(parts) THEN n ELSE Len(parts)
           new == [k \in 1..len |-> IF k = n THEN bytes ELSE parts[k]]
<1>1. len \in Nat /\ Len(parts) <= len /\ n <= len /\ (len = Len(parts) \/ len = n)
  OBVIOUS
<1>2. ASSUME NEW k \in 1..len, k # n PROVE parts[k] \in Seq(Nat)
  <2>1. k \in 1..Len(parts)
    BY <1>1, <1>2
  <2> QED BY <2>1
<1>3. new \in [1..len -> Seq(Nat)]
  BY <1>2
<1> HIDE DEF len
<1>4. new \in Seq(Seq(Nat)) /\ Len(new) = len
  BY <1>1, <1>3
<1>5. WithPart(parts, n, bytes) = new
  BY DEF WithPart, len
<1> QED BY <1>1, <1>4, <1>5

(* No bytes. *)
LEMMA NoBytes == Bytes(0, 0) = <<>>
  BY DEF Bytes

(* Bytes that follow one another. *)
LEMMA BytesFollow ==
  ASSUME NEW o \in Nat, NEW n \in Nat
  PROVE  Bytes(0, o) \o Bytes(o, n) = Bytes(0, o + n)
<1> DEFINE a == Bytes(0, o)
           b == Bytes(o, n)
           c == Bytes(0, o + n)
           s == a \o b
<1>1. /\ a \in Seq(Nat) /\ Len(a) = o /\ b \in Seq(Nat) /\ Len(b) = n
      /\ c \in Seq(Nat) /\ Len(c) = o + n
  BY BytesType
<1>2. /\ \A k \in 1..o : a[k] = k
      /\ \A k \in 1..n : b[k] = o + k
      /\ \A k \in 1..(o + n) : c[k] = k
  BY DEF Bytes
<1> HIDE DEF a, b, c
<1>3. /\ s \in Seq(Nat) /\ Len(s) = o + n
      /\ \A k \in 1..(o + n) : s[k] = IF k <= o THEN a[k] ELSE b[k - o]
  BY <1>1, ConcatProperties
<1> HIDE DEF s
<1>4. ASSUME NEW k \in 1..(o + n) PROVE s[k] = c[k]
  <2>1. CASE k <= o
    BY <1>2, <1>3, <2>1
  <2>2. CASE k > o
    <3>1. k - o \in 1..n /\ s[k] = b[k - o]
      BY <1>3, <2>2
    <3> QED BY <1>2, <3>1
  <2> QED BY <2>1, <2>2
<1>5. s = c
  BY <1>1, <1>3, <1>4, SeqEqual
<1> QED BY <1>5 DEF s, a, b, c

(* The handlers other than that of r do nothing. *)
Others(r) == \A q \in Req : q # r => /\ pc'[q] = pc[q] /\ file'[q] = file[q] /\ body'[q] = body[q]
                                     /\ partsInfo'[q] = partsInfo[q] /\ cursor'[q] = cursor[q]
                                     /\ resp'[q] = resp[q]

(* What every step of add_bytes and create_file keeps, whether its answer is lost or not. *)
LEMMA MultipartKept ==
  ASSUME S3Inv, NEW r \in Req, InFlight(r), Others(r), S3TypeOK', LocalsOK(r)', S3Locals(r)',
         SameUpload(r), UNCHANGED <<info, used>>, resp'[r] # "ok",
         \A i \in Id \ {file[r].id} : multipart'[i] = multipart[i] /\ object'[i] = object[i],
         pc'[r] # "removeFile", InFlight(r)' /\ pc'[r] # "complete" => Listed(file'[r])
  PROVE  /\ S3Typed' /\ IdsUsed' /\ (\A q \in Req : PostUnknown(q)') /\ Agreement' /\ PartsExact'
         /\ RemovedIncomplete' /\ DownloadsWhole'
         /\ InfosKept /\ FilesKept /\ FlightKept
         /\ \A q \in Req : resp'[q] = "ok" =>
              q # r /\ resp[q] = "ok" /\ file'[q] = file[q] /\ file[q] # None /\ file[q].id \in Id
<1> USE DEF S3Inv
<1>1. S3Typed'
  <2>1. \A q \in Req : LocalsOK(q) /\ S3Locals(q)
    BY DEF S3Typed
  <2>2. \A q \in Req : LocalsOK(q)' /\ S3Locals(q)'
    BY <2>1, S3OthersFrame DEF Others
  <2> QED BY <2>2 DEF S3Typed
<1>2. InfosKept /\ FilesKept /\ FlightKept
  BY DEF InfosKept, FilesKept, SameUpload, FlightKept, Others
<1>3. IdsUsed'
  <2>1. file[r].id \in used
    BY Holding DEF IdsUsed
  <2>2. \A i \in Id : i \notin used => object'[i] = object[i] /\ multipart'[i] = multipart[i]
    BY <2>1
  <2> QED BY <1>2, <2>2, IdsUsedKept
<1>4. \A q \in Req : PostUnknown(q)'
  BY <1>2, PostUnknownKept
<1>5. Agreement'
  BY <1>2, AgreementKept
<1>6. PartsExact'
  <2>1. \A q \in Req : InFlight(q)' /\ pc'[q] # "complete" =>
          \/ InFlight(q) /\ pc[q] # "complete" /\ file'[q] = file[q]
          \/ Listed(file'[q])
    BY DEF Others
  <2> QED BY <1>2, <2>1, PartsExactKept
<1>7. RemovedIncomplete'
  <2>1. \A q \in Req : pc'[q] = "removeFile" => pc[q] = "removeFile" /\ file'[q] = file[q]
    BY DEF Others
  <2> QED BY <1>2, <2>1, RemovedIncompleteKept
<1>8. ASSUME NEW q \in Req, resp'[q] = "ok"
      PROVE  q # r /\ resp[q] = "ok" /\ file'[q] = file[q] /\ file[q] # None /\ file[q].id \in Id
  <2>1. q # r /\ resp[q] = "ok" /\ file'[q] = file[q]
    BY <1>8 DEF Others
  <2>2. file[q] # None
    BY <2>1 DEF S3Typed, S3Locals
  <2> QED BY <2>1, <2>2, Holding
<1>9. DownloadsWhole'
  <2>1. \A q \in Req : Method[q] = "GET" /\ resp'[q] = "ok" =>
           resp[q] = "ok" /\ file'[q] = file[q] /\ body'[q] = body[q]
    BY <1>8 DEF Others
  <2> QED BY <2>1, DownloadsWholeKept
<1> QED BY <1>1, <1>2, <1>3, <1>4, <1>5, <1>6, <1>7, <1>8, <1>9

(* What a step also keeps that makes no object and no upload complete. *)
LEMMA NothingCompleted ==
  ASSUME S3Inv, NEW r \in Req, Others(r), InfosKept, FilesKept, object' = object,
         \A q \in Req : resp'[q] = "ok" => resp[q] = "ok" /\ file'[q] = file[q] /\ file[q].id \in Id,
         ~Whole(file'[r])
  PROVE  OnePending' /\ WholeStored' /\ ObjectsWhole' /\ DeletedObjectGone'
<1> USE DEF S3Inv
<1>1. WholeKept
  BY DEF WholeKept, Others
<1>2. \A q \in Req : Pending(q)' => Pending(q) /\ file'[q] = file[q]
  <2> SUFFICES ASSUME NEW q \in Req, Pending(q)' PROVE Pending(q) /\ file'[q] = file[q]
    OBVIOUS
  <2>1. pc'[q] = "save" /\ Whole(file'[q])
    BY DEF Pending, Whole, Finished
  <2> QED BY <2>1 DEF Others, Pending
<1>3. OnePending'
  BY <1>1, <1>2, OnePendingKept
<1>4. WholeStored' /\ ObjectsWhole'
  BY <1>2, WholeStoredKept, ObjectsWholeKept
<1>5. DeletedObjectGone'
  BY DeletedObjectGoneKept
<1> QED BY <1>3, <1>4, <1>5

(* create_file opens the multipart upload of an id that nobody else knows. *)
LEMMA InitiateEffect ==
  ASSUME S3Inv, NEW r \in Req, pc[r] = "create", Others(r), S3TypeOK', LocalsOK(r)',
         multipart' = [multipart EXCEPT ![file[r].id] = <<>>],
         file'[r] \in {file[r], [file[r] EXCEPT !.metadata = <<>>]},
         UNCHANGED <<info, used, body, object>>,
         \/ pc'[r] = "done"
         \/ /\ file'[r] = [file[r] EXCEPT !.metadata = <<>>]
            /\ \/ pc'[r] = "readPart" /\ file[r].final
               \/ pc'[r] = "write" /\ ~file[r].final /\ body[r] # <<>>
               \/ pc'[r] = "save" /\ ~file[r].final,
         resp'[r] # "ok", pc'[r] # "done" => resp'[r] = "none"
  PROVE  S3Inv'
<1> USE DEF S3Inv
<1> DEFINE k == file[r].id
<1>0. /\ file[r] \in FileInfo /\ file[r] # None /\ k \in Id /\ Method[r] = "POST"
      /\ file[r].offset = 0 /\ body[r] = Bytes(0, Len(body[r])) /\ file[r].metadata = None
      /\ InFlight(r)
  BY Holding DEF S3Typed, LocalsOK, S3Locals
<1>1. /\ file'[r] \in FileInfo /\ file'[r].id = k /\ file'[r].offset = 0 /\ file'[r] # None
      /\ file'[r].length = file[r].length /\ file'[r].final = file[r].final
      /\ file'[r].parts = file[r].parts
      /\ file'[r].metadata \in {None, <<>>}
      /\ pc'[r] # "done" => file'[r].metadata = <<>>
  <2>1. /\ [file[r] EXCEPT !.metadata = <<>>] \in FileInfo
        /\ [file[r] EXCEPT !.metadata = <<>>].metadata = <<>>
        /\ [file[r] EXCEPT !.metadata = <<>>].id = k
        /\ [file[r] EXCEPT !.metadata = <<>>].offset = 0
        /\ [file[r] EXCEPT !.metadata = <<>>].length = file[r].length
        /\ [file[r] EXCEPT !.metadata = <<>>].final = file[r].final
        /\ [file[r] EXCEPT !.metadata = <<>>].parts = file[r].parts
    <3>1. <<>> \in Seq(Seq(Nat))
      BY EmptySeq
    <3>2. file[r] \in FileInfo
      BY <1>0
    <3> HIDE DEF k
    <3>3. LET g == [file[r] EXCEPT !.metadata = <<>>]
          IN /\ g \in FileInfo /\ g.metadata = <<>> /\ g.offset = file[r].offset /\ g.id = file[r].id
             /\ g.length = file[r].length /\ g.final = file[r].final /\ g.parts = file[r].parts
      BY <3>1, <3>2, MetadataSet, Zenon
    <3> QED BY <1>0, <3>3 DEF k
  <2> QED BY <1>0, <2>1, FileFields
<1>2. info[k] = None /\ \A q \in Req : q # r /\ file[q] # None => file[q].id # k
  BY <1>0 DEF PostUnknown
<1>3. ~Whole(file'[r])
  BY <1>1 DEF Whole, Finished
<1>4. /\ \A i \in Id : i # k => multipart'[i] = multipart[i]
      /\ multipart'[k] = <<>>
  BY <1>0 DEF S3Typed, S3TypeOK
<1> HIDE DEF k
<1>5. SameUpload(r)
  BY <1>0, <1>1 DEF SameUpload, k
<1>6. S3Locals(r)'
  BY <1>0, <1>1 DEF S3Locals, Joining, Reading
<1>7. Listed(file'[r])
  BY <1>1, FlattenEmpty, NoBytes DEF Listed, Lists
<1>8. /\ S3Typed' /\ IdsUsed' /\ (\A q \in Req : PostUnknown(q)') /\ Agreement' /\ PartsExact'
      /\ RemovedIncomplete' /\ DownloadsWhole'
      /\ InfosKept /\ FilesKept /\ FlightKept
      /\ \A q \in Req : resp'[q] = "ok" =>
           q # r /\ resp[q] = "ok" /\ file'[q] = file[q] /\ file[q] # None /\ file[q].id \in Id
  <2>1. \A i \in Id \ {file[r].id} : multipart'[i] = multipart[i] /\ object'[i] = object[i]
    BY <1>4 DEF k
  <2> QED BY <1>0, <1>5, <1>6, <1>7, <2>1, MultipartKept
<1>9. OnePending' /\ WholeStored' /\ ObjectsWhole' /\ DeletedObjectGone'
  BY <1>3, <1>8, NothingCompleted
<1>10. PartsNumbered'
  <2>1. ASSUME NEW i \in Id, Visible(i)' PROVE Numbered(i, info[i])'
    <3>1. Visible(i) /\ i # k
      BY <1>2, <2>1 DEF Visible
    <3> QED BY <1>4, <3>1 DEF PartsNumbered, Numbered
  <2>2. ASSUME NEW q \in Req, InFlight(q)' PROVE Numbered(file[q].id, file[q])'
    <3>1. CASE q = r
      <4>1. multipart'[file'[r].id] = <<>> /\ file'[r].metadata \in {None, <<>>}
        BY <1>1, <1>4
      <4> QED BY <3>1, <4>1 DEF Numbered
    <3>2. CASE q # r
      <4>1. InFlight(q) /\ file'[q] = file[q] /\ Numbered(file[q].id, file[q])
        BY <2>2, <3>2 DEF Others, PartsNumbered
      <4>2. file[q].id \in Id /\ file[q].id # k
        BY <1>2, <3>2, <4>1, Holding
      <4> QED BY <1>4, <4>1, <4>2 DEF Numbered
    <3> QED BY <3>1, <3>2
  <2> QED BY <2>1, <2>2 DEF PartsNumbered
<1>11. ASSUME NEW q \in Req PROVE ChunkExact(q)'
  <2>1. CASE q = r
    <3>1. body'[r] = Bytes(file'[r].offset, Len(body'[r])) /\ body'[r] = body[r]
      BY <1>0, <1>1
    <3> QED BY <1>1, <2>1, <3>1 DEF ChunkExact
  <2>2. CASE q # r
    <3>1. ChunkExact(q) /\ pc'[q] = pc[q] /\ file'[q] = file[q] /\ body'[q] = body[q]
      BY <2>2 DEF Others
    <3> QED BY <3>1 DEF ChunkExact, Finished, Completes, Lists
  <2> QED BY <2>1, <2>2
<1>12. OpenIncomplete'
  <2> SUFFICES ASSUME NEW i \in Id, multipart'[i] # None
               PROVE  /\ Visible(i)' => ~Whole(info'[i])
                      /\ \A q \in Req : file'[q] # None /\ file'[q].id = i => ~Whole(file'[q])
    BY DEF OpenIncomplete, Whole, Finished
  <2>1. CASE i = k
    <3>1. ~Visible(i)'
      BY <1>2, <2>1 DEF Visible
    <3>2. ASSUME NEW q \in Req, file'[q] # None, file'[q].id = i PROVE ~Whole(file'[q])
      BY <1>2, <1>3, <2>1, <3>2 DEF Others
    <3> QED BY <3>1, <3>2
  <2>2. CASE i # k
    <3>1. multipart[i] # None
      BY <1>4, <2>2
    <3>2. Visible(i)' => ~Whole(info'[i])
      BY <3>1 DEF OpenIncomplete, Visible
    <3>3. ASSUME NEW q \in Req, file'[q] # None, file'[q].id = i PROVE ~Whole(file'[q])
      BY <1>1, <1>3, <3>1, <3>3 DEF OpenIncomplete, Others
    <3> QED BY <3>2, <3>3
  <2> QED BY <2>1, <2>2
<1> QED BY <1>8, <1>9, <1>10, <1>11, <1>12

(* add_bytes puts the chunk as the next part. *)
LEMMA PutPartEffect ==
  ASSUME S3Inv, NEW r \in Req, pc[r] = "write", Others(r), S3TypeOK', LocalsOK(r)',
         file[r].metadata # None, multipart[file[r].id] # None, PartPut(r),
         \/ pc'[r] = "done" /\ file'[r] = file[r]
         \/ LET put == [file[r] EXCEPT !.metadata = Append(@, body[r])]
            IN IF Completes(r)
               THEN pc'[r] \in {"complete", "done"} /\ file'[r] = put /\ body'[r] = body[r]
               ELSE /\ pc'[r] \in {"save", "done"}
                    /\ file'[r] = [put EXCEPT !.offset = @ + Len(body[r])],
         UNCHANGED <<info, used, object>>,
         resp'[r] # "ok", pc'[r] # "done" => resp'[r] = "none"
  PROVE  S3Inv'
<1> USE DEF S3Inv
<1> DEFINE k == file[r].id
           m == file[r].metadata
           n == Len(m) + 1
           parts == multipart[k]
<1>0. /\ file[r] \in FileInfo /\ file[r] # None /\ k \in Id /\ Method[r] \in {"POST", "PATCH"}
      /\ InFlight(r) /\ ~file[r].final /\ file[r].offset \in Nat /\ file[r].length \in Nat \cup {None}
  BY Holding DEF S3Typed, LocalsOK, ChunkExact
<1>1. /\ m \in Seq(Seq(Nat)) /\ parts \in Seq(Seq(Nat)) /\ body[r] \in Seq(Nat)
      /\ FlattenSeq(m) = Bytes(0, file[r].offset)
      /\ body[r] = Bytes(file[r].offset, Len(body[r]))
      /\ body[r] # <<>> \/ ~Finished(file[r])
      /\ Len(m) <= Len(parts)
  <2>1. m \in Seq(Seq(Nat))
    BY <1>0 DEF FileInfo
  <2>2. parts \in Seq(Seq(Nat)) /\ body[r] \in Seq(Nat)
    BY <1>0 DEF S3Typed, S3TypeOK, HybridTypeOK, TypeOK
  <2>3. FlattenSeq(m) = Bytes(0, file[r].offset)
    BY <1>0 DEF PartsExact, Listed, Lists
  <2>4. /\ body[r] = Bytes(file[r].offset, Len(body[r]))
        /\ body[r] # <<>> \/ ~Finished(file[r])
    BY DEF ChunkExact
  <2>5. Len(m) <= Len(parts)
    BY <1>0 DEF PartsNumbered, Numbered
  <2> QED BY <2>1, <2>2, <2>3, <2>4, <2>5
<1>2. /\ Append(m, body[r]) \in Seq(Seq(Nat)) /\ Len(Append(m, body[r])) = n
      /\ FlattenSeq(Append(m, body[r])) = Bytes(0, file[r].offset + Len(body[r]))
  <2>1. FlattenSeq(Append(m, body[r])) = FlattenSeq(m) \o body[r]
    BY <1>1, FlattenAppend
  <2>2. FlattenSeq(m) \o body[r] = Bytes(0, file[r].offset) \o Bytes(file[r].offset, Len(body[r]))
    BY <1>1
  <2>3. Len(body[r]) \in Nat
    BY <1>1
  <2>4. Bytes(0, file[r].offset) \o Bytes(file[r].offset, Len(body[r])) = Bytes(0, file[r].offset + Len(body[r]))
    BY <1>0, <2>3, BytesFollow
  <2>5. Append(m, body[r]) \in Seq(Seq(Nat)) /\ Len(Append(m, body[r])) = n
    BY <1>1, AppendProperties
  <2> QED BY <2>1, <2>2, <2>4, <2>5
<1>3. /\ \A i \in Id : i # k => multipart'[i] = multipart[i]
      /\ multipart'[k] # None /\ Len(multipart'[k]) \in Nat
      /\ Len(parts) <= Len(multipart'[k]) /\ n <= Len(multipart'[k])
  <2>1. n \in 1..(Len(parts) + 1)
    BY <1>1
  <2>2. multipart' = [multipart EXCEPT ![k] = WithPart(parts, n, body[r])]
    BY DEF PartPut, NextNumber
  <2>3. multipart'[k] = WithPart(parts, n, body[r]) /\ \A i \in Id : i # k => multipart'[i] = multipart[i]
    BY <1>0, <2>2 DEF S3Typed, S3TypeOK
  <2> HIDE DEF n, parts
  <2>4. /\ WithPart(parts, n, body[r]) \in Seq(Seq(Nat))
        /\ Len(WithPart(parts, n, body[r])) \in Nat
        /\ Len(parts) <= Len(WithPart(parts, n, body[r]))
        /\ n <= Len(WithPart(parts, n, body[r]))
    BY <1>1, <2>1, WithPartType
  <2>5. WithPart(parts, n, body[r]) # None
    BY <2>4, PartsAssumption
  <2> QED BY <2>3, <2>4, <2>5
<1>4. ~Whole(file[r])
  BY <1>0 DEF OpenIncomplete
<1>5. /\ file'[r] \in FileInfo /\ file'[r] # None /\ file'[r].id = k
      /\ file'[r].final = file[r].final /\ file'[r].length = file[r].length
      /\ file'[r].parts = file[r].parts
      /\ \/ pc'[r] = "done" /\ file'[r] = file[r]
         \/ /\ file'[r].metadata = Append(m, body[r]) /\ Completes(r)
            /\ pc'[r] \in {"complete", "done"} /\ file'[r].offset = file[r].offset
            /\ body'[r] = body[r]
         \/ /\ file'[r].metadata = Append(m, body[r]) /\ ~Completes(r)
            /\ pc'[r] \in {"save", "done"} /\ file'[r].offset = file[r].offset + Len(body[r])
  <2> DEFINE new == Append(m, body[r])
  <2>1. new \in Seq(Seq(Nat)) /\ Len(body[r]) \in Nat
    BY <1>1, <1>2
  <2>2. [file[r] EXCEPT !.metadata = Append(@, body[r])] = [file[r] EXCEPT !.metadata = new]
    BY <1>0 DEF FileInfo
  <2> HIDE DEF new, m
  <2> DEFINE put == [file[r] EXCEPT !.metadata = new]
             grown == [put EXCEPT !.offset = file[r].offset + Len(body[r])]
  <2>3. /\ put \in FileInfo /\ put.metadata = new /\ put.offset = file[r].offset
        /\ put.id = k /\ put.length = file[r].length /\ put.final = file[r].final
        /\ put.parts = file[r].parts
    BY <1>0, <2>1, MetadataSet
  <2>4. file[r].offset + Len(body[r]) \in Nat
    BY <1>0, <2>1
  <2>5. [put EXCEPT !.offset = @ + Len(body[r])] = grown
    BY <2>3
  <2> HIDE DEF put
  <2>6. /\ grown \in FileInfo /\ grown.metadata = new
        /\ grown.offset = file[r].offset + Len(body[r])
        /\ grown.id = k /\ grown.length = file[r].length /\ grown.final = file[r].final
        /\ grown.parts = file[r].parts
    BY <2>3, <2>4, OffsetSet
  <2> HIDE DEF grown
  <2>7. \/ pc'[r] = "done" /\ file'[r] = file[r]
        \/ /\ Completes(r) /\ pc'[r] \in {"complete", "done"} /\ file'[r] = put
           /\ body'[r] = body[r]
        \/ ~Completes(r) /\ pc'[r] \in {"save", "done"} /\ file'[r] = grown
    BY <2>2, <2>5 DEF put
  <2> QED BY <1>0, <2>3, <2>6, <2>7, FileFields DEF new
<1> HIDE DEF k, m, n, parts
<1>6. ~Whole(file'[r])
  BY <1>0, <1>4, <1>5 DEF Whole, Finished, Completes
<1>7. SameUpload(r)
  BY <1>0, <1>5 DEF SameUpload, k
<1>8. S3Locals(r)'
  BY <1>0, <1>5 DEF S3Locals, Joining, Reading
<1>9. ASSUME InFlight(r)', pc'[r] # "complete" PROVE Listed(file'[r])
  BY <1>2, <1>5, <1>9 DEF Listed, Lists
<1>10. /\ S3Typed' /\ IdsUsed' /\ (\A q \in Req : PostUnknown(q)') /\ Agreement' /\ PartsExact'
       /\ RemovedIncomplete' /\ DownloadsWhole'
       /\ InfosKept /\ FilesKept /\ FlightKept
       /\ \A q \in Req : resp'[q] = "ok" =>
            q # r /\ resp[q] = "ok" /\ file'[q] = file[q] /\ file[q] # None /\ file[q].id \in Id
  <2>1. \A i \in Id \ {file[r].id} : multipart'[i] = multipart[i] /\ object'[i] = object[i]
    BY <1>3 DEF k
  <2>2. pc'[r] # "removeFile"
    BY <1>5
  <2> QED BY <1>0, <1>7, <1>8, <1>9, <2>1, <2>2, MultipartKept
<1>11. OnePending' /\ WholeStored' /\ ObjectsWhole' /\ DeletedObjectGone'
  BY <1>6, <1>10, NothingCompleted
<1>12. PartsNumbered'
  <2>1. \A i \in Id : \/ multipart'[i] \in {multipart[i], None}
                      \/ /\ multipart[i] # None /\ Len(multipart'[i]) \in Nat
                         /\ Len(multipart[i]) <= Len(multipart'[i])
    BY <1>3 DEF k, parts
  <2>2. ASSUME InFlight(r)' PROVE Numbered(file[r].id, file[r])'
    <3>1. file'[r].metadata = Append(m, body[r]) /\ Len(Append(m, body[r])) = n
      BY <1>2, <1>5, <2>2
    <3>2. Len(file'[r].metadata) <= Len(multipart'[file'[r].id])
      BY <1>3, <1>5, <3>1
    <3> QED BY <3>2 DEF Numbered
  <2>3. \A q \in Req : InFlight(q)' =>
           \/ InFlight(q) /\ file'[q].id = file[q].id /\ file'[q].metadata = file[q].metadata
           \/ Numbered(file[q].id, file[q])'
    BY <2>2 DEF Others
  <2> QED BY <1>10, <2>1, <2>3, PartsNumberedKept
<1>13. ASSUME NEW q \in Req PROVE ChunkExact(q)'
  <2>1. CASE q = r
    <3> SUFFICES ASSUME pc'[r] = "complete"
                 PROVE  /\ ~file'[r].final /\ file'[r].metadata # None /\ body'[r] # <<>>
                        /\ Completes(r)' /\ Lists(file'[r], file'[r].length)
      BY <1>5, <2>1 DEF ChunkExact, Lists
    <3>1. /\ file'[r].metadata = Append(m, body[r]) /\ Completes(r) /\ body'[r] = body[r]
          /\ file'[r].offset = file[r].offset /\ file'[r].length = file[r].length
      BY <1>5
    <3>2. file[r].offset + Len(body[r]) = file[r].length
      BY <3>1 DEF Completes
    <3>3. body[r] # <<>>
      BY <1>0, <1>1, <3>2 DEF Finished
    <3>4. file'[r].metadata # None
      BY <1>2, <3>1, PartsAssumption
    <3>5. Completes(r)' /\ Lists(file'[r], file'[r].length)
      BY <1>2, <3>1, <3>2 DEF Completes, Lists
    <3> QED BY <1>0, <1>5, <3>1, <3>3, <3>4, <3>5
  <2>2. CASE q # r
    <3>1. ChunkExact(q) /\ pc'[q] = pc[q] /\ file'[q] = file[q] /\ body'[q] = body[q]
      BY <2>2 DEF Others
    <3> QED BY <3>1 DEF ChunkExact, Finished, Completes, Lists
  <2> QED BY <2>1, <2>2
<1>14. OpenIncomplete'
  <2>1. WholeKept
    BY <1>6 DEF WholeKept, Others
  <2>2. \A i \in Id : multipart'[i] # None => multipart[i] # None
    BY <1>3 DEF k
  <2> QED BY <1>10, <2>1, <2>2, OpenIncompleteKept
<1> QED BY <1>10, <1>11, <1>12, <1>13, <1>14

(* complete_multipart_upload makes the object, of the listed parts: of all bytes. *)
LEMMA CompleteEffect ==
  ASSUME S3Inv, NEW r \in Req, pc[r] = "complete", Others(r), S3TypeOK', LocalsOK(r)',
         multipart[file[r].id] # None, Assembled(r),
         \/ pc'[r] = "done" /\ file'[r] = file[r]
         \/ /\ pc'[r] \in {"save", "done"}
            /\ file'[r] = [file[r] EXCEPT !.metadata = None, !.offset = @ + Len(body[r])],
         UNCHANGED <<info, used>>,
         resp'[r] # "ok", pc'[r] # "done" => resp'[r] = "none"
  PROVE  S3Inv'
<1> USE DEF S3Inv
<1> DEFINE k == file[r].id
<1>0. /\ file[r] \in FileInfo /\ file[r] # None /\ k \in Id /\ Method[r] \in {"POST", "PATCH"}
      /\ InFlight(r) /\ ~file[r].final /\ file[r].offset \in Nat /\ file[r].length \in Nat \cup {None}
      /\ body[r] \in Seq(Nat) /\ body[r] # <<>> /\ Completes(r)
      /\ FlattenSeq(file[r].metadata) = Bytes(0, file[r].length)
  BY Holding DEF S3Typed, S3Locals, ChunkExact, Lists, S3TypeOK, HybridTypeOK, TypeOK
<1>1. file[r].offset + Len(body[r]) = file[r].length /\ file[r].length # 0 /\ file[r].length \in Nat
  BY <1>0 DEF Completes
<1>2. /\ file'[r] \in FileInfo /\ file'[r] # None /\ file'[r].id = k
      /\ ~file'[r].final /\ file'[r].final = file[r].final
      /\ file'[r].length = file[r].length /\ file'[r].parts = file[r].parts
      /\ pc'[r] \in {"save", "done"}
      /\ \/ pc'[r] = "done" /\ file'[r] = file[r]
         \/ file'[r].metadata = None
  <2> DEFINE closed == [file[r] EXCEPT !.metadata = None]
             new == [closed EXCEPT !.offset = @ + Len(body[r])]
  <2>1. /\ closed \in FileInfo /\ closed.metadata = None /\ closed.offset = file[r].offset
        /\ closed.id = k /\ closed.length = file[r].length /\ closed.final = file[r].final
        /\ closed.parts = file[r].parts
    <3>1. file[r] \in FileInfo /\ None \in Seq(Seq(Nat)) \cup {None}
      BY <1>0
    <3> QED BY <3>1, MetadataSet, Zenon
  <2>2. closed.offset + Len(body[r]) \in Nat
    BY <1>0, <2>1
  <2> HIDE DEF closed
  <2>3. /\ new \in FileInfo /\ new.metadata = None /\ new.id = k /\ new.length = file[r].length
        /\ new.final = file[r].final /\ new.parts = file[r].parts
    BY <2>1, <2>2, OffsetSet
  <2> HIDE DEF new
  <2>4. (pc'[r] = "done" /\ file'[r] = file[r]) \/ (pc'[r] \in {"save", "done"} /\ file'[r] = new)
    BY DEF closed, new
  <2> QED BY <1>0, <2>3, <2>4, FileFields
<1>3. /\ multipart'[k] = None /\ object'[k] = Bytes(0, file[r].length)
      /\ \A i \in Id : i # k => multipart'[i] = multipart[i] /\ object'[i] = object[i]
  BY <1>0 DEF Assembled, S3Typed, S3TypeOK, HybridTypeOK
<1>4. /\ Visible(k) => ~Whole(info[k])
      /\ \A q \in Req : file[q] # None /\ file[q].id = k => ~Whole(file[q])
  BY <1>0 DEF OpenIncomplete
<1> HIDE DEF k
<1>5. SameUpload(r)
  BY <1>0, <1>2 DEF SameUpload, k
<1>6. S3Locals(r)'
  BY <1>0, <1>2 DEF S3Locals, Joining, Reading
<1>7. ASSUME InFlight(r)', pc'[r] # "complete" PROVE Listed(file'[r])
  BY <1>2, <1>7 DEF Listed
<1>8. /\ S3Typed' /\ IdsUsed' /\ (\A q \in Req : PostUnknown(q)') /\ Agreement' /\ PartsExact'
      /\ RemovedIncomplete' /\ DownloadsWhole'
      /\ InfosKept /\ FilesKept /\ FlightKept
      /\ \A q \in Req : resp'[q] = "ok" =>
           q # r /\ resp[q] = "ok" /\ file'[q] = file[q] /\ file[q] # None /\ file[q].id \in Id
  <2>1. \A i \in Id \ {file[r].id} : multipart'[i] = multipart[i] /\ object'[i] = object[i]
    BY <1>3 DEF k
  <2>2. pc'[r] # "removeFile"
    BY <1>2
  <2> QED BY <1>0, <1>5, <1>6, <1>7, <2>1, <2>2, MultipartKept
<1>9. PartsNumbered'
  <2>1. \A i \in Id : multipart'[i] \in {multipart[i], None}
    BY <1>3
  <2>2. \A q \in Req : InFlight(q)' =>
           \/ InFlight(q) /\ file'[q].id = file[q].id /\ file'[q].metadata = file[q].metadata
           \/ Numbered(file[q].id, file[q])'
    BY <1>2 DEF Others, Numbered
  <2> QED BY <1>8, <2>1, <2>2, PartsNumberedKept
<1>10. \A q \in Req : ChunkExact(q)'
  <2>1. \A q \in Req : pc'[q] \in {"write", "complete"} =>
           pc'[q] = pc[q] /\ file'[q] = file[q] /\ body'[q] = body[q]
    BY <1>2 DEF Others
  <2> QED BY <2>1, ChunkExactKept
<1>11. OpenIncomplete'
  <2> SUFFICES ASSUME NEW i \in Id, multipart'[i] # None
               PROVE  /\ Visible(i)' => ~Whole(info'[i])
                      /\ \A q \in Req : file'[q] # None /\ file'[q].id = i => ~Whole(file'[q])
    BY DEF OpenIncomplete, Whole, Finished
  <2>1. i # k /\ multipart[i] # None
    BY <1>3
  <2>2. Visible(i)' => ~Whole(info'[i])
    BY <2>1 DEF OpenIncomplete, Visible
  <2>3. ASSUME NEW q \in Req, file'[q] # None, file'[q].id = i PROVE ~Whole(file'[q])
    BY <1>2, <2>1, <2>3 DEF OpenIncomplete, Others
  <2> QED BY <2>2, <2>3
<1>12. ASSUME NEW q \in Req, Pending(q)', q # r
       PROVE  Pending(q) /\ file'[q] = file[q] /\ file[q] # None /\ file[q].id \in Id /\ file[q].id # k
  <2>1. Pending(q) /\ file'[q] = file[q] /\ pc[q] = "save"
    BY <1>12 DEF Others, Pending, Whole, Finished
  <2>2. file[q] # None /\ file[q].id \in Id
    BY <2>1, Holding
  <2> QED BY <1>4, <2>1, <2>2 DEF Pending
<1>13. OnePending'
  <2> SUFFICES ASSUME NEW q \in Req, Pending(q)'
               PROVE  /\ Visible(file[q].id)' => ~Whole(info'[file'[q].id])
                      /\ \A p \in Req \ {q} : file'[p] # None /\ file'[p].id = file'[q].id =>
                           ~Whole(file'[p])
    BY DEF OnePending, Whole, Finished
  <2>1. CASE q = r
    <3>1. Visible(file[r].id)' => ~Whole(info'[file'[r].id])
      BY <1>2, <1>4 DEF Visible, k
    <3>2. ASSUME NEW p \in Req \ {r}, file'[p] # None, file'[p].id = k PROVE ~Whole(file'[p])
      BY <1>4, <3>2 DEF Others
    <3> QED BY <1>2, <2>1, <3>1, <3>2
  <2>2. CASE q # r
    <3>1. Pending(q) /\ file'[q] = file[q] /\ file[q] # None /\ file[q].id \in Id /\ file[q].id # k
      BY <1>12, <2>2
    <3>2. Visible(file[q].id)' => ~Whole(info'[file'[q].id])
      BY <3>1 DEF OnePending, Visible
    <3>3. ASSUME NEW p \in Req \ {q}, file'[p] # None, file'[p].id = file'[q].id PROVE ~Whole(file'[p])
      <4>1. p # r
        BY <1>2, <3>1, <3>3
      <4> QED BY <3>1, <3>3, <4>1 DEF OnePending, Others
    <3> QED BY <3>2, <3>3
  <2> QED BY <2>1, <2>2
<1>14. WholeStored'
  <2>1. ASSUME NEW i \in Id, i # k, NEW f, HasObject(i, f)
        PROVE  object'[i] = Bytes(0, f.length) \/ Taken(i)'
    BY <1>3, <1>8, <2>1, TakenKept DEF HasObject
  <2>2. ASSUME NEW i \in Id, Visible(i)', Whole(info'[i]) PROVE HasObject(i, info[i])'
    <3>1. i # k /\ HasObject(i, info[i]) /\ info'[i] = info[i]
      BY <1>4, <2>2 DEF WholeStored, Visible
    <3> QED BY <2>1, <3>1 DEF HasObject
  <2>3. ASSUME NEW q \in Req, Pending(q)' PROVE HasObject(file[q].id, file[q])'
    <3>1. CASE q = r
      <4>1. object'[file'[r].id] = Bytes(0, file'[r].length)
        BY <1>2, <1>3
      <4> QED BY <3>1, <4>1 DEF HasObject
    <3>2. CASE q # r
      <4>1. Pending(q) /\ file'[q] = file[q] /\ file[q].id \in Id /\ file[q].id # k
        BY <1>12, <2>3, <3>2
      <4>2. HasObject(file[q].id, file[q])
        BY <4>1 DEF WholeStored
      <4> QED BY <2>1, <4>1, <4>2 DEF HasObject
    <3> QED BY <3>1, <3>2
  <2> QED BY <2>2, <2>3 DEF WholeStored, Whole, Finished
<1>15. ObjectsWhole'
  <2>1. ASSUME NEW i \in Id, Visible(i)' PROVE ObjectWhole(i, info[i])'
    <3>1. Visible(i) /\ info'[i] = info[i] /\ ObjectWhole(i, info[i])
      BY <2>1 DEF Visible, ObjectsWhole
    <3>2. CASE i = k
      <4>1. Agree(file[r], info[k])
        BY <1>0, <3>1, <3>2 DEF Agreement, k
      <4>2. NoDeferral => info[k].length = file[r].length
        BY <1>0, <4>1 DEF Agree
      <4> QED BY <1>3, <3>1, <3>2, <4>2 DEF ObjectWhole
    <3>3. CASE i # k
      BY <1>3, <3>1, <3>3 DEF ObjectWhole
    <3> QED BY <3>2, <3>3
  <2>2. ASSUME NEW q \in Req, file'[q] # None PROVE ObjectWhole(file[q].id, file[q])'
    <3>1. CASE q = r
      <4>1. object'[file'[r].id] = Bytes(0, file'[r].length)
        BY <1>2, <1>3
      <4> QED BY <3>1, <4>1 DEF ObjectWhole
    <3>2. CASE q # r
      <4>1. file'[q] = file[q] /\ file[q] # None /\ file[q].id \in Id /\ ObjectWhole(file[q].id, file[q])
        BY <2>2, <3>2, Holding DEF Others, ObjectsWhole
      <4>2. CASE file[q].id = k
        <5>1. Agree(file[r], file[q])
          BY <1>0, <4>1, <4>2 DEF Agreement, k
        <5>2. NoDeferral => file[q].length = file[r].length
          BY <1>0, <5>1 DEF Agree
        <5> QED BY <1>3, <4>1, <4>2, <5>2 DEF ObjectWhole
      <4>3. CASE file[q].id # k
        BY <1>3, <4>1, <4>3 DEF ObjectWhole
      <4> QED BY <4>2, <4>3
    <3> QED BY <3>1, <3>2
  <2> QED BY <2>1, <2>2 DEF ObjectsWhole
<1>16. DeletedObjectGone'
  <2> SUFFICES ASSUME NEW q \in Req, Method[q] = "DELETE", resp'[q] = "ok", Finished(file'[q])
               PROVE  object'[file'[q].id] = None
    BY DEF DeletedObjectGone, Finished
  <2>1. q # r /\ resp[q] = "ok" /\ file'[q] = file[q] /\ file[q] # None /\ file[q].id \in Id
    BY <1>8
  <2>2. object[file[q].id] = None
    BY <2>1 DEF DeletedObjectGone
  <2>3. file[q].id # k
    <3> SUFFICES ASSUME file[q].id = k PROVE FALSE
      OBVIOUS
    <3>1. Agree(file[r], file[q])
      BY <1>0, <2>1 DEF Agreement, k
    <3>2. Whole(file[q])
      BY <1>0, <1>1, <2>1, <3>1 DEF Agree, Whole
    <3> QED BY <1>4, <2>1, <3>2
  <2> QED BY <1>3, <2>1, <2>2, <2>3
<1> QED BY <1>8, <1>9, <1>10, <1>11, <1>13, <1>14, <1>15, <1>16

(* create_file. *)
LEMMA InitiateStep ==
  ASSUME S3Inv, NEW r \in Req, Initiate(r)
  PROVE  S3Inv'
<1> USE DEF Initiate
<1> DEFINE next == IF file[r].final THEN "readPart" ELSE IF body[r] # <<>> THEN "write" ELSE "save"
           new == [file[r] EXCEPT !.metadata = <<>>]
<1>0. /\ TypeOK /\ LocalsOK(r) /\ pc[r] = "create" /\ file[r] \in FileInfo /\ file[r] # None
      /\ file[r].id \in Id /\ resp[r] = "none" /\ multipart \in [Id -> Seq(Seq(Nat)) \cup {None}]
      /\ object \in [Id -> Seq(Nat) \cup {None}]
  BY Holding DEF S3Inv, S3Typed, S3TypeOK, HybridTypeOK, S3Locals
<1>1. <<>> \in Seq(Seq(Nat))
  BY EmptySeq
<1>2. new \in FileInfo /\ new.parts = file[r].parts /\ new.final = file[r].final /\ new.offset = file[r].offset
  BY <1>0, <1>1, MetadataSet
<1>3. /\ file' = [file EXCEPT ![r] = new] /\ file'[r] = new
      /\ file' \in [Req -> FileInfo \cup {None}] /\ \A q \in Req : q # r => file'[q] = file[q]
  BY <1>0, <1>2 DEF TypeOK
<1>4. /\ pc' \in [Req -> Pcs] /\ pc'[r] \in {next, "done"}
      /\ \A q \in Req \ {r} : pc'[q] = pc[q]
  <2>1. next \in Pcs /\ GoTo(r, next)
    BY DEF Pcs
  <2> QED BY <1>0, <2>1, GoToType
<1>5. metrics' \in Metrics
  BY <1>0, MetricsType DEF TypeOK, Metrics
<1>6. multipart' \in [Id -> Seq(Seq(Nat)) \cup {None}]
  BY <1>0, <1>1
<1>7. S3TypeOK'
  BY <1>0, <1>3, <1>4, <1>5, <1>6 DEF TypeOK, S3TypeOK, HybridTypeOK, stores, Metrics
<1>8. LocalsOK(r)'
  <2>1. /\ Method[r] = "POST" /\ cursor[r] = 1 /\ partsInfo[r] = <<>> /\ file[r].offset = 0
        /\ file[r].final => file[r].parts # <<>>
    BY <1>0 DEF LocalsOK
  <2>2. file[r].final => 1 <= Len(file[r].parts)
    <3>1. file[r].parts \in Seq(Id)
      BY <1>0, FileFields
    <3> QED BY <2>1, <3>1
  <2>3. /\ pc'[r] \in {"readPart", "write", "save", "done"} /\ (pc'[r] = "readPart" => file[r].final)
        /\ file'[r] # None /\ cursor'[r] = 1 /\ partsInfo'[r] = <<>>
        /\ file'[r].parts = file[r].parts /\ file'[r].offset = 0
    BY <1>0, <1>2, <1>3, <1>4, <2>1, FileFields
  <2>4. Len(<<>>) = 1 - 1
    OBVIOUS
  <2> HIDE DEF Initiate
  <2> QED BY <2>1, <2>2, <2>3, <2>4 DEF LocalsOK, Joining, Reading
<1>9. Others(r)
  BY <1>3, <1>4 DEF Others
<1>10. /\ \/ pc'[r] = "done"
          \/ /\ file'[r] = new
             /\ \/ pc'[r] = "readPart" /\ file[r].final
                \/ pc'[r] = "write" /\ ~file[r].final /\ body[r] # <<>>
                \/ pc'[r] = "save" /\ ~file[r].final
       /\ resp'[r] = "none" /\ UNCHANGED <<info, used, body, object>>
       /\ multipart' = [multipart EXCEPT ![file[r].id] = <<>>] /\ file'[r] = new
  BY <1>0, <1>3, <1>4 DEF stores
<1> HIDE DEF Initiate
<1> QED BY <1>0, <1>7, <1>8, <1>9, <1>10, InitiateEffect

(* The multipart uploads after a part was put. *)
LEMMA PartPutType ==
  ASSUME S3Inv, NEW r \in Req, pc[r] = "write", file[r].metadata # None,
         multipart[file[r].id] # None, PartPut(r)
  PROVE  multipart' \in [Id -> Seq(Seq(Nat)) \cup {None}]
<1> DEFINE k == file[r].id
           m == file[r].metadata
           n == Len(m) + 1
           parts == multipart[k]
<1>1. /\ file[r] \in FileInfo /\ k \in Id /\ InFlight(r)
      /\ multipart \in [Id -> Seq(Seq(Nat)) \cup {None}] /\ body[r] \in Seq(Nat)
  BY Holding DEF S3Inv, S3Typed, S3TypeOK, HybridTypeOK, TypeOK
<1>2. m \in Seq(Seq(Nat)) /\ parts \in Seq(Seq(Nat)) /\ Len(m) <= Len(parts)
  BY <1>1 DEF FileInfo, S3Inv, PartsNumbered, Numbered
<1>3. n \in 1..(Len(parts) + 1)
  BY <1>2
<1>4. multipart' = [multipart EXCEPT ![k] = WithPart(parts, n, body[r])]
  BY DEF PartPut, NextNumber
<1> HIDE DEF n, parts, k
<1>5. WithPart(parts, n, body[r]) \in Seq(Seq(Nat))
  BY <1>1, <1>2, <1>3, WithPartType
<1> QED BY <1>1, <1>4, <1>5

(* add_bytes puts the chunk. *)
LEMMA PutPartStep ==
  ASSUME S3Inv, NEW r \in Req, PutPart(r)
  PROVE  S3Inv'
<1>0. /\ TypeOK /\ LocalsOK(r) /\ pc[r] = "write" /\ file[r] \in FileInfo /\ file[r] # None
      /\ file[r].id \in Id /\ resp[r] = "none" /\ file[r].offset \in Nat /\ body[r] \in Seq(Nat)
      /\ Method[r] \in {"POST", "PATCH"}
      /\ object \in [Id -> Seq(Nat) \cup {None}]
      /\ UNCHANGED <<stores, used, partsInfo, cursor, gone, telemetry, object>>
  BY Holding DEF PutPart, S3Inv, S3Typed, S3TypeOK, HybridTypeOK, S3Locals, LocalsOK, TypeOK
<1>1. CASE file[r].metadata # None /\ multipart[file[r].id] # None
  <2> DEFINE put == [file[r] EXCEPT !.metadata = Append(@, body[r])]
             new == IF Completes(r) THEN put ELSE [put EXCEPT !.offset = @ + Len(body[r])]
             next == IF Completes(r) THEN "complete" ELSE "save"
             rest == IF Completes(r) THEN body[r] ELSE <<>>
  <2>1. Append(file[r].metadata, body[r]) \in Seq(Seq(Nat))
    <3>1. file[r].metadata \in Seq(Seq(Nat))
      BY <1>0, <1>1 DEF FileInfo
    <3> QED BY <1>0, <3>1, AppendProperties
  <2>2. put \in FileInfo /\ put.offset = file[r].offset
    BY <1>0, <2>1, MetadataSet
  <2>3. new \in FileInfo
    <3>1. put.offset + Len(body[r]) \in Nat
      BY <1>0, <2>2
    <3> HIDE DEF put
    <3>2. [put EXCEPT !.offset = put.offset + Len(body[r])] \in FileInfo
      BY <2>2, <3>1, OffsetSet
    <3> QED BY <2>2, <3>2
  <2>4. /\ PartPut(r) /\ body' = [body EXCEPT ![r] = rest] /\ GoTo(r, next) /\ resp' = resp
        /\ file' = [file EXCEPT ![r].metadata = Append(@, body[r]),
                                ![r].offset = IF Completes(r) THEN @ ELSE @ + Len(body[r])]
    BY <1>1 DEF PutPart
  <2>5. file' = [file EXCEPT ![r] = new]
    <3> DEFINE o == IF Completes(r) THEN file[r].offset ELSE file[r].offset + Len(body[r])
               g == [file EXCEPT ![r] = put]
    <3>1. file' = [g EXCEPT ![r] = [g[r] EXCEPT !.offset = o]] /\ r \in DOMAIN file
      BY <1>0, <2>4 DEF TypeOK
    <3>2. new = [put EXCEPT !.offset = o]
      <4> HIDE DEF put
      <4> QED BY <2>2 DEF FileInfo
    <3> HIDE DEF o, put, new
    <3> QED BY <3>1, <3>2
  <2>6. rest \in Seq(Nat)
    BY <1>0, EmptySeq
  <2> HIDE DEF new
  <2>7. /\ file'[r] = new /\ file' \in [Req -> FileInfo \cup {None}]
        /\ \A q \in Req : q # r => file'[q] = file[q]
    BY <1>0, <2>3, <2>5 DEF TypeOK
  <2>8. body'[r] = rest /\ body' \in [Req -> Seq(Nat)] /\ \A q \in Req : q # r => body'[q] = body[q]
    <3> HIDE DEF rest
    <3> QED BY <1>0, <2>4, <2>6 DEF TypeOK
  <2>9. pc' \in [Req -> Pcs] /\ pc'[r] \in {next, "done"} /\ \A q \in Req \ {r} : pc'[q] = pc[q]
    <3>1. next \in Pcs
      BY DEF Pcs
    <3> QED BY <1>0, <2>4, <3>1, GoToType
  <2>10. multipart' \in [Id -> Seq(Seq(Nat)) \cup {None}]
    BY <1>0, <1>1, <2>4, PartPutType
  <2>11. S3TypeOK'
    BY <1>0, <2>4, <2>7, <2>8, <2>9, <2>10 DEF TypeOK, S3TypeOK, HybridTypeOK, stores, telemetry
  <2>12. LocalsOK(r)'
    <3>1. file'[r] # None
      BY <2>3, <2>7, FileFields
    <3> QED BY <1>0, <2>9, <3>1 DEF LocalsOK, Joining, Reading
  <2>13. Others(r)
    BY <1>0, <2>4, <2>7, <2>8, <2>9 DEF Others
  <2>14. IF Completes(r)
         THEN pc'[r] \in {"complete", "done"} /\ file'[r] = put /\ body'[r] = body[r]
         ELSE pc'[r] \in {"save", "done"} /\ file'[r] = [put EXCEPT !.offset = @ + Len(body[r])]
    BY <2>7, <2>8, <2>9 DEF new
  <2>15. UNCHANGED <<info, used, object>> /\ resp'[r] = "none"
    BY <1>0, <2>4 DEF stores
  <2> QED BY <1>0, <1>1, <2>4, <2>11, <2>12, <2>13, <2>14, <2>15, PutPartEffect
<1>2. CASE ~(file[r].metadata # None /\ multipart[file[r].id] # None)
  <2>1. Answer(r, "error") /\ UNCHANGED <<file, body, multipart>>
    BY <1>2 DEF PutPart
  <2> QED BY <1>0, <2>1, RefusedStep
<1> QED BY <1>1, <1>2

(* The stores after complete_multipart_upload. *)
LEMMA AssembledType ==
  ASSUME S3Inv, NEW r \in Req, pc[r] = "complete", Assembled(r)
  PROVE  /\ object' \in [Id -> Seq(Nat) \cup {None}]
         /\ multipart' \in [Id -> Seq(Seq(Nat)) \cup {None}]
<1>1. file[r] \in FileInfo /\ file[r].metadata # None /\ S3TypeOK
  BY Holding DEF S3Inv, S3Typed, ChunkExact
<1>2. FlattenSeq(file[r].metadata) \in Seq(Nat)
  <2>1. file[r].metadata \in Seq(Seq(Nat))
    BY <1>1 DEF FileInfo
  <2> QED BY <2>1, FlattenType
<1> QED BY <1>1, <1>2 DEF Assembled, S3TypeOK, HybridTypeOK

(* add_bytes completes the multipart upload. *)
LEMMA CompleteUploadStep ==
  ASSUME S3Inv, NEW r \in Req, CompleteUpload(r)
  PROVE  S3Inv'
<1>0. /\ TypeOK /\ LocalsOK(r) /\ pc[r] = "complete" /\ file[r] \in FileInfo /\ file[r] # None
      /\ file[r].id \in Id /\ resp[r] = "none" /\ file[r].offset \in Nat /\ body[r] \in Seq(Nat)
      /\ Method[r] \in {"POST", "PATCH"}
      /\ UNCHANGED <<stores, used, partsInfo, cursor, gone, telemetry>>
  BY Holding DEF CompleteUpload, S3Inv, S3Typed, S3TypeOK, HybridTypeOK, S3Locals, TypeOK
<1>1. CASE Completable(file[r].id, file[r].metadata)
  <2> DEFINE closed == [file[r] EXCEPT !.metadata = None]
             new == [closed EXCEPT !.offset = @ + Len(body[r])]
  <2>1. closed \in FileInfo /\ closed.offset = file[r].offset
    BY <1>0, MetadataSet
  <2>2. new \in FileInfo
    <3>1. closed.offset + Len(body[r]) \in Nat
      BY <1>0, <2>1
    <3> HIDE DEF closed
    <3> QED BY <2>1, <3>1, OffsetSet
  <2>3. /\ Assembled(r) /\ body' = [body EXCEPT ![r] = <<>>] /\ GoTo(r, "save") /\ resp' = resp
        /\ file' = [file EXCEPT ![r].metadata = None, ![r].offset = @ + Len(body[r])]
    BY <1>1 DEF CompleteUpload
  <2>4. file' = [file EXCEPT ![r] = new]
    <3> DEFINE o == file[r].offset + Len(body[r])
               g == [file EXCEPT ![r] = closed]
    <3>1. file' = [g EXCEPT ![r] = [g[r] EXCEPT !.offset = o]] /\ r \in DOMAIN file
      BY <1>0, <2>3 DEF TypeOK
    <3>2. new = [closed EXCEPT !.offset = o]
      BY <2>1
    <3> HIDE DEF o, closed, new
    <3> QED BY <3>1, <3>2
  <2> HIDE DEF new
  <2>5. /\ file'[r] = new /\ file' \in [Req -> FileInfo \cup {None}]
        /\ \A q \in Req : q # r => file'[q] = file[q]
    BY <1>0, <2>2, <2>4 DEF TypeOK
  <2>6. body' \in [Req -> Seq(Nat)] /\ \A q \in Req : q # r => body'[q] = body[q]
    <3>1. <<>> \in Seq(Nat) /\ body \in [Req -> Seq(Nat)] /\ body' = [body EXCEPT ![r] = <<>>]
      BY <1>0, <2>3, EmptySeq DEF TypeOK
    <3> QED BY <3>1, Zenon
  <2>7. pc' \in [Req -> Pcs] /\ pc'[r] \in {"save", "done"} /\ \A q \in Req \ {r} : pc'[q] = pc[q]
    <3>1. "save" \in Pcs
      BY DEF Pcs
    <3> QED BY <1>0, <2>3, <3>1, GoToType
  <2>8. /\ object' \in [Id -> Seq(Nat) \cup {None}]
        /\ multipart' \in [Id -> Seq(Seq(Nat)) \cup {None}]
    BY <1>0, <2>3, AssembledType
  <2>9. S3TypeOK'
    BY <1>0, <2>3, <2>5, <2>6, <2>7, <2>8 DEF TypeOK, S3TypeOK, HybridTypeOK, stores, telemetry
  <2>10. LocalsOK(r)'
    <3>1. file'[r] # None
      BY <2>2, <2>5, FileFields
    <3> QED BY <1>0, <2>7, <3>1 DEF LocalsOK, Joining, Reading
  <2>11. Others(r)
    BY <1>0, <2>3, <2>5, <2>6, <2>7 DEF Others
  <2>12. file'[r] = [file[r] EXCEPT !.metadata = None, !.offset = @ + Len(body[r])]
    BY <2>5 DEF new
  <2>13. UNCHANGED <<info, used>> /\ resp'[r] = "none" /\ multipart[file[r].id] # None
    BY <1>0, <1>1, <2>3 DEF stores, Completable
  <2> QED BY <1>0, <2>3, <2>7, <2>9, <2>10, <2>11, <2>12, <2>13, CompleteEffect
<1>2. CASE ~Completable(file[r].id, file[r].metadata)
  <2>1. Answer(r, "error") /\ UNCHANGED <<file, body, object, multipart>>
    BY <1>2 DEF CompleteUpload
  <2> QED BY <1>0, <2>1, RefusedStep
<1> QED BY <1>1, <1>2

(* A failing call: S3 did nothing, or what it was asked for. *)
LEMMA S3FaultStep ==
  ASSUME S3Inv, NEW r \in Req, S3Fault(r)
  PROVE  S3Inv'
<1>0. /\ InFlight(r) /\ Answer(r, "error") /\ S3TypeOK /\ TypeOK
      /\ object \in [Id -> Seq(Nat) \cup {None}]
      /\ multipart \in [Id -> Seq(Seq(Nat)) \cup {None}]
      /\ UNCHANGED <<stores, used, file, body, partsInfo, cursor, gone, telemetry>>
  BY DEF S3Fault, S3Inv, S3Typed, S3TypeOK, HybridTypeOK
<1>1. /\ pc' \in [Req -> Pcs] /\ resp' \in [Req -> {"none", "ok", "error"}]
      /\ pc'[r] = "done" /\ resp'[r] # "ok"
      /\ \A q \in Req : q # r => pc'[q] = pc[q] /\ resp'[q] = resp[q]
  <2>1. pc' \in [Req -> Pcs] /\ resp' \in [Req -> {"none", "ok", "error"}] /\ pc'[r] = "done"
    BY <1>0, AnswerType
  <2>2. resp'[r] # "ok" /\ \A q \in Req : q # r => pc'[q] = pc[q] /\ resp'[q] = resp[q]
    BY <1>0 DEF Answer, TypeOK
  <2> QED BY <2>1, <2>2
<1>2. Others(r) /\ file'[r] = file[r] /\ info' = info /\ used' = used /\ body' = body
  BY <1>0, <1>1 DEF Others, stores
<1>3. LocalsOK(r)'
  BY <1>1, LocalsDone
<1>4. ASSUME object' \in [Id -> Seq(Nat) \cup {None}], multipart' \in [Id -> Seq(Seq(Nat)) \cup {None}]
      PROVE  S3TypeOK'
  BY <1>0, <1>1, <1>4 DEF TypeOK, S3TypeOK, HybridTypeOK, stores, telemetry
<1>5. CASE UNCHANGED <<object, multipart>>
  BY <1>0, <1>5, RefusedStep
<1>6. CASE pc[r] = "create" /\ UNCHANGED object /\ multipart' = [multipart EXCEPT ![file[r].id] = <<>>]
  <2>1. multipart' \in [Id -> Seq(Seq(Nat)) \cup {None}]
    BY <1>0, <1>6, EmptySeq
  <2> QED BY <1>0, <1>1, <1>2, <1>3, <1>4, <1>6, <2>1, InitiateEffect
<1>7. CASE /\ pc[r] = "write" /\ file[r].metadata # None /\ multipart[file[r].id] # None
           /\ PartPut(r) /\ UNCHANGED object
  <2>1. multipart' \in [Id -> Seq(Seq(Nat)) \cup {None}]
    BY <1>7, PartPutType
  <2> QED BY <1>0, <1>1, <1>2, <1>3, <1>4, <1>7, <2>1, PutPartEffect
<1>8. CASE pc[r] = "complete" /\ Completable(file[r].id, file[r].metadata) /\ Assembled(r)
  <2>1. /\ object' \in [Id -> Seq(Nat) \cup {None}]
        /\ multipart' \in [Id -> Seq(Seq(Nat)) \cup {None}]
    BY <1>8, AssembledType
  <2>2. multipart[file[r].id] # None
    BY <1>8 DEF Completable
  <2> QED BY <1>1, <1>2, <1>3, <1>4, <1>8, <2>1, <2>2, CompleteEffect
<1>9. ASSUME ObjectsFollow(r), object' \in [Id -> Seq(Nat) \cup {None}], UNCHANGED multipart
      PROVE  S3Inv'
  BY <1>0, <1>4, <1>9, LostStep
<1>10. CASE pc[r] = "putJoined" /\ UNCHANGED multipart /\ object' = [object EXCEPT ![file[r].id] = body[r]]
  BY <1>9, <1>10, PutJoinedObject
<1>11. CASE pc[r] = "dropFile" /\ UNCHANGED multipart /\ object' = [object EXCEPT ![Part(r)] = None]
  BY <1>0, <1>9, <1>11, DropObjectObject
<1>12. CASE /\ pc[r] = "removeFile" /\ Finished(file[r]) /\ UNCHANGED multipart
            /\ object' = [object EXCEPT ![file[r].id] = None]
  BY <1>9, <1>12, RemoveObjectObject
<1> QED BY <1>5, <1>6, <1>7, <1>8, <1>10, <1>11, <1>12 DEF S3Fault

(* A request that enters. *)
LEMMA ArriveStep ==
  ASSUME S3Inv, NEW r \in Req, Arrive(r), UNCHANGED <<object, multipart>>
  PROVE  S3Inv'
<1>1. CASE PostRefused(r)
  BY <1>1, RefusedStep DEF PostRefused
<1>2. CASE \E m \in PostMsg, i \in Id : PostAccepted(r, i, m)
  <2>1. PICK m \in PostMsg, i \in Id : PostAccepted(r, i, m)
    BY <1>2
  <2>2. TypeInv'
    BY <2>1, TypedTypeInv, PostTypeInv DEF S3Inv
  <2> QED BY <2>1, <2>2, PostStep
<1>3. ASSUME NEW i \in Id, PatchRefused(r, i) \/ DeleteRefused(r, i) \/ ReadRefused(r, i)
      PROVE  S3Inv'
  BY <1>3, RefusedStep DEF PatchRefused, DeleteRefused, ReadRefused
<1>4. ASSUME NEW i \in Id, \E m \in PatchMsg : PatchAccepted(r, i, m) PROVE S3Inv'
  BY <1>4, PatchStep
<1>5. ASSUME NEW i \in Id, DeleteAccepted(r, i) \/ GetAccepted(r, i) \/ HeadAnswered(r, i)
      PROVE  S3Inv'
  BY <1>5, TakeStep
<1> QED BY <1>1, <1>2, <1>3, <1>4, <1>5 DEF Arrive

(***************************************************************************)
(* The theorems.                                                           *)
(***************************************************************************)

(* The server starts with no objects and, of its own, no uploads. *)
LEMMA S3InitInv == S3Init => S3Inv
<1> SUFFICES ASSUME S3Init PROVE S3Inv
  OBVIOUS
<1> USE DEF S3Init, HybridInit
<1>1. TypeInv
  BY InitTypeInv
<1>2. S3TypeOK
  BY <1>1 DEF TypeInv, S3TypeOK, HybridTypeOK
<1>3. /\ \A r \in Req : pc[r] = "idle" /\ file[r] = None /\ resp[r] = "none"
      /\ \A i \in Id : object[i] = None /\ multipart[i] = None /\ ~Visible(i)
      /\ \A i \in Id : i \notin used => info[i] = None
  BY DEF Init, Visible, ForeignInfo, Own, OtherStorage
<1> HIDE DEF S3Init, HybridInit
<1>4. S3Typed
  BY <1>1, <1>2, <1>3 DEF TypeInv, S3Typed, S3Locals, Joining, Reading
<1>5. IdsUsed /\ Agreement /\ \A r \in Req : PostUnknown(r)
  BY <1>3 DEF IdsUsed, Agreement, PostUnknown
<1>6. PartsNumbered /\ PartsExact /\ \A r \in Req : ChunkExact(r)
  BY <1>3 DEF PartsNumbered, PartsExact, ChunkExact
<1>7. OpenIncomplete /\ OnePending /\ RemovedIncomplete
  BY <1>3 DEF OpenIncomplete, OnePending, RemovedIncomplete, Pending
<1>8. WholeStored /\ ObjectsWhole /\ DeletedObjectGone /\ DownloadsWhole
  BY <1>3 DEF WholeStored, Pending, ObjectsWhole, DeletedObjectGone, DownloadsWhole, DownloadIsWhole
<1> QED BY <1>4, <1>5, <1>6, <1>7, <1>8 DEF S3Inv

(* Every step of the server keeps the invariant. *)
LEMMA NextS3Inv == S3Inv /\ [S3Next]_s3vars => S3Inv'
<1> SUFFICES ASSUME S3Inv, [S3Next]_s3vars PROVE S3Inv'
  OBVIOUS
<1>1. ASSUME NEW r \in Req, S3Step(r) PROVE S3Inv'
  BY <1>1, InitiateStep, PutPartStep, CompleteUploadStep, RemoveObjectStep, ReadObjectStep, S3FaultStep
  DEF S3Step
<1>2. ASSUME NEW r \in Req, JoinStep(r), UNCHANGED multipart PROVE S3Inv'
  BY <1>2, DownloadPartStep, PutJoinedStep, DropObjectStep DEF JoinStep
<1>3. ASSUME NEW r \in Req, OutsideStep(r), UNCHANGED <<object, multipart>> PROVE S3Inv'
  <2>1. CASE HookRefused(r)
    BY <1>3, <2>1, RefusedStep DEF HookRefused
  <2> QED BY <1>3, <2>1, ArriveStep, ReadPartStep, DropInfoStep, SaveInfoStep, RemoveInfoStep,
             DisconnectStep, RedisStep DEF OutsideStep
<1>4. CASE S3Background
  BY <1>4, BackgroundStep
<1>5. CASE UNCHANGED s3vars
  BY <1>5, StutterStep
<1> QED BY <1>1, <1>2, <1>3, <1>4, <1>5 DEF S3Next, S3Request

(* The invariant holds in every reachable state. *)
THEOREM S3Invariant == S3Spec => []S3Inv
  BY S3InitInv, NextS3Inv, PTL DEF S3Spec

(* Every variable has its type over S3: the parts of an open multipart upload *)
(* are numbered without a gap.                                                *)
THEOREM S3TypeCorrect == S3Spec => []S3TypeOK
<1>1. S3Inv => S3TypeOK
  BY DEF S3Inv, S3Typed
<1> QED BY <1>1, S3Invariant, PTL

(* For uploads whose Upload-Metadata has not the keys of the storage: however *)
(* PATCH requests race, fail or are dropped, the parts an info lists are      *)
(* exactly the first offset bytes.                                            *)
THEOREM ListedAreExact == S3Spec => []ListedPartsExact
<1>1. S3Inv => ListedPartsExact
  BY DEF S3Inv, PartsExact, Listed, Lists, ListedPartsExact
<1> QED BY <1>1, S3Invariant, PTL

(* An upload whose info says that it is complete has an object with exactly *)
(* its bytes, unless it was taken as a part to remove.                      *)
THEOREM CompleteExact == S3Spec => []CompleteIsExact
<1>1. S3Inv => CompleteIsExact
  BY DEF S3Inv, WholeStored, Whole, HasObject, Taken, CompleteIsExact
<1> QED BY <1>1, S3Invariant, PTL

(* Where lengths cannot be deferred GET never delivers a part of an upload. *)
THEOREM DownloadsAreWhole ==
  "creation-defer-length" \notin Extensions => (S3Spec => []DownloadIsWhole)
<1> SUFFICES ASSUME NoDeferral PROVE S3Spec => []DownloadIsWhole
  BY DEF NoDeferral
<1>1. S3Inv => DownloadIsWhole
  BY DEF S3Inv, DownloadsWhole
<1> QED BY <1>1, S3Invariant, PTL

(* After terminate has removed a complete upload its object never comes back. *)
THEOREM DeletedObjectsGone == S3Spec => []DeletedObjectGone
<1>1. S3Inv => DeletedObjectGone
  BY DEF S3Inv
<1> QED BY <1>1, S3Invariant, PTL
=============================================================================

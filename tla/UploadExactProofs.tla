------------------------- MODULE UploadExactProofs -------------------------
(***************************************************************************)
(* What the handlers store, for clients that wait for answers when no call *)
(* fails and the server is not restarted (NothingFails), for every set of  *)
(* ids and requests and every configuration: the data file is exactly the  *)
(* upload (StoredExactly), a download returns it (DownloadIsUpload), a     *)
(* final upload that is not created leaves its parts as they were          *)
(* (PartsSurviveFailure), and one that is created is their concatenation   *)
(* (FinalIsConcatenation).                                                 *)
(*                                                                         *)
(* ExactInv adds to SerialInv what a handler counts on between two awaits  *)
(* (Sound): the body it appends continues what is stored, and the file it  *)
(* saves an info about holds what that info says.  Data and info of an     *)
(* upload then disagree only while a handler is about to save (Exact).     *)
(* PartsInv follows one request for a final upload: until it has joined    *)
(* the parts they are unharmed, afterwards nothing it does can be refused. *)
(* ConcatInv follows its data: the parts that were read are complete and   *)
(* frozen (Complete), and the file is the concatenation of those that were *)
(* copied (Composed).                                                      *)
(***************************************************************************)
EXTENDS UploadSerialProofs

NothingFails == Env = {}

(* What a handler counts on between two awaits. *)
Sound(r) ==
  LET i == file[r].id
      n == file[r].offset
  IN /\ Reading(r) \/ Joining(r) => file[r].final
     /\ pc[r] = "create" => body[r] = Bytes(0, Len(body[r]))
     /\ pc[r] = "write" => body[r] = Bytes(n, Len(body[r])) /\ data[i] = Bytes(0, n)
     /\ pc[r] \in {"save", "saving"} => /\ data[i] # None
                                        /\ ~file[r].final => data[i] = Bytes(0, n)
     /\ pc[r] = "dropInfo" => data[Part(r)] = None
     /\ pc[r] = "removeFile" => info[i] = None /\ data[i] # None
     /\ pc[r] = "read" /\ Finished(file[r]) /\ ~file[r].final =>
          Frozen(i) /\ data[i] \in {None, Bytes(0, n)}
     /\ Method[r] = "GET" /\ resp[r] = "ok" /\ Finished(file[r]) /\ ~file[r].final =>
          body[r] = Bytes(0, n)

(* Data and info of an upload agree, but for the step a handler is about to make. *)
Exact(i) ==
  Readable(i) /\ i \notin Foreign =>
    \/ \E r \in Req : pc[r] = "dropInfo" /\ Part(r) = i
    \/ /\ data[i] # None
       /\ \/ info[i].final
          \/ data[i] = Bytes(0, info[i].offset)
          \/ \E r \in Req : pc[r] = "save" /\ file[r].id = i

ExactInv ==
  /\ SerialInv
  /\ \A r \in Req : Sound(r)
  /\ \A i \in Id : Exact(i)

USE DEF InFlight, Readable, Unreadable

(* Appending the next bytes to the first ones. *)
LEMMA BytesAppend ==
  ASSUME NEW o \in Nat, NEW n \in Nat
  PROVE  Appended(Bytes(0, o), Bytes(o, n)) = Bytes(0, o + n)
<1> DEFINE s == Bytes(0, o)
           t == Bytes(o, n)
<1>1. s \in Seq(Nat) /\ t \in Seq(Nat) /\ Len(s) = o /\ Len(t) = n
  BY BytesType
<1>2. s \o t \in Seq(Nat) /\ Len(s \o t) = o + n
  BY <1>1
<1>3. Bytes(0, o + n) \in Seq(Nat) /\ Len(Bytes(0, o + n)) = o + n
  BY BytesType
<1>5. \A k \in 1..Len(s) + Len(t) : (s \o t)[k] = IF k <= Len(s) THEN s[k] ELSE t[k - Len(s)]
  BY <1>1, ConcatProperties
<1>4. ASSUME NEW k \in 1..(o + n) PROVE (s \o t)[k] = Bytes(0, o + n)[k]
  <2>1. CASE k <= o
    <3>1. (s \o t)[k] = s[k]
      BY <1>1, <2>1
    <3> QED BY <2>1, <3>1 DEF Bytes
  <2>2. CASE k > o
    <3>1. k - o \in 1..n
      BY <2>2
    <3>2. (s \o t)[k] = t[k - o]
      <4>1. k \in 1..Len(s) + Len(t) /\ ~(k <= Len(s)) /\ Len(s) = o
        BY <1>1, <2>2
      <4> HIDE DEF s, t
      <4> QED BY <1>5, <4>1
    <3>3. t[k - o] = o + (k - o) /\ Bytes(0, o + n)[k] = 0 + k
      BY <3>1 DEF Bytes
    <3>4. o + (k - o) = 0 + k
      OBVIOUS
    <3> HIDE DEF s, t
    <3> QED BY <3>2, <3>3, <3>4
  <2>3. k <= o \/ k > o
    OBVIOUS
  <2> QED BY <2>1, <2>2, <2>3
<1> QED BY <1>2, <1>3, <1>4, SeqEqual DEF Appended

(* No bytes at all, and what is no file. *)
LEMMA BytesNone ==
  /\ Bytes(0, 0) = <<>>
  /\ \A o, n \in Nat : Bytes(o, n) # None
<1>1. Bytes(0, 0) \in Seq(Nat) /\ Len(Bytes(0, 0)) = 0
  BY BytesType
<1> QED BY <1>1, BytesType, NoneAssumption, EmptySeq

(* The environment that lets nothing fail lets no client send twice, or leave. *)
LEMMA CalmClientsWait == NothingFails => ClientsWait
BY DEF NothingFails, ClientsWait

(* A handler at work is the only one to touch the data of its upload. *)
LEMMA DataLeftAlone ==
  ASSUME SerialInv, NEW r, Effect(r), NEW q \in Req, q # r, Works(q)
  PROVE  data'[file[q].id] = data[file[q].id]
<1> DEFINE i == file[q].id
<1>0. Inv /\ i \in Id /\ DataStep(r, i)
  BY AtWork DEF SerialInv, Inv, Works, Effect
<1>1. ASSUME r \in Req, file[r].id = i, Works(r) PROVE FALSE
  BY <1>1 DEF SerialInv, Alone
<1>2. ASSUME r \in Req, pc[r] = "removeFile", file[r].id = i PROVE FALSE
  BY <1>1, <1>2, DeleteWanted, <1>0 DEF Works, Modifying
<1>3. ASSUME r \in Req, Saving(r, i) PROVE FALSE
  BY <1>1, <1>3 DEF Saving, Works, Modifying
<1>4. ASSUME r \in Req, pc[r] = "dropFile", Part(r) = i PROVE FALSE
  <2>1. Works(r) /\ Method[r] = "POST" /\ i \in PartIds(file[r])
    BY <1>0, <1>4, PartNamed DEF Joining
  <2>2. Method[q] # "POST"
    BY <1>0, <1>4, PartKnown, AlonePost DEF Joining, Works
  <2> QED BY <1>4, <2>1, <2>2 DEF SerialInv, Alone
<1> QED BY <1>0, <1>2, <1>3, <1>4 DEF DataStep

(* Nor does anybody touch the parts of a final upload. *)
LEMMA PartLeftAlone ==
  ASSUME SerialInv, NEW r, Effect(r), NEW q \in Req, q # r,
         Reading(q) \/ Joining(q), NEW k \in 1..Len(partsInfo[q])
  PROVE  LET i == partsInfo[q][k].id
         IN i \in Id /\ info'[i] = info[i] /\ data'[i] = data[i]
<1> DEFINE i == partsInfo[q][k].id
<1>0. Inv /\ i \in Id /\ DataStep(r, i) /\ InfoStep(r, i)
  BY PartsHold DEF SerialInv, Inv, Effect
<1>1. Works(q) /\ Method[q] = "POST"
  BY <1>0 DEF Reading, Joining, Works, Modifying, Inv, TypeInv, LocalsOK
<1>2. i \in PartIds(file[q])
  <2>1. i = file[q].parts[k] /\ k \in 1..Len(file[q].parts) /\ file[q].parts \in Seq(Id)
    <3>1. i = file[q].parts[k]
      BY <1>0 DEF Inv, IdsInv, PartsRead
    <3>2. file[q].parts \in Seq(Id) /\ cursor[q] \in Nat
      BY <1>0, <1>1, AtWork DEF Inv, TypeInv, TypeOK, Works
    <3>3. Len(partsInfo[q]) <= Len(file[q].parts)
      BY <1>0, <3>2 DEF Inv, TypeInv, LocalsOK, Reading
    <3> QED BY <3>1, <3>2, <3>3
  <2>2. k \in DOMAIN file[q].parts
    BY <2>1
  <2> QED BY <2>1, <2>2 DEF PartIds
<1>3. ASSUME r \in Req, file[r].id = i, Works(r) PROVE FALSE
  <2>1. Method[r] # "POST"
    BY <1>0, <1>3, AlonePost DEF Works
  <2> QED BY <1>1, <1>2, <1>3, <2>1 DEF SerialInv, Alone
<1>4. ASSUME r \in Req, pc[r] \in {"save", "saving", "removeInfo", "removeFile"}, file[r].id = i
      PROVE  FALSE
  <2>1. Works(r)
    BY <1>0, <1>4, SaversSave, DeleteWanted DEF Works, Modifying
  <2> QED BY <1>3, <1>4, <2>1
<1>5. ASSUME r \in Req, Saving(r, i) PROVE FALSE
  BY <1>3, <1>5 DEF Saving, Works, Modifying
<1>6. ASSUME r \in Req, pc[r] \in {"dropFile", "dropInfo"}, Part(r) = i PROVE FALSE
  <2>1. Works(r) /\ Method[r] = "POST" /\ i \in PartIds(file[r])
    BY <1>0, <1>6, PartNamed DEF Joining
  <2> QED BY <1>1, <1>2, <1>6, <2>1 DEF SerialInv, Alone
<1> QED BY <1>0, <1>4, <1>5, <1>6 DEF DataStep, InfoStep

(* The local variables of a handler that does not move. *)
Same(q) ==
  /\ pc'[q] = pc[q] /\ file'[q] = file[q] /\ body'[q] = body[q] /\ resp'[q] = resp[q]
  /\ partsInfo'[q] = partsInfo[q] /\ cursor'[q] = cursor[q]

(* What a handler counts on is still there when another one moved. *)
LEMMA SoundKept ==
  ASSUME ExactInv, NEW r, Effect(r), NEW q \in Req, q # r, Same(q)
  PROVE  Sound(q)'
<1> DEFINE i == file[q].id
           n == file[q].offset
<1>0. SerialInv /\ Inv /\ Sound(q) /\ Rests(q)
  BY DEF ExactInv, SerialInv, Same, Rests
<1>1. /\ pc[q] = "create" => body'[q] = Bytes(0, Len(body'[q]))
      /\ Reading(q) \/ Joining(q) => file[q].final
  BY <1>0 DEF Sound, Same
<1>2. pc[q] \in {"write", "save", "saving", "removeFile"} => data'[i] = data[i] /\ info'[i] = info[i]
  <2> SUFFICES ASSUME pc[q] \in {"write", "save", "saving", "removeFile"}
               PROVE  data'[i] = data[i] /\ info'[i] = info[i]
    OBVIOUS
  <2>1. Works(q)
    BY <1>0, SaversSave, DeleteWanted DEF Works, Modifying
  <2> QED BY <1>0, <2>1, DataLeftAlone, InfoLeftAlone
<1>3. pc[q] = "dropInfo" => data'[Part(q)] = None
  <2> SUFFICES ASSUME pc[q] = "dropInfo" PROVE data'[Part(q)] = None
    OBVIOUS
  <2>1. cursor[q] \in 1..Len(partsInfo[q]) /\ partsInfo[q][cursor[q]].id = Part(q)
    BY <1>0, PartKnown DEF Joining
  <2>2. data'[Part(q)] = data[Part(q)]
    BY <1>0, <2>1, PartLeftAlone DEF Joining
  <2> QED BY <1>0, <2>2 DEF Sound, Reading, Joining
<1>4. ASSUME pc[q] = "read", Frozen(i), data[i] \in {None, Bytes(0, n)}
      PROVE  Frozen(i)' /\ data'[i] \in {None, Bytes(0, n)}
  <2>1. i \in Id
    BY <1>0, <1>4, AtWork DEF Inv
  <2>2. PICK j \in Id : j = i
    BY <2>1
  <2>3. Frozen(j)' /\ data'[i] \in {data[i], None}
    BY <1>0, <1>4, <2>2, FrozenKept
  <2>4. Frozen(i)'
    BY <2>2, <2>3 DEF Same, Frozen, Saving
  <2> QED BY <1>4, <2>3, <2>4
<1>5. Part(q)' = Part(q)
  BY DEF Part, Same
<1> QED BY <1>0, <1>1, <1>2, <1>3, <1>4, <1>5 DEF Sound, Same, Finished, Reading, Joining

(* Where a step leaves info and data alone they still agree. *)
LEMMA ExactKept ==
  ASSUME ExactInv, NEW r \in Req, \A q \in Req \ {r} : Same(q), NEW i \in Id,
         info'[i] = info[i], data'[i] = data[i],
         ~(pc[r] = "save" /\ file[r].id = i), ~(pc[r] = "dropInfo" /\ Part(r) = i)
  PROVE  Exact(i)'
<1> SUFFICES ASSUME Readable(i), i \notin Foreign PROVE Exact(i)'
  BY DEF Exact
<1>1. ASSUME NEW q \in Req, pc[q] = "dropInfo", Part(q) = i PROVE Exact(i)'
  BY <1>1 DEF Exact, Part, Same
<1>2. ASSUME NEW q \in Req, pc[q] = "save", file[q].id = i, data[i] # None PROVE Exact(i)'
  BY <1>2 DEF Exact, Same
<1> QED BY <1>1, <1>2 DEF ExactInv, Exact

(* The step of one handler: what it leaves right is all there is to show. *)
LEMMA ExactStep ==
  ASSUME ExactInv, SerialInv', NEW r \in Req, Effect(r), \A q \in Req \ {r} : Same(q), Sound(r)',
         \A i \in Id :
           \/ Exact(i)'
           \/ /\ info'[i] = info[i] /\ data'[i] = data[i]
              /\ ~(pc[r] = "save" /\ file[r].id = i) /\ ~(pc[r] = "dropInfo" /\ Part(r) = i)
  PROVE  ExactInv'
<1>1. \A q \in Req : Sound(q)'
  BY SoundKept
<1>2. \A i \in Id : Exact(i)'
  BY ExactKept
<1> QED BY <1>1, <1>2 DEF ExactInv

(* A handler that ends says nothing more about the upload, unless it is a download. *)
LEMMA EndedSound ==
  ASSUME NEW r \in Req, pc'[r] = "done", resp'[r] # "ok" \/ Method[r] # "GET"
  PROVE  Sound(r)'
BY DEF Sound, Reading, Joining

(* A handler that stops at an error before it changed anything. *)
LEMMA RefusedExact ==
  ASSUME ExactInv, SerialInv', NEW r \in Req, pc[r] # "done", Answer(r, "error"), pc[r] # "save",
         pc[r] = "dropInfo" => info[Part(r)] = None,
         UNCHANGED <<stores, used, file, partsInfo, cursor, gone, telemetry>>,
         body' = body
  PROVE  ExactInv'
<1>0. SerialInv
  BY DEF ExactInv
<1>1. /\ pc'[r] = "done" /\ resp'[r] = "error"
      /\ \A q \in Req \ {r} : pc'[q] = pc[q] /\ resp'[q] = resp[q]
  BY <1>0, AnswerGiven
<1>2. Effect(r)
  BY <1>0, RefusedEffect
<1>3. \A q \in Req \ {r} : Same(q)
  BY <1>1 DEF Same
<1>4. Sound(r)'
  BY <1>1, EndedSound
<1>5. \A i \in Id : info'[i] = info[i] /\ data'[i] = data[i]
  BY DEF stores
<1>6. ASSUME NEW i \in Id, pc[r] = "dropInfo", Part(r) = i PROVE Exact(i)'
  BY <1>5, <1>6 DEF Exact
<1> QED BY <1>2, <1>3, <1>4, <1>5, <1>6, ExactStep
-----------------------------------------------------------------------------
(* The uploads of another data storage are not visible. *)
LEMMA OwnVisible ==
  ASSUME ExactInv, NEW i \in Id, Visible(i)
  PROVE  i \notin Foreign
<1>1. i \in Foreign => info[i] = ForeignInfo(i)
  BY DEF ExactInv, SerialInv, Inv, ForeignInv, ForeignUntouched
<1>2. ForeignInfo(i).storage = OtherStorage
  BY DEF ForeignInfo
<1> QED BY <1>1, <1>2 DEF Visible, Own, OtherStorage

(* While no client waits for an answer about an upload, its data is what its info says. *)
LEMMA UndisturbedExact ==
  ASSUME NothingFails, ExactInv, NEW i \in Id, Undisturbed({i}), Visible(i), ~info[i].final
  PROVE  data[i] = Bytes(0, info[i].offset)
<1>0. Inv
  BY DEF ExactInv, SerialInv
<1>1. ASSUME NEW q \in Req, Works(q) PROVE file[q].id # i /\ i \notin PartIds(file[q])
  <2>1. InFlight(q) /\ ~gone[q] /\ Modifying(q)
    BY <1>1 DEF Works, ExactInv, SerialInv, Attended
  <2> QED BY <2>1 DEF Undisturbed, NothingFails
<1>2. ASSUME NEW q \in Req, pc[q] = "dropInfo", Part(q) = i PROVE FALSE
  BY <1>0, <1>1, <1>2, PartNamed DEF Joining
<1>3. ASSUME NEW q \in Req, pc[q] = "save", file[q].id = i PROVE FALSE
  BY <1>0, <1>1, <1>3, SaversSave
<1> QED BY <1>2, <1>3, OwnVisible DEF ExactInv, Exact, Visible

(* What a download starts with. *)
LEMMA CompleteExact ==
  ASSUME ExactInv, NEW i \in Id, Visible(i), ~info[i].final, Finished(info[i])
  PROVE  Frozen(i) /\ data[i] \in {None, Bytes(0, info[i].offset)}
<1>0. SerialInv /\ Inv
  BY DEF ExactInv, SerialInv
<1>1. ASSUME NEW q \in Req, Saving(q, i) PROVE FALSE
  BY <1>0, <1>1, SavedIsOpen DEF Visible
<1>2. ASSUME NEW q \in Req, pc[q] = "save", file[q].id = i PROVE FALSE
  BY <1>0, <1>1, <1>2, SaversSave
<1>3. Frozen(i)
  BY <1>0, <1>1 DEF Frozen, Visible, Inv, IdsInv, UsedInv
<1>4. ASSUME NEW q \in Req, pc[q] = "dropInfo", Part(q) = i PROVE data[i] = None
  BY <1>4 DEF ExactInv, Sound
<1> QED BY <1>2, <1>3, <1>4, OwnVisible DEF ExactInv, Exact, Visible

(* A request that enters. *)
LEMMA StartExact ==
  ASSUME ExactInv, SerialInv', NEW r \in Req, pc[r] = "idle", Arrive(r), UNCHANGED stores,
         \A q \in Req \ {r} : Same(q), Sound(r)'
  PROVE  ExactInv'
<1>1. Effect(r)
  BY ArriveEffect DEF ExactInv
<1>2. \A i \in Id : info'[i] = info[i] /\ data'[i] = data[i]
  BY DEF stores
<1> QED BY <1>1, <1>2, ExactStep

LEMMA ArriveExact ==
  ASSUME NothingFails, ExactInv, SerialInv', NEW r \in Req, Arrive(r)
  PROVE  ExactInv'
<1>0. TypeOK /\ Inv /\ SerialInv /\ (pc[r] = "idle" => resp[r] = "none")
  BY DEF ExactInv, SerialInv, Attended, Inv, TypeInv, TypeOK
<1>1. ASSUME pc[r] = "idle", Answer(r, "error"),
             UNCHANGED <<stores, used, file, body, partsInfo, cursor, gone, telemetry>>
      PROVE  ExactInv'
  BY <1>1, RefusedExact
<1>2. ASSUME NEW m \in PostMsg, NEW i \in Id, PostAccepted(r, i, m) PROVE ExactInv'
  <2>1. \A q \in Req \ {r} : Same(q)
    BY <1>0, <1>2 DEF PostAccepted, Same, TypeOK
  <2>2. pc[r] = "idle" /\ Arrive(r) /\ UNCHANGED stores
    BY <1>2 DEF PostAccepted, Begins
  <2>3. pc'[r] = "create" /\ Method[r] = "POST"
    BY <1>0, <1>2, PostStarts
  <2>4. body'[r] \in {Bytes(0, m.n), <<>>}
    BY <1>0, <1>2 DEF PostAccepted, TypeOK
  <2>5. body'[r] = Bytes(0, Len(body'[r]))
    <3>1. m.n \in Nat
      BY NewFileInfoType
    <3>2. Len(Bytes(0, m.n)) = m.n /\ Len(<<>>) = 0
      BY <3>1, BytesType
    <3> QED BY <2>4, <3>2, BytesNone
  <2>6. Sound(r)'
    BY <2>3, <2>5 DEF Sound, Reading, Joining
  <2> QED BY <2>1, <2>2, <2>6, StartExact
<1>3. ASSUME NEW i \in Id, NEW m \in PatchMsg, PatchAccepted(r, i, m) PROVE ExactInv'
  <2>1. \A q \in Req \ {r} : Same(q)
    BY <1>0, <1>3 DEF PatchAccepted, Same, TypeOK
  <2>2. pc[r] = "idle" /\ Arrive(r) /\ UNCHANGED stores
    BY <1>3 DEF PatchAccepted, Begins
  <2>3. /\ pc'[r] = "write" /\ Method[r] = "PATCH" /\ file'[r].id = i
        /\ ~info[i].final /\ file'[r].offset = info[i].offset
        /\ Visible(i) /\ Undisturbed({i})
    BY <1>0, <1>3, PatchStarts, ZenonT(40)
  <2>4. data'[file'[r].id] = Bytes(0, file'[r].offset)
    BY <2>2, <2>3, UndisturbedExact DEF stores
  <2>5. body'[r] = Bytes(file'[r].offset, Len(body'[r]))
    <3>1. body'[r] = Bytes(m.offset, m.n) /\ m.offset = info[i].offset
      BY <1>0, <1>3 DEF PatchAccepted, PatchAdmissible, TypeOK
    <3>2. m.n \in Nat /\ m.offset \in Nat
      <4>1. info[i] \in FileInfo
        BY <1>0, <2>3 DEF Visible, TypeOK
      <4> QED BY <4>1, ResizedType
    <3> QED BY <2>3, <3>1, <3>2, BytesType
  <2>6. Sound(r)'
    BY <2>3, <2>4, <2>5 DEF Sound, Reading, Joining
  <2> QED BY <2>1, <2>2, <2>6, StartExact
<1>4. ASSUME NEW i \in Id, DeleteAccepted(r, i) PROVE ExactInv'
  <2>1. \A q \in Req \ {r} : Same(q)
    BY <1>0, <1>4 DEF DeleteAccepted, Same, TypeOK
  <2>2. pc[r] = "idle" /\ Arrive(r) /\ UNCHANGED stores
    BY <1>4 DEF DeleteAccepted, Begins
  <2>3. Sound(r)'
    BY <1>0, <1>4, DeleteStarts DEF Sound, Reading, Joining
  <2> QED BY <2>1, <2>2, <2>3, StartExact
<1>5. ASSUME NEW i \in Id, GetAccepted(r, i) PROVE ExactInv'
  <2>1. \A q \in Req \ {r} : Same(q)
    BY <1>0, <1>5 DEF GetAccepted, Same, TypeOK
  <2>2. pc[r] = "idle" /\ Arrive(r) /\ UNCHANGED stores
    BY <1>5 DEF GetAccepted, Begins
  <2>3. /\ pc'[r] = "read" /\ file'[r] = info[i] /\ info[i].id = i /\ resp'[r] = "none" /\ Visible(i)
    BY <1>0, <1>5 DEF GetAccepted, Begins, TypeOK, Visible, Inv, IdsInv, UsedInv
  <2>4. Finished(info[i]) /\ ~info[i].final =>
          Frozen(i)' /\ data'[i] \in {None, Bytes(0, info[i].offset)}
    <3> SUFFICES ASSUME Finished(info[i]), ~info[i].final
                 PROVE  Frozen(i)' /\ data'[i] \in {None, Bytes(0, info[i].offset)}
      OBVIOUS
    <3>1. Frozen(i) /\ data[i] \in {None, Bytes(0, info[i].offset)}
      BY <2>3, CompleteExact
    <3>2. Effect(r)
      BY <1>0, <2>2, ArriveEffect
    <3> QED BY <1>0, <2>2, <3>1, <3>2, FrozenKept DEF stores
  <2>5. Sound(r)'
    BY <2>3, <2>4 DEF Sound, Finished, Frozen, Saving, Reading, Joining
  <2> QED BY <2>1, <2>2, <2>5, StartExact
<1>6. ASSUME NEW i \in Id, HeadAnswered(r, i) PROVE ExactInv'
  <2>1. Answer(r, "ok") /\ pc[r] = "idle" /\ Method[r] = "HEAD" /\ Arrive(r) /\ UNCHANGED stores
    BY <1>6 DEF HeadAnswered, Begins
  <2>2. /\ pc'[r] = "done"
        /\ \A q \in Req \ {r} : pc'[q] = pc[q] /\ resp'[q] = resp[q]
    BY <1>0, <2>1, AnswerGiven
  <2>3. \A q \in Req \ {r} : Same(q)
    BY <1>0, <1>6, <2>2 DEF HeadAnswered, Same, TypeOK
  <2>4. Sound(r)'
    BY <2>1, <2>2, EndedSound
  <2> QED BY <2>1, <2>3, <2>4, StartExact
<1> QED BY <1>1, <1>2, <1>3, <1>4, <1>5, <1>6
        DEF Arrive, PostRefused, PatchRefused, DeleteRefused, ReadRefused, Begins
-----------------------------------------------------------------------------
(* A handler that goes on. *)
LEMMA CreateExact ==
  ASSUME ExactInv, SerialInv', NEW r \in Req, CreateFile(r)
  PROVE  ExactInv'
<1> DEFINE i == file[r].id
           next == IF file[r].final THEN "readPart" ELSE IF body[r] # <<>> THEN "write" ELSE "save"
<1>0. /\ SerialInv /\ Inv /\ InFlight(r) /\ pc[r] = "create" /\ Method[r] = "POST"
      /\ file[r].offset = 0 /\ Effect(r) /\ GoTo(r, next)
  BY CreateEffect DEF ExactInv, SerialInv, CreateFile, Inv, TypeInv, LocalsOK
<1>1. pc'[r] = next /\ \A q \in Req \ {r} : pc'[q] = pc[q]
  BY <1>0, CallMade
<1>2. \A q \in Req \ {r} : Same(q)
  BY <1>1 DEF Same, CreateFile
<1>3. /\ i \in Id /\ info' = info /\ ~Readable(i) /\ data'[i] = <<>>
      /\ \A j \in Id \ {i} : data'[j] = data[j]
  BY <1>0, AlonePost DEF CreateFile, Inv, TypeInv, TypeOK
<1>4. body[r] = Bytes(0, Len(body[r]))
  BY <1>0 DEF ExactInv, Sound
<1>5. data'[i] = Bytes(0, 0) /\ data'[i] # None
  BY <1>3, BytesNone
<1>6. Sound(r)'
  <2>1. file'[r] = file[r] /\ body'[r] = body[r]
    BY DEF CreateFile
  <2> QED BY <1>0, <1>1, <1>4, <1>5, <2>1 DEF Sound, Reading, Joining
<1>7. ASSUME NEW j \in Id, j = i PROVE Exact(j)'
  BY <1>7, <1>3 DEF Exact
<1> QED BY <1>0, <1>2, <1>3, <1>6, <1>7, ExactStep

LEMMA ReadPartExact ==
  ASSUME ExactInv, SerialInv', NEW r \in Req, ReadPart(r)
  PROVE  ExactInv'
<1>0. SerialInv /\ pc[r] = "readPart" /\ Method[r] = "POST"
  BY DEF ExactInv, SerialInv, Inv, TypeInv, LocalsOK, ReadPart, Reading
<1>1. CASE PartAcceptable(info[Part(r)])
  <2> DEFINE next == IF LastPart(r) THEN "copyPart" ELSE "readPart"
  <2>1. Effect(r) /\ pc'[r] = next /\ \A q \in Req \ {r} : pc'[q] = pc[q]
    BY <1>0, <1>1, CallMade, ReadPartEffect DEF ReadPart
  <2>2. \A q \in Req \ {r} : Same(q)
    BY <1>1, <2>1 DEF ReadPart, Same, Advance, SerialInv, ExactInv, Inv, TypeInv, TypeOK
  <2>3. file[r].final /\ file'[r] = file[r]
    BY <1>0, <1>1 DEF ExactInv, Sound, Reading, ReadPart
  <2>4. Sound(r)'
    BY <1>0, <2>1, <2>3 DEF Sound
  <2>5. \A i \in Id : info'[i] = info[i] /\ data'[i] = data[i]
    BY DEF ReadPart, stores
  <2> QED BY <1>0, <2>1, <2>2, <2>4, <2>5, ExactStep
<1>2. CASE ~PartAcceptable(info[Part(r)])
  BY <1>0, <1>2, RefusedExact DEF ReadPart
<1> QED BY <1>1, <1>2

LEMMA CopyPartExact ==
  ASSUME ExactInv, SerialInv', NEW r \in Req, CopyPart(r)
  PROVE  ExactInv'
<1> DEFINE i == file[r].id
<1>0. /\ SerialInv /\ Inv /\ InFlight(r) /\ pc[r] = "copyPart" /\ Method[r] = "POST" /\ Joining(r)
      /\ info' = info
  BY DEF ExactInv, SerialInv, CopyPart, Inv, TypeInv, LocalsOK, Joining
<1>1. CASE data[Part(r)] # None
  <2>1. Effect(r)
    BY <1>0, CopyPartEffect
  <2>2. /\ pc'[r] \in {"copyPart", "dropFile", "save"}
        /\ \A q \in Req \ {r} : pc'[q] = pc[q]
    BY <1>0, <1>1, CallMade DEF CopyPart
  <2>3. \A q \in Req \ {r} : Same(q)
    BY <1>1, <2>2 DEF CopyPart, Same, Advance, ExactInv, SerialInv, Inv, TypeInv, TypeOK
  <2>4. /\ i \in Id /\ data[i] # None /\ ~Readable(i) /\ data[i] \in Seq(Nat)
        /\ Part(r) \in Id /\ data[Part(r)] \in Seq(Nat)
    BY <1>0, <1>1, AlonePost, PartKnown DEF Inv, TypeInv, TypeOK
  <2>5. data' = [data EXCEPT ![i] = Appended(data[i], data[Part(r)])]
    BY <1>1, <2>4 DEF CopyPart, Opened
  <2>6. data'[i] # None /\ \A j \in Id \ {i} : data'[j] = data[j]
    BY <1>0, <2>4, <2>5, AppendGrows DEF Inv, TypeInv, TypeOK
  <2>7. file'[r].id = i /\ file'[r].final
    <3>1. file[r].final /\ file[r] \in FileInfo /\ file'[r] = Joined(r)
      BY <1>0, <1>1, AtWork DEF ExactInv, Sound, CopyPart, Inv, TypeInv, TypeOK
    <3>2. Joined(r).id = file[r].id
      BY <1>0, JoinedType DEF Inv
    <3> QED BY <3>1, <3>2 DEF Joined, FileInfo
  <2>8. Sound(r)'
    BY <1>0, <2>2, <2>6, <2>7 DEF Sound
  <2>9. ASSUME NEW j \in Id, j = i PROVE Exact(j)'
    BY <2>9, <1>0, <2>4 DEF Exact
  <2> QED BY <1>0, <2>1, <2>3, <2>6, <2>8, <2>9, ExactStep
<1>2. CASE data[Part(r)] = None
  BY <1>0, <1>2, RefusedExact DEF CopyPart, stores
<1> QED BY <1>1, <1>2

LEMMA DropFileExact ==
  ASSUME ExactInv, SerialInv', NEW r \in Req, DropFile(r)
  PROVE  ExactInv'
<1> DEFINE i == Part(r)
<1>0. /\ SerialInv /\ Inv /\ pc[r] = "dropFile" /\ Method[r] = "POST" /\ info' = info
      /\ i \in Id /\ file[r].final
  BY PartWanted DEF ExactInv, SerialInv, DropFile, Inv, TypeInv, LocalsOK, Joining, Sound
<1>1. CASE data[i] # None
  <2>1. /\ Effect(r) /\ pc'[r] = "dropInfo"
        /\ \A q \in Req \ {r} : pc'[q] = pc[q]
    BY <1>0, <1>1, CallMade, DropFileEffect DEF DropFile
  <2>2. \A q \in Req \ {r} : Same(q)
    BY <1>1, <2>1 DEF DropFile, Same
  <2>3. data'[i] = None /\ \A j \in Id \ {i} : data'[j] = data[j]
    BY <1>0, <1>1 DEF DropFile, Inv, TypeInv, TypeOK
  <2>4. Part(r)' = i /\ file'[r] = file[r]
    BY DEF DropFile, Part
  <2>5. Sound(r)'
    BY <1>0, <2>1, <2>3, <2>4 DEF Sound
  <2>6. ASSUME NEW j \in Id, j = i PROVE Exact(j)'
    BY <2>6, <2>1, <2>4 DEF Exact
  <2> QED BY <1>0, <2>1, <2>2, <2>3, <2>5, <2>6, ExactStep
<1>2. CASE data[i] = None
  BY <1>0, <1>2, RefusedExact DEF DropFile, stores
<1> QED BY <1>1, <1>2

LEMMA DropInfoExact ==
  ASSUME ExactInv, SerialInv', NEW r \in Req, DropInfo(r)
  PROVE  ExactInv'
<1> DEFINE i == Part(r)
<1>0. /\ SerialInv /\ Inv /\ InFlight(r) /\ pc[r] = "dropInfo" /\ Method[r] = "POST" /\ data' = data
      /\ i \in Id /\ file[r].final
  BY PartWanted DEF ExactInv, SerialInv, DropInfo, Inv, TypeInv, LocalsOK, Joining, Sound
<1>1. CASE info[i] # None
  <2>1. /\ Effect(r) /\ pc'[r] \in {"save", "dropFile"}
        /\ \A q \in Req \ {r} : pc'[q] = pc[q]
    BY <1>0, <1>1, CallMade, DropInfoEffect DEF DropInfo
  <2>2. \A q \in Req \ {r} : Same(q)
    BY <1>1, <2>1 DEF DropInfo, Same, Advance, ExactInv, SerialInv, Inv, TypeInv, TypeOK
  <2>3. info'[i] = None /\ \A j \in Id \ {i} : info'[j] = info[j]
    BY <1>0, <1>1 DEF DropInfo, Inv, TypeInv, TypeOK
  <2>4. file'[r] = file[r] /\ data[file[r].id] # None
    BY <1>0, AlonePost DEF DropInfo
  <2>5. Sound(r)'
    BY <1>0, <2>1, <2>4 DEF Sound
  <2>6. ASSUME NEW j \in Id, j = i PROVE Exact(j)'
    BY <2>6, <2>3 DEF Exact
  <2> QED BY <1>0, <2>1, <2>2, <2>3, <2>5, <2>6, ExactStep
<1>2. CASE info[i] = None
  BY <1>0, <1>2, RefusedExact DEF DropInfo, stores
<1> QED BY <1>1, <1>2

LEMMA AddBytesExact ==
  ASSUME ExactInv, SerialInv', NEW r \in Req, AddBytes(r)
  PROVE  ExactInv'
<1> DEFINE i == file[r].id
           o == file[r].offset
           n == Len(body[r])
<1>0. /\ SerialInv /\ Inv /\ InFlight(r) /\ pc[r] = "write" /\ Method[r] \in {"POST", "PATCH"}
      /\ info' = info /\ Effect(r)
  BY AddBytesEffect DEF ExactInv, SerialInv, AddBytes, Inv, TypeInv, LocalsOK
<1>1. /\ body[r] = Bytes(o, n) /\ data[i] = Bytes(0, o) /\ i \in Id /\ o \in Nat /\ n \in Nat
      /\ file[r] \in FileInfo
  <2>1. body[r] = Bytes(o, n) /\ data[i] = Bytes(0, o)
    BY <1>0 DEF ExactInv, Sound
  <2>2. i \in Id /\ o \in Nat /\ file[r] \in FileInfo
    BY <1>0, AtWork DEF Inv
  <2>3. n \in Nat
    <3>1. body[r] \in Seq(Nat)
      BY <1>0 DEF Inv, TypeInv, TypeOK
    <3> QED BY <3>1
  <2> QED BY <2>1, <2>2, <2>3
<1>2. data[i] # None
  BY <1>1, BytesNone
<1>3. pc'[r] = "save" /\ \A q \in Req \ {r} : pc'[q] = pc[q]
  BY <1>0, <1>2, CallMade DEF AddBytes
<1>4. \A q \in Req \ {r} : Same(q)
  BY <1>0, <1>2, <1>3 DEF AddBytes, Same, Inv, TypeInv, TypeOK
<1>5. data'[i] = Bytes(0, o + n) /\ \A j \in Id \ {i} : data'[j] = data[j]
  <2>1. /\ data'[i] = Appended(data[i], body[r])
        /\ \A j \in Id \ {i} : data'[j] = data[j]
    BY <1>0, <1>1, <1>2 DEF AddBytes, Inv, TypeInv, TypeOK
  <2> QED BY <1>1, <2>1, BytesAppend
<1>6. file'[r].id = i /\ file'[r].offset = o + n
  BY <1>0, <1>1, <1>2 DEF AddBytes, Inv, TypeInv, TypeOK, FileInfo
<1>7. data'[i] # None
  <2>1. o + n \in Nat
    BY <1>1
  <2> QED BY <1>5, <2>1, BytesNone
<1>8. Sound(r)'
  BY <1>0, <1>3, <1>5, <1>6, <1>7 DEF Sound, Reading, Joining
<1>9. ASSUME NEW j \in Id, j = i PROVE Exact(j)'
  BY <1>3, <1>6, <1>7, <1>9 DEF Exact
<1> QED BY <1>0, <1>4, <1>5, <1>8, <1>9, ExactStep

(* set_info has returned Ok. *)
LEMMA SavesExact ==
  ASSUME ExactInv, SerialInv', NEW r \in Req, Effect(r), pc[r] \in {"save", "saving"}, Saved(r),
         info' = [info EXCEPT ![file[r].id] = file[r]],
         UNCHANGED <<data, used, file, body, partsInfo, cursor, gone, delivered>>
  PROVE  ExactInv'
<1> DEFINE i == file[r].id
<1>0. SerialInv /\ Inv /\ i \in Id /\ Method[r] \in {"POST", "PATCH"}
  BY SaversSave DEF ExactInv, SerialInv, Saving
<1>1. /\ pc'[r] = "done"
      /\ \A q \in Req \ {r} : pc'[q] = pc[q] /\ resp'[q] = resp[q]
  BY <1>0, AnswerGiven DEF Saved
<1>2. \A q \in Req \ {r} : Same(q)
  BY <1>1 DEF Same
<1>3. info'[i] = file[r] /\ \A j \in Id \ {i} : info'[j] = info[j]
  BY <1>0 DEF Inv, TypeInv, TypeOK
<1>4. Sound(r)'
  BY <1>0, <1>1, EndedSound
<1>5. data[i] # None /\ (~file[r].final => data[i] = Bytes(0, file[r].offset))
  BY DEF ExactInv, Sound
<1>6. ASSUME NEW j \in Id, j = i PROVE Exact(j)'
  BY <1>3, <1>5, <1>6 DEF Exact
<1>7. ASSUME NEW j \in Id, j # i
      PROVE  /\ info'[j] = info[j] /\ data'[j] = data[j]
             /\ ~(pc[r] = "dropInfo" /\ Part(r) = j)
  BY <1>3, <1>7
<1> QED BY <1>2, <1>4, <1>6, <1>7, ExactStep

LEMMA SaveInfoExact ==
  ASSUME ExactInv, SerialInv', NEW r \in Req, SaveInfo(r)
  PROVE  ExactInv'
BY SavesExact, SaveInfoEffect DEF SaveInfo, ExactInv

LEMMA OpenInfoExact ==
  ASSUME ExactInv, SerialInv', NEW r \in Req, OpenInfo(r)
  PROVE  ExactInv'
<1> DEFINE i == file[r].id
<1>0. /\ SerialInv /\ Inv /\ pc[r] = "save" /\ Works(r) /\ i \in Id /\ file[r] \in FileInfo
      /\ Method[r] \in {"POST", "PATCH"} /\ data' = data /\ file' = file /\ Effect(r)
  BY SaversSave, OpenInfoEffect DEF OpenInfo, ExactInv, SerialInv, Saving
<1>1. Openable(r)
  BY <1>0 DEF Openable, SerialInv, Current, Visible
<1>2. pc'[r] = "saving" /\ \A q \in Req \ {r} : pc'[q] = pc[q]
  BY <1>0, <1>1 DEF OpenInfo, Inv, TypeInv, TypeOK
<1>3. info'[i] = Empty /\ \A j \in Id \ {i} : info'[j] = info[j]
  BY <1>0, <1>1 DEF OpenInfo, Inv, TypeInv, TypeOK
<1>4. \A q \in Req \ {r} : Same(q)
  BY <1>1, <1>2 DEF Same, OpenInfo
<1>5. Sound(r)'
  BY <1>0, <1>2 DEF ExactInv, Sound, Reading, Joining
<1>6. ASSUME NEW j \in Id, j = i PROVE Exact(j)'
  BY <1>3, <1>6 DEF Exact, Torn
<1>7. ASSUME NEW j \in Id, j # i
      PROVE  /\ info'[j] = info[j] /\ data'[j] = data[j]
             /\ ~(pc[r] = "dropInfo" /\ Part(r) = j)
  BY <1>0, <1>3, <1>7
<1> QED BY <1>0, <1>4, <1>5, <1>6, <1>7, ExactStep

LEMMA WriteInfoExact ==
  ASSUME ExactInv, SerialInv', NEW r \in Req, WriteInfo(r)
  PROVE  ExactInv'
<1> DEFINE i == file[r].id
<1>0. SerialInv /\ pc[r] = "saving" /\ Works(r) /\ Effect(r)
  BY SaversSave, WriteInfoEffect DEF WriteInfo, ExactInv, SerialInv
<1>1. info[i] = Empty
  BY <1>0 DEF SerialInv, Current
<1>2. Written(i, file[r]) = {file[r]}
  BY <1>1, TornAssumption DEF Written, Torn
<1> QED BY <1>0, <1>2, SavesExact DEF WriteInfo

LEMMA RemoveInfoExact ==
  ASSUME ExactInv, SerialInv', NEW r \in Req, RemoveInfo(r)
  PROVE  ExactInv'
<1> DEFINE i == file[r].id
<1>0. /\ SerialInv /\ Inv /\ pc[r] = "removeInfo" /\ Method[r] = "DELETE" /\ Works(r) /\ i \in Id
      /\ data' = data /\ file' = file /\ Effect(r) /\ info[i] = file[r] /\ file[r] \in FileInfo
      /\ i \notin Foreign
  <2>1. /\ SerialInv /\ Inv /\ pc[r] = "removeInfo" /\ Method[r] = "DELETE" /\ Works(r)
        /\ data' = data /\ file' = file /\ Effect(r)
    BY DeleteWanted, RemoveInfoEffect DEF RemoveInfo, ExactInv, SerialInv, Works, Modifying
  <2>2. i \in Id /\ file[r] \in FileInfo /\ file[r] # None
    BY <2>1, AtWork DEF Inv
  <2>3. info[i] = file[r] /\ i \notin Foreign
    BY <2>1, <2>2 DEF SerialInv, Current, Inv, IdsInv, UsedInv
  <2> QED BY <2>1, <2>2, <2>3
<1>1. info[i] # None /\ Readable(i)
  BY <1>0, FileFields
<1>2. pc'[r] = "removeFile" /\ \A q \in Req \ {r} : pc'[q] = pc[q]
  BY <1>0, <1>1, CallMade DEF RemoveInfo
<1>3. \A q \in Req \ {r} : Same(q)
  BY <1>1, <1>2 DEF RemoveInfo, Same
<1>4. info'[i] = None /\ \A j \in Id \ {i} : info'[j] = info[j]
  BY <1>0, <1>1 DEF RemoveInfo, Inv, TypeInv, TypeOK
<1>5. data[i] # None
  <2>1. ASSUME NEW q \in Req, pc[q] = "dropInfo", Part(q) = i PROVE FALSE
    <3>1. Works(q) /\ Method[q] = "POST" /\ i \in PartIds(file[q])
      BY <1>0, <2>1, PartNamed DEF Joining
    <3> QED BY <1>0, <3>1 DEF SerialInv, Alone
  <2> QED BY <1>0, <1>1, <2>1 DEF ExactInv, Exact
<1>6. Sound(r)'
  BY <1>0, <1>2, <1>4, <1>5 DEF Sound, Reading, Joining
<1>7. ASSUME NEW j \in Id, j = i PROVE Exact(j)'
  BY <1>4, <1>7 DEF Exact
<1> QED BY <1>0, <1>3, <1>4, <1>6, <1>7, ExactStep

LEMMA RemoveFileExact ==
  ASSUME ExactInv, SerialInv', NEW r \in Req, RemoveFile(r)
  PROVE  ExactInv'
<1> DEFINE i == file[r].id
<1>0. /\ SerialInv /\ Inv /\ pc[r] = "removeFile" /\ Method[r] = "DELETE" /\ i \in Id
      /\ info' = info /\ Effect(r) /\ info[i] = None /\ data[i] # None
  BY DeleteWanted, RemoveFileEffect DEF RemoveFile, ExactInv, SerialInv, Sound
<1>1. /\ pc'[r] = "done"
      /\ \A q \in Req \ {r} : pc'[q] = pc[q] /\ resp'[q] = resp[q]
  BY <1>0, AnswerGiven DEF RemoveFile
<1>2. \A q \in Req \ {r} : Same(q)
  BY <1>1 DEF RemoveFile, Same
<1>3. \A j \in Id \ {i} : data'[j] = data[j]
  BY <1>0 DEF RemoveFile, Inv, TypeInv, TypeOK
<1>4. Sound(r)'
  BY <1>0, <1>1, EndedSound
<1>5. ASSUME NEW j \in Id, j = i PROVE Exact(j)'
  BY <1>0, <1>5 DEF Exact
<1> QED BY <1>0, <1>2, <1>3, <1>4, <1>5, ExactStep

LEMMA GetContentsExact ==
  ASSUME ExactInv, SerialInv', NEW r \in Req, GetContents(r)
  PROVE  ExactInv'
<1> DEFINE i == file[r].id
<1>0. /\ SerialInv /\ Inv /\ pc[r] = "read" /\ Method[r] = "GET" /\ Sound(r) /\ file[r] # None
      /\ file' = file /\ Effect(r)
  BY GetContentsEffect DEF GetContents, ExactInv, SerialInv, Inv, TypeInv, LocalsOK
<1>1. \A j \in Id : info'[j] = info[j] /\ data'[j] = data[j]
  BY DEF GetContents, stores
<1>2. PICK a \in {"ok", "error"} : /\ Answer(r, a)
                                   /\ a = "ok" => /\ data[i] # None
                                                  /\ body' = [body EXCEPT ![r] = data[i]]
                                   /\ a = "error" => body' = body
  BY DEF GetContents
<1>3. /\ pc'[r] = "done" /\ resp'[r] = a
      /\ \A q \in Req \ {r} : pc'[q] = pc[q] /\ resp'[q] = resp[q]
  BY <1>0, <1>2, AnswerGiven
<1>4. \A q \in Req \ {r} : body'[q] = body[q]
  BY <1>0, <1>2 DEF Inv, TypeInv, TypeOK
<1>5. \A q \in Req \ {r} : Same(q)
  BY <1>3, <1>4 DEF GetContents, Same
<1>6. a = "ok" => body'[r] = data[i]
  BY <1>0, <1>2 DEF Inv, TypeInv, TypeOK
<1>7. Sound(r)'
  BY <1>0, <1>2, <1>3, <1>6 DEF Sound, Reading, Joining, Finished
<1> QED BY <1>0, <1>1, <1>5, <1>7, ExactStep

LEMMA ProceedExact ==
  ASSUME ExactInv, SerialInv', NEW r \in Req, Proceed(r)
  PROVE  ExactInv'
BY CreateExact, ReadPartExact, CopyPartExact, DropFileExact, DropInfoExact, AddBytesExact,
   SaveInfoExact, OpenInfoExact, WriteInfoExact, RemoveInfoExact, RemoveFileExact, GetContentsExact
DEF Proceed

LEMMA InterfereExact ==
  ASSUME NothingFails, ExactInv, SerialInv', NEW r \in Req, Interfere(r)
  PROVE  ExactInv'
<1>1. HookRefused(r)
  BY DEF Interfere, NothingFails, Disconnect, Fault, RedisAnswerLost
<1> QED BY <1>1, RefusedExact DEF HookRefused

LEMMA BackgroundExact ==
  ASSUME ExactInv, SerialInv', UNCHANGED <<stores, used, handlers>>
  PROVE  ExactInv'
<1> USE DEF stores, handlers
<1>1. ASSUME NEW r \in Req PROVE Sound(r)'
  BY DEF ExactInv, Sound, Reading, Joining, Finished, Part, Frozen, Saving
<1>2. ASSUME NEW i \in Id PROVE Exact(i)'
  BY DEF ExactInv, Exact, Part
<1> QED BY <1>1, <1>2 DEF ExactInv

(* ExactInv is inductive. *)
LEMMA NextExactInv == NothingFails /\ ExactInv /\ [Next]_vars => ExactInv'
<1> SUFFICES ASSUME NothingFails, ExactInv, [Next]_vars PROVE ExactInv'
  OBVIOUS
<1>1. SerialInv'
  BY NextSerialInv, CalmClientsWait DEF ExactInv
<1>2. ASSUME NEW h \in hooks, Send(h) \/ SendFails(h) PROVE ExactInv'
  BY <1>1, <1>2, BackgroundExact DEF Send, SendFails
<1>3. CASE UNCHANGED vars
  BY <1>1, <1>3, BackgroundExact DEF vars, stores, handlers
<1>4. ~Crash
  BY DEF Crash, NothingFails
<1> QED BY <1>1, <1>2, <1>3, <1>4, ArriveExact, ProceedExact, InterfereExact DEF Next, Quiet

(* The empty server satisfies the invariant. *)
LEMMA InitExactInv == Init => ExactInv
<1> SUFFICES ASSUME Init PROVE ExactInv
  OBVIOUS
<1>1. ASSUME NEW r \in Req PROVE Sound(r)
  BY DEF Init, Sound, Reading, Joining
<1>2. ASSUME NEW i \in Id PROVE Exact(i)
  BY DEF Init, Exact
<1> QED BY <1>1, <1>2, InitSerialInv DEF ExactInv
-----------------------------------------------------------------------------
(* While nobody is modifying an upload, or removing it as a part of another, *)
(* its data file holds exactly the bytes 1..offset, in order, each once: for *)
(* every configuration and any number of clients that wait.                  *)
THEOREM StorageIsExact ==
  ASSUME NothingFails
  PROVE  Spec => []StoredExactly
<1>1. ExactInv /\ [Next]_vars => ExactInv'
  BY NextExactInv
<1>2. ExactInv => StoredExactly
  <2> SUFFICES ASSUME ExactInv, NEW i \in Id, Visible(i), ~info[i].final,
                      \A r \in Req : InFlight(r) /\ Modifying(r) =>
                        file[r].id # i /\ ~(RemoveParts /\ i \in PartIds(file[r]))
               PROVE  data[i] = Bytes(0, info[i].offset)
    BY DEF StoredExactly
  <2>0. Inv
    BY DEF ExactInv, SerialInv
  <2>1. ASSUME NEW r \in Req, pc[r] = "dropInfo", Part(r) = i PROVE FALSE
    <3>1. Works(r) /\ i \in PartIds(file[r]) /\ RemoveParts
      BY <2>0, <2>1, PartNamed DEF Joining, Inv, TypeInv, LocalsOK
    <3> QED BY <3>1 DEF Works
  <2>2. ASSUME NEW r \in Req, pc[r] = "save", file[r].id = i PROVE FALSE
    BY <2>0, <2>2, SaversSave DEF Works
  <2> QED BY <2>1, <2>2, OwnVisible DEF ExactInv, Exact, Visible
<1> QED BY <1>1, <1>2, InitExactInv, PTL DEF Spec

(* A download of a complete upload returns exactly its bytes: nothing is     *)
(* appended between the two steps of get_file, which finds the whole file or *)
(* none.                                                                     *)
THEOREM DownloadIsExact ==
  ASSUME NothingFails
  PROVE  Spec => []DownloadIsUpload
<1>1. ExactInv /\ [Next]_vars => ExactInv'
  BY NextExactInv
<1>2. ExactInv => DownloadIsUpload
  BY DEF ExactInv, Sound, DownloadIsUpload, Finished
<1> QED BY <1>1, <1>2, InitExactInv, PTL DEF Spec
-----------------------------------------------------------------------------
(* Final uploads and their parts, for clients that name a part once. *)
OnceEach == \A list \in PartLists : \A j, k \in DOMAIN list : list[j] = list[k] => j = k

(* q has removed the upload i, or nothing keeps it from doing so any more. *)
Commits(q, i) ==
  /\ file[q] # None /\ resp[q] # "error"
  /\ \/ Method[q] = "DELETE" /\ file[q].id = i /\ pc[q] \in {"removeFile", "done"}
     \/ /\ Method[q] = "POST" /\ RemoveParts /\ i \in PartIds(file[q])
        /\ pc[q] \in {"dropFile", "dropInfo", "save", "saving", "done"}

(* The part p, the k-th that r has read, is as r read it, until it is removed: *)
(* by r itself, at its turn, or by another request that will not fail.         *)
Whole(p) == info[p.id] = p /\ (p.storage = Own => data[p.id] # None)
PartKept(r, k, p) ==
  /\ Frozen(p.id)
  /\ Whole(p) \/ \E q \in Req : Commits(q, p.id)
  /\ pc[r] \in {"readPart", "copyPart"} => Whole(p)
  /\ (\/ pc[r] = "copyPart" /\ k < cursor[r]
      \/ pc[r] = "dropFile" /\ k >= cursor[r]
      \/ pc[r] = "dropInfo" /\ k > cursor[r]) => info[p.id] = p /\ data[p.id] # None
  /\ pc[r] = "dropInfo" /\ k = cursor[r] => info[p.id] = p
Unharmed(r) ==
  Method[r] = "POST" =>
    /\ InFlight(r) => \A j, k \in DOMAIN file[r].parts : file[r].parts[j] = file[r].parts[k] => j = k
    /\ \A k \in 1..Len(partsInfo[r]) : PartKept(r, k, partsInfo[r][k])
PartsInv == ExactInv /\ \A r \in Req : Unharmed(r)

(* A step that removes a finished upload is one of a handler that will not fail. *)
Faithful(r) ==
  \A i \in Id :
    /\ Commits(r, i) => Commits(r, i)'
    /\ Frozen(i) /\ (info'[i] # info[i] \/ data'[i] # data[i]) => Commits(r, i)'

(* What remains true of a part that another handler, or none, has touched. *)
LEMMA PartStays ==
  ASSUME PartsInv, NEW r \in Req, Effect(r), Faithful(r), \A x \in Req \ {r} : Same(x),
         NEW q \in Req, Method[q] = "POST", NEW k \in 1..Len(partsInfo[q]),
         NEW p, p = partsInfo[q][k]
  PROVE  /\ p.id \in Id /\ Frozen(p.id) /\ Frozen(p.id)'
         /\ Whole(p)' \/ \E x \in Req : Commits(x, p.id)'
<1>1. p.id \in Id
  BY PartsHold DEF PartsInv, ExactInv, SerialInv, Inv
<1>2. Frozen(p.id) /\ (Whole(p) \/ \E x \in Req : Commits(x, p.id))
  BY DEF PartsInv, Unharmed, PartKept
<1>3. PICK i \in Id : i = p.id
  BY <1>1
<1>4. Frozen(i)'
  BY <1>2, <1>3, FrozenKept DEF PartsInv, ExactInv
<1>5. ASSUME Whole(p) PROVE Whole(p)' \/ \E x \in Req : Commits(x, p.id)'
  <2>1. CASE info'[i] = info[i] /\ data'[i] = data[i]
    BY <1>3, <1>5, <2>1 DEF Whole
  <2>2. CASE info'[i] # info[i] \/ data'[i] # data[i]
    <3>1. Frozen(i)
      BY <1>2, <1>3
    <3>2. Commits(r, i)'
      BY <2>2, <3>1 DEF Faithful
    <3> QED BY <1>3, <3>2
  <2> QED BY <2>1, <2>2
<1>6. ASSUME NEW x \in Req, Commits(x, p.id) PROVE Commits(x, p.id)'
  <2>1. CASE x = r
    BY <1>3, <1>6, <2>1 DEF Faithful
  <2>2. CASE x # r
    BY <1>6, <2>2 DEF Commits, Same
  <2> QED BY <2>1, <2>2
<1> QED BY <1>1, <1>2, <1>3, <1>4, <1>5, <1>6

(* The parts of a final upload are kept when another handler moved. *)
LEMMA UnharmedKept ==
  ASSUME PartsInv, NEW r \in Req, Effect(r), Faithful(r), \A x \in Req \ {r} : Same(x),
         NEW q \in Req, q # r
  PROVE  Unharmed(q)'
<1> SUFFICES ASSUME Method[q] = "POST" PROVE Unharmed(q)'
  BY DEF Unharmed
<1>0. Same(q) /\ Unharmed(q) /\ SerialInv
  BY DEF PartsInv, ExactInv
<1>1. ASSUME NEW k \in 1..Len(partsInfo[q]), NEW p, p = partsInfo[q][k] PROVE PartKept(q, k, p)'
  <2>1. /\ Frozen(p.id)'
        /\ Whole(p)' \/ \E x \in Req : Commits(x, p.id)'
    BY <1>1, PartStays
  <2>2. Reading(q) \/ Joining(q) => info'[p.id] = info[p.id] /\ data'[p.id] = data[p.id]
    BY <1>0, <1>1, PartLeftAlone
  <2>3. PartKept(q, k, p)
    BY <1>0, <1>1 DEF Unharmed
  <2> QED BY <1>0, <2>1, <2>2, <2>3 DEF PartKept, Same, Whole, Reading, Joining
<1>2. \A k \in 1..Len(partsInfo'[q]) : PartKept(q, k, partsInfo[q][k])'
  BY <1>0, <1>1 DEF Same
<1> QED BY <1>0, <1>2 DEF Unharmed, Same

(* The step of one handler: what it leaves right is all there is to show. *)
LEMMA PartsStep ==
  ASSUME PartsInv, ExactInv', NEW r \in Req, Effect(r), \A q \in Req \ {r} : Same(q),
         Faithful(r), Unharmed(r)'
  PROVE  PartsInv'
BY UnharmedKept DEF PartsInv

(* A final upload that is past its parts, or has no more to do with them. *)
LEMMA UnharmedPast ==
  ASSUME PartsInv, NEW r \in Req, Effect(r), Faithful(r), \A x \in Req \ {r} : Same(x),
         pc'[r] \in {"write", "save", "saving", "done"},
         InFlight(r), file'[r].parts = file[r].parts, partsInfo'[r] = partsInfo[r]
  PROVE  Unharmed(r)'
<1> SUFFICES ASSUME Method[r] = "POST" PROVE Unharmed(r)'
  BY DEF Unharmed
<1>1. \A k \in 1..Len(partsInfo[r]) : \A p : p = partsInfo[r][k] => PartKept(r, k, p)'
  BY PartStays DEF PartKept
<1> QED BY <1>1 DEF PartsInv, Unharmed

(* A handler that saves its upload removes none. *)
LEMMA SavingFaithful ==
  ASSUME NEW r \in Req, Saving(r, file[r].id),
         \A i \in Id : i = file[r].id \/ (info'[i] = info[i] /\ data'[i] = data[i]),
         \A i \in Id : Commits(r, i) => Commits(r, i)'
  PROVE  Faithful(r)
BY DEF Faithful, Frozen

(* Nor does one that changes nothing. *)
LEMMA IdleFaithful ==
  ASSUME NEW r \in Req, UNCHANGED stores, \A i \in Id : ~Commits(r, i)
  PROVE  Faithful(r)
BY DEF Faithful, stores

(* A handler that stops at an error, not yet committed to remove anything. *)
LEMMA RefusedParts ==
  ASSUME PartsInv, ExactInv', NEW r \in Req, InFlight(r), Answer(r, "error"),
         pc[r] \notin {"removeFile", "dropFile", "dropInfo", "save", "saving"},
         UNCHANGED <<stores, used, file, partsInfo, cursor, gone, telemetry>>,
         body' = body
  PROVE  PartsInv'
<1>0. SerialInv
  BY DEF PartsInv, ExactInv
<1>1. /\ pc'[r] = "done"
      /\ \A q \in Req \ {r} : pc'[q] = pc[q] /\ resp'[q] = resp[q]
  BY <1>0, AnswerGiven
<1>2. Effect(r)
  BY <1>0, RefusedEffect
<1>3. \A q \in Req \ {r} : Same(q)
  BY <1>1 DEF Same
<1>4. Faithful(r)
  BY IdleFaithful DEF Commits
<1>5. Unharmed(r)'
  BY <1>1, <1>2, <1>3, <1>4, UnharmedPast
<1> QED BY <1>2, <1>3, <1>4, <1>5, PartsStep

(* A request that enters knows no parts yet. *)
LEMMA StartParts ==
  ASSUME PartsInv, ExactInv', NEW r \in Req, pc[r] = "idle", Effect(r), UNCHANGED stores,
         \A q \in Req \ {r} : Same(q), partsInfo' = partsInfo,
         Method[r] = "POST" /\ pc'[r] # "done" =>
           \A j, k \in DOMAIN file'[r].parts : file'[r].parts[j] = file'[r].parts[k] => j = k
  PROVE  PartsInv'
<1>1. partsInfo'[r] = <<>>
  BY DEF PartsInv, ExactInv, SerialInv, Inv, TypeInv, LocalsOK
<1>2. Unharmed(r)'
  <2>1. 1..Len(partsInfo'[r]) = {}
    BY <1>1
  <2> QED BY <2>1 DEF Unharmed
<1>3. Faithful(r)
  BY IdleFaithful DEF Commits
<1> QED BY <1>2, <1>3, PartsStep

LEMMA ArriveParts ==
  ASSUME OnceEach, PartsInv, ExactInv', NEW r \in Req, Arrive(r)
  PROVE  PartsInv'
<1>0. TypeOK /\ SerialInv /\ Inv /\ Effect(r)
  BY ArriveEffect DEF PartsInv, ExactInv, SerialInv, Inv, TypeInv
<1>1. ASSUME pc[r] = "idle", NEW a, Answer(r, a),
             UNCHANGED <<stores, used, body, partsInfo, cursor, gone, telemetry>>,
             \A q \in Req \ {r} : file'[q] = file[q]
      PROVE  PartsInv'
  <2>1. /\ pc'[r] = "done"
        /\ \A q \in Req \ {r} : pc'[q] = pc[q] /\ resp'[q] = resp[q]
    BY <1>0, <1>1, AnswerGiven
  <2> QED BY <1>0, <1>1, <2>1, StartParts DEF Same
<1>2. ASSUME NEW m \in PostMsg, NEW i \in Id, PostAccepted(r, i, m) PROVE PartsInv'
  <2>1. \A q \in Req \ {r} : Same(q)
    BY <1>0, <1>2 DEF PostAccepted, Same, TypeOK
  <2>2. file'[r] = NewFileInfo(i, m) /\ NewFileInfo(i, m).parts \in {m.parts, <<>>}
    BY <1>0, <1>2 DEF PostAccepted, TypeOK, NewFileInfo
  <2>3. m.parts \in PartLists \cup {<<>>}
    BY DEF PostMsg
  <2>4. \A j, k \in DOMAIN file'[r].parts : file'[r].parts[j] = file'[r].parts[k] => j = k
    <3>1. DOMAIN <<>> = {}
      OBVIOUS
    <3> QED BY <2>2, <2>3, <3>1 DEF OnceEach
  <2> QED BY <1>0, <1>2, <2>1, <2>4, StartParts DEF PostAccepted, Begins
<1>3. ASSUME NEW i \in Id, NEW m \in PatchMsg, PatchAccepted(r, i, m) PROVE PartsInv'
  <2>1. \A q \in Req \ {r} : Same(q)
    BY <1>0, <1>3 DEF PatchAccepted, Same, TypeOK
  <2> QED BY <1>0, <1>3, <2>1, StartParts DEF PatchAccepted, Begins
<1>4. ASSUME NEW i \in Id, DeleteAccepted(r, i) PROVE PartsInv'
  <2>1. \A q \in Req \ {r} : Same(q)
    BY <1>0, <1>4 DEF DeleteAccepted, Same, TypeOK
  <2> QED BY <1>0, <1>4, <2>1, StartParts DEF DeleteAccepted, Begins
<1>5. ASSUME NEW i \in Id, GetAccepted(r, i) PROVE PartsInv'
  <2>1. \A q \in Req \ {r} : Same(q)
    BY <1>0, <1>5 DEF GetAccepted, Same, TypeOK
  <2> QED BY <1>0, <1>5, <2>1, StartParts DEF GetAccepted, Begins
<1>6. ASSUME NEW i \in Id, HeadAnswered(r, i) PROVE PartsInv'
  <2>1. \A q \in Req \ {r} : file'[q] = file[q]
    BY <1>0, <1>6 DEF HeadAnswered, TypeOK
  <2> QED BY <1>1, <1>6, <2>1 DEF HeadAnswered, Begins
<1> QED BY <1>1, <1>2, <1>3, <1>4, <1>5, <1>6
        DEF Arrive, PostRefused, PatchRefused, DeleteRefused, ReadRefused, Begins

LEMMA CreateParts ==
  ASSUME PartsInv, ExactInv', NEW r \in Req, CreateFile(r)
  PROVE  PartsInv'
<1> DEFINE i == file[r].id
           next == IF file[r].final THEN "readPart" ELSE IF body[r] # <<>> THEN "write" ELSE "save"
<1>0. /\ SerialInv /\ Inv /\ InFlight(r) /\ pc[r] = "create" /\ Method[r] = "POST"
      /\ partsInfo[r] = <<>> /\ Effect(r) /\ GoTo(r, next)
  BY CreateEffect DEF PartsInv, ExactInv, SerialInv, CreateFile, Inv, TypeInv, LocalsOK
<1>1. pc'[r] = next /\ \A q \in Req \ {r} : pc'[q] = pc[q]
  BY <1>0, CallMade
<1>2. \A q \in Req \ {r} : Same(q)
  BY <1>1 DEF Same, CreateFile
<1>3. Faithful(r)
  <2>1. \A j \in Id : j = i \/ (info'[j] = info[j] /\ data'[j] = data[j])
    BY <1>0 DEF CreateFile, Inv, TypeInv, TypeOK
  <2>2. Saving(r, file[r].id) /\ \A j \in Id : ~Commits(r, j)
    BY <1>0 DEF Saving, Commits
  <2> QED BY <2>1, <2>2, SavingFaithful
<1>4. Unharmed(r)'
  <2>1. 1..Len(partsInfo'[r]) = {} /\ file' = file
    BY <1>0 DEF CreateFile
  <2> QED BY <1>0, <2>1 DEF PartsInv, Unharmed
<1> QED BY <1>0, <1>2, <1>3, <1>4, PartsStep

(* A part is complete, and kept, when it is read. *)
LEMMA PartFound ==
  ASSUME ExactInv, NEW r \in Req, pc[r] = "readPart", PartAcceptable(info[Part(r)])
  PROVE  LET p == info[Part(r)]
         IN p.id = Part(r) /\ Part(r) \in Id /\ Frozen(Part(r)) /\ Whole(p)
<1> DEFINE i == Part(r)
           p == info[Part(r)]
<1>0. SerialInv /\ Inv /\ Works(r) /\ Method[r] = "POST"
  BY DEF ExactInv, SerialInv, Inv, TypeInv, LocalsOK, Reading, Works, Modifying
<1>1. i \in Id /\ i \in PartIds(file[r])
  <2>1. cursor[r] \in 1..Len(file[r].parts) /\ file[r].parts \in Seq(Id)
    BY <1>0, AtWork DEF Inv, TypeInv, TypeOK, LocalsOK, Reading, Works
  <2> QED BY <2>1 DEF Part, PartIds
<1>2. Readable(i) /\ p.id = i /\ i \in used /\ Finished(p)
  BY <1>0, <1>1 DEF PartAcceptable, Finished, Inv, IdsInv, UsedInv
<1>3. ASSUME NEW q \in Req, Saving(q, i) PROVE FALSE
  <2>1. Works(q) /\ i \notin Foreign
    BY <1>0, <1>3 DEF Saving, Works, Modifying, Inv, TypeInv, LocalsOK, IdsInv, UsedInv
  <2>2. q # r
    BY <1>0, <1>2, <1>3, AlonePost DEF Works, Saving
  <2>3. Method[q] = "POST"
    BY <1>0, <1>1, <1>3, <2>1, <2>2 DEF SerialInv, Alone, Saving
  <2> QED BY <1>0, <1>2, <1>3, <2>3, AlonePost DEF Saving
<1>4. Frozen(i)
  BY <1>2, <1>3 DEF Frozen
<1>5. p.storage = Own => data[i] # None
  <2> SUFFICES ASSUME p.storage = Own PROVE data[i] # None
    OBVIOUS
  <2>1. Visible(i)
    BY <1>2 DEF Visible
  <2>2. ASSUME NEW q \in Req, pc[q] = "dropInfo", Part(q) = i PROVE FALSE
    <3>1. Works(q) /\ Method[q] = "POST" /\ i \in PartIds(file[q])
      BY <1>0, <2>2, PartNamed DEF Joining
    <3>2. q # r
      BY <2>2
    <3> QED BY <1>0, <1>1, <3>1, <3>2 DEF SerialInv, Alone
  <2> QED BY <1>1, <2>1, <2>2, OwnVisible DEF ExactInv, Exact, Visible
<1> QED BY <1>1, <1>2, <1>4, <1>5 DEF Whole

LEMMA ReadPartParts ==
  ASSUME PartsInv, ExactInv', NEW r \in Req, ReadPart(r)
  PROVE  PartsInv'
<1>0. SerialInv /\ Inv /\ pc[r] = "readPart" /\ Method[r] = "POST" /\ UNCHANGED stores
  BY DEF PartsInv, ExactInv, SerialInv, Inv, TypeInv, LocalsOK, ReadPart, Reading
<1>1. CASE PartAcceptable(info[Part(r)])
  <2> DEFINE next == IF LastPart(r) THEN "copyPart" ELSE "readPart"
             Parts == {f \in FileInfo : f.length # None}
  <2>1. Effect(r) /\ pc'[r] = next /\ \A q \in Req \ {r} : pc'[q] = pc[q]
    BY <1>0, <1>1, CallMade, ReadPartEffect DEF ReadPart
  <2>2. \A q \in Req \ {r} : Same(q)
    BY <1>0, <1>1, <2>1 DEF ReadPart, Same, Advance, Inv, TypeInv, TypeOK
  <2>3. Faithful(r)
    BY <1>0, IdleFaithful DEF Commits
  <2>4. /\ partsInfo'[r] = Append(partsInfo[r], info[Part(r)])
        /\ cursor'[r] = IF LastPart(r) THEN 1 ELSE cursor[r] + 1
        /\ Len(partsInfo[r]) = cursor[r] - 1 /\ cursor[r] \in Nat \ {0} /\ file' = file
        /\ partsInfo[r] \in Seq(Parts)
    BY <1>0, <1>1 DEF ReadPart, Advance, Inv, TypeInv, TypeOK, LocalsOK, Reading
  <2>5. PICK f, i, c : f = info[Part(r)] /\ i = Part(r) /\ c = cursor[r]
    OBVIOUS
  <2>6. f \in Parts
    <3>1. Part(r) \in Id /\ info[Part(r)] \in FileInfo /\ info[Part(r)].length # None
      BY <1>0, <1>1, PartFound, FileFields, NoneAssumption
      DEF PartsInv, PartAcceptable, Inv, TypeInv, TypeOK
    <3> QED BY <2>5, <3>1
  <2>7. /\ Len(partsInfo'[r]) = c /\ partsInfo'[r][c] = f
        /\ \A k \in 1..Len(partsInfo[r]) : partsInfo'[r][k] = partsInfo[r][k]
    <3> HIDE DEF Parts
    <3> QED BY <2>4, <2>5, <2>6, AppendProperties
  <2>8. ASSUME NEW k \in 1..Len(partsInfo[r]), NEW p, p = partsInfo[r][k] PROVE PartKept(r, k, p)'
    <3>1. PartKept(r, k, p)
      BY <1>0, <2>8 DEF PartsInv, Unharmed
    <3>2. /\ Frozen(p.id)'
          /\ Whole(p)' \/ \E x \in Req : Commits(x, p.id)'
      BY <1>0, <2>1, <2>2, <2>3, <2>8, PartStays
    <3>3. Whole(p) /\ Whole(p)' /\ data'[p.id] = data[p.id] /\ info'[p.id] = info[p.id]
      BY <1>0, <3>1 DEF PartKept, Whole, stores
    <3>4. pc'[r] = "copyPart" => ~(k < cursor'[r])
      BY <2>1, <2>4
    <3> QED BY <2>1, <3>2, <3>3, <3>4 DEF PartKept
  <2>9. PartKept(r, c, f)'
    <3>1. f.id = i /\ i \in Id /\ Frozen(i) /\ Whole(f)
      BY <1>0, <1>1, <2>5, PartFound DEF PartsInv
    <3>2. Frozen(i)' /\ Whole(f)'
      BY <1>0, <2>1, <3>1, FrozenKept DEF Whole, stores
    <3>3. pc'[r] = "copyPart" => ~(c < cursor'[r])
      BY <2>1, <2>4, <2>5
    <3> QED BY <2>1, <3>1, <3>2, <3>3 DEF PartKept
  <2>10. Unharmed(r)'
    <3>1. ASSUME NEW k \in 1..Len(partsInfo'[r]) PROVE PartKept(r, k, partsInfo[r][k])'
      <4>1. k \in 1..Len(partsInfo[r]) \/ k = c
        BY <2>4, <2>5, <2>7
      <4>2. PICK p : p = partsInfo'[r][k]
        OBVIOUS
      <4>3. PartKept(r, k, p)'
        BY <2>7, <2>8, <2>9, <4>1, <4>2
      <4> QED BY <4>2, <4>3
    <3> QED BY <1>0, <2>4, <3>1 DEF PartsInv, Unharmed
  <2> QED BY <2>1, <2>2, <2>3, <2>10, PartsStep
<1>2. CASE ~PartAcceptable(info[Part(r)])
  BY <1>0, <1>2, RefusedParts DEF ReadPart
<1> QED BY <1>1, <1>2

LEMMA CopyPartParts ==
  ASSUME PartsInv, ExactInv', NEW r \in Req, CopyPart(r)
  PROVE  PartsInv'
<1> DEFINE i == file[r].id
<1>0. /\ SerialInv /\ Inv /\ InFlight(r) /\ pc[r] = "copyPart" /\ Method[r] = "POST" /\ Joining(r)
      /\ info' = info
  BY DEF PartsInv, ExactInv, SerialInv, CopyPart, Inv, TypeInv, LocalsOK, Joining
<1>1. CASE data[Part(r)] # None
  <2>1. Effect(r)
    BY <1>0, CopyPartEffect
  <2>2. /\ pc'[r] = IF ~LastPart(r) THEN "copyPart" ELSE IF RemoveParts THEN "dropFile" ELSE "save"
        /\ \A q \in Req \ {r} : pc'[q] = pc[q]
    BY <1>0, <1>1, CallMade DEF CopyPart
  <2>3. \A q \in Req \ {r} : Same(q)
    BY <1>0, <1>1, <2>2 DEF CopyPart, Same, Advance, Inv, TypeInv, TypeOK
  <2>4. /\ i \in Id /\ \A j \in Id \ {i} : data'[j] = data[j]
        /\ \A k \in 1..Len(partsInfo[r]) : partsInfo[r][k].id # i
    BY <1>0, <1>1, AlonePost DEF CopyPart, Inv, TypeInv, TypeOK
  <2>5. /\ file'[r].parts = file[r].parts /\ partsInfo' = partsInfo
        /\ cursor'[r] = IF LastPart(r) THEN 1 ELSE cursor[r] + 1
    BY <1>0, <1>1, JoinedType DEF CopyPart, Advance, Inv, TypeInv, TypeOK
  <2>6. /\ cursor[r] \in 1..Len(partsInfo[r]) /\ partsInfo[r][cursor[r]].id = Part(r)
        /\ LastPart(r) => cursor[r] = Len(partsInfo[r])
    BY <1>0, PartKnown, AtPart DEF LastPart, Inv
  <2>7. Faithful(r)
    <3>1. Saving(r, file[r].id) /\ \A j \in Id : ~Commits(r, j)
      BY <1>0 DEF Saving, Commits
    <3> QED BY <1>0, <2>4, <3>1, SavingFaithful
  <2>8. ASSUME NEW k \in 1..Len(partsInfo[r]), NEW p, p = partsInfo[r][k] PROVE PartKept(r, k, p)'
    <3>1. PartKept(r, k, p) /\ Whole(p)
      BY <1>0, <2>8 DEF PartsInv, Unharmed, PartKept
    <3>2. p.id \in Id /\ p.id # i /\ Frozen(p.id)'
      BY <1>0, <2>1, <2>3, <2>4, <2>7, <2>8, PartStays
    <3>3. Whole(p)' /\ info[p.id] = p /\ info'[p.id] = p /\ data'[p.id] = data[p.id]
      BY <1>0, <2>4, <3>1, <3>2 DEF Whole
    <3>4. k <= cursor[r] => data[p.id] # None
      BY <1>0, <1>1, <2>6, <2>8, <3>1 DEF PartKept
    <3>5. pc'[r] \in {"copyPart", "dropFile"} /\ (pc'[r] = "copyPart" => k < cursor'[r]) => k <= cursor[r]
      BY <2>2, <2>5, <2>6
    <3> QED BY <2>2, <3>2, <3>3, <3>4, <3>5 DEF PartKept
  <2>9. Unharmed(r)'
    <3>1. \A k \in 1..Len(partsInfo[r]) : \A p : p = partsInfo[r][k] => PartKept(r, k, p)'
      BY <2>8
    <3> QED BY <1>0, <2>5, <3>1 DEF PartsInv, Unharmed
  <2> QED BY <2>1, <2>3, <2>7, <2>9, PartsStep
<1>2. CASE data[Part(r)] = None
  BY <1>0, <1>2, RefusedParts DEF CopyPart, stores
<1> QED BY <1>1, <1>2

(* What a final upload that removes its parts has committed itself to. *)
LEMMA RemovingFaithful ==
  ASSUME PartsInv, NEW r \in Req, pc[r] \in {"dropFile", "dropInfo"},
         pc'[r] \in {"dropFile", "dropInfo", "save"}, UNCHANGED <<file, resp>>,
         \A j \in Id : j = Part(r) \/ (info'[j] = info[j] /\ data'[j] = data[j])
  PROVE  Faithful(r)
<1>1. /\ file[r] # None /\ resp[r] # "error" /\ Method[r] = "POST" /\ RemoveParts
      /\ Part(r) \in PartIds(file[r])
  <2>1. SerialInv /\ Inv /\ Joining(r)
    BY DEF PartsInv, ExactInv, SerialInv, Joining
  <2> QED BY <2>1, PartNamed DEF SerialInv, Attended, Inv, TypeInv, LocalsOK
<1>2. ASSUME NEW j \in Id, j = Part(r) PROVE Commits(r, j)'
  BY <1>1, <1>2 DEF Commits
<1>3. ASSUME NEW j \in Id, Commits(r, j) PROVE Commits(r, j)'
  BY <1>1, <1>3 DEF Commits
<1> QED BY <1>2, <1>3 DEF Faithful

(* The part a final upload is at is none of the others. *)
LEMMA PartsDiffer ==
  ASSUME PartsInv, NEW r \in Req, Joining(r), NEW k \in 1..Len(partsInfo[r]), k # cursor[r]
  PROVE  partsInfo[r][k].id # Part(r)
<1>0. SerialInv /\ Inv /\ InFlight(r) /\ Method[r] = "POST"
  BY AtPart DEF PartsInv, ExactInv, SerialInv, Inv, Joining
<1>1. partsInfo[r][k].id = file[r].parts[k]
  BY <1>0 DEF Inv, IdsInv, PartsRead
<1>2. k \in DOMAIN file[r].parts /\ cursor[r] \in DOMAIN file[r].parts
  <2>1. file[r].parts \in Seq(Id) /\ Len(partsInfo[r]) = Len(file[r].parts)
        /\ cursor[r] \in 1..Len(file[r].parts)
    BY <1>0, AtWork, AtPart DEF Inv
  <2> QED BY <2>1
<1> QED BY <1>0, <1>1, <1>2 DEF PartsInv, Unharmed, Part

LEMMA DropFileParts ==
  ASSUME PartsInv, ExactInv', NEW r \in Req, DropFile(r)
  PROVE  PartsInv'
<1>0. /\ SerialInv /\ Inv /\ InFlight(r) /\ pc[r] = "dropFile" /\ Method[r] = "POST" /\ Joining(r)
      /\ UNCHANGED <<info, file, cursor, partsInfo, body>>
  BY DEF PartsInv, ExactInv, SerialInv, DropFile, Inv, TypeInv, LocalsOK, Joining
<1>1. /\ Part(r) \in Id /\ cursor[r] \in 1..Len(partsInfo[r])
      /\ partsInfo[r][cursor[r]].id = Part(r)
  BY <1>0, PartKnown
<1>2. data[Part(r)] # None
  <2>1. PartKept(r, cursor[r], partsInfo[r][cursor[r]])
    BY <1>0, <1>1 DEF PartsInv, Unharmed
  <2> QED BY <1>0, <1>1, <2>1 DEF PartKept
<1>3. /\ Effect(r) /\ pc'[r] = "dropInfo"
      /\ \A q \in Req \ {r} : pc'[q] = pc[q]
  BY <1>0, <1>2, CallMade, DropFileEffect DEF DropFile
<1>4. resp' = resp /\ \A q \in Req \ {r} : Same(q)
  BY <1>0, <1>2, <1>3 DEF DropFile, Same
<1>5. \A j \in Id \ {Part(r)} : data'[j] = data[j]
  BY <1>0, <1>2 DEF DropFile, Inv, TypeInv, TypeOK
<1>6. Faithful(r)
  BY <1>0, <1>3, <1>4, <1>5, RemovingFaithful
<1>7. ASSUME NEW k \in 1..Len(partsInfo[r]), NEW p, p = partsInfo[r][k] PROVE PartKept(r, k, p)'
  <2>1. /\ p.id \in Id /\ Frozen(p.id)'
        /\ Whole(p)' \/ \E x \in Req : Commits(x, p.id)'
    BY <1>0, <1>3, <1>4, <1>6, <1>7, PartStays
  <2>2. PartKept(r, k, p)
    BY <1>0, <1>7 DEF PartsInv, Unharmed
  <2>3. k >= cursor[r] => info'[p.id] = p
    BY <1>0, <2>2 DEF PartKept
  <2>4. k > cursor[r] => data'[p.id] # None
    <3> SUFFICES ASSUME k > cursor[r] PROVE data'[p.id] # None
      OBVIOUS
    <3>1. p.id # Part(r) /\ k >= cursor[r] /\ k # cursor[r]
      BY <1>0, <1>1, <1>7, PartsDiffer
    <3> QED BY <1>0, <1>5, <2>1, <2>2, <3>1 DEF PartKept
  <2>5. k >= cursor[r] \/ ~(k > cursor[r] \/ k = cursor[r])
    BY <1>1
  <2> QED BY <1>0, <1>3, <2>1, <2>3, <2>4, <2>5 DEF PartKept
<1>8. Unharmed(r)'
  <2>1. \A k \in 1..Len(partsInfo[r]) : \A p : p = partsInfo[r][k] => PartKept(r, k, p)'
    BY <1>7
  <2> QED BY <1>0, <2>1 DEF PartsInv, Unharmed
<1> QED BY <1>3, <1>4, <1>6, <1>8, PartsStep

LEMMA DropInfoParts ==
  ASSUME PartsInv, ExactInv', NEW r \in Req, DropInfo(r)
  PROVE  PartsInv'
<1>0. /\ SerialInv /\ Inv /\ InFlight(r) /\ pc[r] = "dropInfo" /\ Method[r] = "POST" /\ Joining(r)
      /\ UNCHANGED <<data, file, partsInfo, body>>
  BY DEF PartsInv, ExactInv, SerialInv, DropInfo, Inv, TypeInv, LocalsOK, Joining
<1>1. /\ Part(r) \in Id /\ cursor[r] \in 1..Len(partsInfo[r])
      /\ partsInfo[r][cursor[r]].id = Part(r) /\ partsInfo[r][cursor[r]] \in FileInfo
      /\ LastPart(r) => cursor[r] = Len(partsInfo[r])
  BY <1>0, PartKnown, AtPart DEF LastPart, Inv
<1>2. info[Part(r)] # None
  <2>1. PartKept(r, cursor[r], partsInfo[r][cursor[r]])
    BY <1>0, <1>1 DEF PartsInv, Unharmed
  <2>2. info[Part(r)] \in FileInfo
    BY <1>0, <1>1, <2>1 DEF PartKept
  <2> QED BY <2>2, FileFields
<1>3. /\ Effect(r) /\ pc'[r] = IF LastPart(r) THEN "save" ELSE "dropFile"
      /\ \A q \in Req \ {r} : pc'[q] = pc[q]
  BY <1>0, <1>2, CallMade, DropInfoEffect DEF DropInfo
<1>4. resp' = resp /\ \A q \in Req \ {r} : Same(q)
  BY <1>0, <1>2, <1>3 DEF DropInfo, Advance, Same, Inv, TypeInv, TypeOK
<1>5. \A j \in Id \ {Part(r)} : info'[j] = info[j]
  BY <1>0, <1>2 DEF DropInfo, Inv, TypeInv, TypeOK
<1>6. cursor'[r] = IF LastPart(r) THEN 1 ELSE cursor[r] + 1
  BY <1>0, <1>2 DEF DropInfo, Advance, Inv, TypeInv, TypeOK
<1>7. Faithful(r)
  BY <1>0, <1>3, <1>4, <1>5, RemovingFaithful
<1>8. ASSUME NEW k \in 1..Len(partsInfo[r]), NEW p, p = partsInfo[r][k] PROVE PartKept(r, k, p)'
  <2>1. /\ p.id \in Id /\ Frozen(p.id)'
        /\ Whole(p)' \/ \E x \in Req : Commits(x, p.id)'
    BY <1>0, <1>3, <1>4, <1>7, <1>8, PartStays
  <2>2. PartKept(r, k, p)
    BY <1>0, <1>8 DEF PartsInv, Unharmed
  <2>3. k > cursor[r] => info'[p.id] = p /\ data'[p.id] # None
    <3> SUFFICES ASSUME k > cursor[r] PROVE info'[p.id] = p /\ data'[p.id] # None
      OBVIOUS
    <3>1. p.id # Part(r)
      BY <1>0, <1>1, <1>8, PartsDiffer
    <3> QED BY <1>0, <1>5, <2>1, <2>2, <3>1 DEF PartKept
  <2>4. pc'[r] = "dropFile" /\ k >= cursor'[r] => k > cursor[r]
    BY <1>1, <1>3, <1>6
  <2> QED BY <1>3, <2>1, <2>3, <2>4 DEF PartKept
<1>9. Unharmed(r)'
  <2>1. \A k \in 1..Len(partsInfo[r]) : \A p : p = partsInfo[r][k] => PartKept(r, k, p)'
    BY <1>8
  <2> QED BY <1>0, <2>1 DEF PartsInv, Unharmed
<1> QED BY <1>3, <1>4, <1>7, <1>9, PartsStep

LEMMA AddBytesParts ==
  ASSUME PartsInv, ExactInv', NEW r \in Req, AddBytes(r)
  PROVE  PartsInv'
<1> DEFINE i == file[r].id
<1>0. /\ SerialInv /\ Inv /\ InFlight(r) /\ pc[r] = "write" /\ Method[r] \in {"POST", "PATCH"}
      /\ info' = info /\ Effect(r) /\ i \in Id /\ file[r] \in FileInfo
  BY AddBytesEffect, AtWork DEF PartsInv, ExactInv, SerialInv, AddBytes, Inv, TypeInv, LocalsOK
<1>1. data[i] # None
  <2>1. data[i] = Bytes(0, file[r].offset) /\ file[r].offset \in Nat
    BY <1>0, AtWork DEF PartsInv, ExactInv, Sound, Inv
  <2> QED BY <2>1, BytesNone
<1>2. pc'[r] = "save" /\ \A q \in Req \ {r} : pc'[q] = pc[q]
  BY <1>0, <1>1, CallMade DEF AddBytes
<1>3. \A q \in Req \ {r} : Same(q)
  BY <1>0, <1>1, <1>2 DEF AddBytes, Same, Inv, TypeInv, TypeOK
<1>4. \A j \in Id : j = i \/ (info'[j] = info[j] /\ data'[j] = data[j])
  BY <1>0, <1>1 DEF AddBytes, Inv, TypeInv, TypeOK
<1>5. file'[r].parts = file[r].parts /\ partsInfo' = partsInfo
  BY <1>0, <1>1 DEF AddBytes, FileInfo, Inv, TypeInv, TypeOK
<1>6. Faithful(r)
  <2>1. Saving(r, file[r].id) /\ \A j \in Id : ~Commits(r, j)
    BY <1>0 DEF Saving, Commits
  <2> QED BY <1>4, <2>1, SavingFaithful
<1>7. Unharmed(r)'
  BY <1>0, <1>2, <1>3, <1>5, <1>6, UnharmedPast
<1> QED BY <1>0, <1>3, <1>6, <1>7, PartsStep

LEMMA SavesParts ==
  ASSUME PartsInv, ExactInv', NEW r \in Req, Effect(r), pc[r] \in {"save", "saving"}, Saved(r),
         info' = [info EXCEPT ![file[r].id] = file[r]],
         UNCHANGED <<data, used, file, body, partsInfo, cursor, gone, delivered>>
  PROVE  PartsInv'
<1> DEFINE i == file[r].id
<1>0. SerialInv /\ Inv /\ i \in Id /\ Saving(r, i) /\ InFlight(r)
  BY SaversSave DEF PartsInv, ExactInv, SerialInv
<1>1. /\ pc'[r] = "done" /\ resp'[r] = "ok"
      /\ \A q \in Req \ {r} : pc'[q] = pc[q] /\ resp'[q] = resp[q]
  BY <1>0, AnswerGiven DEF Saved
<1>2. \A q \in Req \ {r} : Same(q)
  BY <1>1 DEF Same
<1>3. \A j \in Id : j = i \/ (info'[j] = info[j] /\ data'[j] = data[j])
  BY <1>0 DEF Inv, TypeInv, TypeOK
<1>4. ASSUME NEW j \in Id, Commits(r, j) PROVE Commits(r, j)'
  BY <1>1, <1>4 DEF Commits
<1>5. Faithful(r)
  BY <1>0, <1>3, <1>4, SavingFaithful
<1>6. Unharmed(r)'
  BY <1>0, <1>1, <1>2, <1>5, UnharmedPast
<1> QED BY <1>2, <1>5, <1>6, PartsStep

LEMMA SaveInfoParts ==
  ASSUME PartsInv, ExactInv', NEW r \in Req, SaveInfo(r)
  PROVE  PartsInv'
BY SavesParts, SaveInfoEffect DEF SaveInfo, PartsInv, ExactInv

LEMMA OpenInfoParts ==
  ASSUME PartsInv, ExactInv', NEW r \in Req, OpenInfo(r)
  PROVE  PartsInv'
<1> DEFINE i == file[r].id
<1>0. /\ SerialInv /\ Inv /\ pc[r] = "save" /\ InFlight(r) /\ Works(r) /\ i \in Id
      /\ Saving(r, i) /\ data' = data /\ file' = file /\ partsInfo' = partsInfo /\ Effect(r)
  BY SaversSave, OpenInfoEffect DEF OpenInfo, PartsInv, ExactInv, SerialInv
<1>1. Openable(r)
  BY <1>0 DEF Openable, SerialInv, Current, Visible, Saving
<1>2. pc'[r] = "saving" /\ resp' = resp /\ \A q \in Req \ {r} : pc'[q] = pc[q]
  BY <1>0, <1>1 DEF OpenInfo, Inv, TypeInv, TypeOK
<1>3. \A j \in Id : j = i \/ (info'[j] = info[j] /\ data'[j] = data[j])
  BY <1>0, <1>1 DEF OpenInfo, Inv, TypeInv, TypeOK
<1>4. \A q \in Req \ {r} : Same(q)
  BY <1>1, <1>2 DEF Same, OpenInfo
<1>5. ASSUME NEW j \in Id, Commits(r, j) PROVE Commits(r, j)'
  BY <1>0, <1>2, <1>5 DEF Commits
<1>6. Faithful(r)
  BY <1>0, <1>3, <1>5, SavingFaithful
<1>7. Unharmed(r)'
  BY <1>0, <1>2, <1>4, <1>6, UnharmedPast
<1> QED BY <1>0, <1>4, <1>6, <1>7, PartsStep

LEMMA WriteInfoParts ==
  ASSUME PartsInv, ExactInv', NEW r \in Req, WriteInfo(r)
  PROVE  PartsInv'
<1> DEFINE i == file[r].id
<1>0. SerialInv /\ pc[r] = "saving" /\ Works(r) /\ Effect(r)
  BY SaversSave, WriteInfoEffect DEF WriteInfo, PartsInv, ExactInv, SerialInv
<1>1. info[i] = Empty
  BY <1>0 DEF SerialInv, Current
<1>2. Written(i, file[r]) = {file[r]}
  BY <1>1, TornAssumption DEF Written, Torn
<1> QED BY <1>0, <1>2, SavesParts DEF WriteInfo

(* A DELETE that has removed the info removes the file. *)
LEMMA DeleteFaithful ==
  ASSUME NEW r \in Req, file[r] # None, file' = file, Method[r] = "DELETE",
         pc'[r] \in {"removeFile", "done"}, resp'[r] # "error",
         \A j \in Id : j = file[r].id \/ (info'[j] = info[j] /\ data'[j] = data[j])
  PROVE  Faithful(r)
<1>1. ASSUME NEW j \in Id, j = file[r].id PROVE Commits(r, j)'
  BY <1>1 DEF Commits
<1>2. ASSUME NEW j \in Id, Commits(r, j) PROVE j = file[r].id
  BY <1>2 DEF Commits
<1> QED BY <1>1, <1>2 DEF Faithful

LEMMA RemoveInfoParts ==
  ASSUME PartsInv, ExactInv', NEW r \in Req, RemoveInfo(r)
  PROVE  PartsInv'
<1> DEFINE i == file[r].id
<1>0. /\ SerialInv /\ Inv /\ pc[r] = "removeInfo" /\ Method[r] = "DELETE" /\ Works(r) /\ i \in Id
      /\ data' = data /\ file' = file /\ Effect(r) /\ file[r] # None /\ resp[r] = "none"
  BY DeleteWanted, RemoveInfoEffect
  DEF RemoveInfo, PartsInv, ExactInv, SerialInv, Attended, Works, Modifying, Inv, TypeInv, LocalsOK
<1>1. info[i] # None
  BY <1>0 DEF SerialInv, Current
<1>2. pc'[r] = "removeFile" /\ resp' = resp /\ \A q \in Req \ {r} : pc'[q] = pc[q]
  BY <1>0, <1>1, CallMade DEF RemoveInfo
<1>3. \A q \in Req \ {r} : Same(q)
  BY <1>1, <1>2 DEF RemoveInfo, Same
<1>4. \A j \in Id : j = i \/ (info'[j] = info[j] /\ data'[j] = data[j])
  BY <1>0, <1>1 DEF RemoveInfo, Inv, TypeInv, TypeOK
<1>5. Faithful(r)
  BY <1>0, <1>2, <1>4, DeleteFaithful
<1>6. Unharmed(r)'
  BY <1>0 DEF Unharmed
<1> QED BY <1>0, <1>3, <1>5, <1>6, PartsStep

LEMMA RemoveFileParts ==
  ASSUME PartsInv, ExactInv', NEW r \in Req, RemoveFile(r)
  PROVE  PartsInv'
<1> DEFINE i == file[r].id
<1>0. /\ SerialInv /\ Inv /\ pc[r] = "removeFile" /\ Method[r] = "DELETE" /\ i \in Id
      /\ info' = info /\ file' = file /\ Effect(r) /\ file[r] # None /\ data[i] # None
  BY DeleteWanted, RemoveFileEffect
  DEF RemoveFile, PartsInv, ExactInv, SerialInv, Sound, Inv, TypeInv, LocalsOK
<1>1. /\ pc'[r] = "done" /\ resp'[r] = "ok"
      /\ \A q \in Req \ {r} : pc'[q] = pc[q] /\ resp'[q] = resp[q]
  BY <1>0, AnswerGiven DEF RemoveFile
<1>2. \A q \in Req \ {r} : Same(q)
  BY <1>1 DEF RemoveFile, Same
<1>3. \A j \in Id : j = i \/ (info'[j] = info[j] /\ data'[j] = data[j])
  BY <1>0 DEF RemoveFile, Inv, TypeInv, TypeOK
<1>4. Faithful(r)
  BY <1>0, <1>1, <1>3, DeleteFaithful
<1>5. Unharmed(r)'
  BY <1>0 DEF Unharmed
<1> QED BY <1>0, <1>2, <1>4, <1>5, PartsStep

LEMMA GetContentsParts ==
  ASSUME PartsInv, ExactInv', NEW r \in Req, GetContents(r)
  PROVE  PartsInv'
<1>0. SerialInv /\ Inv /\ Method[r] = "GET" /\ Effect(r) /\ UNCHANGED stores
  BY GetContentsEffect DEF GetContents, PartsInv, ExactInv, SerialInv, Inv, TypeInv, LocalsOK
<1>1. PICK a \in {"ok", "error"} : Answer(r, a)
  BY DEF GetContents
<1>2. \A q \in Req \ {r} : Same(q)
  BY <1>0, <1>1, AnswerGiven DEF GetContents, Same, Inv, TypeInv, TypeOK
<1>3. Faithful(r) /\ Unharmed(r)'
  BY <1>0, IdleFaithful DEF Commits, Unharmed
<1> QED BY <1>0, <1>2, <1>3, PartsStep

LEMMA ProceedParts ==
  ASSUME PartsInv, ExactInv', NEW r \in Req, Proceed(r)
  PROVE  PartsInv'
BY CreateParts, ReadPartParts, CopyPartParts, DropFileParts, DropInfoParts, AddBytesParts,
   SaveInfoParts, OpenInfoParts, WriteInfoParts, RemoveInfoParts, RemoveFileParts, GetContentsParts
DEF Proceed

LEMMA InterfereParts ==
  ASSUME NothingFails, PartsInv, ExactInv', NEW r \in Req, Interfere(r)
  PROVE  PartsInv'
<1>1. HookRefused(r)
  BY DEF Interfere, NothingFails, Disconnect, Fault, RedisAnswerLost
<1> QED BY <1>1, RefusedParts DEF HookRefused

LEMMA BackgroundParts ==
  ASSUME PartsInv, ExactInv', UNCHANGED <<stores, used, handlers>>
  PROVE  PartsInv'
<1> USE DEF stores, handlers
<1>1. ASSUME NEW r \in Req PROVE Unharmed(r)'
  BY DEF PartsInv, Unharmed, PartKept, Whole, Commits, PartIds, Frozen, Saving
<1> QED BY <1>1 DEF PartsInv

(* PartsInv is inductive. *)
LEMMA NextPartsInv == NothingFails /\ OnceEach /\ PartsInv /\ [Next]_vars => PartsInv'
<1> SUFFICES ASSUME NothingFails, OnceEach, PartsInv, [Next]_vars PROVE PartsInv'
  OBVIOUS
<1>1. ExactInv'
  BY NextExactInv DEF PartsInv
<1>2. ASSUME NEW h \in hooks, Send(h) \/ SendFails(h) PROVE PartsInv'
  BY <1>1, <1>2, BackgroundParts DEF Send, SendFails
<1>3. CASE UNCHANGED vars
  BY <1>1, <1>3, BackgroundParts DEF vars, stores, handlers
<1>4. ~Crash
  BY DEF Crash, NothingFails
<1> QED BY <1>1, <1>2, <1>3, <1>4, ArriveParts, ProceedParts, InterfereParts DEF Next, Quiet

LEMMA InitPartsInv == Init => PartsInv
<1> SUFFICES ASSUME Init PROVE PartsInv
  OBVIOUS
<1>1. ASSUME NEW r \in Req PROVE Unharmed(r)
  <2>1. 1..Len(partsInfo[r]) = {} /\ ~InFlight(r)
    BY DEF Init
  <2> QED BY <2>1 DEF Unharmed
<1> QED BY <1>1, InitExactInv DEF PartsInv

(* A final upload that could not be created leaves its parts as they were, for *)
(* the client to try again, unless a DELETE or another final upload that does  *)
(* not fail takes them: for every list of parts without repetitions.           *)
THEOREM PartsSurvive ==
  ASSUME NothingFails, OnceEach
  PROVE  Spec => []PartsSurviveFailure
<1>1. PartsInv /\ [Next]_vars => PartsInv'
  BY NextPartsInv
<1>2. PartsInv => PartsSurviveFailure
  <2> SUFFICES ASSUME PartsInv, NEW r \in Req, Method[r] = "POST", resp[r] = "error", file[r] # None,
                      NEW k \in DOMAIN partsInfo[r]
               PROVE  LET p == partsInfo[r][k]
                      IN \/ info[p.id] = p /\ (p.storage = Own => data[p.id] # None)
                         \/ \E q \in Req \ {r} :
                              /\ file[q] # None /\ resp[q] # "error"
                              /\ \/ Method[q] = "DELETE" /\ file[q].id = p.id
                                 \/ RemoveParts /\ p.id \in PartIds(file[q])
    BY DEF PartsSurviveFailure
  <2>1. k \in 1..Len(partsInfo[r])
    BY DEF PartsInv, ExactInv, SerialInv, Inv, TypeInv, TypeOK
  <2>2. PartKept(r, k, partsInfo[r][k])
    BY <2>1 DEF PartsInv, Unharmed
  <2>3. \A x \in Req : Commits(x, partsInfo[r][k].id) => x # r
    BY DEF Commits
  <2> QED BY <2>2, <2>3 DEF PartKept, Whole, Commits
<1> QED BY <1>1, <1>2, InitPartsInv, PTL DEF Spec
-----------------------------------------------------------------------------
(* What final uploads hold. *)
OneKind(f) == ~(f.partial /\ f.final)

(* The parts that r has read are complete, and nobody changes them. *)
Complete(p) == Frozen(p.id) /\ data[p.id] \in {None, Bytes(0, p.length)}

(* As far as r has come, its final upload is the concatenation of its parts. *)
Composed(r) ==
  Method[r] = "POST" /\ file[r] # None /\ file[r].final =>
    LET s == data[file[r].id]
        n == Len(partsInfo[r])
    IN /\ pc[r] # "write"
       /\ pc[r] = "readPart" => s = <<>>
       /\ pc[r] \in {"readPart", "copyPart"} => \A k \in 1..n : Complete(partsInfo[r][k])
       /\ pc[r] = "copyPart" => Concatenates(s, FirstParts(r, cursor[r] - 1))
       /\ pc[r] \in {"dropFile", "dropInfo", "save", "saving"} \/ resp[r] = "ok" =>
            /\ [k \in 1..n |-> partsInfo[r][k].id] = file[r].parts
            /\ \/ Concatenates(s, FirstParts(r, n)) /\ (resp[r] = "ok" => Frozen(file[r].id))
               \/ resp[r] = "ok" /\ Removing(file[r].id)

ConcatInv ==
  /\ ExactInv
  /\ \A i \in Id : Readable(i) => OneKind(info[i])
  /\ \A r \in Req : (file[r] # None => OneKind(file[r])) /\ Composed(r)
-----------------------------------------------------------------------------
LEMMA BeforeEnd ==
  ASSUME NEW a \in Nat, NEW j \in Nat, NEW n \in Nat, NEW end \in Nat, 1 <= j, j <= n, a + n <= end
  PROVE  a + j \in 1..end
OBVIOUS

(* One more piece. *)
LEMMA ConcatAppend ==
  ASSUME NEW s \in Seq(Nat), NEW x \in Seq(Nat), NEW p \in Seq(Seq(Nat)), Concatenates(s, p)
  PROVE  Concatenates(Appended(s, x), Append(p, x))
<1> DEFINE n == Len(p)
           t == s \o x
           q == Append(p, x)
<1>1. PICK cut \in [0..n -> 0..Len(s)] :
        /\ cut[0] = 0 /\ cut[n] = Len(s)
        /\ \A k \in DOMAIN p : /\ cut[k] = cut[k - 1] + Len(p[k])
                               /\ \A j \in DOMAIN p[k] : s[cut[k - 1] + j] = p[k][j]
  BY DEF Concatenates
<1>2. n \in Nat /\ Len(s) \in Nat /\ Len(x) \in Nat /\ DOMAIN p = 1..n
  OBVIOUS
<1>3. t \in Seq(Nat) /\ Len(t) = Len(s) + Len(x)
      /\ (\A j \in 1..Len(s) : t[j] = s[j]) /\ (\A j \in 1..Len(x) : t[Len(s) + j] = x[j])
  <2>1. \A k \in 1..Len(s) + Len(x) : (s \o x)[k] = IF k <= Len(s) THEN s[k] ELSE x[k - Len(s)]
    BY ConcatProperties
  <2> QED BY <1>2, <2>1
<1>4. q \in Seq(Seq(Nat)) /\ Len(q) = n + 1 /\ DOMAIN q = 1..n+1
      /\ q[n + 1] = x /\ \A k \in 1..n : q[k] = p[k]
  BY <1>2
<1> DEFINE ends == [k \in 0..n+1 |-> IF k <= n THEN cut[k] ELSE Len(t)]
<1> HIDE DEF t, q
<1>5. ends \in [0..Len(q) -> 0..Len(t)] /\ ends[0] = 0 /\ ends[Len(q)] = Len(t)
  BY <1>1, <1>2, <1>3, <1>4
<1>6. ASSUME NEW k \in DOMAIN q
      PROVE  /\ ends[k] = ends[k - 1] + Len(q[k])
             /\ \A j \in DOMAIN q[k] : t[ends[k - 1] + j] = q[k][j]
  <2>1. CASE k \in 1..n
    <3>1. /\ q[k] = p[k] /\ ends[k] = cut[k] /\ ends[k - 1] = cut[k - 1]
          /\ cut[k] \in 0..Len(s) /\ cut[k - 1] \in 0..Len(s)
          /\ cut[k] = cut[k - 1] + Len(p[k]) /\ p[k] \in Seq(Nat)
      BY <1>1, <1>2, <1>4, <2>1
    <3>2. ASSUME NEW j \in DOMAIN p[k] PROVE t[cut[k - 1] + j] = p[k][j]
      <4>1. PICK z, a, b : z = p[k] /\ a = cut[k - 1] /\ b = cut[k]
        OBVIOUS
      <4>2. z \in Seq(Nat) /\ a \in Nat /\ b \in Nat /\ b = a + Len(z) /\ b <= Len(s) /\ j \in DOMAIN z
        BY <1>2, <3>1, <4>1
      <4>3. DOMAIN z = 1..Len(z) /\ Len(z) \in Nat
        BY <4>2
      <4>4. j \in Nat /\ 1 <= j /\ j <= Len(z)
        BY <4>2, <4>3
      <4>5. a + j \in 1..Len(s)
        BY <1>2, <4>2, <4>3, <4>4, BeforeEnd
      <4> QED BY <1>1, <1>2, <1>3, <2>1, <4>1, <4>5
    <3> QED BY <3>1, <3>2
  <2>2. CASE k = n + 1
    <3>1. k - 1 = n /\ k \in 0..n+1 /\ n \in 0..n+1 /\ ~(k <= n)
      BY <1>2, <2>2
    <3>2. q[k] = x /\ ends[k] = Len(t) /\ ends[k - 1] = Len(s)
      BY <1>1, <1>4, <2>2, <3>1
    <3>3. DOMAIN x = 1..Len(x)
      OBVIOUS
    <3> QED BY <1>3, <3>2, <3>3
  <2>3. k \in 1..n \/ k = n + 1
    BY <1>2, <1>4
  <2> QED BY <2>1, <2>2, <2>3
<1>7. Concatenates(t, q)
  BY <1>5, <1>6 DEF Concatenates
<1> QED BY <1>7 DEF t, q, Appended

(* Nothing is the concatenation of nothing. *)
LEMMA ConcatNone == Concatenates(<<>>, <<>>)
<1>1. Len(<<>>) = 0 /\ DOMAIN <<>> = {}
  OBVIOUS
<1> DEFINE cut == [k \in 0..0 |-> 0]
<1>2. cut \in [0..0 -> 0..0] /\ cut[0] = 0
  OBVIOUS
<1> HIDE DEF cut
<1> QED BY <1>1, <1>2 DEF Concatenates

(* The n-th part comes after those before it. *)
LEMMA FirstNext ==
  ASSUME TypeInv, NEW r \in Req, NEW n \in 1..Len(partsInfo[r])
  PROVE  /\ FirstParts(r, n - 1) \in Seq(Seq(Nat))
         /\ FirstParts(r, n) = Append(FirstParts(r, n - 1), Bytes(0, partsInfo[r][n].length))
         /\ Bytes(0, partsInfo[r][n].length) \in Seq(Nat)
<1> DEFINE b(k) == Bytes(0, partsInfo[r][k].length)
<1>1. \A k \in 1..n : b(k) \in Seq(Nat)
  <2>1. n \in Nat /\ n <= Len(partsInfo[r]) /\ Len(partsInfo[r]) \in Nat
    BY DEF TypeInv, TypeOK
  <2>2. ASSUME NEW k \in 1..n PROVE b(k) \in Seq(Nat)
    <3>1. k \in 1..Len(partsInfo[r])
      BY <2>1
    <3>2. partsInfo[r][k].length \in Nat
      BY <3>1, PartsHold
    <3> QED BY <3>2, BytesType
  <2> QED BY <2>2
<1> HIDE DEF b
<1>2. [k \in 1..n-1 |-> b(k)] \in Seq(Seq(Nat)) /\ b(n) \in Seq(Nat) /\ n \in Nat
  BY <1>1
<1>3. [k \in 1..n |-> b(k)] = Append([k \in 1..n-1 |-> b(k)], b(n))
  BY <1>1, <1>2
<1> QED BY <1>2, <1>3 DEF FirstParts, b

(* A step of one handler leaves the local variables of the others alone. *)
LEMMA OthersSame ==
  ASSUME SerialInv, NEW r \in Req, Arrive(r) \/ Proceed(r) \/ HookRefused(r), NEW q \in Req, q # r
  PROVE  Same(q)
<1>0. TypeOK
  BY DEF SerialInv, Inv, TypeInv
<1>1. HookRefused(r) => Same(q)
  BY <1>0 DEF HookRefused, Answer, TypeOK, Same
<1>2. Arrive(r) => Same(q)
  <2>1. ASSUME UNCHANGED file, Answer(r, "error"), UNCHANGED <<body, partsInfo, cursor>> PROVE Same(q)
    BY <1>0, <2>1 DEF Answer, TypeOK, Same
  <2>2. ASSUME NEW m \in PostMsg, NEW i \in Id, PostAccepted(r, i, m) PROVE Same(q)
    BY <1>0, <2>2 DEF PostAccepted, TypeOK, Same
  <2>3. ASSUME NEW m \in PatchMsg, NEW i \in Id, PatchAccepted(r, i, m) PROVE Same(q)
    BY <1>0, <2>3 DEF PatchAccepted, TypeOK, Same
  <2>4. ASSUME NEW i \in Id, DeleteAccepted(r, i) \/ GetAccepted(r, i) \/ HeadAnswered(r, i) PROVE Same(q)
    BY <1>0, <2>4 DEF DeleteAccepted, GetAccepted, HeadAnswered, Answer, TypeOK, Same
  <2> QED BY <2>1, <2>2, <2>3, <2>4 DEF Arrive, PostRefused, PatchRefused, DeleteRefused, ReadRefused
<1>3. CreateFile(r) \/ AddBytes(r) \/ SaveInfo(r) \/ OpenInfo(r) \/ WriteInfo(r) => Same(q)
  BY <1>0 DEF CreateFile, AddBytes, SaveInfo, OpenInfo, WriteInfo, Saved, GoTo, Answer, TypeOK, Same
<1>4. RemoveInfo(r) \/ RemoveFile(r) \/ GetContents(r) => Same(q)
  BY <1>0 DEF RemoveInfo, RemoveFile, GetContents, GoTo, Answer, TypeOK, Same
<1>5. ReadPart(r) \/ CopyPart(r) => Same(q)
  BY <1>0 DEF ReadPart, CopyPart, GoTo, Answer, Advance, TypeOK, Same
<1>6. DropFile(r) \/ DropInfo(r) => Same(q)
  BY <1>0 DEF DropFile, DropInfo, GoTo, Answer, Advance, TypeOK, Same
<1> QED BY <1>1, <1>2, <1>3, <1>4, <1>5, <1>6 DEF Proceed

(* A part that was read stays complete. *)
LEMMA CompleteKept ==
  ASSUME SerialInv, NEW r, Effect(r), NEW q \in Req, NEW k \in 1..Len(partsInfo[q]),
         NEW p, p = partsInfo[q][k], Complete(p)
  PROVE  Complete(p)'
<1>1. p.id \in Id
  BY PartsHold DEF SerialInv, Inv
<1>2. PICK i \in Id : i = p.id
  BY <1>1
<1>3. Frozen(i)' /\ data'[i] \in {data[i], None}
  BY <1>2, FrozenKept DEF Complete
<1> QED BY <1>2, <1>3 DEF Complete

(* What other handlers do to a final upload. *)
LEMMA ComposedKept ==
  ASSUME ConcatInv, NEW r \in Req, Effect(r), NEW q \in Req, q # r, Same(q)
  PROVE  Composed(q)'
<1> SUFFICES ASSUME Method[q] = "POST", file[q] # None, file[q].final PROVE Composed(q)'
  BY DEF Composed, Same
<1> DEFINE n == Len(partsInfo[q])
<1>0. SerialInv /\ Inv /\ Composed(q) /\ Same(q)
  BY DEF ConcatInv, ExactInv, SerialInv
<1>1. PICK i \in Id : i = file[q].id
  BY <1>0, FileFields DEF Inv, TypeInv, TypeOK
<1>2. InFlight(q) => data'[i] = data[i]
  BY <1>0, <1>1, DataLeftAlone DEF Works, Modifying
<1>3. pc[q] \in {"readPart", "copyPart"} => \A k \in 1..n : Complete(partsInfo[q][k])'
  <2>1. ASSUME NEW k \in 1..n, NEW p, p = partsInfo[q][k], pc[q] \in {"readPart", "copyPart"}
        PROVE  Complete(p)'
    BY <1>0, <2>1, CompleteKept DEF Composed
  <2>2. ASSUME NEW k \in 1..n, pc[q] \in {"readPart", "copyPart"} PROVE Complete(partsInfo[q][k])'
    <3>1. PICK p : p = partsInfo[q][k]
      OBVIOUS
    <3>2. Complete(p)'
      BY <2>1, <2>2, <3>1
    <3> QED BY <1>0, <3>1, <3>2 DEF Same
  <2> QED BY <2>2
<1>4. /\ pc'[q] = pc[q] /\ resp'[q] = resp[q] /\ file'[q] = file[q]
      /\ partsInfo'[q] = partsInfo[q] /\ cursor'[q] = cursor[q]
  BY <1>0 DEF Same
<1>5. ASSUME resp[q] = "ok"
      PROVE  \/ data'[i] = data[i] /\ Frozen(i)' /\ ~Removing(i)
             \/ Removing(i)'
  <2>1. CASE Removing(i)
    BY <1>0, <2>1, RemovingForEver
  <2>2. CASE ~Removing(i)
    <3>1. Frozen(i)
      BY <1>0, <1>1, <1>5, <2>2 DEF Composed
    <3>2. Frozen(i)' /\ data'[i] \in {data[i], None} /\ DataStep(r, i)
      BY <1>0, <3>1, FrozenKept DEF Effect
    <3>3. data'[i] = data[i]
      <4>1. ~Saving(r, i)
        BY <3>1 DEF Frozen
      <4> QED BY <2>2, <3>2, <4>1 DEF DataStep
    <3> QED BY <2>2, <3>2, <3>3
  <2> QED BY <2>1, <2>2
<1>6. resp[q] = "ok" => pc[q] = "done"
  BY <1>0 DEF SerialInv, Attended
<1>7. CASE InFlight(q)
  <2>1. data'[i] = data[i] /\ resp[q] # "ok"
    BY <1>2, <1>6, <1>7
  <2> QED BY <1>0, <1>1, <1>3, <1>4, <2>1 DEF Composed, FirstParts
<1>8. CASE ~InFlight(q)
  BY <1>0, <1>1, <1>4, <1>5, <1>8 DEF Composed, FirstParts
<1> QED BY <1>7, <1>8

(* The step of one handler: what it leaves right is all there is to show. *)
LEMMA ConcatStep ==
  ASSUME ConcatInv, ExactInv', NEW r \in Req, Effect(r),
         Arrive(r) \/ Proceed(r) \/ HookRefused(r),
         file'[r] # None => OneKind(file'[r]), Composed(r)'
  PROVE  ConcatInv'
<1>0. SerialInv /\ Inv
  BY DEF ConcatInv, ExactInv, SerialInv
<1>1. ASSUME NEW q \in Req, q # r PROVE Composed(q)' /\ (file'[q] # None => OneKind(file'[q]))
  <2>1. Same(q)
    BY <1>0, <1>1, OthersSame
  <2>2. Composed(q)'
    BY <1>1, <2>1, ComposedKept
  <2> QED BY <2>1, <2>2 DEF Same, ConcatInv
<1>2. ASSUME NEW i \in Id, Readable(i)' PROVE OneKind(info'[i])
  <2>1. InfoStep(r, i)
    BY DEF Effect
  <2>2. pc[r] \in {"save", "saving"} => file[r] # None
    BY <1>0, AtWork DEF Inv
  <2> QED BY <1>2, <2>1, <2>2 DEF ConcatInv, InfoStep
<1> QED BY <1>1, <1>2 DEF ConcatInv

(* A handler that ends without success, and one that does not create, has no more to say. *)
LEMMA EndedComposed ==
  ASSUME NEW r \in Req,
         \/ Method[r] # "POST"
         \/ pc'[r] \in {"create", "done"} /\ resp'[r] # "ok"
         \/ ~file'[r].final /\ resp'[r] # "ok"
  PROVE  Composed(r)'
BY DEF Composed

(* What comes into being is partial or final. *)
LEMMA NewKind ==
  ASSUME NEW i \in Id, NEW m \in PostMsg
  PROVE  OneKind(NewFileInfo(i, m))
BY DEF NewFileInfo, OneKind

LEMMA ArriveConcat ==
  ASSUME ConcatInv, ExactInv', NEW r \in Req, Arrive(r)
  PROVE  ConcatInv'
<1>0. TypeOK /\ SerialInv /\ Inv /\ Effect(r) /\ (pc[r] = "idle" => resp[r] = "none")
  BY ArriveEffect DEF ConcatInv, ExactInv, SerialInv, Inv, TypeInv, Attended, TypeOK
<1>1. ASSUME Answer(r, "error"), file' = file PROVE ConcatInv'
  <2>1. pc'[r] = "done" /\ resp'[r] # "ok"
    BY <1>0, <1>1 DEF Answer, TypeOK
  <2>2. Composed(r)'
    BY <2>1, EndedComposed
  <2> QED BY <1>0, <1>1, <2>2, ConcatStep DEF ConcatInv
<1>2. ASSUME NEW m \in PostMsg, NEW i \in Id, PostAccepted(r, i, m) PROVE ConcatInv'
  <2>1. pc'[r] = "create" /\ resp'[r] # "ok" /\ file'[r] = NewFileInfo(i, m)
    BY <1>0, <1>2 DEF PostAccepted, Begins, TypeOK
  <2>2. Composed(r)'
    BY <2>1, EndedComposed
  <2> QED BY <1>0, <2>1, <2>2, NewKind, ConcatStep
<1>3. ASSUME NEW i \in Id, Readable(i), Method[r] # "POST", NEW f, file' = [file EXCEPT ![r] = f],
             f.partial = info[i].partial, f.final = info[i].final
      PROVE  ConcatInv'
  <2>1. OneKind(info[i])
    BY <1>3 DEF ConcatInv
  <2>2. file'[r] = f /\ OneKind(f)
    BY <1>0, <1>3, <2>1 DEF TypeOK, OneKind
  <2>3. Composed(r)'
    BY <1>3, EndedComposed
  <2> QED BY <1>0, <2>2, <2>3, ConcatStep
<1>4. ASSUME NEW i \in Id, NEW m \in PatchMsg, PatchAccepted(r, i, m) PROVE ConcatInv'
  <2>1. Readable(i) /\ Method[r] # "POST" /\ file' = [file EXCEPT ![r] = Resized(info[i], m)]
    BY <1>4 DEF PatchAccepted, PatchAdmissible, Visible, Begins
  <2>2. info[i] \in FileInfo
    BY <1>0, <2>1 DEF TypeOK
  <2>3. Resized(info[i], m).partial = info[i].partial /\ Resized(info[i], m).final = info[i].final
    BY <2>2 DEF Resized, FileInfo
  <2> QED BY <1>3, <2>1, <2>3
<1>5. ASSUME NEW i \in Id, DeleteAccepted(r, i) \/ GetAccepted(r, i) \/ HeadAnswered(r, i)
      PROVE  ConcatInv'
  <2>1. Readable(i) /\ Method[r] # "POST" /\ file' = [file EXCEPT ![r] = info[i]]
    BY <1>5 DEF DeleteAccepted, GetAccepted, HeadAnswered, Visible, Begins
  <2> QED BY <1>3, <2>1
<1> QED BY <1>1, <1>2, <1>4, <1>5 DEF Arrive, PostRefused, PatchRefused, DeleteRefused, ReadRefused

(* A handler that stops at an error. *)
LEMMA RefusedConcat ==
  ASSUME ConcatInv, ExactInv', NEW r \in Req, Effect(r), Proceed(r) \/ HookRefused(r),
         Answer(r, "error"), file' = file
  PROVE  ConcatInv'
<1>1. pc'[r] = "done" /\ resp'[r] # "ok"
  BY DEF ConcatInv, ExactInv, SerialInv, Inv, TypeInv, TypeOK, Answer
<1>2. Composed(r)'
  BY <1>1, EndedComposed
<1> QED BY <1>2, ConcatStep DEF ConcatInv

LEMMA CreateConcat ==
  ASSUME ConcatInv, ExactInv', NEW r \in Req, CreateFile(r)
  PROVE  ConcatInv'
<1> DEFINE next == IF file[r].final THEN "readPart" ELSE IF body[r] # <<>> THEN "write" ELSE "save"
<1>0. /\ TypeOK /\ SerialInv /\ Inv /\ pc[r] = "create" /\ file[r] # None /\ file[r].id \in Id
      /\ partsInfo[r] = <<>> /\ resp[r] = "none" /\ Effect(r) /\ GoTo(r, next)
  BY CreateEffect, AtWork
  DEF ConcatInv, ExactInv, SerialInv, CreateFile, Inv, TypeInv, LocalsOK, Attended, TypeOK
<1>1. /\ pc'[r] = next /\ file' = file /\ resp' = resp /\ data'[file[r].id] = <<>>
      /\ partsInfo' = partsInfo
  BY <1>0, CallMade DEF CreateFile, TypeOK
<1>2. Composed(r)'
  <2>1. 1..Len(partsInfo'[r]) = {}
    BY <1>0, <1>1
  <2>2. file[r].final => pc'[r] = "readPart"
    BY <1>1
  <2> QED BY <1>0, <1>1, <2>1, <2>2 DEF Composed
<1> QED BY <1>0, <1>1, <1>2, ConcatStep DEF ConcatInv, Proceed

LEMMA AddBytesConcat ==
  ASSUME ConcatInv, ExactInv', NEW r \in Req, AddBytes(r)
  PROVE  ConcatInv'
<1>0. /\ TypeOK /\ SerialInv /\ Effect(r) /\ file[r] \in FileInfo /\ file[r] # None
      /\ resp[r] = "none" /\ pc[r] = "write"
  BY AddBytesEffect, AtWork
  DEF ConcatInv, ExactInv, SerialInv, AddBytes, Inv, TypeInv, LocalsOK, Attended, TypeOK
<1>1. CASE data[file[r].id] # None
  <2>1. /\ resp' = resp /\ file'[r] = [file[r] EXCEPT !.offset = @ + Len(body[r])]
    BY <1>0, <1>1 DEF AddBytes, TypeOK
  <2>2. file'[r].final = file[r].final /\ file'[r].partial = file[r].partial
    BY <1>0, <2>1 DEF FileInfo
  <2>3. OneKind(file'[r])
    BY <1>0, <2>2 DEF ConcatInv, OneKind
  <2>4. Method[r] = "POST" => ~file[r].final
    BY <1>0 DEF ConcatInv, Composed
  <2>5. Composed(r)'
    BY <1>0, <2>1, <2>2, <2>4, EndedComposed
  <2> QED BY <1>0, <2>3, <2>5, ConcatStep DEF Proceed
<1>2. CASE data[file[r].id] = None
  BY <1>0, <1>2, RefusedConcat DEF AddBytes, Proceed
<1> QED BY <1>1, <1>2

(* A part is complete when it is read. *)
LEMMA PartComplete ==
  ASSUME ConcatInv, NEW r \in Req, pc[r] = "readPart", PartAcceptable(info[Part(r)])
  PROVE  Complete(info[Part(r)])
<1> DEFINE p == info[Part(r)]
<1>1. PICK i : i = Part(r)
  OBVIOUS
<1>2. p.id = i /\ i \in Id /\ Frozen(i) /\ Readable(i) /\ p = info[i] /\ p.offset = p.length /\ p.partial
  BY <1>1, PartFound DEF ConcatInv, PartAcceptable
<1>3. ~p.final
  BY <1>2 DEF ConcatInv, OneKind
<1>4. ASSUME NEW q \in Req, pc[q] = "save", file[q].id = i PROVE FALSE
  BY <1>2, <1>4, SaversSave DEF Frozen, ConcatInv, ExactInv, SerialInv
<1>5. ASSUME NEW q \in Req, pc[q] = "dropInfo", Part(q) = i PROVE data[i] = None
  BY <1>5 DEF ConcatInv, ExactInv, Sound
<1>6. i \in Foreign => data[i] = None
  BY DEF ConcatInv, ExactInv, SerialInv, Inv, ForeignInv, ForeignUntouched
<1>7. data[i] \in {None, Bytes(0, p.length)}
  BY <1>2, <1>3, <1>4, <1>5, <1>6 DEF ConcatInv, ExactInv, Exact
<1> QED BY <1>2, <1>7 DEF Complete

LEMMA ReadPartConcat ==
  ASSUME ConcatInv, ExactInv', NEW r \in Req, ReadPart(r)
  PROVE  ConcatInv'
<1>0. /\ TypeOK /\ SerialInv /\ Inv /\ Effect(r) /\ pc[r] = "readPart" /\ UNCHANGED <<stores, file>>
      /\ resp[r] = "none" /\ Method[r] = "POST" /\ file[r] # None /\ Composed(r)
      /\ InFlight(r)
  BY ReadPartEffect
  DEF ConcatInv, ExactInv, SerialInv, Inv, TypeInv, LocalsOK, Attended, TypeOK, ReadPart, Reading
<1>1. CASE PartAcceptable(info[Part(r)])
  <2> DEFINE next == IF LastPart(r) THEN "copyPart" ELSE "readPart"
             Files == {f \in FileInfo : f.length # None}
  <2>1. pc'[r] = next /\ resp' = resp
    BY <1>0, <1>1, CallMade DEF ReadPart
  <2>2. /\ partsInfo'[r] = Append(partsInfo[r], info[Part(r)])
        /\ cursor'[r] = IF LastPart(r) THEN 1 ELSE cursor[r] + 1
        /\ partsInfo[r] \in Seq(Files)
    BY <1>0, <1>1 DEF ReadPart, Advance, TypeOK
  <2>3. info[Part(r)] \in Files
    <3>1. Part(r) \in Id /\ info[Part(r)] \in FileInfo /\ info[Part(r)].length # None
      BY <1>0, <1>1, PartFound, FileFields, NoneAssumption
      DEF ConcatInv, PartAcceptable, TypeOK
    <3> QED BY <3>1
  <2>4. PICK f, n : f = info[Part(r)] /\ n = Len(partsInfo[r])
    OBVIOUS
  <2>5. /\ Len(partsInfo'[r]) = n + 1 /\ partsInfo'[r][n + 1] = f /\ n \in Nat
        /\ \A k \in 1..n : partsInfo'[r][k] = partsInfo[r][k]
    <3> HIDE DEF Files
    <3> QED BY <2>2, <2>3, <2>4, AppendProperties
  <2>6. ASSUME NEW k \in 1..n, NEW p, p = partsInfo[r][k] PROVE Complete(p)'
    <3>1. Complete(p) /\ k \in 1..Len(partsInfo[r])
      BY <1>0, <2>4, <2>6 DEF Composed, ConcatInv, ExactInv, Sound, Reading
    <3> QED BY <1>0, <2>6, <3>1, CompleteKept
  <2>7. Complete(f)'
    <3>1. Complete(f) /\ f.id \in Id
      BY <1>0, <1>1, <2>4, PartComplete, PartFound DEF ConcatInv
    <3>2. PICK i : i = f.id
      OBVIOUS
    <3>3. Frozen(i)' /\ data' = data
      BY <1>0, <3>1, <3>2, FrozenKept DEF Complete, stores
    <3> QED BY <3>1, <3>2, <3>3 DEF Complete
  <2>8. ASSUME NEW k \in 1..Len(partsInfo'[r]), NEW p, p = partsInfo'[r][k] PROVE Complete(p)'
    <3>1. k \in 1..n \/ k = n + 1
      BY <2>5
    <3> QED BY <2>5, <2>6, <2>7, <2>8, <3>1
  <2>9. data'[file[r].id] = <<>>
    BY <1>0 DEF Composed, stores, ConcatInv, ExactInv, Sound, Reading
  <2>10. pc'[r] = "copyPart" => Concatenates(<<>>, FirstParts(r, cursor[r] - 1))'
    <3>1. pc'[r] = "copyPart" => cursor'[r] - 1 = 0
      BY <2>1, <2>2
    <3>2. [k \in 1..0 |-> Bytes(0, partsInfo'[r][k].length)] = <<>>
      OBVIOUS
    <3> QED BY <3>1, <3>2, ConcatNone DEF FirstParts
  <2>11. Composed(r)'
    BY <1>0, <2>1, <2>8, <2>9, <2>10 DEF Composed
  <2> QED BY <1>0, <2>11, ConcatStep DEF ConcatInv, Proceed
<1>2. CASE ~PartAcceptable(info[Part(r)])
  BY <1>0, <1>2, RefusedConcat DEF ReadPart, Proceed
<1> QED BY <1>1, <1>2

LEMMA CopyPartConcat ==
  ASSUME ConcatInv, ExactInv', NEW r \in Req, CopyPart(r)
  PROVE  ConcatInv'
<1> DEFINE c == cursor[r]
           n == Len(partsInfo[r])
<1>0. /\ TypeOK /\ SerialInv /\ Inv /\ Effect(r) /\ pc[r] = "copyPart" /\ partsInfo' = partsInfo
      /\ resp[r] = "none" /\ Method[r] = "POST" /\ file[r] # None /\ Composed(r)
      /\ InFlight(r) /\ Joining(r) /\ file[r].final /\ file[r] \in FileInfo
  BY CopyPartEffect, AtWork
  DEF ConcatInv, ExactInv, SerialInv, Inv, TypeInv, LocalsOK, Attended, TypeOK, CopyPart, Joining, Sound
<1>1. PICK i : i = file[r].id
  OBVIOUS
<1>2. CASE data[Part(r)] # None
  <2>1. /\ pc'[r] = IF ~LastPart(r) THEN "copyPart" ELSE IF RemoveParts THEN "dropFile" ELSE "save"
        /\ resp' = resp /\ file'[r] = Joined(r)
        /\ cursor'[r] = IF LastPart(r) THEN 1 ELSE c + 1
    BY <1>0, <1>2, CallMade DEF CopyPart, Advance, TypeOK
  <2>2. /\ file'[r].id = i /\ file'[r].parts = file[r].parts /\ file'[r] # None
        /\ file'[r].final = file[r].final /\ file'[r].partial = file[r].partial
    <3>1. Joined(r).id = i /\ Joined(r).parts = file[r].parts /\ Joined(r) # None
      BY <1>0, <1>1, JoinedType DEF Inv
    <3>2. Joined(r).final = file[r].final /\ Joined(r).partial = file[r].partial
      BY <1>0 DEF Joined, FileInfo
    <3> QED BY <2>1, <3>1, <3>2
  <2>3. /\ c \in 1..n /\ partsInfo[r][c].id = Part(r) /\ (LastPart(r) => c = n)
        /\ n = Len(file[r].parts) /\ n \in Nat /\ file[r].parts \in Seq(Id)
    BY <1>0, PartKnown, AtPart, FileFields DEF LastPart, Inv, TypeOK
  <2>4. /\ data[i] \in Seq(Nat) /\ data[Part(r)] = Bytes(0, partsInfo[r][c].length)
        /\ data'[i] = Appended(data[i], data[Part(r)])
    <3>1. i \in Id /\ data[i] # None /\ data[i] \in Seq(Nat)
      BY <1>0, <1>1, AlonePost DEF TypeOK
    <3>2. Complete(partsInfo[r][c])
      BY <1>0, <2>3 DEF Composed
    <3> QED BY <1>0, <1>1, <1>2, <2>3, <3>1, <3>2 DEF Complete, CopyPart, Opened, TypeOK
  <2>5. Concatenates(data'[i], FirstParts(r, c))
    <3>1. Concatenates(data[i], FirstParts(r, c - 1))
      BY <1>0, <1>1 DEF Composed
    <3>2. /\ FirstParts(r, c - 1) \in Seq(Seq(Nat)) /\ data[Part(r)] \in Seq(Nat)
          /\ FirstParts(r, c) = Append(FirstParts(r, c - 1), data[Part(r)])
      BY <1>0, <2>3, <2>4, FirstNext DEF Inv
    <3> QED BY <2>4, <3>1, <3>2, ConcatAppend
  <2>6. ASSUME NEW k \in 1..n PROVE Complete(partsInfo[r][k])'
    <3>1. PICK p : p = partsInfo[r][k]
      OBVIOUS
    <3>2. Complete(p)
      BY <1>0, <2>6, <3>1 DEF Composed
    <3>3. Complete(p)'
      BY <1>0, <3>1, <3>2, CompleteKept
    <3> QED BY <1>0, <3>1, <3>3
  <2>7. [k \in 1..n |-> partsInfo[r][k].id] = file[r].parts
    <3>1. \A k \in 1..n : partsInfo[r][k].id = file[r].parts[k]
      BY <1>0 DEF Inv, IdsInv, PartsRead
    <3>2. PICK parts : parts = file[r].parts
      OBVIOUS
    <3>3. parts \in Seq(Id) /\ Len(parts) = n
      BY <2>3, <3>2
    <3>4. DOMAIN parts = 1..n /\ parts = [k \in DOMAIN parts |-> parts[k]]
      BY <3>3
    <3> QED BY <3>1, <3>2, <3>4
  <2>8. ~LastPart(r) => cursor'[r] - 1 = c
    BY <2>1, <2>3
  <2>9. Composed(r)'
    <3>1. CASE LastPart(r)
      BY <1>0, <1>1, <2>1, <2>2, <2>3, <2>5, <2>7, <3>1 DEF Composed, FirstParts
    <3>2. CASE ~LastPart(r)
      BY <1>0, <1>1, <2>1, <2>2, <2>5, <2>6, <2>8, <3>2 DEF Composed, FirstParts
    <3> QED BY <3>1, <3>2
  <2>10. OneKind(file'[r])
    BY <1>0, <2>2 DEF ConcatInv, OneKind
  <2> QED BY <1>0, <2>9, <2>10, ConcatStep DEF Proceed
<1>3. CASE data[Part(r)] = None
  BY <1>0, <1>3, RefusedConcat DEF CopyPart, Proceed
<1> QED BY <1>2, <1>3

(* A handler that takes its parts away leaves the data of its own upload. *)
LEMMA DropsComposed ==
  ASSUME ConcatInv, ExactInv', NEW r \in Req, Effect(r), Proceed(r),
         pc[r] \in {"dropFile", "dropInfo"}, pc'[r] \in {"dropFile", "dropInfo", "save"},
         UNCHANGED <<file, partsInfo, resp>>, data'[file[r].id] = data[file[r].id]
  PROVE  ConcatInv'
<1>1. resp[r] # "ok" /\ Composed(r)
  BY DEF ConcatInv, ExactInv, SerialInv, Attended
<1>2. Composed(r)'
  BY <1>1 DEF Composed, FirstParts
<1> QED BY <1>2, ConcatStep DEF ConcatInv

LEMMA DropFileConcat ==
  ASSUME ConcatInv, ExactInv', NEW r \in Req, DropFile(r)
  PROVE  ConcatInv'
<1>0. SerialInv /\ Inv /\ TypeOK /\ Effect(r) /\ Proceed(r) /\ pc[r] = "dropFile" /\ UNCHANGED <<file, partsInfo>>
  BY DropFileEffect DEF ConcatInv, ExactInv, SerialInv, Inv, TypeInv, Proceed, DropFile
<1>1. CASE data[Part(r)] # None
  <2>1. pc'[r] = "dropInfo" /\ resp' = resp
    BY <1>0, <1>1, CallMade DEF DropFile
  <2>2. data'[file[r].id] = data[file[r].id]
    <3>1. Part(r) # file[r].id /\ file[r].id \in Id
      BY <1>0, PartWanted, AtWork DEF Inv
    <3> QED BY <1>0, <1>1, <3>1 DEF DropFile, TypeOK
  <2> QED BY <1>0, <2>1, <2>2, DropsComposed
<1>2. CASE data[Part(r)] = None
  BY <1>0, <1>2, RefusedConcat DEF DropFile
<1> QED BY <1>1, <1>2

LEMMA DropInfoConcat ==
  ASSUME ConcatInv, ExactInv', NEW r \in Req, DropInfo(r)
  PROVE  ConcatInv'
<1>0. SerialInv /\ Effect(r) /\ Proceed(r) /\ pc[r] = "dropInfo" /\ UNCHANGED <<data, file, partsInfo>>
  BY DropInfoEffect DEF ConcatInv, ExactInv, Proceed, DropInfo
<1>1. CASE info[Part(r)] # None
  <2>1. pc'[r] \in {"dropFile", "save"} /\ resp' = resp
    BY <1>0, <1>1, CallMade DEF DropInfo
  <2> QED BY <1>0, <2>1, DropsComposed
<1>2. CASE info[Part(r)] = None
  BY <1>0, <1>2, RefusedConcat DEF DropInfo
<1> QED BY <1>1, <1>2

LEMMA SavesConcat ==
  ASSUME ConcatInv, ExactInv', NEW r \in Req, Effect(r), Proceed(r), pc[r] \in {"save", "saving"}, Saved(r),
         info' = [info EXCEPT ![file[r].id] = file[r]],
         UNCHANGED <<data, used, file, body, partsInfo, cursor, gone, delivered>>
  PROVE  ConcatInv'
<1>0. SerialInv /\ Inv /\ file[r].id \in Id /\ Composed(r) /\ resp[r] # "ok"
  BY SaversSave DEF ConcatInv, ExactInv, SerialInv, Saving, Attended
<1>1. pc'[r] = "done" /\ resp'[r] = "ok"
  BY <1>0, AnswerGiven DEF Saved
<1>2. Saves(r)
  BY <1>0, <1>1 DEF Saves, Inv, TypeInv, TypeOK
<1>3. file[r].final => Frozen(file[r].id)'
  BY <1>0, <1>2, FrozenSaved
<1>4. PICK i : i = file[r].id
  OBVIOUS
<1>5. file[r].final => Frozen(i)' /\ i = file'[r].id
  BY <1>3, <1>4
<1>6. Composed(r)'
  BY <1>0, <1>1, <1>4, <1>5 DEF Composed, FirstParts
<1> QED BY <1>6, ConcatStep DEF ConcatInv

LEMMA SaveInfoConcat ==
  ASSUME ConcatInv, ExactInv', NEW r \in Req, SaveInfo(r)
  PROVE  ConcatInv'
BY SavesConcat, SaveInfoEffect DEF SaveInfo, Proceed, ConcatInv, ExactInv

LEMMA OpenInfoConcat ==
  ASSUME ConcatInv, ExactInv', NEW r \in Req, OpenInfo(r)
  PROVE  ConcatInv'
<1>0. SerialInv /\ TypeOK /\ Effect(r) /\ Proceed(r) /\ pc[r] = "save" /\ UNCHANGED <<data, file, partsInfo>>
  BY OpenInfoEffect DEF ConcatInv, ExactInv, SerialInv, Inv, TypeInv, Proceed, OpenInfo
<1>1. CASE Openable(r)
  <2>1. pc'[r] = "saving" /\ resp' = resp /\ resp[r] # "ok" /\ Composed(r)
    BY <1>0, <1>1 DEF OpenInfo, TypeOK, ConcatInv, SerialInv, Attended
  <2>2. Composed(r)'
    BY <1>0, <2>1 DEF Composed, FirstParts
  <2> QED BY <1>0, <2>2, ConcatStep DEF ConcatInv
<1>2. CASE ~Openable(r)
  BY <1>0, <1>2, RefusedConcat DEF OpenInfo
<1> QED BY <1>1, <1>2

LEMMA WriteInfoConcat ==
  ASSUME ConcatInv, ExactInv', NEW r \in Req, WriteInfo(r)
  PROVE  ConcatInv'
<1> DEFINE i == file[r].id
<1>0. SerialInv /\ pc[r] = "saving" /\ Works(r) /\ Effect(r) /\ Proceed(r)
  BY SaversSave, WriteInfoEffect DEF WriteInfo, Proceed, ConcatInv, ExactInv, SerialInv
<1>1. info[i] = Empty
  BY <1>0 DEF SerialInv, Current
<1>2. Written(i, file[r]) = {file[r]}
  BY <1>1, TornAssumption DEF Written, Torn
<1> QED BY <1>0, <1>2, SavesConcat DEF WriteInfo

(* DELETE and GET have no upload of their own. *)
LEMMA OtherConcat ==
  ASSUME ConcatInv, ExactInv', NEW r \in Req, RemoveInfo(r) \/ RemoveFile(r) \/ GetContents(r)
  PROVE  ConcatInv'
<1>0. SerialInv /\ Effect(r) /\ Proceed(r) /\ file' = file
  BY RemoveInfoEffect, RemoveFileEffect, GetContentsEffect
  DEF ConcatInv, ExactInv, Proceed, RemoveInfo, RemoveFile, GetContents
<1>1. Method[r] # "POST"
  BY <1>0 DEF RemoveInfo, RemoveFile, GetContents, SerialInv, Inv, TypeInv, LocalsOK
<1>2. Composed(r)'
  BY <1>1, EndedComposed
<1> QED BY <1>0, <1>2, ConcatStep DEF ConcatInv

LEMMA ProceedConcat ==
  ASSUME ConcatInv, ExactInv', NEW r \in Req, Proceed(r)
  PROVE  ConcatInv'
BY CreateConcat, ReadPartConcat, CopyPartConcat, DropFileConcat, DropInfoConcat, AddBytesConcat,
   SaveInfoConcat, OpenInfoConcat, WriteInfoConcat, OtherConcat
DEF Proceed

LEMMA InterfereConcat ==
  ASSUME NothingFails, ConcatInv, ExactInv', NEW r \in Req, Interfere(r)
  PROVE  ConcatInv'
<1>1. HookRefused(r)
  BY DEF Interfere, NothingFails, Disconnect, Fault, RedisAnswerLost
<1>2. Effect(r)
  BY <1>1, RefusedEffect DEF HookRefused, ConcatInv, ExactInv
<1> QED BY <1>1, <1>2, RefusedConcat DEF HookRefused

LEMMA BackgroundConcat ==
  ASSUME ConcatInv, ExactInv', UNCHANGED <<stores, used, handlers>>
  PROVE  ConcatInv'
<1> USE DEF stores, handlers
<1>1. ASSUME NEW r \in Req PROVE Composed(r)' /\ (file'[r] # None => OneKind(file'[r]))
  <2>1. \A i : (Frozen(i)' <=> Frozen(i)) /\ (Removing(i)' <=> Removing(i))
    BY DEF Frozen, Saving, Finished, Removing, PartIds
  <2>2. \A p : Complete(p)' <=> Complete(p)
    BY <2>1 DEF Complete
  <2>3. Composed(r) /\ (file[r] # None => OneKind(file[r]))
    BY DEF ConcatInv
  <2>4. Composed(r)'
    BY <2>1, <2>2, <2>3 DEF Composed, FirstParts
  <2> QED BY <2>3, <2>4
<1>2. ASSUME NEW i \in Id, Readable(i)' PROVE OneKind(info'[i])
  BY <1>2 DEF ConcatInv
<1> QED BY <1>1, <1>2 DEF ConcatInv

(* ConcatInv is inductive. *)
LEMMA NextConcatInv == NothingFails /\ ConcatInv /\ [Next]_vars => ConcatInv'
<1> SUFFICES ASSUME NothingFails, ConcatInv, [Next]_vars PROVE ConcatInv'
  OBVIOUS
<1>1. ExactInv'
  BY NextExactInv DEF ConcatInv
<1>2. ASSUME NEW h \in hooks, Send(h) \/ SendFails(h) PROVE ConcatInv'
  BY <1>1, <1>2, BackgroundConcat DEF Send, SendFails
<1>3. CASE UNCHANGED vars
  BY <1>1, <1>3, BackgroundConcat DEF vars, stores, handlers
<1>4. ~Crash
  BY DEF Crash, NothingFails
<1> QED BY <1>1, <1>2, <1>3, <1>4, ArriveConcat, ProceedConcat, InterfereConcat DEF Next, Quiet

LEMMA InitConcatInv == Init => ConcatInv
<1> SUFFICES ASSUME Init PROVE ConcatInv
  OBVIOUS
<1>1. ASSUME NEW i \in Id, Readable(i) PROVE OneKind(info[i])
  BY <1>1 DEF Init, ForeignInfo, OneKind
<1>2. ASSUME NEW r \in Req PROVE file[r] = None
  BY DEF Init
<1> QED BY <1>1, <1>2, InitExactInv DEF ConcatInv, Composed

(* The data of a final upload is the concatenation of the complete data of the *)
(* parts the client named, in that order, until the upload is removed: for any *)
(* number of parts, parts named twice, and with or without remove_parts.       *)
THEOREM FinalIsJoined ==
  ASSUME NothingFails
  PROVE  Spec => []FinalIsConcatenation
<1>1. ConcatInv /\ [Next]_vars => ConcatInv'
  BY NextConcatInv
<1>2. ConcatInv => FinalIsConcatenation
  <2> SUFFICES ASSUME ConcatInv, NEW r \in Req, Method[r] = "POST", resp[r] = "ok", file[r].final
               PROVE  /\ [k \in DOMAIN partsInfo[r] |-> partsInfo[r][k].id] = file[r].parts
                      /\ \/ Removing(file[r].id)
                         \/ Concatenates(data[file[r].id], FirstParts(r, Len(partsInfo[r])))
    BY DEF FinalIsConcatenation
  <2>0. SerialInv /\ Inv
    BY DEF ConcatInv, ExactInv, SerialInv
  <2>1. DOMAIN partsInfo[r] = 1..Len(partsInfo[r])
    BY <2>0 DEF Inv, TypeInv, TypeOK
  <2>2. file[r] # None
    BY <2>0 DEF SerialInv, Acked
  <2> QED BY <2>1, <2>2 DEF ConcatInv, Composed
<1> QED BY <1>1, <1>2, InitConcatInv, PTL DEF Spec
=============================================================================

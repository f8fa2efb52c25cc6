------------------------- MODULE UploadSerialProofs -------------------------
(***************************************************************************)
(* What the handlers promise clients that send one modifying request for   *)
(* an upload at a time and wait for its answer (Env without "parallel" and *)
(* "disconnect"), for every set of ids and requests, every configuration,  *)
(* and although calls fail and the server is restarted: a complete upload  *)
(* does not change, a length does not change, an acknowledged offset is    *)
(* kept, and an upload is announced as finished at most once.              *)
(*                                                                         *)
(* All of it rests on two facts about the handlers between two awaits.     *)
(* Alone: no two of them work on one upload.  Current: what a handler read *)
(* before its first await is still what the info storage holds.            *)
(***************************************************************************)
EXTENDS UploadSafetyProofs

ClientsWait == "parallel" \notin Env /\ "disconnect" \notin Env

(* No handler loses its client, and it is answered when it ends. *)
Attended(r) ==
  /\ ~gone[r]
  /\ resp[r] # "none" => pc[r] = "done"
  /\ pc[r] = "idle" => file[r] = None

Works(r) == InFlight(r) /\ Modifying(r)
Saving(r, i) == InFlight(r) /\ Method[r] \in {"POST", "PATCH"} /\ file[r].id = i

(* Two handlers at work modify different uploads, and take different parts. *)
Alone(q, r) ==
  q # r /\ Works(q) /\ Works(r) =>
    /\ file[q].id # file[r].id
    /\ Method[q] = "POST" /\ Method[r] # "POST" => file[r].id \notin PartIds(file[q])
    /\ Method[q] = "POST" /\ Method[r] = "POST" => PartIds(file[q]) \cap PartIds(file[r]) = {}

(* The upload of a handler is as it was when the handler read it. *)
Current(r) ==
  Works(r) =>
    LET i == file[r].id
    IN /\ pc[r] = "saving" => info[i] = Empty /\ InfoKind = "file"
       /\ Method[r] = "POST" /\ pc[r] # "saving" => info[i] = None
       /\ Method[r] = "PATCH" => ~file[r].final
       /\ Method[r] = "PATCH" /\ pc[r] # "saving" =>
            /\ Visible(i) /\ ~info[i].final /\ ~Finished(info[i])
            /\ info[i].length \in {None, file[r].length}
            /\ info[i].offset <= file[r].offset
       /\ pc[r] = "write" /\ Method[r] = "PATCH" => info[i].offset = file[r].offset
       /\ pc[r] = "removeInfo" => info[i] = file[r]

TornKind == \A i \in Id : info[i] \in Torn => InfoKind = "file"

(* Data files are removed only for clients. *)
Present == \A i \in Id \ Foreign : info[i] # None => data[i] # None \/ Removing(i)

(* The first n bytes of i are recorded, or the info file is torn. *)
Kept(i, n) ==
  /\ data[i] # None /\ Len(data[i]) >= n
  /\ info[i] \in Torn \/ (Readable(i) /\ info[i].offset >= n)
  /\ \A q \in Req : pc[q] = "saving" /\ file[q].id = i => file[q].offset >= n
Acked(r) ==
  Method[r] \in {"POST", "PATCH"} /\ resp[r] = "ok" =>
    file[r] # None /\ (Removing(file[r].id) \/ Kept(file[r].id, file[r].offset))

(* Nobody changes the upload i any more, except by removing it. *)
Frozen(i) ==
  /\ i \in used
  /\ Readable(i) => info[i].final \/ Finished(info[i])
  /\ \A r \in Req : ~Saving(r, i)

Told == hooks \cup delivered
FinishInv ==
  /\ \A h \in Told : h.hook = "post-finish" => Frozen(h.id)
  /\ FinishedOnce

SerialInv ==
  /\ Inv
  /\ \A r \in Req : Attended(r) /\ Current(r) /\ Acked(r)
  /\ \A q, r \in Req : Alone(q, r)
  /\ TornKind
  /\ Present
  /\ FinishInv

USE DEF InFlight, Readable, Unreadable

(* How one step treats a handler. *)
Rests(q) == pc'[q] = pc[q] /\ file'[q] = file[q] /\ resp'[q] = resp[q]
Ends(q) ==
  /\ pc[q] # "done" /\ pc'[q] = "done" /\ file'[q] = file[q]
  /\ resp'[q] = "ok" => Method[q] \notin {"POST", "PATCH"}
Starts(q) ==
  /\ pc[q] = "idle" /\ UNCHANGED stores
  /\ \/ \E i \in Id, m \in PostMsg : PostAccepted(q, i, m)
     \/ \E i \in Id, m \in PatchMsg : PatchAccepted(q, i, m)
     \/ \E i \in Id : DeleteAccepted(q, i)
     \/ ~Modifying(q) /\ pc'[q] \in {"read", "done"}
GoesOn(q) ==
  /\ InFlight(q) /\ InFlight(q)' /\ resp'[q] = resp[q] /\ pc[q] # "saving"
  /\ file'[q] # None /\ file'[q].id = file[q].id /\ file'[q].parts = file[q].parts
  /\ file'[q].final = file[q].final /\ file'[q].offset >= file[q].offset
  /\ Method[q] = "PATCH" => pc'[q] # "write" /\ file'[q].length = file[q].length
  /\ pc'[q] # "removeInfo"
  /\ pc'[q] = "saving" => /\ pc[q] = "save" /\ file'[q] = file[q]
                          /\ InfoKind = "file" /\ info'[file[q].id] = Empty
  /\ pc'[q] \notin {"saving", "removeFile"} => info'[file[q].id] = info[file[q].id]
Saves(q) ==
  /\ pc[q] \in {"save", "saving"} /\ pc'[q] = "done" /\ resp'[q] = "ok" /\ file'[q] = file[q]
  /\ info'[file[q].id] = file[q] /\ UNCHANGED data
Acts(r) == r \in Req /\ (Starts(r) \/ GoesOn(r) \/ Saves(r))

(* How one step of the handler r treats an upload. *)
InfoStep(r, i) ==
  \/ info'[i] = info[i]
  \/ /\ r \in Req /\ pc'[r] # pc[r] /\ pc[r] \in {"save", "saving"} /\ file[r].id = i
     /\ info'[i] = file[r] \/ (info'[i] \in Torn /\ InfoKind = "file")
  \/ /\ info'[i] = None /\ Removing(i)
     /\ r \in Req /\ pc'[r] # pc[r]
     /\ \/ pc[r] = "removeInfo" /\ file[r].id = i
        \/ pc[r] = "dropInfo" /\ Part(r) = i
DataStep(r, i) ==
  \/ data'[i] = data[i]
  \/ /\ data'[i] = None /\ Removing(i)
     /\ r \in Req
     /\ \/ pc[r] = "removeFile" /\ file[r].id = i
        \/ pc[r] = "dropFile" /\ Part(r) = i
  \/ /\ r \in Req /\ Saving(r, i) /\ data'[i] # None
     /\ pc[r] = "create" \/ Grows(i)

HookStep(r) ==
  \A h \in Told' :
    \/ h \in Told
    \/ h.hook = "post-finish" =>
         /\ r \in Req /\ Saves(r) /\ h = [hook |-> "post-finish", id |-> file[r].id, req |-> r]
         /\ Finished(file[r]) \/ (Method[r] = "POST" /\ file[r].final)

(* At most one handler, r, does anything but end. *)
Effect(r) ==
  /\ \A q \in Req : Rests(q) \/ Ends(q) \/ (q = r /\ Acts(r))
  /\ used \subseteq used'
  /\ \A i \in Id : InfoStep(r, i) /\ DataStep(r, i)
  /\ HookStep(r)
  /\ \A q \in Req : ~gone'[q] /\ (resp'[q] # "none" => pc'[q] = "done")
-----------------------------------------------------------------------------
(* What PATCH starts with: an unfinished upload that nobody else works on. *)
LEMMA PatchStarts ==
  ASSUME Inv, NEW r \in Req, NEW i \in Id, NEW m \in PatchMsg, PatchAccepted(r, i, m)
  PROVE  /\ pc[r] = "idle" /\ pc'[r] = "write" /\ Method[r] = "PATCH"
         /\ file'[r] # None /\ file'[r].id = i /\ file'[r].parts = info[i].parts
         /\ file'[r].final = info[i].final /\ ~info[i].final /\ file'[r].offset = info[i].offset
         /\ Visible(i) /\ ~Finished(info[i]) /\ info[i].length \in {None, file'[r].length}
         /\ info[i].offset \in Nat /\ Undisturbed({i}) /\ UNCHANGED used
<1> USE DEF PatchAccepted, PatchAdmissible, Begins
<1>1. info[i] \in FileInfo /\ info[i].id = i /\ info[i].offset \in Nat
  BY FileFields DEF Visible, Inv, TypeInv, TypeOK, IdsInv, UsedInv
<1>2. /\ pc'[r] = "write" /\ file'[r] = Resized(info[i], m)
  BY DEF Inv, TypeInv, TypeOK
<1>3. \A f \in FileInfo : /\ Resized(f, m).id = f.id /\ Resized(f, m).parts = f.parts
                          /\ Resized(f, m).final = f.final /\ Resized(f, m).offset = f.offset
                          /\ NewLength(m) = None => Resized(f, m) = f
                          /\ Resized(f, m) # None
  <2>1. \A f \in FileInfo : Resized(f, m) # None
    BY ResizedType, FileFields
  <2>2. \A f \in FileInfo : /\ Resized(f, m).id = f.id /\ Resized(f, m).parts = f.parts
                            /\ Resized(f, m).final = f.final /\ Resized(f, m).offset = f.offset
                            /\ NewLength(m) = None => Resized(f, m) = f
    BY DEF Resized, FileInfo
  <2> QED BY <2>1, <2>2
<1>4. ~Finished(info[i]) /\ info[i].length \in {None, file'[r].length}
  BY <1>1, <1>2, <1>3, NoneAssumption DEF Finished
<1> QED BY <1>1, <1>2, <1>3, <1>4

(* PATCH works on the upload its URL names. *)
LEMMA PatchedId ==
  ASSUME Inv, NEW r \in Req, NEW i \in Id, NEW m \in PatchMsg, PatchAccepted(r, i, m)
  PROVE  file'[r].id = i
BY PatchStarts, ZenonT(40)

(* What DELETE starts with. *)
LEMMA DeleteStarts ==
  ASSUME Inv, NEW r \in Req, NEW i \in Id, DeleteAccepted(r, i)
  PROVE  /\ pc[r] = "idle" /\ pc'[r] = "removeInfo" /\ Method[r] = "DELETE"
         /\ file'[r] # None /\ file'[r].id = i /\ file'[r] = info[i]
         /\ Undisturbed({i}) /\ UNCHANGED used
<1>1. info[i] \in FileInfo /\ info[i].id = i /\ info[i] # None
  BY FileFields DEF DeleteAccepted, Visible, Inv, TypeInv, TypeOK, IdsInv, UsedInv
<1> QED BY <1>1 DEF DeleteAccepted, Begins, Inv, TypeInv, TypeOK

(* What POST starts with: an id nobody has seen, and parts nobody works on. *)
LEMMA PostStarts ==
  ASSUME Inv, NEW r \in Req, NEW i \in Id, NEW m \in PostMsg, PostAccepted(r, i, m)
  PROVE  /\ pc[r] = "idle" /\ pc'[r] = "create" /\ Method[r] = "POST"
         /\ file'[r] # None /\ file'[r].id = i
         /\ Undisturbed(PartIds(file'[r])) /\ i \notin used /\ info[i] = None
         /\ \A q \in Req : file[q] # None => file[q].id # i
<1>1. NewFileInfo(i, m) # None /\ NewFileInfo(i, m).id = i
  BY NewFileInfoType, FileFields DEF NewFileInfo
<1>2. info[i] = None /\ \A q \in Req : file[q] # None => file[q].id # i
  BY DEF PostAccepted, Inv, IdsInv, UsedInv
<1> QED BY <1>1, <1>2 DEF PostAccepted, Begins, Inv, TypeInv, TypeOK

(* A handler that is at work after a step was at work before, on the same upload, *)
(* or it is the one that starts.                                                  *)
LEMMA AtWorkBefore ==
  ASSUME SerialInv, NEW r, Effect(r), NEW q \in Req, InFlight(q)'
  PROVE  \/ /\ InFlight(q) /\ file[q] # None /\ file'[q] # None
            /\ file'[q].id = file[q].id /\ file'[q].parts = file[q].parts
            /\ Rests(q) \/ (q = r /\ GoesOn(r))
         \/ q = r /\ Starts(r)
<1>1. Rests(q) \/ (q = r /\ (Starts(r) \/ GoesOn(r)))
  BY DEF Effect, Acts, Ends, Saves
<1>2. InFlight(q) => file[q] # None
  BY DEF SerialInv, Inv, TypeInv, LocalsOK
<1> QED BY <1>1, <1>2 DEF Rests, GoesOn

(* A handler that names an upload names it for ever. *)
LEMMA NamedForEver ==
  ASSUME SerialInv, NEW r, Effect(r), NEW q \in Req, file[q] # None
  PROVE  file'[q] # None /\ file'[q].id = file[q].id /\ file'[q].parts = file[q].parts
<1>1. pc[q] # "idle"
  BY DEF SerialInv, Attended
<1> QED BY <1>1 DEF Effect, Rests, Ends, Acts, Starts, GoesOn, Saves

(* So a client that wants an upload removed wants it for ever. *)
LEMMA RemovingForEver ==
  ASSUME SerialInv, NEW r, Effect(r), NEW i \in Id, Removing(i)
  PROVE  Removing(i)'
<1>1. PICK q \in Req : /\ file[q] # None
                       /\ \/ Method[q] = "DELETE" /\ file[q].id = i
                          \/ RemoveParts /\ i \in PartIds(file[q])
  BY DEF Removing
<1>2. file'[q] # None /\ file'[q].id = file[q].id /\ file'[q].parts = file[q].parts
  BY <1>1, NamedForEver
<1>3. PartIds(file'[q]) = PartIds(file[q])
  BY <1>2 DEF PartIds
<1> QED BY <1>1, <1>2, <1>3 DEF Removing

(* Handlers stay attended. *)
LEMMA AttendedKept ==
  ASSUME SerialInv, NEW r, Effect(r), NEW q \in Req
  PROVE  Attended(q)'
<1>1. ~gone'[q] /\ (resp'[q] # "none" => pc'[q] = "done")
  BY DEF Effect
<1>2. ASSUME pc'[q] = "idle" PROVE file'[q] = None
  <2>1. CASE Rests(q)
    BY <1>2, <2>1 DEF SerialInv, Attended, Rests
  <2>2. CASE q = r /\ Starts(r)
    BY <1>2, <2>2, PostStarts, PatchStarts, DeleteStarts DEF Starts, SerialInv
  <2> QED BY <1>2, <2>1, <2>2 DEF Effect, Acts, Ends, GoesOn, Saves
<1> QED BY <1>1, <1>2 DEF Attended

(* A handler starts to work on an upload, and takes parts, that no other works on. *)
LEMMA AloneKept ==
  ASSUME ClientsWait, SerialInv, NEW r, Effect(r), NEW p \in Req, NEW q \in Req
  PROVE  Alone(p, q)'
<1> DEFINE Disjoint(f, x, g, y) ==
             /\ f.id # g.id
             /\ Method[x] = "POST" /\ Method[y] # "POST" => g.id \notin PartIds(f)
             /\ Method[x] = "POST" /\ Method[y] = "POST" => PartIds(f) \cap PartIds(g) = {}
<1>1. ASSUME NEW x \in Req, Works(x), NEW y \in Req, Starts(y), Modifying(y), x # y
      PROVE  Disjoint(file[x], x, file'[y], y) /\ Disjoint(file'[y], y, file[x], x)
  <2>1. InFlight(x) /\ ~gone[x] /\ Modifying(x) /\ file[x] # None
    BY <1>1 DEF Works, SerialInv, Attended, Inv, TypeInv, LocalsOK
  <2>2. ASSUME NEW ids, Undisturbed(ids) PROVE file[x].id \notin ids /\ PartIds(file[x]) \cap ids = {}
    BY <2>1, <2>2 DEF Undisturbed, ClientsWait
  <2>6. ASSUME NEW i \in Id, Undisturbed({i}) PROVE file[x].id # i /\ i \notin PartIds(file[x])
    BY <2>2, <2>6
  <2>3. ASSUME NEW i \in Id, NEW m \in PostMsg, PostAccepted(y, i, m)
        PROVE  Disjoint(file[x], x, file'[y], y) /\ Disjoint(file'[y], y, file[x], x)
    <3>1. /\ file'[y].id # file[x].id /\ Undisturbed(PartIds(file'[y])) /\ Method[y] = "POST"
      BY <2>1, <2>3, PostStarts DEF SerialInv
    <3>2. file[x].id \notin PartIds(file'[y]) /\ PartIds(file[x]) \cap PartIds(file'[y]) = {}
      BY <2>2, <3>1
    <3> QED BY <3>1, <3>2
  <2>4. ASSUME NEW i \in Id, NEW m \in PatchMsg, PatchAccepted(y, i, m)
        PROVE  Disjoint(file[x], x, file'[y], y) /\ Disjoint(file'[y], y, file[x], x)
    <3>0. Inv
      BY DEF SerialInv
    <3>1. file'[y].id = i /\ Undisturbed({i}) /\ Method[y] = "PATCH"
      <4>1. Undisturbed({i}) /\ Method[y] = "PATCH"
        BY <2>4 DEF PatchAccepted, Begins
      <4>2. file'[y].id = i
        BY <2>4, <3>0, PatchedId, ZenonT(40)
      <4> QED BY <4>1, <4>2
    <3> QED BY <2>6, <3>1
  <2>5. ASSUME NEW i \in Id, DeleteAccepted(y, i)
        PROVE  Disjoint(file[x], x, file'[y], y) /\ Disjoint(file'[y], y, file[x], x)
    <3>1. file'[y].id = i /\ Undisturbed({i}) /\ Method[y] = "DELETE"
      BY <2>5, DeleteStarts DEF SerialInv
    <3> QED BY <2>6, <3>1
  <2> QED BY <1>1, <2>3, <2>4, <2>5 DEF Starts
<1>2. SUFFICES ASSUME p # q, Works(p)', Works(q)' PROVE Disjoint(file'[p], p, file'[q], q)
  BY DEF Alone
<1>3. ASSUME NEW x \in Req, Works(x)'
      PROVE  \/ Works(x) /\ file'[x].id = file[x].id /\ PartIds(file'[x]) = PartIds(file[x])
             \/ x = r /\ Starts(r) /\ Modifying(x)
  BY <1>3, AtWorkBefore DEF Works, Modifying, PartIds
<1>4. CASE Works(p) /\ Works(q) /\ p # r /\ q # r
  BY <1>2, <1>3, <1>4 DEF SerialInv, Alone
<1> QED BY <1>1, <1>2, <1>3, <1>4 DEF SerialInv, Alone

(* The part a final upload is at is one it names. *)
LEMMA PartNamed ==
  ASSUME Inv, NEW r \in Req, Joining(r)
  PROVE  Part(r) \in PartIds(file[r]) /\ Works(r) /\ Method[r] = "POST"
<1>1. cursor[r] \in 1..Len(file[r].parts) /\ file[r].parts \in Seq(Id) /\ Method[r] = "POST"
  BY AtWork DEF Joining, Inv, TypeInv, TypeOK, LocalsOK
<1>2. cursor[r] \in DOMAIN file[r].parts
  BY <1>1
<1> QED BY <1>1, <1>2 DEF PartIds, Part, Works, Joining, Modifying

(* Nobody touches the info of an upload that another handler works on. *)
LEMMA InfoLeftAlone ==
  ASSUME SerialInv, NEW r, Effect(r), NEW q \in Req, Works(q), Rests(q)
  PROVE  file[q].id \in Id /\ info'[file[q].id] = info[file[q].id]
<1> DEFINE i == file[q].id
<1>1. i \in Id /\ InfoStep(r, i)
  BY AtWork DEF SerialInv, Inv, Works, Effect
<1> SUFFICES ASSUME r \in Req, q # r, info'[i] # info[i] PROVE FALSE
  BY <1>1 DEF InfoStep, Rests
<1>2. CASE pc[r] \in {"save", "saving", "removeInfo"} /\ file[r].id = i
  <2>1. Works(r)
    BY <1>2 DEF Works, Modifying, SerialInv, Inv, TypeInv, LocalsOK
  <2> QED BY <1>2, <2>1 DEF SerialInv, Alone
<1>3. CASE pc[r] = "dropInfo" /\ Part(r) = i
  <2>1. Works(r) /\ Method[r] = "POST" /\ i \in PartIds(file[r])
    BY <1>3, PartNamed DEF SerialInv, Joining
  <2>2. Method[q] # "POST"
    BY <1>3, PartKnown, AlonePost DEF SerialInv, Joining, Works
  <2> QED BY <2>1, <2>2 DEF SerialInv, Alone
<1> QED BY <1>1, <1>2, <1>3 DEF InfoStep

(* What the handlers read stays current. *)
LEMMA CurrentKept ==
  ASSUME SerialInv, Inv', NEW r, Effect(r), NEW q \in Req
  PROVE  Current(q)'
<1> SUFFICES ASSUME Works(q)' PROVE Current(q)'
  BY DEF Current
<1>1. CASE Works(q) /\ Rests(q)
  BY <1>1, InfoLeftAlone DEF SerialInv, Current, Rests, Visible
<1>0. Inv
  BY DEF SerialInv
<1>9. Starts(r) => info' = info
  BY DEF Starts, stores
<1>2. CASE q = r /\ Starts(r)
  <2>1. ASSUME NEW i \in Id, NEW m \in PostMsg, PostAccepted(r, i, m) PROVE Current(q)'
    <3>1. /\ pc'[q] = "create" /\ Method[q] = "POST" /\ file'[q].id = i /\ info[i] = None
      BY <1>2, <2>1, PostStarts DEF SerialInv
    <3> QED BY <1>2, <1>9, <3>1 DEF Current
  <2>2. ASSUME NEW i \in Id, NEW m \in PatchMsg, PatchAccepted(r, i, m) PROVE Current(q)'
    <3>1. /\ pc'[q] = "write" /\ Method[q] = "PATCH" /\ file'[q].id = i
          /\ file'[q].final = info[i].final /\ ~info[i].final /\ file'[q].offset = info[i].offset
          /\ Visible(i) /\ ~Finished(info[i]) /\ info[i].length \in {None, file'[q].length}
          /\ info[i].offset \in Nat
      BY <1>0, <1>2, <2>2, PatchStarts, ZenonT(40)
    <3>2. info[i].offset <= file'[q].offset
      BY <3>1
    <3>3. Visible(i)'
      BY <1>2, <1>9, <3>1 DEF Visible
    <3> QED BY <1>2, <1>9, <3>1, <3>2, <3>3 DEF Current
  <2>3. ASSUME NEW i \in Id, DeleteAccepted(r, i) PROVE Current(q)'
    <3>1. /\ pc'[q] = "removeInfo" /\ Method[q] = "DELETE" /\ file'[q].id = i /\ file'[q] = info[i]
      BY <1>2, <2>3, DeleteStarts DEF SerialInv
    <3> QED BY <1>2, <1>9, <3>1 DEF Current
  <2> QED BY <1>2, <2>1, <2>2, <2>3 DEF Starts, Works
<1>3. CASE q = r /\ GoesOn(r)
  <2> DEFINE i == file[r].id
  <2>1. /\ Works(r) /\ Current(r) /\ file'[r].id = i /\ i \in Id
        /\ file[r].offset \in Nat /\ file'[r].offset \in Nat
        /\ info[i] \in Unreadable \cup FileInfo
    <3>1. Works(r) /\ Current(r) /\ file'[r].id = i /\ file'[r] # None
      BY <1>3 DEF SerialInv, GoesOn, Works
    <3>2. i \in Id /\ file[r].offset \in Nat
      BY <1>3, <3>1, AtWork DEF SerialInv, Inv, Works
    <3>3. info[i] \in Unreadable \cup FileInfo
      BY <3>2 DEF SerialInv, Inv, TypeInv, TypeOK
    <3>4. file'[r] \in FileInfo
      BY <1>3, <3>1 DEF Inv, TypeInv, TypeOK
    <3> QED BY <3>1, <3>2, <3>3, <3>4, FileFields
  <2>2. /\ pc'[r] = "removeFile" => Method[r] = "DELETE"
        /\ pc'[r] \in {"write", "save", "saving"} => Method[r] \in {"POST", "PATCH"}
    BY <1>3 DEF Inv, TypeInv, LocalsOK
  <2>3. CASE pc'[r] = "saving"
    BY <1>3, <2>1, <2>3 DEF GoesOn, Current
  <2>4. CASE pc'[r] # "saving" /\ Method[r] = "POST"
    BY <1>3, <2>1, <2>2, <2>4 DEF GoesOn, Current
  <2>5. CASE pc'[r] # "saving" /\ Method[r] = "PATCH"
    <3>1. info'[i] = info[i] /\ pc[r] # "saving"
      BY <1>3, <2>2, <2>5 DEF GoesOn
    <3>2. /\ Visible(i) /\ ~info[i].final /\ ~Finished(info[i])
          /\ info[i].length \in {None, file[r].length} /\ info[i].offset <= file[r].offset
      BY <2>1, <2>5, <3>1 DEF Current
    <3>3. info[i].offset \in Nat
      <4>1. info[i] \in FileInfo
        BY <2>1, <3>2 DEF Visible
      <4> QED BY <4>1, FileFields
    <3>6. file[r].offset <= file'[r].offset
      BY <1>3 DEF GoesOn
    <3>4. info[i].offset <= file'[r].offset
      <4>1. \A a, b, c \in Nat : a <= b /\ b <= c => a <= c
        OBVIOUS
      <4> QED BY <2>1, <3>2, <3>3, <3>6, <4>1
    <3>5. ~file'[r].final /\ file'[r].length = file[r].length /\ pc'[r] \notin {"write", "removeInfo"}
      BY <1>3, <2>1, <2>5 DEF GoesOn, Current
    <3> QED BY <1>3, <2>1, <2>5, <3>1, <3>2, <3>4, <3>5 DEF Current, Visible
  <2>6. CASE Method[r] = "DELETE"
    BY <1>3, <2>1, <2>2, <2>6 DEF GoesOn, Current
  <2> QED BY <2>1, <2>3, <2>4, <2>5, <2>6 DEF Works, Modifying
<1>4. Works(q)' = (InFlight(q)' /\ Modifying(q))
  BY DEF Works, Modifying
<1> QED BY <1>1, <1>2, <1>3, <1>4, AtWorkBefore DEF Works

(* Torn infos are found in info files only. *)
LEMMA TornKindKept ==
  ASSUME SerialInv, NEW r, Effect(r)
  PROVE  TornKind'
<1> SUFFICES ASSUME NEW i \in Id, info'[i] \in Torn PROVE InfoKind = "file"
  BY DEF TornKind
<1>1. InfoStep(r, i)
  BY DEF Effect
<1>2. CASE info'[i] = info[i]
  BY <1>2 DEF SerialInv, TornKind
<1>3. ASSUME r \in Req, pc[r] \in {"save", "saving"}, info'[i] = file[r] PROVE FALSE
  BY <1>3, AtWork, FileFields DEF SerialInv, Inv
<1> QED BY <1>1, <1>2, <1>3, TornAssumption DEF InfoStep

(* A handler that is about to save, and its method. *)
LEMMA SaversSave ==
  ASSUME Inv, NEW r \in Req, pc[r] \in {"write", "save", "saving"}
  PROVE  Saving(r, file[r].id) /\ Works(r) /\ file[r].id \in Id /\ file[r] \in FileInfo
<1>1. Method[r] \in {"POST", "PATCH"}
  BY DEF Inv, TypeInv, LocalsOK
<1> QED BY <1>1, AtWork DEF Inv, Saving, Works, Modifying

(* Where there is an info there is a data file. *)
LEMMA PresentKept ==
  ASSUME SerialInv, NEW r, Effect(r)
  PROVE  Present'
<1> SUFFICES ASSUME NEW i \in Id \ Foreign, info'[i] # None, ~Removing(i)'
             PROVE  data'[i] # None
  BY DEF Present
<1>1. ~Removing(i) /\ InfoStep(r, i) /\ DataStep(r, i)
  BY RemovingForEver DEF Effect
<1>2. data[i] # None
  <2>1. CASE info'[i] = info[i]
    BY <1>1, <2>1 DEF SerialInv, Present
  <2>2. CASE r \in Req /\ pc[r] \in {"save", "saving"} /\ file[r].id = i
    <3>1. CASE Method[r] = "POST"
      BY <2>2, <3>1, AlonePost DEF SerialInv
    <3>2. CASE Method[r] # "POST"
      <4>1. Works(r) /\ Method[r] = "PATCH" /\ Current(r)
        BY <2>2, <3>2, SaversSave DEF SerialInv, Saving
      <4>2. info[i] # None
        BY <2>2, <4>1, TornAssumption, NoneAssumption DEF Current, Visible, Torn
      <4> QED BY <1>1, <4>2 DEF SerialInv, Present
    <3> QED BY <3>1, <3>2
  <2> QED BY <1>1, <2>1, <2>2 DEF InfoStep
<1> QED BY <1>1, <1>2 DEF DataStep

(* Nobody changes a frozen upload; somebody may remove it. *)
LEMMA FrozenKept ==
  ASSUME SerialInv, NEW r, Effect(r), NEW i \in Id, Frozen(i)
  PROVE  Frozen(i)' /\ info'[i] \in {info[i], None} /\ data'[i] \in {data[i], None}
<1>1. i \in used' /\ InfoStep(r, i) /\ DataStep(r, i)
  BY DEF Effect, Frozen
<1>2. info'[i] \in {info[i], None} /\ data'[i] \in {data[i], None}
  <2>1. r \in Req => ~Saving(r, i)
    BY DEF Frozen
  <2>2. r \in Req /\ pc[r] \in {"save", "saving"} => file[r].id # i
    BY <2>1, SaversSave DEF SerialInv
  <2> QED BY <1>1, <2>1, <2>2 DEF InfoStep, DataStep
<1>3. ASSUME NEW q \in Req, Saving(q, i)' PROVE FALSE
  <2>1. ~Saving(q, i)
    BY DEF Frozen
  <2>2. q = r /\ Starts(r) /\ Modifying(r)
    BY <1>3, <2>1, AtWorkBefore DEF Saving, Modifying
  <2>3. ASSUME NEW j \in Id, NEW m \in PostMsg, PostAccepted(r, j, m) PROVE FALSE
    BY <1>3, <2>2, <2>3, PostStarts DEF SerialInv, Saving, Frozen
  <2>4. ASSUME NEW j \in Id, NEW m \in PatchMsg, PatchAccepted(r, j, m) PROVE FALSE
    <3>1. Inv
      BY DEF SerialInv
    <3>2. file'[r].id = j /\ Visible(j) /\ ~info[j].final /\ ~Finished(info[j])
      BY <2>2, <2>4, <3>1, PatchStarts, ZenonT(40)
    <3> QED BY <1>3, <2>2, <3>2 DEF Saving, Frozen, Visible
  <2>5. ASSUME NEW j \in Id, DeleteAccepted(r, j) PROVE FALSE
    BY <1>3, <2>2, <2>5, DeleteStarts DEF SerialInv, Saving
  <2> QED BY <2>2, <2>3, <2>4, <2>5 DEF Starts
<1>4. Readable(i)' => info'[i].final \/ Finished(info'[i])
  BY <1>2 DEF Frozen
<1> QED BY <1>1, <1>2, <1>3, <1>4 DEF Frozen, Finished

(* set_info of a complete upload freezes it. *)
LEMMA FrozenSaved ==
  ASSUME SerialInv, NEW r \in Req, Effect(r), Saves(r), Finished(file[r]) \/ file[r].final
  PROVE  Frozen(file[r].id)'
<1> DEFINE i == file[r].id
<1>1. Works(r) /\ Saving(r, i) /\ i \in Id /\ file[r] # None
  BY SaversSave, FileFields DEF SerialInv, Saves
<1>2. i \in used'
  BY <1>1 DEF SerialInv, Inv, IdsInv, UsedInv, Effect
<1>3. info'[i].final \/ Finished(info'[i])
  BY DEF Saves
<1>4. ASSUME NEW q \in Req, Saving(q, i)' PROVE FALSE
  <2>0. InFlight(q)' /\ Method[q] \in {"POST", "PATCH"} /\ file'[q].id = i
    BY <1>4 DEF Saving, Saves
  <2>1. q # r /\ ~Starts(r)
    BY <2>0 DEF Saves, Starts
  <2>3. InFlight(q) /\ file'[q].id = file[q].id
    BY <2>0, <2>1, AtWorkBefore
  <2>2. InFlight(q) /\ file[q].id = i /\ Modifying(q)
    BY <2>0, <2>3 DEF Modifying
  <2> QED BY <1>1, <2>1, <2>2 DEF SerialInv, Alone, Works
<1> QED BY <1>2, <1>3, <1>4 DEF Frozen, Finished, Saves

(* An upload is announced as finished when it is frozen, and so only once. *)
LEMMA FinishKept ==
  ASSUME SerialInv, NEW r, Effect(r)
  PROVE  FinishInv'
<1> DEFINE New(h) == /\ r \in Req /\ Saves(r) /\ Saving(r, file[r].id) /\ h.id = file[r].id
                     /\ h = [hook |-> "post-finish", id |-> file[r].id, req |-> r]
                     /\ Frozen(file[r].id)'
<1>1. ASSUME NEW h \in Told, h.hook = "post-finish"
      PROVE  Frozen(h.id) /\ Frozen(h.id)' /\ ~(r \in Req /\ Saving(r, h.id))
  <2>1. h.id \in Id
    BY DEF Told, Hook, SerialInv, Inv, TypeInv, TypeOK
  <2>2. Frozen(h.id)
    BY <1>1 DEF SerialInv, FinishInv
  <2> QED BY <2>1, <2>2, FrozenKept DEF Frozen
<1>2. ASSUME NEW h \in Told', h.hook = "post-finish" PROVE h \in Told \/ New(h)
  <2> SUFFICES ASSUME h \notin Told PROVE New(h)
    OBVIOUS
  <2>1. /\ r \in Req /\ Saves(r) /\ h = [hook |-> "post-finish", id |-> file[r].id, req |-> r]
        /\ Finished(file[r]) \/ file[r].final
    BY <1>2 DEF Effect, HookStep
  <2>2. Saving(r, file[r].id)
    BY <2>1, SaversSave DEF Saves, SerialInv
  <2> QED BY <2>1, <2>2, FrozenSaved
<1>3. ASSUME NEW h \in Told', h.hook = "post-finish" PROVE Frozen(h.id)'
  <2>1. CASE h \in Told
    BY <1>1, <1>3, <2>1
  <2>2. CASE New(h)
    <3>1. Frozen(file[r].id)' /\ file'[r] = file[r] /\ h.id = file[r].id
      BY <2>2 DEF Saves
    <3> QED BY <3>1 DEF Frozen, Saving
  <2> QED BY <1>2, <1>3, <2>1, <2>2
<1>4. ASSUME NEW g \in Told', NEW h \in Told', g.hook = "post-finish", h.hook = "post-finish", g.id = h.id
      PROVE  g = h
  <2>1. CASE g \in Told /\ h \in Told
    BY <1>4, <2>1 DEF SerialInv, FinishInv, FinishedOnce, Told
  <2> QED BY <1>1, <1>2, <1>4, <2>1
<1> QED BY <1>3, <1>4 DEF FinishInv, FinishedOnce, Told

(* What is recorded stays recorded, unless a client wants the upload removed. *)
LEMMA KeptKept ==
  ASSUME SerialInv, Inv', NEW r, Effect(r), NEW i \in Id, NEW n \in Nat,
         Kept(i, n), ~Removing(i)'
  PROVE  Kept(i, n)'
<1>0. Inv /\ Inv' /\ InfoStep(r, i) /\ DataStep(r, i) /\ ~Removing(i)
  BY RemovingForEver DEF SerialInv, Effect
<1>1. data[i] \in Seq(Nat) /\ data'[i] \in Seq(Nat) \cup {None}
  BY <1>0 DEF Kept, Inv, TypeInv, TypeOK
<1>2. \A a, b \in Nat : a >= n /\ b >= a => b >= n
  OBVIOUS
<1>3. ASSUME NEW q \in Req, Works(q), pc[q] = "save", file[q].id = i
      PROVE  file[q].offset >= n
  <2>1. Method[q] \in {"POST", "PATCH"} /\ file[q].offset \in Nat /\ Current(q)
    BY <1>0, <1>3, SaversSave, FileFields DEF SerialInv, Saving
  <2>2. Method[q] = "PATCH"
    BY <1>3, <2>1, TornAssumption DEF Current, Kept
  <2>3. Visible(i) /\ info[i].offset <= file[q].offset
    BY <1>3, <2>2, <2>1 DEF Current
  <2>4. info[i] \in FileInfo
    BY <1>0, <2>3 DEF Visible, Inv, TypeInv, TypeOK
  <2>5. info[i].offset \in Nat /\ info[i].offset >= n
    BY <2>3, <2>4, FileFields DEF Visible, Kept
  <2> QED BY <2>1, <2>3, <2>5
<1>4. data'[i] # None /\ Len(data'[i]) >= n
  <2>1. CASE data'[i] = data[i]
    BY <2>1 DEF Kept
  <2>2. CASE r \in Req /\ Saving(r, i) /\ data'[i] # None /\ Grows(i)
    <3>1. Len(data[i]) \in Nat /\ Len(data'[i]) \in Nat /\ Len(data[i]) >= n /\ Len(data'[i]) >= Len(data[i])
      BY <1>1, <2>2 DEF Kept, Grows
    <3> QED BY <1>2, <2>2, <3>1
  <2>3. ~(r \in Req /\ Saving(r, i) /\ pc[r] = "create")
    <3> SUFFICES ASSUME r \in Req, Saving(r, i), pc[r] = "create" PROVE FALSE
      OBVIOUS
    <3>1. Method[r] = "POST"
      BY <1>0 DEF Inv, TypeInv, LocalsOK
    <3>2. info[i] = None
      BY <3>1 DEF SerialInv, Current, Works, Modifying, Saving
    <3> QED BY <3>2, TornAssumption DEF Kept
  <2> QED BY <1>0, <2>1, <2>2, <2>3 DEF DataStep
<1>5. info'[i] \in Torn \/ (Readable(i)' /\ info'[i].offset >= n)
  <2>1. CASE info'[i] = info[i]
    BY <2>1 DEF Kept
  <2>2. CASE r \in Req /\ pc[r] \in {"save", "saving"} /\ file[r].id = i /\ info'[i] = file[r]
    <3>1. Works(r) /\ file[r] \in FileInfo
      BY <1>0, <2>2, SaversSave
    <3>2. file[r].offset >= n
      BY <1>3, <2>2, <3>1 DEF Kept
    <3> QED BY <2>2, <3>1, <3>2, FileFields
  <2> QED BY <1>0, <2>1, <2>2 DEF InfoStep
<1>6. ASSUME NEW q \in Req, pc'[q] = "saving", file'[q].id = i PROVE file'[q].offset >= n
  <2>1. InFlight(q)' /\ ~Starts(q)
    BY <1>6 DEF Starts, PostAccepted, PatchAccepted, DeleteAccepted, SerialInv, Inv, TypeInv, TypeOK
  <2>2. CASE Rests(q)
    BY <1>6, <2>2 DEF Rests, Kept
  <2>3. CASE GoesOn(q)
    <3>1. pc[q] = "save" /\ file'[q] = file[q]
      BY <1>6, <2>3 DEF GoesOn
    <3>2. Works(q)
      BY <1>0, <3>1, SaversSave
    <3> QED BY <1>3, <1>6, <3>1, <3>2
  <2> QED BY <2>1, <2>2, <2>3, AtWorkBefore
<1> QED BY <1>4, <1>5, <1>6 DEF Kept

(* What set_info stores is recorded, and backed by data. *)
LEMMA KeptSaved ==
  ASSUME SerialInv, Inv', NEW r \in Req, Effect(r), Saves(r)
  PROVE  file'[r] # None /\ (Removing(file[r].id) \/ Kept(file[r].id, file[r].offset)')
<1> DEFINE i == file[r].id
           n == file[r].offset
<1>0. Inv /\ pc[r] \in {"save", "saving"}
  BY DEF SerialInv, Saves
<1>1. /\ Works(r) /\ Saving(r, i) /\ i \in Id /\ i \notin Foreign
      /\ file[r] \in FileInfo /\ file[r] # None /\ n \in Nat
  <2>1. Works(r) /\ Saving(r, i) /\ i \in Id /\ file[r] \in FileInfo
    BY <1>0, SaversSave
  <2>2. file[r] # None /\ n \in Nat
    BY <2>1, FileFields
  <2> QED BY <1>0, <2>1, <2>2 DEF Inv, IdsInv, UsedInv
<1>2. data[i] # None \/ Removing(i)
  <2>1. CASE Method[r] = "POST"
    BY <1>0, <1>1, <2>1, AlonePost DEF Saving
  <2>2. CASE Method[r] # "POST"
    <3>1. Current(r) /\ Method[r] = "PATCH"
      BY <1>1, <2>2 DEF SerialInv, Saving
    <3>2. info[i] # None
      BY <1>0, <1>1, <3>1, TornAssumption DEF Current, Visible, Torn
    <3> QED BY <1>1, <3>2 DEF SerialInv, Present
  <2> QED BY <2>1, <2>2
<1>3. data[i] # None => Len(data[i]) >= n
  BY <1>0 DEF Inv, CoverInv, Backed, Holds
<1>4. data'[i] = data[i] /\ Readable(i)' /\ info'[i] = file[r]
  BY <1>1, FileFields DEF Saves
<1>5. ASSUME NEW q \in Req, pc'[q] = "saving", file'[q].id = i PROVE FALSE
  <2>1. InFlight(q)' /\ q # r
    BY <1>5 DEF Saves
  <2>2. InFlight(q) /\ file'[q].id = file[q].id
    BY <2>1, AtWorkBefore DEF Saves, Starts
  <2>3. Modifying(q)
    BY <1>5 DEF Inv, TypeInv, LocalsOK, Modifying
  <2> QED BY <1>1, <1>5, <2>1, <2>2, <2>3 DEF SerialInv, Alone, Works
<1>6. info'[i].offset >= n
  BY <1>1, <1>4
<1> QED BY <1>1, <1>2, <1>3, <1>4, <1>5, <1>6 DEF Kept, Saves

(* Acknowledged offsets are kept. *)
LEMMA AckedKept ==
  ASSUME SerialInv, Inv', NEW r, Effect(r), NEW q \in Req
  PROVE  Acked(q)'
<1> SUFFICES ASSUME Method[q] \in {"POST", "PATCH"}, resp'[q] = "ok"
             PROVE  (file[q] # None /\ (Removing(file[q].id) \/ Kept(file[q].id, file[q].offset)))'
  BY DEF Acked
<1>1. CASE Rests(q)
  <2>1. /\ file'[q] = file[q] /\ file[q] # None
        /\ Removing(file[q].id) \/ Kept(file[q].id, file[q].offset)
    BY <1>1 DEF Rests, SerialInv, Acked
  <2>2. file[q].id \in Id /\ file[q].offset \in Nat
    BY <2>1, FileFields DEF SerialInv, Inv, TypeInv, TypeOK
  <2>3. ASSUME NEW i \in Id, i = file[q].id, NEW n \in Nat, n = file[q].offset
        PROVE  Removing(i)' \/ Kept(i, n)'
    BY <2>1, <2>3, RemovingForEver, KeptKept
  <2>4. PICK i \in Id, n \in Nat : i = file[q].id /\ n = file[q].offset
    BY <2>2
  <2>5. i = file'[q].id /\ n = file'[q].offset
    BY <2>1, <2>4
  <2>6. CASE Removing(i)'
    BY <2>1, <2>5, <2>6 DEF Removing
  <2>7. CASE Kept(i, n)'
    BY <2>1, <2>5, <2>7 DEF Kept
  <2> QED BY <2>3, <2>4, <2>6, <2>7
<1>2. CASE q = r /\ Saves(r)
  <2>1. /\ file'[r] = file[r] /\ file'[r] # None
        /\ Removing(file[r].id) \/ Kept(file[r].id, file[r].offset)'
    BY <1>2, KeptSaved DEF Saves
  <2>2. PICK i \in Id : i = file[r].id
    BY <1>2, SaversSave DEF Saves, SerialInv
  <2>3. CASE Removing(i)
    <3>1. Removing(i)'
      BY <2>3, RemovingForEver
    <3> QED BY <1>2, <2>1, <2>2, <3>1 DEF Removing
  <2> QED BY <1>2, <2>1, <2>2, <2>3
<1>3. pc'[q] = "done"
  BY DEF Effect
<1>4. ~Starts(q) /\ ~GoesOn(q)
  BY <1>3 DEF Starts, GoesOn, PostAccepted, PatchAccepted, DeleteAccepted, SerialInv, Inv, TypeInv, TypeOK, Modifying
<1> QED BY <1>1, <1>2, <1>4 DEF Effect, Acts, Ends

(* Every step that has an effect of this shape keeps the invariant. *)
LEMMA EffectSerialInv ==
  ASSUME ClientsWait, SerialInv, Inv', NEW r, Effect(r)
  PROVE  SerialInv'
BY AttendedKept, CurrentKept, AckedKept, AloneKept, TornKindKept, PresentKept, FinishKept DEF SerialInv

(* The empty server satisfies the invariant. *)
LEMMA InitSerialInv == Init => SerialInv
<1> SUFFICES ASSUME Init PROVE SerialInv
  OBVIOUS
<1>1. Inv
  BY InitInv
<1>2. ASSUME NEW r \in Req PROVE Attended(r) /\ Current(r) /\ Acked(r)
  BY DEF Init, Attended, Current, Works, Acked
<1>3. ASSUME NEW q \in Req, NEW r \in Req PROVE Alone(q, r)
  BY DEF Init, Alone, Works
<1>4. TornKind
  <2>1. ASSUME NEW i \in Id, info[i] \in Torn PROVE FALSE
    <3>1. i \in Foreign => ForeignInfo(i) \in FileInfo
      BY DEF ForeignInfo, FileInfo, Own, OtherStorage
    <3> QED BY <2>1, <3>1, TornAssumption DEF Init
  <2> QED BY <2>1 DEF TornKind
<1>5. Present
  BY DEF Init, Present
<1>6. FinishInv
  BY DEF Init, FinishInv, FinishedOnce, Told
<1> QED BY <1>1, <1>2, <1>3, <1>4, <1>5, <1>6 DEF SerialInv
-----------------------------------------------------------------------------
(* Every step has such an effect.  A handler that answers, or goes on, is attended. *)
LEMMA AnswerGiven ==
  ASSUME SerialInv, NEW r \in Req, NEW a, Answer(r, a)
  PROVE  /\ pc'[r] = "done" /\ resp'[r] = a
         /\ \A q \in Req \ {r} : pc'[q] = pc[q] /\ resp'[q] = resp[q]
BY DEF Answer, SerialInv, Attended, Inv, TypeInv, TypeOK

LEMMA CallMade ==
  ASSUME SerialInv, NEW r \in Req, NEW next, GoTo(r, next)
  PROVE  /\ pc'[r] = next
         /\ \A q \in Req \ {r} : pc'[q] = pc[q]
BY DEF GoTo, SerialInv, Attended, Inv, TypeInv, TypeOK

(* The stores a step leaves alone. *)
LEMMA StoresLeft ==
  ASSUME NEW r, UNCHANGED stores
  PROVE  \A i \in Id : InfoStep(r, i) /\ DataStep(r, i)
BY DEF stores, InfoStep, DataStep

(* The step of one handler. *)
LEMMA OneHandler ==
  ASSUME SerialInv, NEW r \in Req,
         \A q \in Req \ {r} : pc'[q] = pc[q] /\ file'[q] = file[q] /\ resp'[q] = resp[q],
         Ends(r) \/ Acts(r), resp'[r] # "none" => pc'[r] = "done",
         used \subseteq used', gone' = gone,
         \A i \in Id : InfoStep(r, i) /\ DataStep(r, i),
         HookStep(r)
  PROVE  Effect(r)
BY DEF Effect, Rests, SerialInv, Attended

(* A handler that ends without success has changed what Fault and the rest may change. *)
LEMMA ErrorEffect ==
  ASSUME SerialInv, NEW r \in Req, pc[r] # "done", Answer(r, "error"),
         UNCHANGED <<used, file, gone, telemetry>>,
         \A i \in Id : InfoStep(r, i) /\ DataStep(r, i)
  PROVE  Effect(r)
<1>1. /\ pc'[r] = "done" /\ resp'[r] = "error"
      /\ \A q \in Req \ {r} : pc'[q] = pc[q] /\ resp'[q] = resp[q]
  BY AnswerGiven
<1>2. Ends(r) /\ HookStep(r)
  BY <1>1 DEF Ends, HookStep, Told, telemetry
<1> QED BY <1>1, <1>2, OneHandler

(* A handler that stops at an error before it changed anything. *)
LEMMA RefusedEffect ==
  ASSUME SerialInv, NEW r \in Req, pc[r] # "done", Answer(r, "error"),
         UNCHANGED <<stores, used, file, gone, telemetry>>
  PROVE  Effect(r)
BY StoresLeft, ErrorEffect

(* A request that enters. *)
LEMMA StartEffect ==
  ASSUME SerialInv, NEW r \in Req, Starts(r),
         \A q \in Req \ {r} : pc'[q] = pc[q] /\ file'[q] = file[q] /\ resp'[q] = resp[q],
         resp'[r] # "none" => pc'[r] = "done",
         used \subseteq used', UNCHANGED <<gone, telemetry>>
  PROVE  Effect(r)
<1>1. HookStep(r) /\ \A i \in Id : InfoStep(r, i) /\ DataStep(r, i)
  BY StoresLeft DEF HookStep, Told, telemetry, Starts
<1> QED BY <1>1, OneHandler DEF Acts

LEMMA ArriveEffect ==
  ASSUME SerialInv, NEW r \in Req, Arrive(r)
  PROVE  Effect(r)
<1>0. TypeOK /\ Inv /\ (pc[r] = "idle" => resp[r] = "none")
  BY DEF SerialInv, Attended, Inv, TypeInv, TypeOK
<1>1. ASSUME pc[r] = "idle", Answer(r, "error"),
             UNCHANGED <<stores, used, file, body, partsInfo, cursor, gone, telemetry>>
      PROVE  Effect(r)
  BY <1>1, RefusedEffect
<1>2. ASSUME NEW m \in PostMsg, NEW i \in Id, PostAccepted(r, i, m) PROVE Effect(r)
  <2>1. Starts(r)
    BY <1>2 DEF Starts, PostAccepted, Begins
  <2>2. /\ \A q \in Req \ {r} : pc'[q] = pc[q] /\ file'[q] = file[q] /\ resp'[q] = resp[q]
        /\ resp'[r] = "none" /\ used \subseteq used' /\ UNCHANGED <<gone, telemetry>>
    BY <1>0, <1>2 DEF PostAccepted, Begins, TypeOK
  <2> QED BY <2>1, <2>2, StartEffect
<1>3. ASSUME NEW i \in Id, NEW m \in PatchMsg, PatchAccepted(r, i, m) PROVE Effect(r)
  <2>1. Starts(r)
    BY <1>3 DEF Starts, PatchAccepted, Begins
  <2>2. /\ \A q \in Req \ {r} : pc'[q] = pc[q] /\ file'[q] = file[q] /\ resp'[q] = resp[q]
        /\ resp'[r] = "none" /\ used \subseteq used' /\ UNCHANGED <<gone, telemetry>>
    BY <1>0, <1>3 DEF PatchAccepted, Begins, TypeOK
  <2> QED BY <2>1, <2>2, StartEffect
<1>4. ASSUME NEW i \in Id, DeleteAccepted(r, i) PROVE Effect(r)
  <2>1. Starts(r)
    BY <1>4 DEF Starts, DeleteAccepted, Begins
  <2>2. /\ \A q \in Req \ {r} : pc'[q] = pc[q] /\ file'[q] = file[q] /\ resp'[q] = resp[q]
        /\ resp'[r] = "none" /\ used \subseteq used' /\ UNCHANGED <<gone, telemetry>>
    BY <1>0, <1>4 DEF DeleteAccepted, Begins, TypeOK
  <2> QED BY <2>1, <2>2, StartEffect
<1>5. ASSUME NEW i \in Id, GetAccepted(r, i) PROVE Effect(r)
  <2>1. Starts(r)
    BY <1>0, <1>5 DEF Starts, GetAccepted, Begins, Modifying, TypeOK
  <2>2. /\ \A q \in Req \ {r} : pc'[q] = pc[q] /\ file'[q] = file[q] /\ resp'[q] = resp[q]
        /\ resp'[r] = "none" /\ used \subseteq used' /\ UNCHANGED <<gone, telemetry>>
    BY <1>0, <1>5 DEF GetAccepted, Begins, TypeOK
  <2> QED BY <2>1, <2>2, StartEffect
<1>6. ASSUME NEW i \in Id, HeadAnswered(r, i) PROVE Effect(r)
  <2>0. Answer(r, "ok") /\ pc[r] = "idle"
    BY <1>6 DEF HeadAnswered, Begins
  <2>1. /\ pc'[r] = "done" /\ resp'[r] = "ok"
        /\ \A q \in Req \ {r} : pc'[q] = pc[q] /\ resp'[q] = resp[q]
    BY <2>0, AnswerGiven
  <2>2. Starts(r)
    BY <1>6, <2>1 DEF Starts, HeadAnswered, Begins, Modifying
  <2>3. \A q \in Req \ {r} : file'[q] = file[q]
    BY <1>0, <1>6 DEF HeadAnswered, TypeOK
  <2> QED BY <1>6, <2>1, <2>2, <2>3, StartEffect DEF HeadAnswered
<1> QED BY <1>1, <1>2, <1>3, <1>4, <1>5, <1>6
        DEF Arrive, PostRefused, PatchRefused, DeleteRefused, ReadRefused, Begins

(* The files the others have open stay as they are when one handler goes on. *)
LEMMA GoesOnEffect ==
  ASSUME SerialInv, NEW r \in Req, GoesOn(r),
         \A q \in Req \ {r} : pc'[q] = pc[q] /\ file'[q] = file[q],
         \A i \in Id : InfoStep(r, i) /\ DataStep(r, i),
         UNCHANGED <<used, gone, resp, hooks, delivered>>
  PROVE  Effect(r)
<1>1. HookStep(r)
  BY DEF HookStep, Told
<1>2. resp'[r] = "none"
  BY DEF GoesOn, SerialInv, Attended
<1> QED BY <1>1, <1>2, OneHandler DEF Acts

(* A handler that goes on with its upload as it is. *)
LEMMA OnwardsEffect ==
  ASSUME SerialInv, NEW r \in Req, InFlight(r), pc[r] # "saving", pc[r] # "write", NEW next, GoTo(r, next),
         next \in {"readPart", "copyPart", "dropFile", "dropInfo", "save", "write", "removeFile"},
         next = "write" => Method[r] = "POST",
         next # "removeFile" => info'[file[r].id] = info[file[r].id],
         UNCHANGED <<used, file, gone, resp, hooks, delivered>>,
         \A i \in Id : InfoStep(r, i) /\ DataStep(r, i)
  PROVE  Effect(r)
<1>1. pc'[r] = next /\ \A q \in Req \ {r} : pc'[q] = pc[q]
  BY CallMade
<1>2. file[r] # None /\ file[r].offset \in Nat
  BY AtWork DEF SerialInv, Inv
<1>3. GoesOn(r)
  BY <1>1, <1>2 DEF GoesOn
<1> QED BY <1>1, <1>3, GoesOnEffect

LEMMA CreateEffect ==
  ASSUME SerialInv, NEW r \in Req, CreateFile(r)
  PROVE  Effect(r)
<1> DEFINE next == IF file[r].final THEN "readPart" ELSE IF body[r] # <<>> THEN "write" ELSE "save"
<1>1. Method[r] = "POST" /\ InFlight(r) /\ pc[r] = "create" /\ GoTo(r, next)
  BY DEF CreateFile, SerialInv, Inv, TypeInv, LocalsOK
<1>2. ASSUME NEW i \in Id PROVE InfoStep(r, i) /\ DataStep(r, i)
  <2>1. CASE i = file[r].id
    <3>1. data'[i] = <<>> /\ data'[i] # None
      <4>1. data'[i] = <<>>
        BY <2>1 DEF CreateFile, SerialInv, Inv, TypeInv, TypeOK
      <4>2. <<>> \in Seq(Nat)
        OBVIOUS
      <4> QED BY <4>1, <4>2, NoneAssumption
    <3>2. Saving(r, i)
      BY <1>1, <2>1 DEF Saving
    <3> QED BY <1>1, <3>1, <3>2 DEF InfoStep, DataStep, CreateFile
  <2>2. CASE i # file[r].id
    BY <2>2 DEF InfoStep, DataStep, CreateFile, SerialInv, Inv, TypeInv, TypeOK
  <2> QED BY <2>1, <2>2
<1> QED BY <1>1, <1>2, OnwardsEffect DEF CreateFile

LEMMA ReadPartEffect ==
  ASSUME SerialInv, NEW r \in Req, ReadPart(r)
  PROVE  Effect(r)
<1>1. CASE PartAcceptable(info[Part(r)])
  <2> DEFINE next == IF LastPart(r) THEN "copyPart" ELSE "readPart"
  <2>1. GoTo(r, next) /\ pc[r] = "readPart" /\ UNCHANGED <<stores, used, file, gone, resp, hooks, delivered>>
    BY <1>1 DEF ReadPart, telemetry
  <2>2. info' = info
    BY <2>1 DEF stores
  <2> QED BY <2>1, <2>2, StoresLeft, OnwardsEffect
<1>2. CASE ~PartAcceptable(info[Part(r)])
  BY <1>2, RefusedEffect DEF ReadPart
<1> QED BY <1>1, <1>2

(* What appending to the upload of a handler does to the data files. *)
LEMMA AppendStep ==
  ASSUME SerialInv, NEW r \in Req, InFlight(r), Method[r] \in {"POST", "PATCH"}, UNCHANGED info,
         data[file[r].id] # None, NEW bytes \in Seq(Nat),
         data' = [data EXCEPT ![file[r].id] = Appended(data[file[r].id], bytes)]
  PROVE  \A i \in Id : InfoStep(r, i) /\ DataStep(r, i)
<1> SUFFICES ASSUME NEW i \in Id PROVE DataStep(r, i)
  BY DEF InfoStep
<1>1. CASE i = file[r].id
  <2>1. data[i] \in Seq(Nat) /\ data'[i] = Appended(data[i], bytes)
    BY <1>1 DEF SerialInv, Inv, TypeInv, TypeOK
  <2>2. Grows(i)
    BY <1>1, <2>1, AppendGrows DEF Grows
  <2> QED BY <1>1, <2>2 DEF DataStep, Saving, Grows
<1>2. CASE i # file[r].id
  BY <1>2 DEF DataStep, SerialInv, Inv, TypeInv, TypeOK
<1> QED BY <1>1, <1>2

LEMMA CopyPartEffect ==
  ASSUME SerialInv, NEW r \in Req, CopyPart(r)
  PROVE  Effect(r)
<1> DEFINE i == file[r].id
<1>0. Inv /\ InFlight(r) /\ pc[r] = "copyPart" /\ Method[r] = "POST" /\ Joining(r)
  BY DEF CopyPart, SerialInv, Inv, TypeInv, LocalsOK, Joining
<1>1. CASE data[Part(r)] # None
  <2>1. /\ data[i] # None /\ Part(r) \in Id
        /\ data[Part(r)] \in Seq(Nat)
    BY <1>0, <1>1, AlonePost, PartKnown DEF Inv, TypeInv, TypeOK
  <2>2. \A j \in Id : InfoStep(r, j) /\ DataStep(r, j)
    BY <1>0, <1>1, <2>1, AppendStep DEF CopyPart, Opened
  <2>3. /\ file'[r] = Joined(r)
        /\ \A q \in Req \ {r} : file'[q] = file[q]
    BY <1>1 DEF CopyPart, SerialInv, Inv, TypeInv, TypeOK
  <2>4. /\ pc'[r] \in {"copyPart", "dropFile", "save"}
        /\ \A q \in Req \ {r} : pc'[q] = pc[q]
    BY <1>1, CallMade DEF CopyPart
  <2>5. /\ file'[r] # None /\ file'[r].id = file[r].id /\ file'[r].parts = file[r].parts
        /\ file'[r].offset = file[r].offset + partsInfo[r][cursor[r]].length
    BY <1>0, <2>3, JoinedType DEF Inv
  <2>6. file'[r].final = file[r].final
    <3>1. file[r] \in FileInfo
      BY <1>0, AtWork DEF Inv
    <3> QED BY <2>3, <3>1 DEF Joined, FileInfo
  <2>7. file'[r].offset >= file[r].offset
    <3>1. file[r].offset \in Nat /\ partsInfo[r][cursor[r]].length \in Nat
      BY <1>0, AtWork, PartKnown DEF Inv
    <3> QED BY <2>5, <3>1
  <2>8. GoesOn(r)
    BY <1>0, <1>1, <2>4, <2>5, <2>6, <2>7 DEF GoesOn, CopyPart
  <2> QED BY <1>1, <2>2, <2>3, <2>4, <2>8, GoesOnEffect DEF CopyPart, telemetry
<1>2. CASE data[Part(r)] = None
  BY <1>0, <1>2, RefusedEffect DEF CopyPart, stores
<1> QED BY <1>1, <1>2

(* A final upload that removes its parts removes one it names. *)
LEMMA PartWanted ==
  ASSUME Inv, NEW r \in Req, pc[r] \in {"dropFile", "dropInfo"}
  PROVE  Part(r) \in Id /\ Removing(Part(r)) /\ Part(r) # file[r].id
<1>1. Joining(r) /\ RemoveParts /\ InFlight(r) /\ file[r] # None /\ Method[r] = "POST"
  BY DEF Inv, TypeInv, LocalsOK, Joining
<1>2. Part(r) \in PartIds(file[r])
  BY <1>1, PartNamed
<1> QED BY <1>1, <1>2, PartKnown, AlonePost DEF Removing

LEMMA DropFileEffect ==
  ASSUME SerialInv, NEW r \in Req, DropFile(r)
  PROVE  Effect(r)
<1>0. pc[r] = "dropFile" /\ Inv /\ info' = info
  BY DEF DropFile, SerialInv
<1>1. CASE data[Part(r)] # None
  <2>1. \A i \in Id : InfoStep(r, i) /\ DataStep(r, i)
    BY <1>0, <1>1, PartWanted DEF DropFile, InfoStep, DataStep, Inv, TypeInv, TypeOK
  <2> QED BY <1>0, <1>1, <2>1, OnwardsEffect DEF DropFile, telemetry
<1>2. CASE data[Part(r)] = None
  BY <1>0, <1>2, RefusedEffect DEF DropFile, stores
<1> QED BY <1>1, <1>2

LEMMA DropInfoEffect ==
  ASSUME SerialInv, NEW r \in Req, DropInfo(r)
  PROVE  Effect(r)
<1>0. pc[r] = "dropInfo" /\ Inv /\ data' = data
  BY DEF DropInfo, SerialInv
<1>1. CASE info[Part(r)] # None
  <2> DEFINE next == IF LastPart(r) THEN "save" ELSE "dropFile"
  <2>1. GoTo(r, next) /\ pc'[r] # pc[r] /\ info' = [info EXCEPT ![Part(r)] = None]
        /\ UNCHANGED <<used, file, gone, resp, hooks, delivered>>
    BY <1>0, <1>1, CallMade DEF DropInfo, telemetry
  <2>2. \A i \in Id : InfoStep(r, i) /\ DataStep(r, i)
    BY <1>0, <2>1, PartWanted DEF InfoStep, DataStep, Inv, TypeInv, TypeOK
  <2>3. info'[file[r].id] = info[file[r].id]
    BY <1>0, <2>1, PartWanted, AtWork DEF Inv, TypeInv, TypeOK
  <2> QED BY <1>0, <2>1, <2>2, <2>3, OnwardsEffect
<1>2. CASE info[Part(r)] = None
  BY <1>0, <1>2, RefusedEffect DEF DropInfo, stores
<1> QED BY <1>1, <1>2

LEMMA AddBytesEffect ==
  ASSUME SerialInv, NEW r \in Req, AddBytes(r)
  PROVE  Effect(r)
<1> DEFINE i == file[r].id
<1>0. Inv /\ InFlight(r) /\ pc[r] = "write" /\ Method[r] \in {"POST", "PATCH"} /\ info' = info
  BY DEF AddBytes, SerialInv, Inv, TypeInv, LocalsOK
<1>1. CASE data[i] # None
  <2>1. body[r] \in Seq(Nat) /\ i \in Id /\ file[r] \in FileInfo /\ file[r].offset \in Nat
    BY <1>0, AtWork DEF Inv, TypeInv, TypeOK
  <2>2. \A j \in Id : InfoStep(r, j) /\ DataStep(r, j)
    BY <1>0, <1>1, <2>1, AppendStep DEF AddBytes
  <2>3. /\ file'[r] = [file[r] EXCEPT !.offset = file[r].offset + Len(body[r])]
        /\ \A q \in Req \ {r} : file'[q] = file[q]
    BY <1>1 DEF AddBytes, SerialInv, Inv, TypeInv, TypeOK
  <2>4. pc'[r] = "save" /\ \A q \in Req \ {r} : pc'[q] = pc[q]
    BY <1>1, CallMade DEF AddBytes
  <2>5. file'[r] # None
    <3>1. file[r].offset + Len(body[r]) \in Nat
      BY <2>1
    <3> QED BY <2>1, <2>3, <3>1, FileUpdated, FileFields
  <2>6. /\ file'[r].id = file[r].id /\ file'[r].parts = file[r].parts
        /\ file'[r].final = file[r].final /\ file'[r].length = file[r].length
        /\ file'[r].offset = file[r].offset + Len(body[r])
    BY <2>1, <2>3 DEF FileInfo
  <2>7. file'[r].offset >= file[r].offset
    BY <2>1, <2>6
  <2>8. GoesOn(r)
    BY <1>0, <2>4, <2>5, <2>6, <2>7, <1>1 DEF GoesOn, AddBytes
  <2> QED BY <1>1, <2>2, <2>3, <2>4, <2>8, GoesOnEffect DEF AddBytes, telemetry
<1>2. CASE data[i] = None
  BY <1>0, <1>2, RefusedEffect DEF AddBytes, stores
<1> QED BY <1>1, <1>2

(* set_info has returned Ok. *)
LEMMA SavesEffect ==
  ASSUME SerialInv, NEW r \in Req, pc[r] \in {"save", "saving"}, Saved(r),
         info' = [info EXCEPT ![file[r].id] = file[r]],
         UNCHANGED <<data, used, file, gone, delivered>>
  PROVE  Effect(r)
<1> DEFINE i == file[r].id
<1>0. Inv /\ i \in Id /\ Method[r] \in {"POST", "PATCH"}
  BY SaversSave DEF SerialInv, Saving
<1>1. /\ pc'[r] = "done" /\ resp'[r] = "ok"
      /\ \A q \in Req \ {r} : pc'[q] = pc[q] /\ resp'[q] = resp[q]
  BY AnswerGiven DEF Saved
<1>2. info'[i] = file[r] /\ \A j \in Id \ {i} : info'[j] = info[j]
  BY <1>0 DEF Inv, TypeInv, TypeOK
<1>3. Saves(r)
  BY <1>1, <1>2 DEF Saves
<1>4. \A j \in Id : InfoStep(r, j) /\ DataStep(r, j)
  BY <1>1, <1>2 DEF InfoStep, DataStep
<1>5. HookStep(r)
  <2>1. ASSUME NEW h \in Told', h \notin Told, h.hook = "post-finish"
        PROVE  /\ h = [hook |-> "post-finish", id |-> i, req |-> r]
               /\ Finished(file[r]) \/ (Method[r] = "POST" /\ file[r].final)
    <3>1. h = [hook |-> PostHook(r), id |-> i, req |-> r]
      BY <2>1 DEF Told, Saved, Spawn
    <3>2. PostHook(r) = "post-finish"
      BY <2>1, <3>1
    <3> QED BY <3>1, <3>2 DEF PostHook
  <2> QED BY <1>3, <2>1 DEF HookStep
<1> QED BY <1>1, <1>3, <1>4, <1>5, OneHandler DEF Acts

LEMMA SaveInfoEffect ==
  ASSUME SerialInv, NEW r \in Req, SaveInfo(r)
  PROVE  Effect(r)
BY SavesEffect DEF SaveInfo

LEMMA OpenInfoEffect ==
  ASSUME SerialInv, NEW r \in Req, OpenInfo(r)
  PROVE  Effect(r)
<1> DEFINE i == file[r].id
<1>0. /\ Inv /\ pc[r] = "save" /\ InfoKind = "file" /\ i \in Id /\ file[r] # None
      /\ file[r].offset \in Nat /\ data' = data
  BY AtWork DEF OpenInfo, SerialInv, Inv
<1>1. CASE Openable(r)
  <2>1. pc'[r] = "saving" /\ \A q \in Req \ {r} : pc'[q] = pc[q]
    BY <1>1 DEF OpenInfo, SerialInv, Inv, TypeInv, TypeOK
  <2>2. info'[i] = Empty /\ \A j \in Id \ {i} : info'[j] = info[j]
    BY <1>0, <1>1 DEF OpenInfo, Inv, TypeInv, TypeOK
  <2>3. GoesOn(r)
    BY <1>0, <1>1, <2>1, <2>2 DEF GoesOn, OpenInfo
  <2>4. \A j \in Id : InfoStep(r, j) /\ DataStep(r, j)
    BY <1>0, <2>1, <2>2 DEF InfoStep, DataStep, Torn
  <2> QED BY <1>1, <2>1, <2>3, <2>4, GoesOnEffect DEF OpenInfo, telemetry
<1>2. CASE ~Openable(r)
  BY <1>0, <1>2, RefusedEffect DEF OpenInfo, stores
<1> QED BY <1>1, <1>2

LEMMA WriteInfoEffect ==
  ASSUME SerialInv, NEW r \in Req, WriteInfo(r)
  PROVE  Effect(r)
<1> DEFINE i == file[r].id
<1>0. pc[r] = "saving" /\ Works(r)
  BY SaversSave DEF WriteInfo, SerialInv
<1>1. info[i] = Empty
  BY <1>0 DEF SerialInv, Current
<1>2. Written(i, file[r]) = {file[r]}
  BY <1>1, TornAssumption DEF Written, Torn
<1> QED BY <1>0, <1>2, SavesEffect DEF WriteInfo

(* DELETE, and nobody else, removes the upload it names. *)
LEMMA DeleteWanted ==
  ASSUME Inv, NEW r \in Req, pc[r] \in {"removeInfo", "removeFile"}
  PROVE  file[r].id \in Id /\ Removing(file[r].id) /\ Method[r] = "DELETE"
<1>1. Method[r] = "DELETE" /\ file[r] # None /\ file[r].id \in Id
  BY AtWork DEF Inv, TypeInv, LocalsOK
<1> QED BY <1>1 DEF Removing

LEMMA RemoveInfoEffect ==
  ASSUME SerialInv, NEW r \in Req, RemoveInfo(r)
  PROVE  Effect(r)
<1>0. pc[r] = "removeInfo" /\ Inv /\ data' = data
  BY DEF RemoveInfo, SerialInv
<1>1. CASE info[file[r].id] # None
  <2>1. GoTo(r, "removeFile") /\ pc'[r] # pc[r] /\ info' = [info EXCEPT ![file[r].id] = None]
        /\ UNCHANGED <<used, file, gone, resp, hooks, delivered>>
    BY <1>0, <1>1, CallMade DEF RemoveInfo, telemetry
  <2>2. \A i \in Id : InfoStep(r, i) /\ DataStep(r, i)
    BY <1>0, <2>1, DeleteWanted DEF InfoStep, DataStep, Inv, TypeInv, TypeOK
  <2> QED BY <1>0, <2>1, <2>2, OnwardsEffect
<1>2. CASE info[file[r].id] = None
  BY <1>0, <1>2, RefusedEffect DEF RemoveInfo, stores
<1> QED BY <1>1, <1>2

(* A handler that ends without storing an info, and announces no upload as finished. *)
LEMMA EndEffect ==
  ASSUME SerialInv, NEW r \in Req, pc[r] # "done", NEW a, Answer(r, a),
         Method[r] \notin {"POST", "PATCH"},
         UNCHANGED <<used, file, gone>>,
         \A i \in Id : InfoStep(r, i) /\ DataStep(r, i),
         \A h \in Told' : h \in Told \/ h.hook # "post-finish"
  PROVE  Effect(r)
<1>1. /\ pc'[r] = "done"
      /\ \A q \in Req \ {r} : pc'[q] = pc[q] /\ resp'[q] = resp[q]
  BY AnswerGiven
<1>2. Ends(r) /\ HookStep(r)
  BY <1>1 DEF Ends, HookStep
<1> QED BY <1>1, <1>2, OneHandler

LEMMA RemoveFileEffect ==
  ASSUME SerialInv, NEW r \in Req, RemoveFile(r)
  PROVE  Effect(r)
<1>0. pc[r] = "removeFile" /\ Inv /\ info' = info
  BY DEF RemoveFile, SerialInv
<1>1. CASE data[file[r].id] # None
  <2>1. \A i \in Id : InfoStep(r, i) /\ DataStep(r, i)
    BY <1>0, <1>1, DeleteWanted DEF RemoveFile, InfoStep, DataStep, Inv, TypeInv, TypeOK
  <2>2. \A h \in Told' : h \in Told \/ h.hook # "post-finish"
    BY <1>1 DEF RemoveFile, Spawn, Told
  <2> QED BY <1>0, <1>1, <2>1, <2>2, DeleteWanted, EndEffect DEF RemoveFile
<1>2. CASE data[file[r].id] = None
  BY <1>0, <1>2, RefusedEffect DEF RemoveFile, stores, telemetry
<1> QED BY <1>1, <1>2

LEMMA GetContentsEffect ==
  ASSUME SerialInv, NEW r \in Req, GetContents(r)
  PROVE  Effect(r)
<1>1. Method[r] = "GET" /\ pc[r] = "read"
  BY DEF GetContents, SerialInv, Inv, TypeInv, LocalsOK
<1>2. PICK a \in {"ok", "error"} : Answer(r, a)
  BY DEF GetContents
<1>3. \A h \in Told' : h \in Told
  BY DEF GetContents, telemetry, Told
<1> QED BY <1>1, <1>2, <1>3, StoresLeft, EndEffect DEF GetContents

LEMMA ProceedEffect ==
  ASSUME SerialInv, NEW r \in Req, Proceed(r)
  PROVE  Effect(r)
BY CreateEffect, ReadPartEffect, CopyPartEffect, DropFileEffect, DropInfoEffect, AddBytesEffect,
   SaveInfoEffect, OpenInfoEffect, WriteInfoEffect, RemoveInfoEffect, RemoveFileEffect,
   GetContentsEffect
DEF Proceed

(* A failing write leaves a prefix of its bytes, a failing set_info a torn file. *)
LEMMA FaultEffect ==
  ASSUME SerialInv, NEW r \in Req, Fault(r)
  PROVE  Effect(r)
<1> DEFINE i == file[r].id
<1>0. /\ Inv /\ InFlight(r) /\ Answer(r, "error") /\ pc'[r] # pc[r] /\ i \in Id
      /\ UNCHANGED <<used, file, gone, telemetry>>
  BY AnswerGiven, AtWork DEF Fault, SerialInv, Inv
<1>1. ASSUME NEW bytes \in Seq(Nat), PartlyAppended(i, bytes), data[i] # None, UNCHANGED info,
             Method[r] \in {"POST", "PATCH"}
      PROVE  Effect(r)
  <2>1. PICK n \in 0..Len(bytes) : data' = [data EXCEPT ![i] = Appended(data[i], SubSeq(bytes, 1, n))]
    BY <1>1 DEF PartlyAppended, Opened
  <2>2. SubSeq(bytes, 1, n) \in Seq(Nat)
    OBVIOUS
  <2>3. \A j \in Id : InfoStep(r, j) /\ DataStep(r, j)
    BY <1>0, <1>1, <2>1, <2>2, AppendStep
  <2> QED BY <1>0, <2>3, ErrorEffect
<1>2. CASE UNCHANGED stores
  BY <1>0, <1>2, RefusedEffect
<1>3. CASE /\ pc[r] = "write" /\ data[i] # None /\ PartlyAppended(i, body[r])
           /\ UNCHANGED info
  <2>1. body[r] \in Seq(Nat) /\ Method[r] \in {"POST", "PATCH"}
    BY <1>0, <1>3 DEF Inv, TypeInv, TypeOK, LocalsOK
  <2> QED BY <1>1, <1>3, <2>1
<1>4. CASE /\ pc[r] = "copyPart" /\ data[Part(r)] # None /\ PartlyAppended(i, data[Part(r)])
           /\ UNCHANGED info
  <2>1. Joining(r) /\ Method[r] = "POST"
    BY <1>0, <1>4 DEF Joining, Inv, TypeInv, LocalsOK
  <2>2. data[i] # None /\ data[Part(r)] \in Seq(Nat)
    BY <1>0, <1>4, <2>1, AlonePost, PartKnown DEF Inv, TypeInv, TypeOK
  <2> QED BY <1>1, <1>4, <2>1, <2>2
<1>5. CASE pc[r] = "saving" /\ HalfWritten(i) /\ UNCHANGED data
  <2>1. InfoKind = "file" /\ info[i] = Empty
    BY <1>0, <1>5, SaversSave DEF SerialInv, Current
  <2>2. info' = [info EXCEPT ![i] = Garbled]
    BY <1>5, <2>1, TornAssumption DEF HalfWritten, Torn
  <2>3. \A j \in Id : InfoStep(r, j) /\ DataStep(r, j)
    BY <1>0, <1>5, <2>1, <2>2 DEF InfoStep, DataStep, Torn, Inv, TypeInv, TypeOK
  <2> QED BY <1>0, <2>3, ErrorEffect
<1> QED BY <1>2, <1>3, <1>4, <1>5 DEF Fault

(* The command is executed although the handler sees an error. *)
LEMMA RedisEffect ==
  ASSUME SerialInv, NEW r \in Req, RedisAnswerLost(r)
  PROVE  Effect(r)
<1>0. /\ Inv /\ InFlight(r) /\ Answer(r, "error") /\ pc'[r] # pc[r] /\ data' = data
      /\ UNCHANGED <<used, file, gone, telemetry>>
  BY AnswerGiven DEF RedisAnswerLost, SerialInv
<1>1. CASE pc[r] = "save" /\ info' = [info EXCEPT ![file[r].id] = file[r]]
  <2>1. \A j \in Id : InfoStep(r, j) /\ DataStep(r, j)
    BY <1>0, <1>1 DEF InfoStep, DataStep, Inv, TypeInv, TypeOK
  <2> QED BY <1>0, <2>1, ErrorEffect
<1>2. CASE pc[r] = "removeInfo" /\ info' = [info EXCEPT ![file[r].id] = None]
  <2>1. \A j \in Id : InfoStep(r, j) /\ DataStep(r, j)
    BY <1>0, <1>2, DeleteWanted DEF InfoStep, DataStep, Inv, TypeInv, TypeOK
  <2> QED BY <1>0, <2>1, ErrorEffect
<1>3. CASE pc[r] = "dropInfo" /\ info' = [info EXCEPT ![Part(r)] = None]
  <2>1. \A j \in Id : InfoStep(r, j) /\ DataStep(r, j)
    BY <1>0, <1>3, PartWanted DEF InfoStep, DataStep, Inv, TypeInv, TypeOK
  <2> QED BY <1>0, <2>1, ErrorEffect
<1> QED BY <1>1, <1>2, <1>3 DEF RedisAnswerLost

LEMMA InterfereEffect ==
  ASSUME ClientsWait, SerialInv, NEW r \in Req, Interfere(r)
  PROVE  Effect(r)
<1>1. CASE HookRefused(r)
  BY <1>1, RefusedEffect DEF HookRefused
<1>2. ~Disconnect(r)
  BY DEF ClientsWait, Disconnect
<1> QED BY <1>1, <1>2, FaultEffect, RedisEffect DEF Interfere

(* A restart ends every handler, a background task none. *)
LEMMA CrashEffect ==
  ASSUME SerialInv, NEW r, Crash
  PROVE  Effect(r)
<1>1. ASSUME NEW q \in Req PROVE /\ Rests(q) \/ Ends(q)
                                 /\ ~gone'[q] /\ (resp'[q] # "none" => pc'[q] = "done")
  BY DEF Crash, Rests, Ends, SerialInv, Attended
<1>2. HookStep(r)
  BY DEF Crash, HookStep, Told
<1> QED BY <1>1, <1>2, StoresLeft DEF Effect, Crash

LEMMA BackgroundEffect ==
  ASSUME SerialInv, NEW r, UNCHANGED <<stores, used, handlers>>, Told' \subseteq Told
  PROVE  Effect(r)
<1>1. \A q \in Req : Rests(q) /\ ~gone'[q] /\ (resp'[q] # "none" => pc'[q] = "done")
  BY DEF handlers, Rests, SerialInv, Attended
<1> QED BY <1>1, StoresLeft DEF Effect, HookStep

LEMMA NextEffect ==
  ASSUME ClientsWait, SerialInv, [Next]_vars
  PROVE  \E r : Effect(r)
<1>1. ASSUME NEW h \in hooks, Send(h) \/ SendFails(h) PROVE \E r : Effect(r)
  <2>1. UNCHANGED <<stores, used, handlers>> /\ Told' \subseteq Told
    BY <1>1 DEF Send, SendFails, Told
  <2> QED BY <2>1, BackgroundEffect
<1>2. CASE UNCHANGED vars
  <2>1. UNCHANGED <<stores, used, handlers>> /\ Told' \subseteq Told
    BY <1>2 DEF vars, stores, handlers, Told
  <2> QED BY <2>1, BackgroundEffect
<1> QED BY <1>1, <1>2, ArriveEffect, ProceedEffect, InterfereEffect, CrashEffect DEF Next, Quiet

(* SerialInv is inductive. *)
LEMMA NextSerialInv == ClientsWait /\ SerialInv /\ [Next]_vars => SerialInv'
<1> SUFFICES ASSUME ClientsWait, SerialInv, [Next]_vars PROVE SerialInv'
  OBVIOUS
<1>1. Inv'
  BY NextInv DEF SerialInv
<1> QED BY <1>1, NextEffect, EffectSerialInv
-----------------------------------------------------------------------------
(* The inductive invariant of clients that wait for their answers. *)
THEOREM SerialInvariance == ClientsWait => (Spec => []SerialInv)
<1>1. ClientsWait /\ SerialInv /\ [Next]_vars => SerialInv'
  BY NextSerialInv
<1>2. Init => SerialInv
  BY InitSerialInv
<1>3. ASSUME ClientsWait PROVE Spec => []SerialInv
  <2>1. SerialInv /\ [Next]_vars => SerialInv'
    BY <1>1, <1>3
  <2> QED BY <1>2, <2>1, PTL DEF Spec
<1> QED BY <1>3

(* What POST and PATCH work on is not complete, and has no other length yet. *)
LEMMA SavedIsOpen ==
  ASSUME SerialInv, NEW r \in Req, NEW i \in Id, Saving(r, i), Readable(i)
  PROVE  /\ ~(Visible(i) /\ Finished(info[i]))
         /\ info[i].length \in {None, file[r].length}
<1>1. Works(r) /\ Current(r)
  BY DEF SerialInv, Saving, Works, Modifying
<1> QED BY <1>1 DEF Current, Saving, Torn

(* Once an upload is complete neither its info nor its data changes any      *)
(* more, except by being removed: for every configuration and any number of  *)
(* clients that wait, whatever fails or is restarted.                        *)
THEOREM CompleteStaysUntouched ==
  ASSUME ClientsWait
  PROVE  Spec => CompleteUntouched
<1>1. SerialInv /\ [Next]_vars => SerialInv'
  BY NextSerialInv
<1>2. ASSUME SerialInv, [Next]_vars, NEW i \in Id, Visible(i), Finished(info[i])
      PROVE  info'[i] \in {info[i], None} /\ data'[i] \in {data[i], None}
  <2>1. PICK r : Effect(r)
    BY <1>2, NextEffect
  <2>2. InfoStep(r, i) /\ DataStep(r, i)
    BY <2>1 DEF Effect
  <2>3. ~(r \in Req /\ Saving(r, i))
    BY <1>2, SavedIsOpen DEF Visible
  <2>4. ~(r \in Req /\ pc[r] \in {"save", "saving"} /\ file[r].id = i)
    BY <1>2, <2>3, SaversSave DEF SerialInv
  <2> QED BY <2>2, <2>3, <2>4 DEF InfoStep, DataStep
<1>3. SerialInv /\ [Next]_vars =>
        [\A i \in Id : Visible(i) /\ Finished(info[i]) =>
           info'[i] \in {info[i], None} /\ data'[i] \in {data[i], None}]_vars
  BY <1>2
<1> QED BY <1>1, <1>3, InitSerialInv, PTL DEF Spec, CompleteUntouched

(* The length of an upload never changes once it is known: no two PATCH      *)
(* requests of clients that wait are between get_info and set_info at once.  *)
THEOREM LengthStaysFixed ==
  ASSUME ClientsWait
  PROVE  Spec => LengthFixed
<1>1. SerialInv /\ [Next]_vars => SerialInv'
  BY NextSerialInv
<1>2. ASSUME SerialInv, [Next]_vars, NEW i \in Id, Readable(i), Readable(i)', info[i].length # None
      PROVE  info'[i].length = info[i].length
  <2>1. PICK r : Effect(r)
    BY <1>2, NextEffect
  <2>2. InfoStep(r, i)
    BY <2>1 DEF Effect
  <2>3. ASSUME r \in Req, pc[r] \in {"save", "saving"}, file[r].id = i, info'[i] = file[r]
        PROVE  info'[i].length = info[i].length
    <3>1. Saving(r, i)
      BY <1>2, <2>3, SaversSave DEF SerialInv
    <3> QED BY <1>2, <2>3, <3>1, SavedIsOpen
  <2> QED BY <1>2, <2>2, <2>3 DEF InfoStep
<1>3. SerialInv /\ [Next]_vars =>
        [\A i \in Id : Readable(i) /\ Readable(i)' /\ info[i].length # None =>
           info'[i].length = info[i].length]_vars
  BY <1>2
<1> QED BY <1>1, <1>3, InitSerialInv, PTL DEF Spec, LengthFixed

(* An acknowledged offset stays recorded and backed by data through failing  *)
(* requests and restarts, until a client wants the upload removed; or the    *)
(* info file is torn, and there is no offset to report.                      *)
THEOREM AcknowledgedIsKept ==
  ASSUME ClientsWait
  PROVE  Spec => []AckedOffsetKept
<1>1. SerialInv /\ [Next]_vars => SerialInv'
  BY NextSerialInv
<1>2. SerialInv => AckedOffsetKept
  <2> SUFFICES ASSUME SerialInv, NEW r \in Req, Method[r] \in {"POST", "PATCH"}, resp[r] = "ok"
               PROVE  LET i == file[r].id
                      IN \/ Removing(i)
                         \/ InfoKind = "file" /\ info[i] \in Torn
                         \/ Readable(i) /\ info[i].offset >= file[r].offset /\ Len(data[i]) >= file[r].offset
    BY DEF AckedOffsetKept
  <2>1. file[r] # None /\ (Removing(file[r].id) \/ Kept(file[r].id, file[r].offset))
    BY DEF SerialInv, Acked
  <2>2. file[r].id \in Id
    BY <2>1, FileFields DEF SerialInv, Inv, TypeInv, TypeOK
  <2> QED BY <2>1, <2>2 DEF Kept, SerialInv, TornKind
<1> QED BY <1>1, <1>2, InitSerialInv, PTL DEF Spec

(* The consumers of post-finish see at most one of them for an upload: the   *)
(* info that announces it freezes the upload, also through a restart between *)
(* set_info and the hook.                                                    *)
THEOREM FinishToldOnce ==
  ASSUME ClientsWait
  PROVE  Spec => []FinishedOnce
<1>1. SerialInv /\ [Next]_vars => SerialInv'
  BY NextSerialInv
<1>2. SerialInv => FinishedOnce
  BY DEF SerialInv, FinishInv
<1> QED BY <1>1, <1>2, InitSerialInv, PTL DEF Spec
=============================================================================

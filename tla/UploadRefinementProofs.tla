----------------------- MODULE UploadRefinementProofs -----------------------
(***************************************************************************)
(* UploadServer implements TusUpload without concatenation, when nothing   *)
(* fails: every step of a handler, one storage call at a time, is a step   *)
(* of the abstract upload in which every request happens at once, or none  *)
(* that a client can see.                                                  *)
(*                                                                         *)
(* Only three kinds of step can be seen (TusStep): the info is saved, it   *)
(* is removed, and nothing else.  For each the abstract step is named      *)
(* (Published, and the lemmas ...Seen), and Fits says why its guard holds: *)
(* what the handler is about to save differs from what is stored by one    *)
(* request that TusUpload allows, which is true because the handler works  *)
(* alone on its upload (UploadSerialProofs) and its bytes continue those   *)
(* that are stored (UploadExactProofs).  The lemmas before are about View, *)
(* the refinement mapping of UploadRefinement.                             *)
(***************************************************************************)
EXTENDS UploadExactProofs, UploadRefinement

NoConcat == "concatenation" \notin Extensions

(* Without concatenation all uploads are written by their own clients. *)
Plain(f) == ~f.final /\ f.storage = Own /\ f.length \in Lengths \cup {None}

(* What a handler is about to save is what TusUpload allows. *)
Fits(r) ==
  LET f == info[file[r].id]
  IN /\ InFlight(r) /\ Method[r] = "POST" =>
          /\ pc[r] \in {"create", "write"} => file[r].offset = 0 /\ Len(body[r]) \in Chunks \cup {0}
          /\ pc[r] = "save" => file[r].offset \in Chunks \cup {0}
     /\ pc[r] \in {"write", "save"} /\ Method[r] = "PATCH" =>
          /\ pc[r] = "write" => Len(body[r]) \in Chunks
          /\ pc[r] = "save" => \E n \in Chunks : file[r].offset = f.offset + n
          /\ \/ file[r].length = f.length
             \/ f.length = None /\ file[r].length \in Lengths /\ file[r].length > f.offset

TusInv ==
  /\ ExactInv
  /\ \A r \in Req : (file[r] # None => Plain(file[r])) /\ Fits(r)
  /\ \A i \in Id \ Foreign : Readable(i) => Plain(info[i])

USE DEF InFlight, Readable, Unreadable

(* No upload is final, so nobody joins any. *)
LEMMA NobodyJoins ==
  ASSUME TusInv, NEW r \in Req
  PROVE  ~Reading(r) /\ ~Joining(r)
<1>1. Reading(r) \/ Joining(r) => file[r].final /\ file[r] # None
  BY DEF TusInv, ExactInv, SerialInv, Sound, Inv, TypeInv, LocalsOK, Reading, Joining
<1> QED BY <1>1 DEF TusInv, Plain

(* A step leaves the handlers of the other requests where they are. *)
LEMMA OthersRest ==
  ASSUME TusInv, NEW r \in Req, Arrive(r) \/ Proceed(r) \/ HookRefused(r), NEW q \in Req, q # r
  PROVE  pc'[q] = pc[q] /\ file'[q] = file[q] /\ body'[q] = body[q]
<1>0. TypeOK /\ ~Reading(r) /\ ~Joining(r)
  BY NobodyJoins DEF TusInv, ExactInv, SerialInv, Inv, TypeInv
<1>1. HookRefused(r) => pc'[q] = pc[q] /\ file'[q] = file[q] /\ body'[q] = body[q]
  BY <1>0 DEF HookRefused, Answer, TypeOK
<1>2. Arrive(r) => pc'[q] = pc[q] /\ file'[q] = file[q] /\ body'[q] = body[q]
  BY <1>0 DEF Arrive, PostRefused, PostAccepted, PatchRefused, PatchAccepted, DeleteRefused,
              DeleteAccepted, ReadRefused, GetAccepted, HeadAnswered, Answer, TypeOK
<1>3. ~ReadPart(r) /\ ~CopyPart(r) /\ ~DropFile(r) /\ ~DropInfo(r)
  BY <1>0 DEF ReadPart, CopyPart, DropFile, DropInfo, Reading, Joining
<1>4. CreateFile(r) \/ AddBytes(r) \/ SaveInfo(r) \/ OpenInfo(r) \/ WriteInfo(r) =>
        pc'[q] = pc[q] /\ file'[q] = file[q] /\ body'[q] = body[q]
  BY <1>0 DEF CreateFile, AddBytes, SaveInfo, OpenInfo, WriteInfo, Saved, GoTo, Answer, TypeOK
<1>5. RemoveInfo(r) \/ RemoveFile(r) \/ GetContents(r) =>
        pc'[q] = pc[q] /\ file'[q] = file[q] /\ body'[q] = body[q]
  BY <1>0 DEF RemoveInfo, RemoveFile, GetContents, GoTo, Answer, TypeOK
<1> QED BY <1>1, <1>2, <1>3, <1>4, <1>5 DEF Proceed

(* The step of one handler: what it leaves right is all there is to show. *)
LEMMA TusStep ==
  ASSUME TusInv, ExactInv', NEW r \in Req, Effect(r),
         Arrive(r) \/ Proceed(r) \/ HookRefused(r),
         file'[r] # None => Plain(file'[r]), Fits(r)'
  PROVE  TusInv'
<1>0. SerialInv /\ Inv
  BY DEF TusInv, ExactInv, SerialInv
<1>1. ASSUME NEW q \in Req, q # r PROVE Fits(q)' /\ (file'[q] # None => Plain(file'[q]))
  <2>1. pc'[q] = pc[q] /\ file'[q] = file[q] /\ body'[q] = body[q] /\ Fits(q)
        /\ (file[q] # None => Plain(file[q]))
    BY <1>1, OthersRest DEF TusInv
  <2>2. pc[q] \in {"write", "save"} => info'[file[q].id] = info[file[q].id]
    <3> SUFFICES ASSUME pc[q] \in {"write", "save"} PROVE info'[file[q].id] = info[file[q].id]
      OBVIOUS
    <3>1. Works(q) /\ Rests(q)
      <4>1. ~Ends(q)
        BY <2>1 DEF Ends
      <4> QED BY <1>0, <1>1, <4>1, SaversSave DEF Effect
    <3> QED BY <1>0, <3>1, InfoLeftAlone
  <2> QED BY <2>1, <2>2 DEF Fits
<1>2. ASSUME NEW i \in Id \ Foreign, Readable(i)' PROVE Plain(info'[i])
  <2>1. InfoStep(r, i)
    BY DEF Effect
  <2>2. pc[r] \in {"save", "saving"} => Plain(file[r])
    BY <1>0, SaversSave, FileFields DEF TusInv
  <2> QED BY <1>2, <2>1, <2>2 DEF InfoStep, TusInv
<1> QED BY <1>1, <1>2 DEF TusInv

(* A request that enters starts with what it read, or created. *)
LEMMA ArriveTus ==
  ASSUME NoConcat, TusInv, ExactInv', NEW r \in Req, Arrive(r)
  PROVE  TusInv'
<1>0. TypeOK /\ SerialInv /\ Inv /\ Effect(r) /\ Fits(r) /\ (file[r] # None => Plain(file[r]))
  BY ArriveEffect DEF TusInv, ExactInv, SerialInv, Inv, TypeInv
<1>1. ASSUME NEW i \in Id, Visible(i) PROVE Plain(info[i]) /\ info[i] \in FileInfo
  BY <1>0, <1>1, OwnVisible DEF TusInv, Visible, TypeOK
<1>2. ASSUME NEW m \in PostMsg, NEW i \in Id, PostAccepted(r, i, m) PROVE TusInv'
  <2>1. pc'[r] = "create" /\ Method[r] = "POST" /\ file'[r] = NewFileInfo(i, m)
        /\ body'[r] \in {Bytes(0, m.n), <<>>}
    <3>1. pc'[r] = "create" /\ Method[r] = "POST"
      BY <1>0, <1>2, PostStarts
    <3>2. file'[r] = NewFileInfo(i, m) /\ body'[r] \in {Bytes(0, m.n), <<>>}
      BY <1>0, <1>2 DEF PostAccepted, TypeOK
    <3> QED BY <3>1, <3>2
  <2>2. m.length \in Lengths \cup {None} /\ m.n \in Chunks \cup {0}
    BY DEF PostMsg, LengthHeader
  <2>3. Plain(NewFileInfo(i, m)) /\ NewFileInfo(i, m).offset = 0
    BY <2>2 DEF NoConcat, NewFileInfo, Concat, Plain
  <2>4. Len(body'[r]) \in Chunks \cup {0}
    <3>1. Len(Bytes(0, m.n)) = m.n
      BY <2>2, InputAssumption, BytesType
    <3> QED BY <2>1, <2>2, <3>1
  <2>5. Fits(r)'
    BY <2>1, <2>3, <2>2, <2>4 DEF Fits
  <2> QED BY <1>0, <2>1, <2>3, <2>5, TusStep
<1>3. ASSUME NEW i \in Id, NEW m \in PatchMsg, PatchAccepted(r, i, m) PROVE TusInv'
  <2>1. /\ pc'[r] = "write" /\ Method[r] = "PATCH" /\ file'[r].id = i
        /\ Visible(i) /\ info' = info
    BY <1>0, <1>3, PatchStarts DEF PatchAccepted, stores
  <2>2. info[i] \in FileInfo /\ Plain(info[i])
    BY <1>1, <2>1
  <2>3. file'[r] = Resized(info[i], m) /\ body'[r] = Bytes(m.offset, m.n) /\ PatchAdmissible(i, m)
    BY <1>0, <1>3 DEF PatchAccepted, TypeOK
  <2>4. m.n \in Chunks /\ m.n \in Nat /\ m.offset \in Nat /\ m.length \in Lengths \cup {None}
    BY InputAssumption DEF PatchMsg, LengthHeader
  <2>5. /\ Resized(info[i], m).length = IF NewLength(m) = None THEN info[i].length ELSE NewLength(m)
        /\ Plain(Resized(info[i], m))
    BY <2>2, <2>4 DEF Resized, NewLength, Plain, FileInfo
  <2>6. Len(body'[r]) \in Chunks
    BY <2>3, <2>4, BytesType
  <2>7. \/ file'[r].length = info[i].length
        \/ info[i].length = None /\ file'[r].length \in Lengths /\ file'[r].length > info[i].offset
    <3>1. CASE NewLength(m) = None
      BY <2>3, <2>5, <3>1
    <3>2. CASE NewLength(m) # None
      <4>1. NewLength(m) \in Lengths /\ NewLength(m) >= info[i].offset /\ info[i].length = None
            /\ NewLength(m) # info[i].offset
        BY <2>3, <2>5, <2>4, <3>2 DEF PatchAdmissible, NewLength
      <4>2. NewLength(m) \in Nat /\ info[i].offset \in Nat
        BY <2>2, <4>1, InputAssumption, FileFields
      <4> QED BY <2>3, <2>5, <3>2, <4>1, <4>2
    <3> QED BY <3>1, <3>2
  <2>8. Fits(r)'
    BY <2>1, <2>6, <2>7 DEF Fits
  <2> QED BY <1>0, <2>3, <2>5, <2>8, TusStep
<1>4. ASSUME NEW i \in Id, DeleteAccepted(r, i) \/ GetAccepted(r, i) \/ HeadAnswered(r, i)
      PROVE  TusInv'
  <2>1. Visible(i) /\ file'[r] = info[i] /\ Method[r] \notin {"POST", "PATCH"}
    BY <1>0, <1>4 DEF DeleteAccepted, GetAccepted, HeadAnswered, Begins, TypeOK
  <2>2. Plain(file'[r]) /\ Fits(r)'
    BY <1>1, <2>1 DEF Fits
  <2> QED BY <1>0, <2>2, TusStep
<1>5. ASSUME file' = file, Answer(r, "error") PROVE TusInv'
  <2>1. Fits(r)'
    BY <1>0, <1>5, AnswerGiven DEF Fits
  <2> QED BY <1>0, <1>5, <2>1, TusStep
<1> QED BY <1>2, <1>3, <1>4, <1>5 DEF Arrive, PostRefused, PatchRefused, DeleteRefused, ReadRefused

LEMMA ProceedTus ==
  ASSUME TusInv, ExactInv', NEW r \in Req, Proceed(r)
  PROVE  TusInv'
<1> DEFINE i == file[r].id
<1>0. TypeOK /\ SerialInv /\ Inv /\ Effect(r) /\ Fits(r) /\ (file[r] # None => Plain(file[r]))
  BY ProceedEffect DEF TusInv, ExactInv, SerialInv, Inv, TypeInv
<1>1. CASE CreateFile(r)
  <2> DEFINE next == IF file[r].final THEN "readPart" ELSE IF body[r] # <<>> THEN "write" ELSE "save"
  <2>1. /\ pc[r] = "create" /\ Method[r] = "POST" /\ file' = file /\ body' = body
        /\ file[r].offset = 0 /\ GoTo(r, next) /\ file[r] # None
    BY <1>0, <1>1 DEF CreateFile, Inv, TypeInv, LocalsOK
  <2>2. pc'[r] = next
    BY <1>0, <2>1, CallMade
  <2>3. Fits(r)'
    BY <1>0, <2>1, <2>2 DEF Fits
  <2> QED BY <1>0, <2>1, <2>3, TusStep
<1>2. CASE AddBytes(r)
  <2>1. /\ pc[r] = "write" /\ Method[r] \in {"POST", "PATCH"} /\ i \in Id /\ file[r] \in FileInfo
        /\ file[r] # None /\ info' = info
    BY <1>0, <1>2, AtWork DEF AddBytes, Inv, TypeInv, LocalsOK
  <2>2. data[i] # None
    <3>1. data[i] = Bytes(0, file[r].offset) /\ file[r].offset \in Nat
      BY <1>0, <2>1, AtWork DEF TusInv, ExactInv, Sound, Inv
    <3> QED BY <3>1, BytesNone
  <2>3. pc'[r] = "save"
    BY <1>0, <1>2, <2>2, CallMade DEF AddBytes
  <2>4. /\ file'[r].offset = file[r].offset + Len(body[r]) /\ file'[r].length = file[r].length
        /\ file'[r].id = i /\ Plain(file'[r])
    <3>1. file'[r] = [file[r] EXCEPT !.offset = @ + Len(body[r])]
      BY <1>0, <1>2, <2>2 DEF AddBytes, TypeOK
    <3> QED BY <1>0, <2>1, <3>1 DEF Plain, FileInfo
  <2>5. CASE Method[r] = "POST"
    <3>1. file[r].offset = 0 /\ Len(body[r]) \in Chunks \cup {0} /\ 0 + Len(body[r]) = Len(body[r])
      BY <1>0, <2>1, <2>5, InputAssumption DEF Fits
    <3>2. Fits(r)'
      BY <1>0, <2>1, <2>3, <2>4, <2>5, <3>1 DEF Fits
    <3> QED BY <1>0, <2>4, <3>2, TusStep
  <2>6. CASE Method[r] = "PATCH"
    <3>1. file[r].offset = info[i].offset
      BY <1>0, <2>1, <2>6 DEF SerialInv, Current, Works, Modifying
    <3>2. Fits(r)'
      BY <1>0, <2>1, <2>3, <2>4, <2>6, <3>1 DEF Fits
    <3> QED BY <1>0, <2>4, <3>2, TusStep
  <2> QED BY <2>1, <2>5, <2>6
<1>3. ASSUME file' = file,
             pc'[r] \notin {"create", "write", "save"},
             pc'[r] = "done" \/ Method[r] # "POST" \/ pc[r] = "save"
      PROVE  TusInv'
  <2>1. Fits(r)'
    BY <1>0, <1>3 DEF Fits
  <2> QED BY <1>0, <1>3, <2>1, TusStep
<1>4. ASSUME SaveInfo(r) \/ WriteInfo(r) \/ RemoveFile(r) \/ GetContents(r)
      PROVE  file' = file /\ pc'[r] = "done"
  BY <1>0, <1>4, AnswerGiven DEF SaveInfo, WriteInfo, RemoveFile, GetContents, Saved
<1>5. ASSUME OpenInfo(r)
      PROVE  file' = file /\ pc'[r] \in {"saving", "done"} /\ pc[r] = "save"
  BY <1>0, <1>5 DEF OpenInfo, Answer, TypeOK
<1>6. ASSUME RemoveInfo(r)
      PROVE  file' = file /\ pc'[r] \in {"removeFile", "done"} /\ Method[r] = "DELETE"
  BY <1>0, <1>6, DeleteWanted DEF RemoveInfo, Answer, GoTo, TypeOK
<1>7. ~ReadPart(r) /\ ~CopyPart(r) /\ ~DropFile(r) /\ ~DropInfo(r)
  BY NobodyJoins DEF ReadPart, CopyPart, DropFile, DropInfo, Reading, Joining
<1> QED BY <1>1, <1>2, <1>3, <1>4, <1>5, <1>6, <1>7 DEF Proceed

LEMMA RefusedTus ==
  ASSUME TusInv, ExactInv', NEW r \in Req, HookRefused(r)
  PROVE  TusInv'
<1>1. SerialInv /\ Effect(r) /\ file' = file /\ Answer(r, "error")
  BY RefusedEffect DEF TusInv, ExactInv, HookRefused
<1>2. Fits(r)'
  BY <1>1, AnswerGiven DEF Fits
<1> QED BY <1>1, <1>2, TusStep DEF TusInv

LEMMA BackgroundTus ==
  ASSUME TusInv, ExactInv', UNCHANGED <<stores, used, handlers>>
  PROVE  TusInv'
BY DEF TusInv, Fits, Plain, stores, handlers

(* What a step can be, when nothing fails. *)
Step ==
  \/ \E r \in Req : Arrive(r) \/ Proceed(r) \/ HookRefused(r)
  \/ UNCHANGED <<stores, used, handlers>>
LEMMA CalmStep ==
  ASSUME NothingFails, [Next]_vars
  PROVE  Step
<1>1. \A r \in Req : Interfere(r) => HookRefused(r)
  BY DEF Interfere, NothingFails, Disconnect, Fault, RedisAnswerLost
<1>2. \A h \in hooks : Send(h) \/ SendFails(h) => UNCHANGED <<stores, used, handlers>>
  BY DEF Send, SendFails
<1>3. ~Crash
  BY DEF Crash, NothingFails
<1>4. UNCHANGED vars => UNCHANGED <<stores, used, handlers>>
  BY DEF vars, stores, handlers
<1> QED BY <1>1, <1>2, <1>3, <1>4 DEF Next, Step, Quiet

(* TusInv is inductive. *)
LEMMA NextTusInv == NothingFails /\ NoConcat /\ TusInv /\ [Next]_vars => TusInv'
<1> SUFFICES ASSUME NothingFails, NoConcat, TusInv, [Next]_vars PROVE TusInv'
  OBVIOUS
<1>1. ExactInv'
  BY NextExactInv DEF TusInv
<1> QED BY <1>1, CalmStep, ArriveTus, ProceedTus, RefusedTus, BackgroundTus DEF Step

LEMMA InitTusInv == Init => TusInv
<1> SUFFICES ASSUME Init PROVE TusInv
  OBVIOUS
<1>1. ASSUME NEW r \in Req PROVE file[r] = None /\ Fits(r)
  BY DEF Init, Fits
<1>2. ASSUME NEW i \in Id \ Foreign PROVE ~Readable(i)
  BY <1>2 DEF Init
<1> QED BY <1>1, <1>2, InitExactInv DEF TusInv
-----------------------------------------------------------------------------
(* What clients see of an upload is what its recorded info says. *)
View(f) == [offset |-> f.offset, length |-> f.length, content |-> Bytes(0, f.offset)]

(* The first n of more than n bytes. *)
LEMMA BytesPrefix ==
  ASSUME NEW m \in Nat, NEW n \in Nat, n <= m
  PROVE  SubSeq(Bytes(0, m), 1, n) = Bytes(0, n)
<1>1. Bytes(0, m) \in Seq(Nat) /\ Len(Bytes(0, m)) = m
  BY BytesType
<1>2. SubSeq(Bytes(0, m), 1, n) = [k \in 1..n |-> Bytes(0, m)[k]]
  <2> DEFINE s == Bytes(0, m)
  <2>1. s \in Seq(Nat) /\ Len(s) = m
    BY <1>1
  <2>2. 1 \in 1..Len(s) + 1 /\ n \in 1-1..Len(s)
    BY <2>1
  <2> HIDE DEF s
  <2> QED BY <2>1, <2>2, SubSeqProperties
<1> QED BY <1>2 DEF Bytes

(* The handler that writes the info of i, if there is one, is the only one. *)
Saver(r, i) == pc[r] = "saving" /\ file[r].id = i
RecordsKnown ==
  \A i \in Id \ Foreign :
    /\ \A r \in Req : Saver(r, i) => Recorded(i) = file[r]
    /\ (\A r \in Req : ~Saver(r, i)) => Recorded(i) = IF Readable(i) THEN info[i] ELSE None
LEMMA RecordedIs == TusInv => RecordsKnown
<1> SUFFICES ASSUME TusInv, NEW i \in Id \ Foreign
             PROVE  /\ \A r \in Req : Saver(r, i) => Recorded(i) = file[r]
                    /\ (\A r \in Req : ~Saver(r, i)) =>
                         Recorded(i) = IF Readable(i) THEN info[i] ELSE None
  BY DEF RecordsKnown
<1> USE DEF Saver
<1>0. SerialInv /\ Inv
  BY DEF TusInv, ExactInv, SerialInv
<1>1. ASSUME NEW r \in Req, pc[r] = "saving", file[r].id = i PROVE Recorded(i) = file[r]
  <2>1. \A q \in Req : pc[q] = "saving" /\ file[q].id = i => q = r
    BY <1>0, <1>1, SaversSave DEF SerialInv, Alone
  <2>2. (CHOOSE q \in Req : pc[q] = "saving" /\ file[q].id = i) = r
    BY <1>1, <2>1
  <2> QED BY <1>1, <2>2 DEF Recorded
<1>2. Readable(i) => Visible(i)
  BY DEF TusInv, Plain, Visible
<1>3. Visible(i) => Readable(i)
  BY DEF Visible
<1>4. ASSUME \A r \in Req : ~(pc[r] = "saving" /\ file[r].id = i)
      PROVE  Recorded(i) = IF Readable(i) THEN info[i] ELSE None
  BY <1>2, <1>3, <1>4 DEF Recorded
<1> QED BY <1>1, <1>4

(* The content of an upload is its first bytes, as many as its offset says. *)
UploadsKnown ==
  \A i \in Id \ Foreign :
    /\ Recorded(i) # None => Recorded(i) \in FileInfo
    /\ Upload(i) = IF Recorded(i) # None THEN View(Recorded(i))
                   ELSE IF Deleted(i) THEN Terminated ELSE Absent
LEMMA UploadIs == TusInv => UploadsKnown
<1> SUFFICES ASSUME TusInv, NEW i \in Id \ Foreign, Recorded(i) # None
             PROVE  /\ Recorded(i) \in FileInfo
                    /\ SubSeq(data[i], 1, Recorded(i).offset) = Bytes(0, Recorded(i).offset)
  BY DEF UploadsKnown, Upload, View
<1>0. SerialInv /\ Inv
  BY DEF TusInv, ExactInv, SerialInv
<1>1. ASSUME NEW r \in Req, pc[r] = "saving", file[r].id = i
      PROVE  /\ Recorded(i) \in FileInfo
             /\ SubSeq(data[i], 1, Recorded(i).offset) = Bytes(0, Recorded(i).offset)
  <2>1. Recorded(i) = file[r]
    BY <1>1, RecordedIs DEF RecordsKnown, Saver
  <2>2. file[r] \in FileInfo /\ file[r] # None /\ file[r].offset \in Nat
    BY <1>0, <1>1, AtWork DEF Inv
  <2>3. data[i] = Bytes(0, file[r].offset)
    BY <1>1, <2>2 DEF TusInv, Plain, ExactInv, Sound
  <2> QED BY <2>1, <2>2, <2>3, BytesPrefix
<1>2. ASSUME \A r \in Req : ~(pc[r] = "saving" /\ file[r].id = i)
      PROVE  /\ Recorded(i) \in FileInfo
             /\ SubSeq(data[i], 1, Recorded(i).offset) = Bytes(0, Recorded(i).offset)
  <2>1. Readable(i) /\ Recorded(i) = info[i]
    BY <1>2, RecordedIs DEF RecordsKnown, Saver
  <2>2. info[i] \in FileInfo /\ info[i].offset \in Nat /\ ~info[i].final
    BY <1>0, <2>1, FileFields DEF Inv, TypeInv, TypeOK, TusInv, Plain
  <2>3. CASE data[i] = Bytes(0, info[i].offset)
    BY <2>1, <2>2, <2>3, BytesPrefix
  <2>4. ASSUME NEW r \in Req, pc[r] = "save", file[r].id = i
        PROVE  SubSeq(data[i], 1, Recorded(i).offset) = Bytes(0, Recorded(i).offset)
    <3>1. file[r].offset \in Nat /\ ~file[r].final
      BY <1>0, <2>4, AtWork DEF Inv, TusInv, Plain
    <3>2. data[i] = Bytes(0, file[r].offset)
      BY <2>4, <3>1 DEF TusInv, ExactInv, Sound
    <3>3. info[i].offset <= file[r].offset
      <4>1. Works(r) /\ Method[r] \in {"POST", "PATCH"}
        BY <1>0, <2>4, SaversSave DEF Saving
      <4> QED BY <1>0, <2>1, <2>2, <2>4, <4>1, FileFields DEF SerialInv, Current
    <3> QED BY <2>1, <2>2, <3>1, <3>2, <3>3, BytesPrefix
  <2>5. ~\E r \in Req : pc[r] = "dropInfo" /\ Part(r) = i
    BY NobodyJoins DEF Joining
  <2> QED BY <2>1, <2>2, <2>3, <2>4, <2>5 DEF TusInv, ExactInv, Exact
<1> QED BY <1>1, <1>2

LEMMA RecordedIsNext == TusInv' => RecordsKnown'
BY RecordedIs, PTL

LEMMA UploadIsNext == TusInv' => UploadsKnown'
BY UploadIs, PTL

(* So an upload changes only with its recorded info, or when it is deleted. *)
LEMMA UploadKept ==
  ASSUME TusInv, TusInv', NEW i \in Id \ Foreign,
         Recorded(i)' = Recorded(i), Recorded(i) = None => Deleted(i)' = Deleted(i)
  PROVE  Upload(i)' = Upload(i)
BY UploadIs, UploadIsNext DEF UploadsKnown, View

LEMMA RecordedKept ==
  ASSUME TusInv, TusInv', NEW i \in Id \ Foreign, info'[i] = info[i],
         \A r \in Req : Saver(r, i)' <=> Saver(r, i),
         \A r \in Req : Saver(r, i) => file'[r] = file[r]
  PROVE  Recorded(i)' = Recorded(i)
<1>1. CASE \E r \in Req : Saver(r, i)
  BY <1>1, RecordedIs, RecordedIsNext DEF RecordsKnown
<1>2. CASE \A r \in Req : ~Saver(r, i)
  <2>1. Recorded(i) = IF Readable(i) THEN info[i] ELSE None
    BY <1>2, RecordedIs DEF RecordsKnown
  <2>2. Recorded(i)' = IF Readable(i)' THEN info'[i] ELSE None
    BY <1>2, RecordedIsNext DEF RecordsKnown
  <2> QED BY <2>1, <2>2
<1> QED BY <1>1, <1>2

(* A step that writes no info is not seen, but a DELETE that enters is noted. *)
LEMMA UnseenStep ==
  ASSUME TusInv, TusInv', NEW r \in Req, Arrive(r) \/ Proceed(r) \/ HookRefused(r),
         info' = info, pc[r] # "saving", pc'[r] # "saving",
         \/ Method[r] # "DELETE" \/ file'[r] = file[r]
         \/ file[r] = None /\ Recorded(file'[r].id) # None
  PROVE  Uploads' = Uploads
<1>1. \A q \in Req : q # r => pc'[q] = pc[q] /\ file'[q] = file[q]
  BY OthersRest
<1>2. ASSUME NEW i \in Id \ Foreign PROVE Upload(i)' = Upload(i)
  <2>1. Recorded(i)' = Recorded(i)
    BY <1>1, RecordedKept DEF Saver
  <2>2. Recorded(i) = None => Deleted(i)' = Deleted(i)
    <3> SUFFICES ASSUME Recorded(i) = None PROVE Deleted(i)' <=> Deleted(i)
      BY DEF Deleted
    <3>1. ASSUME NEW q \in Req, Method[q] = "DELETE"
          PROVE  file'[q] # None /\ file'[q].id = i <=> file[q] # None /\ file[q].id = i
      BY <1>1, <3>1
    <3> QED BY <3>1 DEF Deleted
  <2> QED BY <2>1, <2>2, UploadKept
<1> QED BY <1>2 DEF Uploads

(* set_info by a handler at work on i changes no other upload. *)
LEMMA OthersUnseen ==
  ASSUME TusInv, TusInv', NEW r \in Req, Arrive(r) \/ Proceed(r) \/ HookRefused(r),
         file' = file, \A j \in Id \ {file[r].id} : info'[j] = info[j]
  PROVE  \A j \in Id \ Foreign : j # file[r].id => Upload(j)' = Upload(j)
<1>1. \A q \in Req : q # r => pc'[q] = pc[q]
  BY OthersRest
<1>2. ASSUME NEW j \in Id \ Foreign, j # file[r].id PROVE Recorded(j)' = Recorded(j)
  BY <1>1, <1>2, RecordedKept DEF Saver
<1> QED BY <1>2, UploadKept DEF Deleted

(* An upload that can be seen is one. *)
LEMMA ViewExists ==
  ASSUME NEW f \in FileInfo
  PROVE  View(f) \notin {Absent, Terminated}
<1>1. f.offset \in Nat /\ f.length \in Nat \cup {None}
  BY FileFields
<1>2. Bytes(0, f.offset) \in Seq(Nat)
  BY <1>1, BytesType
<1>3. View(f) \in [offset : Nat, length : Nat \cup {None}, content : Seq(Nat)]
  BY <1>1, <1>2 DEF View
<1> QED BY <1>3, AbsentAssumption

(* A handler about to save is at work on its upload alone. *)
LEMMA NoSaver ==
  ASSUME TusInv, NEW r \in Req, Works(r), pc[r] # "saving"
  PROVE  /\ file[r].id \in Id \ Foreign
         /\ \A q \in Req : ~Saver(q, file[r].id)
<1>0. SerialInv /\ Inv /\ file[r].id \in Id /\ file[r] # None
  BY AtWork DEF TusInv, ExactInv, SerialInv, Inv, Works
<1>1. file[r].id \notin Foreign
  BY <1>0 DEF Inv, IdsInv, UsedInv
<1>2. ASSUME NEW q \in Req, Saver(q, file[r].id) PROVE FALSE
  <2>1. Works(q)
    BY <1>0, <1>2, SaversSave DEF Saver
  <2> QED BY <1>0, <1>2, <2>1 DEF SerialInv, Alone, Saver
<1> QED BY <1>0, <1>1, <1>2

(* set_info creates the upload, or appends to it. *)
LEMMA Published ==
  ASSUME TusInv, TusInv', NEW r \in Req, pc[r] = "save",
         NEW i, i = file[r].id, NEW f, f = file[r], Recorded(i)' = f,
         \A j \in Id \ Foreign : j # i => Upload(j)' = Upload(j)
  PROVE  Tus!Next
<1>0. /\ SerialInv /\ Inv /\ Works(r) /\ Method[r] \in {"POST", "PATCH"} /\ f \in FileInfo /\ f # None
      /\ f.offset \in Nat /\ i \in Id \ Foreign /\ Fits(r) /\ Plain(f)
  BY SaversSave, NoSaver, AtWork DEF TusInv, ExactInv, SerialInv, Saving, Inv
<1>1. Recorded(i) = IF Readable(i) THEN info[i] ELSE None
  BY <1>0, NoSaver, RecordedIs DEF RecordsKnown
<1>2. Upload(i)' = View(f)
  BY <1>0, UploadIsNext DEF UploadsKnown, View
<1>3. /\ Uploads' = [Uploads EXCEPT ![i] = View(f)] /\ Uploads[i] = Upload(i)
  BY <1>0, <1>2 DEF Uploads
<1>4. CASE Method[r] = "POST"
  <2>1. ~Readable(i) /\ ~Deleted(i)
    BY <1>0, <1>4, AlonePost DEF Deleted
  <2>2. Upload(i) = Absent
    BY <1>0, <1>1, <2>1, UploadIs DEF UploadsKnown
  <2>3. f.length \in Lengths \cup {None} /\ f.offset \in Chunks \cup {0}
    BY <1>0, <1>4 DEF Fits, Plain
  <2>4. Tus!CreateUpload(i, f.length, f.offset)
    BY <1>3, <2>2 DEF Tus!CreateUpload, Tus!Chunk, View, Bytes
  <2> QED BY <1>0, <2>3, <2>4 DEF Tus!Next
<1>5. CASE Method[r] = "PATCH"
  <2>1. /\ Readable(i) /\ info[i] \in FileInfo /\ info[i] # None /\ info[i].offset \in Nat
        /\ info[i].length # info[i].offset
    BY <1>0, <1>5, FileFields DEF SerialInv, Current, Visible, Finished, Inv, TypeInv, TypeOK
  <2>2. Upload(i) = View(info[i]) /\ Upload(i) \notin {Absent, Terminated}
    BY <1>0, <1>1, <2>1, UploadIs, ViewExists DEF UploadsKnown
  <2>3. PICK n \in Chunks : f.offset = info[i].offset + n
    BY <1>0, <1>5 DEF Fits
  <2>4. \/ f.length = info[i].length
        \/ info[i].length = None /\ f.length \in Lengths /\ f.length > info[i].offset
    BY <1>0, <1>5 DEF Fits
  <2>5. Bytes(0, info[i].offset) \o Tus!Chunk(info[i].offset, n) = Bytes(0, f.offset)
    <3>1. n \in Nat /\ Tus!Chunk(info[i].offset, n) = Bytes(info[i].offset, n)
      BY InputAssumption DEF Tus!Chunk, Bytes
    <3> QED BY <2>1, <2>3, <3>1, BytesAppend DEF Appended
  <2>6. Tus!Exists(i) /\ ~Tus!Complete(i)
    BY <1>3, <2>1, <2>2 DEF Tus!Exists, Tus!Complete, View
  <2>7. /\ Uploads[i].offset = info[i].offset /\ Uploads[i].length = info[i].length
        /\ Uploads[i].content = Bytes(0, info[i].offset)
    BY <1>3, <2>2 DEF View
  <2>8. Uploads' = [Uploads EXCEPT ![i] =
          [offset |-> @.offset + n, length |-> f.length,
           content |-> @.content \o Tus!Chunk(@.offset, n)]]
    BY <1>3, <2>3, <2>5, <2>7 DEF View
  <2>9. Tus!AppendChunk(i, f.length, n)
    BY <2>4, <2>6, <2>7, <2>8 DEF Tus!AppendChunk
  <2> QED BY <1>0, <2>9 DEF Tus!Next, Plain
<1> QED BY <1>0, <1>4, <1>5
-----------------------------------------------------------------------------
(* A request that enters changes no upload. *)
LEMMA ArriveSeen ==
  ASSUME TusInv, TusInv', NEW r \in Req, Arrive(r)
  PROVE  Uploads' = Uploads
<1>0. TypeOK /\ SerialInv /\ Inv
  BY DEF TusInv, ExactInv, SerialInv, Inv, TypeInv
<1>1. info' = info /\ pc[r] = "idle" /\ file[r] = None
  BY <1>0 DEF Arrive, PostRefused, PostAccepted, PatchRefused, PatchAccepted, DeleteRefused,
              DeleteAccepted, ReadRefused, GetAccepted, HeadAnswered, Begins, stores,
              SerialInv, Attended
<1>2. pc'[r] \in {"create", "write", "removeInfo", "read", "done"}
  BY <1>0 DEF Arrive, PostRefused, PostAccepted, PatchRefused, PatchAccepted, DeleteRefused,
              DeleteAccepted, ReadRefused, GetAccepted, HeadAnswered, Answer, TypeOK
<1>3. \/ Method[r] # "DELETE" \/ file'[r] = file[r]
      \/ file[r] = None /\ Recorded(file'[r].id) # None
  <2>1. ASSUME NEW i \in Id, DeleteAccepted(r, i) PROVE Recorded(file'[r].id) # None
    <3>1. file'[r].id = i /\ Visible(i) /\ i \notin Foreign
      BY <1>0, <2>1, DeleteStarts, OwnVisible DEF DeleteAccepted, TusInv
    <3>2. Visible(i) => info[i] # None /\ Readable(i)
      BY DEF Visible
    <3>3. \A q \in Req : Saver(q, i) => file[q] # None
      BY <1>0, AtWork DEF Saver, Inv
    <3> QED BY <3>1, <3>2, <3>3, RecordedIs DEF RecordsKnown
  <2>2. ASSUME NEW i \in Id, NEW m, PostAccepted(r, i, m) \/ PatchAccepted(r, i, m)
        PROVE  Method[r] # "DELETE"
    BY <2>2 DEF PostAccepted, PatchAccepted, Begins
  <2>3. ASSUME NEW i \in Id, GetAccepted(r, i) \/ HeadAnswered(r, i) PROVE Method[r] # "DELETE"
    BY <2>3 DEF GetAccepted, HeadAnswered, Begins
  <2>4. ASSUME NEW i \in Id, PatchRefused(r, i) \/ DeleteRefused(r, i) \/ ReadRefused(r, i)
        PROVE  file'[r] = file[r]
    BY <2>4 DEF PatchRefused, DeleteRefused, ReadRefused
  <2>5. PostRefused(r) => file'[r] = file[r]
    BY DEF PostRefused
  <2> QED BY <1>1, <2>1, <2>2, <2>3, <2>4, <2>5 DEF Arrive
<1> QED BY <1>1, <1>2, <1>3, UnseenStep

LEMMA OpenSeen ==
  ASSUME TusInv, TusInv', NEW r \in Req, OpenInfo(r)
  PROVE  Tus!Next
<1>0. /\ SerialInv /\ Inv /\ pc[r] = "save" /\ Works(r) /\ Saving(r, file[r].id)
      /\ file' = file /\ Proceed(r)
  BY SaversSave DEF OpenInfo, TusInv, ExactInv, SerialInv, Proceed
<1>1. PICK i, f : i = file[r].id /\ f = file[r]
  OBVIOUS
<1>2. Openable(r)
  BY <1>0 DEF Openable, SerialInv, Current, Visible, Saving
<1>3. pc'[r] = "saving" /\ \A j \in Id \ {i} : info'[j] = info[j]
  BY <1>0, <1>1, <1>2 DEF OpenInfo, Inv, TypeInv, TypeOK
<1>4. i \in Id \ Foreign /\ Saver(r, i)'
  BY <1>0, <1>1, <1>3, NoSaver DEF Saver
<1>5. Recorded(i)' = f
  BY <1>0, <1>1, <1>4, RecordedIsNext DEF RecordsKnown
<1>6. \A j \in Id \ Foreign : j # i => Upload(j)' = Upload(j)
  BY <1>0, <1>1, <1>3, OthersUnseen
<1> QED BY <1>0, <1>1, <1>5, <1>6, Published

(* set_info has returned. *)
LEMMA RecordedSaved ==
  ASSUME TusInv, TusInv', NEW r \in Req, Proceed(r), pc[r] \in {"save", "saving"}, Saved(r),
         file' = file, info' = [info EXCEPT ![file[r].id] = file[r]],
         NEW i, i = file[r].id, NEW f, f = file[r]
  PROVE  /\ i \in Id \ Foreign /\ Recorded(i)' = f
         /\ \A j \in Id \ Foreign : j # i => Upload(j)' = Upload(j)
<1>0. SerialInv /\ Inv /\ Works(r) /\ i \in Id \ Foreign /\ f \in FileInfo
  <2>1. SerialInv /\ Inv /\ Works(r) /\ i \in Id /\ f \in FileInfo /\ f # None
    BY SaversSave, AtWork DEF TusInv, ExactInv, SerialInv, Inv
  <2> QED BY <2>1 DEF Inv, IdsInv, UsedInv
<1>1. info'[i] = f /\ \A j \in Id \ {i} : info'[j] = info[j]
  BY <1>0 DEF Inv, TypeInv, TypeOK
<1>2. ASSUME NEW q \in Req, Saver(q, i)' PROVE FALSE
  <2>1. pc'[r] = "done" /\ \A x \in Req : x # r => pc'[x] = pc[x] /\ file'[x] = file[x]
    BY <1>0, AnswerGiven DEF Saved
  <2>2. q # r /\ pc[q] = "saving" /\ file[q].id = i
    BY <1>2, <2>1 DEF Saver
  <2>3. Works(q)
    BY <1>0, <2>2, SaversSave
  <2> QED BY <1>0, <2>2, <2>3 DEF SerialInv, Alone
<1>3. Recorded(i)' = f
  <2>1. Recorded(i)' = IF Readable(i)' THEN info'[i] ELSE None
    BY <1>0, <1>2, RecordedIsNext DEF RecordsKnown
  <2> QED BY <1>0, <1>1, <2>1, FileFields
<1>4. \A j \in Id \ Foreign : j # i => Upload(j)' = Upload(j)
  BY <1>0, <1>1, OthersUnseen
<1> QED BY <1>0, <1>3, <1>4

LEMMA SaveSeen ==
  ASSUME TusInv, TusInv', NEW r \in Req, SaveInfo(r)
  PROVE  Tus!Next
<1>1. PICK i, f : i = file[r].id /\ f = file[r]
  OBVIOUS
<1>2. Recorded(i)' = f /\ \A j \in Id \ Foreign : j # i => Upload(j)' = Upload(j)
  BY <1>1, RecordedSaved DEF SaveInfo, Proceed
<1> QED BY <1>1, <1>2, Published DEF SaveInfo

LEMMA WriteSeen ==
  ASSUME TusInv, TusInv', NEW r \in Req, WriteInfo(r)
  PROVE  Uploads' = Uploads
<1>0. SerialInv /\ pc[r] = "saving" /\ Works(r) /\ file' = file
  BY SaversSave DEF WriteInfo, TusInv, ExactInv, SerialInv
<1>1. PICK i, f : i = file[r].id /\ f = file[r]
  OBVIOUS
<1>2. Written(i, f) = {f}
  <2>1. info[i] = Empty
    BY <1>0, <1>1 DEF SerialInv, Current
  <2> QED BY <2>1, TornAssumption DEF Written, Torn
<1>3. /\ i \in Id \ Foreign /\ Recorded(i)' = f
      /\ \A j \in Id \ Foreign : j # i => Upload(j)' = Upload(j)
  BY <1>0, <1>1, <1>2, RecordedSaved DEF WriteInfo, Proceed
<1>4. Recorded(i) = f
  BY <1>0, <1>1, <1>3, RecordedIs DEF RecordsKnown, Saver
<1>5. Upload(i)' = Upload(i)
  BY <1>0, <1>3, <1>4, UploadKept DEF Deleted
<1> QED BY <1>3, <1>5 DEF Uploads

LEMMA RemoveSeen ==
  ASSUME TusInv, TusInv', NEW r \in Req, RemoveInfo(r)
  PROVE  Tus!Next
<1>0. /\ SerialInv /\ Inv /\ pc[r] = "removeInfo" /\ Method[r] = "DELETE" /\ Works(r)
      /\ file' = file /\ file[r] \in FileInfo /\ file[r] # None /\ Proceed(r)
  BY DeleteWanted, AtWork
  DEF RemoveInfo, TusInv, ExactInv, SerialInv, Works, Modifying, Inv, Proceed
<1>1. PICK i : i = file[r].id
  OBVIOUS
<1>2. i \in Id \ Foreign /\ (\A q \in Req : ~Saver(q, i)) /\ info[i] = file[r]
  BY <1>0, <1>1, NoSaver DEF SerialInv, Current
<1>3. /\ pc'[r] = "removeFile" /\ info'[i] = None /\ \A j \in Id \ {i} : info'[j] = info[j]
  BY <1>0, <1>1, <1>2, CallMade DEF RemoveInfo, Inv, TypeInv, TypeOK
<1>4. \A q \in Req : ~Saver(q, i)'
  <2>1. \A q \in Req : q # r => pc'[q] = pc[q]
    BY <1>0, OthersRest
  <2> QED BY <1>0, <1>2, <1>3, <2>1 DEF Saver
<1>5. Recorded(i)' = None /\ Deleted(i)'
  BY <1>0, <1>1, <1>2, <1>3, <1>4, RecordedIsNext DEF RecordsKnown, Deleted
<1>6. Upload(i)' = Terminated
  BY <1>2, <1>5, UploadIsNext DEF UploadsKnown
<1>7. Recorded(i) = file[r]
  BY <1>0, <1>2, RecordedIs, FileFields DEF RecordsKnown
<1>8. Upload(i) = View(file[r]) /\ Upload(i) \notin {Absent, Terminated}
  BY <1>0, <1>2, <1>7, UploadIs, ViewExists DEF UploadsKnown
<1>9. \A j \in Id \ Foreign : j # i => Upload(j)' = Upload(j)
  BY <1>0, <1>1, <1>3, OthersUnseen
<1>10. Uploads' = [Uploads EXCEPT ![i] = Terminated] /\ Uploads[i] = Upload(i)
  BY <1>2, <1>6, <1>9 DEF Uploads
<1>11. Tus!Terminate(i)
  BY <1>8, <1>10 DEF Tus!Terminate, Tus!Exists
<1> QED BY <1>2, <1>11 DEF Tus!Next

LEMMA ProceedSeen ==
  ASSUME TusInv, TusInv', NEW r \in Req, Proceed(r)
  PROVE  Tus!Next \/ Uploads' = Uploads
<1>0. TypeOK /\ SerialInv /\ Inv
  BY DEF TusInv, ExactInv, SerialInv, Inv, TypeInv
<1>1. CASE CreateFile(r) \/ AddBytes(r)
  <2>1. /\ info' = info /\ Method[r] # "DELETE" /\ pc[r] \in {"create", "write"}
    BY <1>0, <1>1 DEF CreateFile, AddBytes, Inv, TypeInv, LocalsOK
  <2>2. pc'[r] # "saving"
    BY <1>0, <1>1 DEF CreateFile, AddBytes, GoTo, Answer, TypeOK
  <2> QED BY <2>1, <2>2, UnseenStep
<1>2. CASE RemoveFile(r) \/ GetContents(r)
  <2>1. info' = info /\ file' = file /\ pc[r] \in {"removeFile", "read"} /\ pc'[r] = "done"
    BY <1>0, <1>2, AnswerGiven DEF RemoveFile, GetContents, stores
  <2> QED BY <2>1, UnseenStep
<1>3. ~ReadPart(r) /\ ~CopyPart(r) /\ ~DropFile(r) /\ ~DropInfo(r)
  BY NobodyJoins DEF ReadPart, CopyPart, DropFile, DropInfo, Reading, Joining
<1> QED BY <1>1, <1>2, <1>3, OpenSeen, SaveSeen, WriteSeen, RemoveSeen DEF Proceed

LEMMA RefusedSeen ==
  ASSUME TusInv, TusInv', NEW r \in Req, HookRefused(r)
  PROVE  Uploads' = Uploads
<1>1. info' = info /\ file' = file /\ pc[r] # "saving" /\ pc'[r] = "done"
  BY AnswerGiven DEF HookRefused, stores, TusInv, ExactInv
<1> QED BY <1>1, UnseenStep

LEMMA BackgroundSeen ==
  ASSUME UNCHANGED <<stores, used, handlers>>
  PROVE  Uploads' = Uploads
<1>1. \A i : Recorded(i)' = Recorded(i) /\ Deleted(i)' = Deleted(i)
  BY DEF Recorded, Deleted, Visible, stores, handlers
<1> QED BY <1>1 DEF Uploads, Upload, stores

(* No upload exists at first. *)
LEMMA InitTus == Init => Tus!Init
<1> SUFFICES ASSUME Init PROVE Tus!Init
  OBVIOUS
<1>1. ASSUME NEW i \in Id \ Foreign PROVE Upload(i) = Absent
  <2>1. Recorded(i) = None /\ ~Deleted(i)
    BY <1>1 DEF Init, Recorded, Visible, Deleted
  <2> QED BY <2>1 DEF Upload
<1> QED BY <1>1 DEF Tus!Init, Uploads

(* Each step is one that TusUpload allows. *)
LEMMA NextTus == NothingFails /\ TusInv /\ TusInv' /\ [Next]_vars => [Tus!Next]_Uploads
<1> SUFFICES ASSUME NothingFails, TusInv, TusInv', [Next]_vars PROVE Tus!Next \/ Uploads' = Uploads
  OBVIOUS
<1>1. Step
  BY CalmStep
<1> QED BY <1>1, ArriveSeen, ProceedSeen, RefusedSeen, BackgroundSeen DEF Step

(* Every step of a handler is a step of TusUpload or leaves every upload as it is: *)
(* for any number of clients that wait for their answers, every set of ids and     *)
(* every configuration without concatenation.                                      *)
THEOREM ImplementsTus ==
  ASSUME NothingFails, NoConcat
  PROVE  Spec => ImplementsTusUpload
<1>1. TusInv /\ TusInv' /\ [Next]_vars => [Tus!Next]_Uploads
  BY NextTus
<1>2. TusInv /\ [Next]_vars => TusInv'
  BY NextTusInv
<1> QED BY <1>1, <1>2, InitTus, InitTusInv, PTL DEF Spec, ImplementsTusUpload, Tus!Spec
=============================================================================

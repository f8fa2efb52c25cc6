----------------------------- MODULE MainProofs -----------------------------
(***************************************************************************)
(* Type correctness and safety of Main, for all options, requests and      *)
(* environments.                                                           *)
(*                                                                         *)
(* TypeOK is inductive only together with what connects its variables: a   *)
(* request has sends, an answer and a route only in the phase that allows  *)
(* them (PhaseOK), a send waits only for what its recipient can give it    *)
(* (WaitsOK), an AMQP connection is lent to the one send that is opening a *)
(* channel with it (ConnInv), and messages are on their way only while the *)
(* server serves (StreamInv).                                              *)
(*                                                                         *)
(* The actions fall into three kinds: a send goes on or fails (GoesOn), an *)
(* exchange ends (Ends), and the rest.  What each kind leaves alone is     *)
(* shown once, for all its actions.                                        *)
(*                                                                         *)
(* RefusalCancels follows from what is true of a pre-hook after it ended:  *)
(* whoever is refused has failed (RefusedFailed), sends that ended stay as *)
(* they ended (EndedStays), and work is only done when the pre-hook has    *)
(* ended well or was not needed (WorksAllowed).  A late answer changes     *)
(* nothing, since the send does not wait for it any more.                  *)
(*                                                                         *)
(* ErrorsCounted counts a set that grows by one request at a time, and     *)
(* only when that request is answered.  StorageIsReady needs to know what  *)
(* main() has prepared at each stage on the way (Prepares).                *)
(*                                                                         *)
(* ChannelsSound, for pools of any size, is inductive with TypeInv: the    *)
(* lemmas ChannelsKept, WithoutChannel, ChannelGivenBack and ChannelTaken  *)
(* are all that the sends may do to the channels, ClosedChannels is what   *)
(* the broker may do.                                                      *)
(*                                                                         *)
(* ToldInOrder: for each send SendInv relates where it is in the list of   *)
(* recipients to who was told.  The awaited ones it has passed have said   *)
(* yes, the awaited ones it has not reached know nothing, and the only     *)
(* call whose answer it still waits for is the one to the recipient it is  *)
(* at.  So nobody has heard of a send that has not begun, in particular of *)
(* a post-hook before the pre-hook ended well (PostUntouched), and         *)
(* appending to what a recipient, or the stream to NATS, has got keeps the *)
(* two hooks in order (PairInv): PreBeforePost.                            *)
(*                                                                         *)
(* AdvertisedIsServed: sorting the list of extensions loses none, so that  *)
(* the server has what the ones it has need (OptionsInv), and every answer *)
(* has a status and a list that agree with the options, or the status of  *)
(* the hook that declined the request (AnswersInv).                        *)
(***************************************************************************)
EXTENDS Main, TLAPS, SequenceTheorems, FiniteSetTheorems

(* What the phase of a request says about its two sends and its answer. *)
PhaseOK(r) ==
  LET pre == <<r, "pre">>
      post == <<r, "post">>
  IN /\ stage # "serving" => phase[r] = "idle"
     /\ phase[r] = "idle" => step[pre] = "none" /\ step[post] = "none" /\ resp[r] = None
     /\ phase[r] = "open" => /\ step[post] = "none" /\ resp[r] = None /\ Served(request[r])
                             /\ request[r].method \in {"POST", "DELETE", "PATCH"}
     /\ Running(pre) => phase[r] = "open"
     /\ step[pre] # "none" => hook_is_active(pre)

(* A connection is lent to a send that opens a channel, and to one only. *)
ConnInv ==
  /\ \A k \in Connection : conn[k] # None /\ conn[k].by # None => step[conn[k].by] = "create"
  /\ \A k, l \in Connection : conn[k] # None /\ conn[l] # None /\ conn[k].by # None
       /\ conn[k].by = conn[l].by => k = l

(* Who waits for an answer, and who for the AMQP pools. *)
WaitsOK(j) ==
  /\ step[j] = "answer" => Awaited(Sink(j))
  /\ step[j] \in {"open", "create", "publish"} => Sink(j) = "amqp"

(* Messages are on their way through open channels of a server that serves. *)
StreamInv ==
  \A c \in Channel : stream[c] # <<>> => stage = "serving" /\ chan[c] # None /\ chan[c].alive

(* The inductive invariant. *)
TypeInv == TypeOK /\ ConnInv /\ StreamInv /\ (\A j \in Job : WaitsOK(j)) /\ \A r \in Req : PhaseOK(r)
-----------------------------------------------------------------------------
(* A send is the pre-hook or the post-hook of a request. *)
LEMMA Jobs ==
  /\ \A r \in Req : <<r, "pre">> \in Job /\ <<r, "post">> \in Job
  /\ \A j \in Job : \E r \in Req : j = <<r, "pre">> \/ j = <<r, "post">>
  /\ None \notin Job
  BY NoneAssumption DEF Job

(* The positions in the list of recipients. *)
LEMMA OrderFacts ==
  /\ Len(Order) = 7 /\ DOMAIN Order = 1..7 /\ Sinks \subseteq 1..7
  /\ \A k \in 1..7 : Order[k] \in SinkNames
  BY DEF Order, Sinks, SinkNames

(* The first recipient after position k. *)
LEMMA AfterFirst ==
  ASSUME NEW k \in 0..7, After(k) # {}
  PROVE  /\ Min(After(k)) \in Sinks /\ Min(After(k)) > k
         /\ \A l \in Sinks : l > k => Min(After(k)) <= l
<1>1. After(k) \subseteq 1..7
  BY OrderFacts DEF After
<1>2. \E x \in After(k) : \A y \in After(k) : x <= y
  <2>1. PICK a \in After(k) : TRUE
    OBVIOUS
  <2> QED BY <1>1, <2>1
<1> QED BY <1>2 DEF Min, After

(* A record of these fields is a Response. *)
LEMMA ResponseType ==
  ASSUME NEW status \in 200..999, NEW origin \in Origin \cup {None, "*"}, NEW tus \in BOOLEAN,
         NEW extensions \in SUBSET Extensions, NEW algorithms \in BOOLEAN
  PROVE  [status |-> status, origin |-> origin, tus |-> tus, extensions |-> extensions,
          algorithms |-> algorithms] \in Response
  BY DEF Response

(* The layers around a handler keep its status. *)
LEMMA LayeredType ==
  ASSUME TypeOK, NEW r \in Req, NEW status \in 200..999, NEW extensions \in SUBSET Extensions
  PROVE  /\ Layered(request[r], status, extensions) \in Response
         /\ Layered(request[r], status, extensions).status = status
         /\ Layered(request[r], status, extensions) # None
<1>1. Welcome(request[r]) \in Origin \cup {None, "*"}
  BY DEF TypeOK, HttpRequest, Welcome
<1>2. Layered(request[r], status, extensions) \in Response
  <2> DEFINE tus == request[r].path \in {"base", "file"}
             algorithms == extensions # {} /\ Enabled("checksum")
  <2>1. tus \in BOOLEAN /\ algorithms \in BOOLEAN
    OBVIOUS
  <2>2. Layered(request[r], status, extensions) =
          [status |-> status, origin |-> Welcome(request[r]), tus |-> tus,
           extensions |-> extensions, algorithms |-> algorithms]
    BY Zenon DEF Layered
  <2> HIDE DEF tus, algorithms
  <2>3. [status |-> status, origin |-> Welcome(request[r]), tus |-> tus,
         extensions |-> extensions, algorithms |-> algorithms] \in Response
    BY <1>1, <2>1, ResponseType
  <2> QED BY <2>2, <2>3, Zenon
<1> QED BY <1>2, NoneAssumption DEF Layered
-----------------------------------------------------------------------------
(* What the steps have in common: send j goes on, or ends, or ... *)
GoesOn(j) ==
  /\ Running(j)
  /\ \E w \in Waiting \cup Failed \cup {"ok", "panic"} : step' = [step EXCEPT ![j] = w]
  /\ at' \in [Job -> 0..7]
  /\ \A i \in Job \ {j} : at'[i] = at[i]
  /\ step'[j] \in Waiting => at'[j] \in Sinks
  /\ step'[j] \in Waiting \ {"call"} => at'[j] = at[j]
  /\ step'[j] = "answer" => Awaited(Sink(j))
  /\ step'[j] \in {"open", "create", "publish"} => Sink(j) = "amqp"
  /\ UNCHANGED rvars

(* ... request r is answered, or its connection is closed. *)
Responds(r, status) ==
  \E extensions \in SUBSET Extensions :
    Respond(r, Layered(request[r], status, extensions)) /\ Counted(status) /\ Known(request[r])

(* Exchange r ends: after its pre-hook, with a 2xx only if that ended well. *)
Ends(r) ==
  /\ stage = "serving" /\ phase[r] # "done"
  /\ ~Running(<<r, "pre">>)
  /\ \/ \E status \in 200..999 :
          /\ Responds(r, status)
          /\ status \in 200..299 => step[<<r, "pre">>] \in {"none", "ok"}
     \/ NotFound(r)
     \/ NoResponse(r)

(* A send is running as long as it waits for something. *)
LEMMA StepKinds ==
  /\ Waiting \cap Ended = {} /\ Waiting \cup Ended = Waiting \cup Failed \cup {"none", "ok", "panic", "dropped"}
  /\ \A j \in Job : TypeOK => (Running(j) <=> step[j] \in Waiting)
  BY DEF Waiting, Ended, Failed, Running, TypeOK

(* GoOn moves one send, to a recipient that there is, or ends it. *)
LEMMA GoOnType ==
  ASSUME TypeOK, NEW j \in Job, NEW k \in 0..7, GoOn(j, k)
  PROVE  /\ step' = [step EXCEPT ![j] = "ok"] \/ step' = [step EXCEPT ![j] = "call"]
         /\ at' \in [Job -> 0..7]
         /\ \A i \in Job \ {j} : at'[i] = at[i]
         /\ step'[j] \in Waiting => at'[j] \in Sinks
<1>1. at \in [Job -> 0..7] /\ step = [i \in Job |-> step[i]]
  BY OrderFacts DEF TypeOK
<1>2. CASE After(k) = {}
  BY <1>1, <1>2 DEF GoOn, Waiting
<1>3. CASE After(k) # {}
  <2> DEFINE first == Min(After(k))
  <2>1. first \in Sinks
    BY <1>3, AfterFirst, Zenon
  <2>2. step' = [step EXCEPT ![j] = "call"] /\ at' = [at EXCEPT ![j] = first]
    BY <1>3, Zenon DEF GoOn
  <2> HIDE DEF first
  <2>3. first \in 0..7
    BY <2>1, OrderFacts
  <2> QED BY <1>1, <2>1, <2>2, <2>3
<1> QED BY <1>2, <1>3

(* The three ways in which a send goes on: with the next recipient, ... *)
LEMMA ContinueGoesOn ==
  ASSUME TypeOK, NEW j \in Job, Running(j), Continue(j), UNCHANGED rvars
  PROVE  GoesOn(j)
<1>1. at[j] \in 0..7
  BY OrderFacts DEF TypeOK
<1>2. GoOn(j, at[j])
  BY DEF Continue
<1>3. step = [i \in Job |-> step[i]]
  BY DEF TypeOK
<1> QED BY <1>1, <1>2, <1>3, GoOnType DEF GoesOn, Waiting

(* ... not at all, ... *)
LEMMA FailGoesOn ==
  ASSUME TypeOK, NEW j \in Job, NEW e \in Failed \cup {"panic"}, Running(j), Fail(j, e), UNCHANGED rvars
  PROVE  GoesOn(j)
<1>1. step' = [step EXCEPT ![j] = e] /\ at' = at /\ e \notin Waiting \cup {"answer", "open", "create", "publish"}
  BY DEF Fail, Failed, Waiting
<1>2. at \in [Job -> 0..7] /\ step = [i \in Job |-> step[i]]
  BY OrderFacts DEF TypeOK
<1> QED BY <1>1, <1>2 DEF GoesOn

(* ... or with the same recipient. *)
LEMMA WaitsGoesOn ==
  ASSUME TypeOK, NEW j \in Job, NEW w \in Waiting, Running(j), Waits(j, w), UNCHANGED rvars,
         w = "answer" => Awaited(Sink(j)),
         w \in {"open", "create", "publish"} => Sink(j) = "amqp"
  PROVE  GoesOn(j)
<1>1. step' = [step EXCEPT ![j] = w] /\ at' = at
  BY DEF Waits
<1>2. at \in [Job -> 0..7] /\ step = [i \in Job |-> step[i]] /\ at[j] \in Sinks
  BY OrderFacts DEF TypeOK
<1> QED BY <1>1, <1>2 DEF GoesOn

(* Every step of a send is one of the three. *)
LEMMA SendGoesOn ==
  ASSUME TypeOK, NEW j \in Job, WaitsOK(j), SendStep(j) \/ SendFails(j)
  PROVE  GoesOn(j)
<1> USE StepKinds DEF WaitsOK
<1>1. CASE Call(j)
  BY <1>1, WaitsGoesOn DEF Call, Waiting
<1>2. CASE Accept(j)
  BY <1>2, ContinueGoesOn DEF Accept, Waiting
<1>3. CASE PublishNats(j)
  BY <1>3, ContinueGoesOn DEF PublishNats, Waiting
<1>4. CASE ReuseChannel(j)
  BY <1>4, WaitsGoesOn DEF ReuseChannel, Waiting
<1>5. CASE OpenChannel(j)
  BY <1>5, WaitsGoesOn DEF OpenChannel, Waiting
<1>6. CASE BorrowConnection(j)
  BY <1>6, WaitsGoesOn DEF BorrowConnection, Waiting
<1>7. CASE CreateChannel(j)
  BY <1>7, WaitsGoesOn DEF CreateChannel, Waiting
<1>8. CASE Publish(j)
  BY <1>8, ContinueGoesOn, FailGoesOn DEF Publish, Waiting, Failed
<1>9. CASE CallFails(j)
  BY <1>9, FailGoesOn DEF CallFails, Waiting, Failed
<1>10. CASE Refuse(j)
  <2>1. Sink(j) \in SinkNames \ {"amqp", "kafka"}
    BY <1>10, Zenon DEF Refuse, WaitsOK, Awaited, SinkNames
  <2> QED BY <1>10, <2>1, FailGoesOn DEF Refuse, Waiting, Failed, SinkNames
<1>11. CASE NoAnswer(j)
  BY <1>11, FailGoesOn DEF NoAnswer, Waiting, Failed
<1>12. CASE AmqpFails(j)
  BY <1>12, FailGoesOn DEF AmqpFails, Waiting, Failed
<1> QED
  BY <1>1, <1>2, <1>3, <1>4, <1>5, <1>6, <1>7, <1>8, <1>9, <1>10, <1>11, <1>12 DEF SendStep, SendFails
-----------------------------------------------------------------------------
(* The parts of the type invariant that change together. *)
ExchangesOK ==
  /\ request \in [Req -> HttpRequest] /\ phase \in [Req -> {"idle", "open", "done"}]
  /\ resp \in [Req -> Response \cup {None}] /\ found_errors \in Nat
SendsOK ==
  /\ at \in [Job -> 0..7] /\ step \in [Job -> Waiting \cup Ended]
  /\ \A j \in Job : Running(j) => at[j] \in Sinks
WorldOK ==
  /\ got \in [SinkNames -> Seq(Job)] /\ refused \subseteq SinkNames \X Job
  /\ calls \subseteq SinkNames \X Job /\ stream \in [{"nats"} \cup Channel -> Seq(Job)]
  /\ lost \subseteq Job
PoolsOK ==
  /\ chan \in [Channel -> LentChannel \cup {None}]
  /\ conn \in [Connection -> LentConnection \cup {None}]

(* TypeOK in its parts, before ... *)
LEMMA TypeParts == TypeOK <=> ExchangesOK /\ SendsOK /\ WorldOK /\ PoolsOK
  BY OrderFacts DEF TypeOK, ExchangesOK, SendsOK, WorldOK, PoolsOK

(* ... and after a step. *)
LEMMA TypePartsNext == TypeOK' <=> ExchangesOK' /\ SendsOK' /\ WorldOK' /\ PoolsOK'
  BY TypeParts, PTL

(* A step of a send leaves the exchanges as they are. *)
LEMMA GoesOnSends ==
  ASSUME TypeInv, NEW j \in Job, GoesOn(j)
  PROVE  /\ ExchangesOK' /\ SendsOK' /\ Sinks' = Sinks
         /\ \A i \in Job : WaitsOK(i)'
         /\ \A r \in Req : PhaseOK(r)'
<1>1. ExchangesOK' /\ Sinks' = Sinks
  BY DEF TypeInv, TypeOK, ExchangesOK, GoesOn, rvars, settings, exchanges, Sinks, Opts
<1>2. PICK w \in Waiting \cup Failed \cup {"ok", "panic"} : step' = [step EXCEPT ![j] = w]
  BY DEF GoesOn
<1>3. step \in [Job -> Waiting \cup Ended] /\ Running(j)
  BY DEF TypeInv, TypeOK, GoesOn
<1>4. w # "none" /\ w \in Waiting \cup Ended
  BY <1>2 DEF Waiting, Failed, Ended
<1>5. SendsOK'
  <2>1. step' \in [Job -> Waiting \cup Ended]
    BY <1>2, <1>3, <1>4
  <2>2. ASSUME NEW i \in Job, Running(i)' PROVE at'[i] \in Sinks'
    <3>1. step'[i] \in Waiting
      BY <2>1, <2>2 DEF Running
    <3>2. i = j \/ step[i] \in Waiting
      BY <1>2, <1>3, <3>1
    <3>3. i # j => at'[i] = at[i] /\ at[i] \in Sinks
      BY <3>2, StepKinds DEF GoesOn, TypeInv, TypeOK
    <3>4. i = j => at'[i] \in Sinks
      BY <3>1 DEF GoesOn
    <3> QED BY <1>1, <3>3, <3>4
  <2> QED BY <2>1, <2>2 DEF SendsOK, GoesOn
<1>6. ASSUME NEW i \in Job PROVE WaitsOK(i)'
  <2>1. at'[i] = at[i] \/ step'[i] \notin Waiting \ {"call"}
    BY DEF GoesOn
  <2>2. i # j => step'[i] = step[i]
    BY <1>2, <1>3
  <2>3. (\A x : Awaited(x)' = Awaited(x))
    BY DEF GoesOn, rvars, settings, Awaited, Opts
  <2> QED BY <2>1, <2>2, <2>3 DEF WaitsOK, GoesOn, TypeInv, Sink, Waiting
<1>7. ASSUME NEW r \in Req PROVE PhaseOK(r)'
  <2>1. UNCHANGED <<conf, stage, request, phase, resp>>
    BY DEF GoesOn, rvars, settings, exchanges
  <2>2. PhaseOK(r) /\ <<r, "pre">> \in Job /\ <<r, "post">> \in Job
    BY Jobs DEF TypeInv
  <2>3. \A i \in Job : /\ step'[i] = "none" <=> step[i] = "none"
                       /\ Running(i)' => Running(i)
    BY <1>2, <1>3, <1>4 DEF Running, Ended, Waiting
  <2>4. Served(request[r])' = Served(request[r])
    BY <2>1 DEF Served, Routes
  <2>5. hook_is_active(<<r, "pre">>)' = hook_is_active(<<r, "pre">>)
    BY <2>1 DEF hook_is_active, Opts, HookOf
  <2> QED BY <2>1, <2>2, <2>3, <2>4, <2>5 DEF PhaseOK
<1> QED BY <1>1, <1>5, <1>6, <1>7
-----------------------------------------------------------------------------
(* What is given back to the pools is as it was, but free. *)
LEMMA ReturnedType ==
  ASSUME PoolsOK, NEW j \in Job
  PROVE  /\ ChannelReturned(j) \in [Channel -> LentChannel \cup {None}]
         /\ ConnectionReturned(j) \in [Connection -> LentConnection \cup {None}]
<1>1. ASSUME NEW c \in Channel
      PROVE  ChannelReturned(j)[c] \in LentChannel \cup {None}
  <2>1. chan[c] # None => [chan[c] EXCEPT !.by = None] \in LentChannel
    BY DEF PoolsOK, LentChannel
  <2> QED BY <2>1 DEF ChannelReturned, PoolsOK
<1>2. ASSUME NEW k \in Connection
      PROVE  ConnectionReturned(j)[k] \in LentConnection \cup {None}
  BY DEF ConnectionReturned, PoolsOK, LentConnection
<1> QED BY <1>1, <1>2 DEF ChannelReturned, ConnectionReturned

(* A recipient receives one more message. *)
LEMMA ReceivesType ==
  ASSUME WorldOK, NEW s \in SinkNames, NEW j \in Job, Receives(s, j)
  PROVE  got' \in [SinkNames -> Seq(Job)]
<1>1. got \in [SinkNames -> Seq(Job)] /\ Append(got[s], j) \in Seq(Job)
  BY DEF WorldOK
<1> QED BY <1>1 DEF Receives

(* A running send is at a recipient. *)
LEMMA SinkName == \A j \in Job : TypeOK /\ Running(j) => Sink(j) \in SinkNames
  BY OrderFacts DEF TypeOK, Sink

(* Steps that leave the lent connections to the sends that have them. *)
LEMMA ConnKept ==
  ASSUME TypeInv, NEW j \in Job, NEW w, step' = [step EXCEPT ![j] = w], step[j] # "create",
         UNCHANGED conn
  PROVE  ConnInv'
<1>1. \A k \in Connection : conn[k] # None => conn[k].by \in Job \cup {None}
  BY DEF TypeInv, TypeOK, LentConnection
<1>2. \A i \in Job \ {j} : step'[i] = step[i]
  BY DEF TypeInv, TypeOK
<1> QED BY <1>1, <1>2 DEF TypeInv, ConnInv

(* A send gives its connection back. *)
LEMMA ConnReturns ==
  ASSUME TypeInv, NEW j \in Job, NEW w, step' = [step EXCEPT ![j] = w],
         conn' = ConnectionReturned(j)
  PROVE  ConnInv'
<1>1. \A k \in Connection : conn[k] # None => conn[k] \in LentConnection /\ conn[k].by \in Job \cup {None}
  BY DEF TypeInv, TypeOK, LentConnection
<1>2. \A i \in Job \ {j} : step'[i] = step[i]
  BY DEF TypeInv, TypeOK
<1>3. \A k \in Connection : conn'[k] = IF conn[k] = [by |-> j] THEN [by |-> None] ELSE conn[k]
  BY DEF ConnectionReturned
<1>4. \A k \in Connection : conn[k] # None => (conn[k] = [by |-> j] <=> conn[k].by = j)
  BY <1>1 DEF LentConnection
<1>5. ASSUME NEW k \in Connection, conn'[k] # None, conn'[k].by # None
      PROVE  conn'[k] = conn[k] /\ conn[k].by # j
  <2>1. conn[k] # [by |-> j]
    BY <1>3, <1>5
  <2> QED BY <2>1, <1>3, <1>4, <1>5
<1> QED BY <1>1, <1>2, <1>5 DEF TypeInv, ConnInv

(* What a send does to the recipients, the streams and the pools. *)
LEMMA SendWorld ==
  ASSUME TypeInv, NEW j \in Job, SendStep(j) \/ SendFails(j)
  PROVE  WorldOK' /\ PoolsOK' /\ ConnInv'
<1> USE TypeParts DEF TypeInv
<1>0. PICK w : step' = [step EXCEPT ![j] = w]
  BY SendGoesOn DEF GoesOn
<1>r. Running(j) /\ Sink(j) \in SinkNames
  BY SendGoesOn, SinkName DEF GoesOn
<1>1. CASE Call(j)
  <2>1. step[j] = "call" /\ calls' = calls \cup {<<Sink(j), j>>}
        /\ UNCHANGED <<got, refused, stream, lost, broker, chan, conn>>
    BY <1>1 DEF Call, pools
  <2>2. ConnInv'
    BY <1>0, <2>1, ConnKept
  <2> QED BY <1>r, <2>1, <2>2 DEF WorldOK, PoolsOK
<1>2. CASE Accept(j)
  <2>1. Receives(Sink(j), j) /\ calls' \subseteq calls
    BY <1>2 DEF Accept, Reached
  <2> QED BY <1>0, <1>2, <1>r, <2>1, ReceivesType, ConnKept DEF Accept, pools, WorldOK, PoolsOK
<1>3. CASE PublishNats(j)
  <2>1. Append(stream["nats"], j) \in Seq(Job)
    BY DEF WorldOK
  <2> QED BY <1>0, <1>3, <2>1, ConnKept DEF PublishNats, pools, WorldOK, PoolsOK
<1>4. CASE ReuseChannel(j)
  <2>1. PICK c \in Idle : chan' = [chan EXCEPT ![c].by = j]
    BY <1>4 DEF ReuseChannel
  <2>2. c \in Channel /\ chan[c] \in LentChannel
    BY <2>1 DEF Idle, PoolsOK
  <2>3. [chan[c] EXCEPT !.by = j] \in LentChannel
    BY <2>2 DEF LentChannel
  <2>4. chan' \in [Channel -> LentChannel \cup {None}]
    BY <2>1, <2>2, <2>3 DEF PoolsOK
  <2> QED BY <1>0, <1>4, <2>4, ConnKept DEF ReuseChannel, world, WorldOK, PoolsOK
<1>5. CASE OpenChannel(j)
  BY <1>0, <1>5, ConnKept DEF OpenChannel, world, pools, WorldOK, PoolsOK
<1>6. CASE BorrowConnection(j)
  <2>1. PICK k \in Connection :
          /\ conn[k] # None => conn[k].by = None
          /\ conn' = [conn EXCEPT ![k] = [by |-> j]]
    BY <1>6 DEF BorrowConnection
  <2>2. step[j] = "open" /\ step' = [step EXCEPT ![j] = "create"]
    BY <1>6 DEF BorrowConnection, Waits
  <2>3. conn' \in [Connection -> LentConnection \cup {None}] /\ conn'[k].by = j
    BY <2>1 DEF PoolsOK, LentConnection
  <2>4. \A l \in Connection : conn[l] # None => conn[l].by \in (Job \ {j}) \cup {None}
    BY <2>2, Jobs DEF ConnInv, PoolsOK, LentConnection
  <2>5. /\ step'[j] = "create"
        /\ \A i \in Job \ {j} : step'[i] = step[i]
        /\ \A l \in Connection \ {k} : conn'[l] = conn[l]
    BY <2>1, <2>2 DEF TypeOK, PoolsOK
  <2>6. ConnInv'
    BY <2>3, <2>4, <2>5 DEF ConnInv
  <2> QED BY <1>6, <2>3, <2>6 DEF BorrowConnection, world, WorldOK, PoolsOK
<1>7. CASE CreateChannel(j)
  <2>1. PICK k \in Connection, c \in Channel :
          /\ conn[k] = [by |-> j] /\ chan[c] = None
          /\ chan' = [chan EXCEPT ![c] = [on |-> k, by |-> j, alive |-> TRUE]]
          /\ conn' = [conn EXCEPT ![k].by = None]
    BY <1>7 DEF CreateChannel
  <2>2. /\ [on |-> k, by |-> j, alive |-> TRUE] \in LentChannel
        /\ [by |-> None] \in LentConnection /\ [conn[k] EXCEPT !.by = None] = [by |-> None]
    BY <2>1 DEF LentChannel, LentConnection
  <2>3. PoolsOK' /\ conn' = [conn EXCEPT ![k] = [by |-> None]]
    BY <2>1, <2>2 DEF PoolsOK
  <2>4. \A l \in Connection \ {k} : conn[l] # None => conn[l].by \in (Job \ {j}) \cup {None}
    <3>1. conn[k] # None /\ conn[k].by = j /\ j # None
      BY <2>1, <2>2, Jobs, NoneAssumption DEF LentConnection
    <3> QED BY <3>1 DEF ConnInv, PoolsOK, LentConnection
  <2>5. /\ \A i \in Job \ {j} : step'[i] = step[i]
        /\ \A l \in Connection \ {k} : conn'[l] = conn[l]
        /\ conn'[k].by = None
    BY <1>0, <2>3 DEF TypeOK, PoolsOK
  <2>6. ConnInv'
    BY <2>4, <2>5 DEF ConnInv
  <2> QED BY <1>7, <2>3, <2>6 DEF CreateChannel, world, WorldOK
<1>8. CASE Publish(j)
  <2>1. PICK c \in Channel : stream' = [stream EXCEPT ![c] = Append(@, j)] \/ stream' = stream
    BY <1>8 DEF Publish
  <2>2. Append(stream[c], j) \in Seq(Job)
    BY DEF WorldOK
  <2>3. stream' \in [{"nats"} \cup Channel -> Seq(Job)]
    BY <2>1, <2>2 DEF WorldOK
  <2> QED BY <1>0, <1>8, <2>3, ReturnedType, ConnKept DEF Publish, WorldOK, PoolsOK
<1>9. CASE CallFails(j)
  BY <1>0, <1>9, ConnKept DEF CallFails, world, pools, WorldOK, PoolsOK
<1>10. CASE Refuse(j)
  <2>1. Receives(Sink(j), j) /\ calls' \subseteq calls
    BY <1>10 DEF Refuse, Reached
  <2>2. step[j] = "answer" /\ refused' = refused \cup {<<Sink(j), j>>}
        /\ UNCHANGED <<stream, lost, broker, chan, conn>>
    BY <1>10 DEF Refuse, pools
  <2>3. ConnInv'
    BY <1>0, <2>2, ConnKept
  <2> QED BY <1>r, <2>1, <2>2, <2>3, ReceivesType DEF WorldOK, PoolsOK
<1>11. CASE NoAnswer(j)
  BY <1>0, <1>11, ConnKept DEF NoAnswer, world, pools, WorldOK, PoolsOK
<1>12. CASE AmqpFails(j)
  BY <1>0, <1>12, ReturnedType, ConnReturns DEF AmqpFails, world, WorldOK, PoolsOK
<1> QED
  BY <1>1, <1>2, <1>3, <1>4, <1>5, <1>6, <1>7, <1>8, <1>9, <1>10, <1>11, <1>12 DEF SendStep, SendFails

(* A channel that is given back is not closed by it. *)
LEMMA ReturnedAlive ==
  ASSUME PoolsOK, NEW j \in Job, NEW c \in Channel, chan[c] # None, chan[c].alive
  PROVE  ChannelReturned(j)[c] # None /\ ChannelReturned(j)[c].alive
<1>1. chan[c] \in LentChannel
  BY DEF PoolsOK
<1>2. /\ [chan[c] EXCEPT !.by = None] \in LentChannel
      /\ [chan[c] EXCEPT !.by = None].alive = chan[c].alive
  BY <1>1 DEF LentChannel
<1>3. ChannelReturned(j)[c] = chan[c] \/ ChannelReturned(j)[c] = [chan[c] EXCEPT !.by = None]
  BY DEF ChannelReturned
<1> QED BY <1>1, <1>2, <1>3, NoneAssumption

(* Streams that get no new message and keep their channel. *)
LEMMA StreamKept ==
  ASSUME TypeInv, stage' = stage,
         \A c \in Channel : stream'[c] = stream[c] \/ stream'[c] = <<>>,
         \A c \in Channel : chan[c] # None /\ chan[c].alive => chan'[c] # None /\ chan'[c].alive
  PROVE  StreamInv'
  BY DEF TypeInv, StreamInv

(* A send puts its message into an open channel only. *)
LEMMA SendStream ==
  ASSUME TypeInv, NEW j \in Job, SendStep(j) \/ SendFails(j)
  PROVE  StreamInv'
<1> USE TypeParts DEF TypeInv
<1>0. Running(j) /\ UNCHANGED <<stage, request, phase>>
  BY SendGoesOn DEF GoesOn, rvars, settings, exchanges
<1>1. stage = "serving"
  <2>1. PICK r \in Req : j = <<r, "pre">> \/ j = <<r, "post">>
    BY Jobs
  <2> QED BY <1>0, <2>1 DEF PhaseOK, Running, Ended
<1>2. CASE UNCHANGED <<stream, chan>>
  BY <1>0, <1>2, StreamKept
<1>3. CASE PublishNats(j)
  <2>1. \A c \in Channel : stream'[c] = stream[c]
    BY <1>3, ChannelAssumption DEF PublishNats, WorldOK
  <2> QED BY <1>0, <1>3, <2>1, StreamKept DEF PublishNats, pools
<1>4. CASE ReuseChannel(j)
  <2>1. PICK c \in Idle : chan' = [chan EXCEPT ![c].by = j]
    BY <1>4 DEF ReuseChannel
  <2>2. c \in Channel /\ chan[c] \in LentChannel
    BY <2>1 DEF Idle, PoolsOK
  <2>3. [chan[c] EXCEPT !.by = j] \in LentChannel /\ [chan[c] EXCEPT !.by = j].alive = chan[c].alive
    BY <2>2 DEF LentChannel
  <2>4. \A d \in Channel : chan[d] # None /\ chan[d].alive => chan'[d] # None /\ chan'[d].alive
    BY <2>1, <2>2, <2>3, NoneAssumption DEF PoolsOK
  <2> QED BY <1>0, <1>4, <2>4, StreamKept DEF ReuseChannel, world
<1>5. CASE CreateChannel(j)
  <2>1. PICK k \in Connection, c \in Channel :
          chan[c] = None /\ chan' = [chan EXCEPT ![c] = [on |-> k, by |-> j, alive |-> TRUE]]
    BY <1>5 DEF CreateChannel
  <2>2. \A d \in Channel : chan[d] # None => chan'[d] = chan[d]
    BY <2>1 DEF PoolsOK
  <2> QED BY <1>0, <1>5, <2>2, StreamKept DEF CreateChannel, world
<1>6. CASE Publish(j)
  <2>1. PICK c \in Channel :
          /\ chan[c] # None
          /\ stream' = stream \/ (chan[c].alive /\ stream' = [stream EXCEPT ![c] = Append(@, j)])
    BY <1>6 DEF Publish
  <2>2. \A d \in Channel : chan[d] # None /\ chan[d].alive => chan'[d] # None /\ chan'[d].alive
    BY <1>6, ReturnedAlive DEF Publish
  <2> QED BY <1>0, <1>1, <2>1, <2>2 DEF StreamInv, WorldOK
<1>7. UNCHANGED <<stream, chan>> \/ PublishNats(j) \/ ReuseChannel(j) \/ CreateChannel(j) \/ Publish(j)
  BY DEF SendStep, SendFails, Call, Accept, OpenChannel, BorrowConnection, CallFails, Refuse, NoAnswer,
         AmqpFails, world, pools
<1> QED BY <1>2, <1>3, <1>4, <1>5, <1>6, <1>7

(* So every step of a send keeps the invariant. *)
LEMMA SendKeepsInv ==
  ASSUME TypeInv, NEW j \in Job, SendStep(j) \/ SendFails(j)
  PROVE  TypeInv'
  BY SendGoesOn, SendWorld, SendStream, GoesOnSends, TypePartsNext DEF TypeInv
-----------------------------------------------------------------------------
(* An answer of a handler, in the terms of Ends. *)
LEMMA AnswerResponds ==
  ASSUME NEW r \in Req, NEW status, Answer(r, status), Known(request[r])
  PROVE  Responds(r, status)
  BY DEF Answer, Responds

(* A request that reaches a handler has no sends and no answer yet. *)
LEMMA HandledOpens ==
  ASSUME TypeInv, NEW r \in Req, Handled(r)
  PROVE  /\ stage = "serving" /\ phase[r] = "idle" /\ Known(request[r]) /\ Served(request[r])
         /\ request[r].method \in {"POST", "DELETE", "PATCH"}
         /\ step[<<r, "pre">>] = "none" /\ step[<<r, "post">>] = "none" /\ resp[r] = None
  BY DEF Handled, Comes, TypeInv, PhaseOK, Served, Known, Routes, AlwaysServed, AddedBy

(* No route is unknown. *)
LEMMA ServedKnown ==
  ASSUME NEW q, Served(q)
  PROVE  Known(q)
<1>1. \A e : AddedBy(e) \subseteq {<<"base", "POST">>, <<"file", "GET">>, <<"file", "DELETE">>}
  BY DEF AddedBy
<1>2. Routes \subseteq AlwaysServed \cup {<<"base", "POST">>, <<"file", "GET">>, <<"file", "DELETE">>}
  BY <1>1 DEF Routes
<1> QED BY <1>2 DEF Served, Known, AlwaysServed

(* A handler that is open belongs to a route that is served. *)
LEMMA OpenIsServed ==
  ASSUME TypeInv, NEW r \in Req, phase[r] = "open"
  PROVE  /\ stage = "serving" /\ Known(request[r]) /\ Served(request[r])
         /\ request[r].method \in {"POST", "DELETE", "PATCH"}
         /\ step[<<r, "post">>] = "none" /\ resp[r] = None
<1>1. /\ stage = "serving" /\ Served(request[r])
      /\ request[r].method \in {"POST", "DELETE", "PATCH"}
      /\ step[<<r, "post">>] = "none" /\ resp[r] = None
  BY DEF TypeInv, PhaseOK
<1> QED BY <1>1, ServedKnown

(* A request that is answered by the router ends with an answer. *)
LEMMA DispatchEnds ==
  ASSUME TypeInv, NEW r \in Req, Dispatch(r)
  PROVE  Ends(r)
<1>1. Comes(r)
  BY DEF Dispatch, NotFound, MethodNotAllowed, ReportStatus, ServerInfo, Read, BodyTooLarge, HeadersRefused
<1>2. stage = "serving" /\ phase[r] # "done" /\ step[<<r, "pre">>] = "none" /\ ~Running(<<r, "pre">>)
  BY <1>1 DEF Comes, TypeInv, PhaseOK, Running, Ended
<1>3. CASE NotFound(r)
  BY <1>2, <1>3 DEF Ends
<1>4. CASE MethodNotAllowed(r)
  <2>1. Responds(r, 405) /\ 405 \in 200..999
    BY <1>4, AnswerResponds DEF MethodNotAllowed
  <2> QED BY <1>2, <2>1 DEF Ends
<1>5. CASE ReportStatus(r)
  <2>1. Responds(r, 200) /\ 200 \in 200..999
    BY <1>5, AnswerResponds DEF ReportStatus, Known
  <2> QED BY <1>2, <2>1 DEF Ends
<1>6. CASE ServerInfo(r)
  <2>1. Responds(r, 200) /\ 200 \in 200..999
    BY <1>6 DEF ServerInfo, Responds, Known, Advertised
  <2> QED BY <1>2, <2>1 DEF Ends
<1>7. CASE Read(r)
  <2>1. PICK status \in {200, 404, 500} : Answer(r, status)
    BY <1>7 DEF Read, StatusCode
  <2>2. Responds(r, status) /\ status \in 200..999
    BY <1>7, <2>1, AnswerResponds DEF Read, Known
  <2> QED BY <1>2, <2>2 DEF Ends
<1>8. CASE HeadersRefused(r)
  <2>1. HeaderStatus(request[r]) \in {415, 417, 400}
    BY <1>8 DEF HeadersRefused, HeaderStatus, StatusCode
  <2>2. Responds(r, HeaderStatus(request[r]))
    BY <1>8, AnswerResponds DEF HeadersRefused, Known
  <2>3. HeaderStatus(request[r]) \in 200..999
    BY <2>1
  <2> QED BY <1>2, <2>2, <2>3 DEF Ends
<1>9. CASE BodyTooLarge(r)
  <2>1. Known(request[r])
    BY <1>9, ServedKnown DEF BodyTooLarge
  <2>2. Responds(r, 413) /\ 413 \in 200..999
    BY <1>9, <2>1, AnswerResponds DEF BodyTooLarge
  <2> QED BY <1>2, <2>2 DEF Ends
<1> QED BY <1>3, <1>4, <1>5, <1>6, <1>7, <1>8, <1>9 DEF Dispatch

(* The codes of an answer that is not a success. *)
LEMMA ErrorStatus ==
  ASSUME NEW status \in 300..999
  PROVE  status \in 200..999 /\ status \notin 200..299
BY SMTT(30)

(* Checks, failures and hooks that say no give no 2xx. *)
LEMMA Statuses ==
  /\ \A m \in {"POST", "DELETE", "PATCH"} : Checks[m] \cup Failures[m] \subseteq 300..999
  /\ \A e \in {"HookError", "Other"} : StatusCode[e] \in 300..999
  /\ HookStatus \subseteq 300..999
<1>1. /\ StatusCode.FileNotFound \in 300..999 /\ StatusCode.Other \in 300..999
      /\ StatusCode["FileNotFound"] \in 300..999 /\ StatusCode["WrongOffset"] \in 300..999
      /\ StatusCode["FrozenFile"] \in 300..999 /\ StatusCode["Other"] \in 300..999
      /\ StatusCode["HookError"] \in 300..999
  BY DEF StatusCode
<1>2. ASSUME NEW m \in {"POST", "DELETE", "PATCH"} PROVE Checks[m] \cup Failures[m] \subseteq 300..999
  <2>1. CASE m = "POST"
    BY <1>1, <2>1 DEF Checks, Failures
  <2>2. CASE m = "DELETE"
    BY <1>1, <2>2 DEF Checks, Failures
  <2>3. CASE m = "PATCH"
    BY <1>1, <2>3 DEF Checks, Failures
  <2> QED BY <2>1, <2>2, <2>3
<1> QED BY <1>1, <1>2, HookStatusAssumption

(* A request that is rejected ends with an error, ... *)
LEMMA RejectEnds ==
  ASSUME TypeInv, NEW r \in Req, Reject(r)
  PROVE  Ends(r)
<1>1. /\ stage = "serving" /\ phase[r] = "idle" /\ Known(request[r])
      /\ request[r].method \in {"POST", "DELETE", "PATCH"} /\ step[<<r, "pre">>] = "none"
  BY HandledOpens DEF Reject
<1>2. PICK status \in Checks[request[r].method] : Answer(r, status)
  BY DEF Reject
<1>3. status \in 300..999 /\ Responds(r, status)
  BY <1>1, <1>2, Statuses, AnswerResponds
<1> QED BY <1>1, <1>3 DEF Ends, Running, Ended

(* The pre-hook of a request whose handler goes on has ended well, or there was none. *)
LEMMA AllowedMeans ==
  ASSUME TypeInv, NEW r \in Req, Allowed(r)
  PROVE  /\ phase[r] = "open" /\ ~Running(<<r, "pre">>) /\ step[<<r, "pre">>] \in {"none", "ok"}
  BY DEF TypeInv, PhaseOK, Allowed, Running, Ended

(* ... one that is carried out with its answer, after its pre-hook, ... *)
LEMMA WorkEnds ==
  ASSUME TypeInv, NEW r \in Req, Work(r) \/ WorkFails(r)
  PROVE  Ends(r)
<1>1. /\ stage = "serving" /\ phase[r] = "open" /\ Known(request[r])
      /\ request[r].method \in {"POST", "DELETE", "PATCH"}
      /\ ~Running(<<r, "pre">>) /\ step[<<r, "pre">>] \in {"none", "ok"}
  BY AllowedMeans, OpenIsServed DEF Work, WorkFails
<1>2. PICK status \in {201, 204} \cup Failures[request[r].method] : Answer(r, status)
  <2>1. Work(r) => \E status \in {201, 204} : Answer(r, status)
    BY DEF Work
  <2>2. WorkFails(r) => \E status \in Failures[request[r].method] : Answer(r, status)
    BY DEF WorkFails
  <2> QED BY <2>1, <2>2
<1>3. status \in 200..999 /\ Responds(r, status)
  <2>1. status \in {201, 204} \/ status \in 300..999
    BY <1>1, <1>2, Statuses
  <2> QED BY <1>1, <1>2, <2>1, AnswerResponds
<1> QED BY <1>1, <1>3 DEF Ends

(* ... and one whose pre-hook failed with the error, or without answer. *)
LEMMA CancelEnds ==
  ASSUME TypeInv, NEW r \in Req, Cancel(r)
  PROVE  Ends(r)
<1>1. stage = "serving" /\ phase[r] = "open" /\ Known(request[r])
  BY OpenIsServed DEF Cancel
<1>2. \/ \E status \in 300..999 : Answer(r, status)
      \/ NoResponse(r)
  <2>1. CASE step[<<r, "pre">>] = "HTTPHookError"
    <3>1. PICK status \in HookStatus : Answer(r, status)
      BY <2>1 DEF Cancel
    <3> QED BY <3>1, Statuses
  <2>2. CASE step[<<r, "pre">>] \in {"HookError", "Other"}
    <3>1. Answer(r, StatusCode[step[<<r, "pre">>]])
      BY <2>2 DEF Cancel
    <3>2. StatusCode[step[<<r, "pre">>]] \in 300..999
      BY <2>2, Statuses, SMTT(30)
    <3> QED BY <3>1, <3>2, Zenon
  <2>3. CASE step[<<r, "pre">>] = "panic"
    BY <2>3 DEF Cancel
  <2> QED BY <2>1, <2>2, <2>3 DEF Cancel
<1>3. ~Running(<<r, "pre">>)
  BY DEF Cancel, Running, Ended, Failed
<1>4. CASE NoResponse(r)
  BY <1>1, <1>3, <1>4 DEF Ends
<1>5. ASSUME NEW status \in 300..999, Answer(r, status) PROVE Ends(r)
  <2>1. Responds(r, status)
    BY <1>1, <1>5, AnswerResponds
  <2>2. status \in 200..999 /\ status \notin 200..299
    BY <1>5, ErrorStatus, SMTT(30)
  <2> QED BY <1>1, <1>3, <2>1, <2>2 DEF Ends
<1> QED BY <1>2, <1>4, <1>5
-----------------------------------------------------------------------------
(* What an exchange that ends leaves alone. *)
LEMMA EndsExchanges ==
  ASSUME TypeInv, NEW r \in Req, Ends(r)
  PROVE  /\ UNCHANGED <<settings, request>> /\ phase' = [phase EXCEPT ![r] = "done"]
         /\ resp' \in [Req -> Response \cup {None}] /\ \A q \in Req \ {r} : resp'[q] = resp[q]
         /\ found_errors' \in Nat /\ ExchangesOK' /\ Sinks' = Sinks
<1> USE DEF TypeInv
<1>1. ASSUME NEW status \in 200..999, Responds(r, status)
      PROVE  /\ UNCHANGED <<settings, request>> /\ phase' = [phase EXCEPT ![r] = "done"]
             /\ \E response \in Response : resp' = [resp EXCEPT ![r] = response]
             /\ found_errors' \in Nat
  <2>1. PICK extensions \in SUBSET Extensions :
          Respond(r, Layered(request[r], status, extensions)) /\ Counted(status)
    BY <1>1 DEF Responds
  <2> DEFINE response == Layered(request[r], status, extensions)
  <2>2. response \in Response
    BY LayeredType
  <2>3. Respond(r, response)
    BY <2>1
  <2>4. found_errors' \in Nat
    BY <2>1 DEF Counted, TypeOK
  <2> HIDE DEF response
  <2> QED BY <2>2, <2>3, <2>4 DEF Respond
<1>2. ASSUME NotFound(r)
      PROVE  /\ UNCHANGED <<settings, request>> /\ phase' = [phase EXCEPT ![r] = "done"]
             /\ \E response \in Response : resp' = [resp EXCEPT ![r] = response]
             /\ found_errors' \in Nat
  <2>1. [status |-> 404, origin |-> None, tus |-> FALSE, extensions |-> {}, algorithms |-> FALSE] \in Response
    <3>1. /\ {} \in SUBSET Extensions /\ 404 \in 200..999
          /\ None \in Origin \cup {None, "*"} /\ FALSE \in BOOLEAN
      OBVIOUS
    <3> QED BY <3>1 DEF Response
  <2> QED BY <1>2, <2>1 DEF NotFound, Respond, TypeOK
<1>3. /\ UNCHANGED <<settings, request>> /\ phase' = [phase EXCEPT ![r] = "done"]
      /\ resp' = resp \/ \E response \in Response : resp' = [resp EXCEPT ![r] = response]
      /\ found_errors' \in Nat
  BY <1>1, <1>2 DEF Ends, NoResponse, TypeOK
<1>4. resp' \in [Req -> Response \cup {None}] /\ \A q \in Req \ {r} : resp'[q] = resp[q]
  BY <1>3 DEF TypeOK
<1> QED BY <1>3, <1>4 DEF TypeOK, ExchangesOK, settings, Sinks, Opts

(* Whether or not the handler has begun its post-hook. *)
LEMMA EndsPhases ==
  ASSUME TypeInv, NEW r \in Req, Ends(r),
         \A j \in Job \ {<<r, "post">>} : step'[j] = step[j]
  PROVE  \A q \in Req : PhaseOK(q)'
<1>1. /\ UNCHANGED <<settings, request>> /\ phase' = [phase EXCEPT ![r] = "done"]
      /\ \A q \in Req \ {r} : resp'[q] = resp[q]
  BY EndsExchanges
<1>2. stage' = "serving" /\ ~Running(<<r, "pre">>)
  BY <1>1 DEF Ends, settings
<1>3. \A j \in Job : hook_is_active(j)' = hook_is_active(j)
  BY <1>1 DEF hook_is_active, Opts, HookOf, settings
<1>4. \A q \in Req : Served(request[q])' = Served(request[q])
  BY <1>1 DEF Served, Routes, settings
<1> SUFFICES ASSUME NEW q \in Req PROVE PhaseOK(q)'
  OBVIOUS
<1>5. PhaseOK(q) /\ <<q, "pre">> \in Job \ {<<r, "post">>} /\ phase \in [Req -> {"idle", "open", "done"}]
  BY Jobs DEF TypeInv, TypeOK
<1>6. step'[<<q, "pre">>] = step[<<q, "pre">>] /\ (Running(<<q, "pre">>)' <=> Running(<<q, "pre">>))
  BY <1>5 DEF Running
<1>7. CASE q = r
  BY <1>1, <1>2, <1>3, <1>5, <1>6, <1>7 DEF PhaseOK
<1>8. CASE q # r
  <2>1. step'[<<q, "post">>] = step[<<q, "post">>] /\ phase'[q] = phase[q] /\ resp'[q] = resp[q]
    BY <1>1, <1>5, <1>8, Jobs
  <2> QED BY <1>1, <1>2, <1>3, <1>4, <1>5, <1>6, <2>1 DEF PhaseOK, settings
<1> QED BY <1>7, <1>8

(* An exchange that ends without a post-hook keeps the invariant, ... *)
LEMMA EndsKeepsInv ==
  ASSUME TypeInv, NEW r \in Req, Ends(r), UNCHANGED <<sends, world, pools>>
  PROVE  TypeInv'
<1>1. ExchangesOK' /\ Sinks' = Sinks /\ UNCHANGED <<conf, at, step>>
  BY EndsExchanges DEF settings, sends
<1>2. SendsOK' /\ WorldOK' /\ PoolsOK'
  BY <1>1, TypeParts DEF TypeInv, SendsOK, WorldOK, PoolsOK, world, pools, Running
<1>3. ConnInv'
  BY <1>1 DEF TypeInv, ConnInv, pools
<1>4. \A j \in Job : WaitsOK(j)'
  BY <1>1 DEF TypeInv, WaitsOK, Sink, Awaited, Opts
<1>5. StreamInv'
  BY StreamKept, EndsExchanges DEF world, pools, settings
<1> QED BY <1>1, <1>2, <1>3, <1>4, <1>5, EndsPhases, TypePartsNext DEF TypeInv

(* ... one that starts its post-hook as well, ... *)
LEMMA WorkKeepsInv ==
  ASSUME TypeInv, NEW r \in Req, Work(r)
  PROVE  TypeInv'
<1> DEFINE post == <<r, "post">>
<1>1. Ends(r) /\ post \in Job /\ step[post] = "none"
  BY WorkEnds, AllowedMeans, OpenIsServed, Jobs DEF Work
<1>2. CASE ~hook_is_active(post)
  BY <1>1, <1>2, EndsKeepsInv DEF Work
<1>3. CASE hook_is_active(post)
  <2>1. ExchangesOK' /\ Sinks' = Sinks /\ conf' = conf
    BY <1>1, EndsExchanges DEF settings
  <2>2. /\ step' = [step EXCEPT ![post] = "ok"] \/ step' = [step EXCEPT ![post] = "call"]
        /\ at' \in [Job -> 0..7]
        /\ \A i \in Job \ {post} : at'[i] = at[i]
        /\ step'[post] \in Waiting => at'[post] \in Sinks
    <3>1. GoOn(post, 0) /\ 0 \in 0..7 /\ TypeOK
      BY <1>3 DEF Work, Begin, TypeInv
    <3> QED BY <1>1, <3>1, GoOnType, Zenon
  <2>3. /\ step' \in [Job -> Waiting \cup Ended] /\ step'[post] \in {"ok", "call"}
        /\ \A i \in Job \ {post} : step'[i] = step[i]
    BY <1>1, <2>2 DEF TypeInv, TypeOK, Waiting, Ended
  <2>4. SendsOK'
    BY <2>1, <2>2, <2>3 DEF SendsOK, TypeInv, TypeOK, Running, Waiting, Ended
  <2>5. WorldOK' /\ PoolsOK'
    BY TypeParts DEF TypeInv, WorldOK, PoolsOK, Work, world, pools
  <2>6. ConnInv'
    <3>1. \A k \in Connection : conn[k] # None => conn[k].by \in Job \cup {None}
      BY DEF TypeInv, TypeOK, LentConnection
    <3>2. conn' = conn
      BY DEF Work, pools
    <3> QED BY <1>1, <2>3, <3>1, <3>2 DEF TypeInv, ConnInv
  <2>7. \A j \in Job : WaitsOK(j)'
    BY <2>1, <2>2, <2>3 DEF TypeInv, WaitsOK, Sink, Awaited, Opts
  <2>8. StreamInv'
    BY <1>1, StreamKept, EndsExchanges DEF Work, world, pools, settings
  <2> QED BY <1>1, <2>1, <2>3, <2>4, <2>5, <2>6, <2>7, <2>8, EndsPhases, TypePartsNext DEF TypeInv
<1> QED BY <1>2, <1>3

(* ... and so does a request that arrives and starts its pre-hook. *)
LEMMA ArriveKeepsInv ==
  ASSUME TypeInv, NEW r \in Req, Arrive(r)
  PROVE  TypeInv'
<1> DEFINE pre == <<r, "pre">>
<1>1. /\ stage = "serving" /\ phase[r] = "idle" /\ Served(request[r])
      /\ request[r].method \in {"POST", "DELETE", "PATCH"}
      /\ step[pre] = "none" /\ step[<<r, "post">>] = "none" /\ resp[r] = None /\ pre \in Job
  BY HandledOpens, Jobs DEF Arrive
<1>2. UNCHANGED <<settings, request, resp, found_errors, world, pools>> /\ phase' = [phase EXCEPT ![r] = "open"]
  BY DEF Arrive
<1>3. Sinks' = Sinks /\ conf' = conf /\ \A j \in Job : hook_is_active(j)' = hook_is_active(j)
  BY <1>2 DEF settings, Sinks, Opts, hook_is_active, HookOf
<1>4. /\ step' \in [Job -> Waiting \cup Ended] /\ step'[pre] \in {"none", "ok", "call"}
      /\ step'[pre] # "none" => hook_is_active(pre)
      /\ \A i \in Job \ {pre} : step'[i] = step[i]
      /\ at' \in [Job -> 0..7] /\ \A i \in Job \ {pre} : at'[i] = at[i]
      /\ step'[pre] = "call" => at'[pre] \in Sinks
  <2>1. CASE ~hook_is_active(pre)
    BY <1>1, <2>1, OrderFacts DEF Arrive, sends, TypeInv, TypeOK
  <2>2. CASE hook_is_active(pre)
    <3>1. GoOn(pre, 0) /\ 0 \in 0..7 /\ TypeOK
      BY <2>2 DEF Arrive, Begin, TypeInv
    <3>2. /\ step' = [step EXCEPT ![pre] = "ok"] \/ step' = [step EXCEPT ![pre] = "call"]
          /\ at' \in [Job -> 0..7]
          /\ \A i \in Job \ {pre} : at'[i] = at[i]
          /\ step'[pre] \in Waiting => at'[pre] \in Sinks
      BY <1>1, <3>1, GoOnType, Zenon
    <3> QED BY <1>1, <2>2, <3>2 DEF TypeInv, TypeOK, Waiting, Ended
  <2> QED BY <2>1, <2>2
<1>5. ExchangesOK' /\ WorldOK' /\ PoolsOK'
  BY <1>2, TypeParts DEF TypeInv, ExchangesOK, WorldOK, PoolsOK, world, pools
<1>6. SendsOK'
  BY <1>3, <1>4 DEF SendsOK, TypeInv, TypeOK, Running, Waiting, Ended
<1>7. ConnInv'
  <2>1. \A k \in Connection : conn[k] # None => conn[k].by \in Job \cup {None}
    BY DEF TypeInv, TypeOK, LentConnection
  <2> QED BY <1>1, <1>2, <1>4, <2>1 DEF TypeInv, ConnInv, pools
<1>8. \A j \in Job : WaitsOK(j)'
  BY <1>3, <1>4 DEF TypeInv, WaitsOK, Sink, Awaited, Opts
<1>9. ASSUME NEW q \in Req PROVE PhaseOK(q)'
  <2>1. PhaseOK(q) /\ <<q, "pre">> \in Job /\ <<q, "post">> \in Job \ {pre} /\ (q # r => <<q, "pre">> # pre)
    BY Jobs DEF TypeInv
  <2>2. Served(request[q])' = Served(request[q]) /\ stage' = stage /\ request' = request /\ resp' = resp
    BY <1>2 DEF Served, Routes, settings
  <2>3. phase \in [Req -> {"idle", "open", "done"}]
    BY DEF TypeInv, TypeOK
  <2>4. CASE q = r
    BY <1>1, <1>2, <1>3, <1>4, <2>1, <2>2, <2>3, <2>4 DEF PhaseOK
  <2>5. CASE q # r
    BY <1>2, <1>3, <1>4, <2>1, <2>2, <2>3, <2>5 DEF PhaseOK, Running
  <2> QED BY <2>4, <2>5
<1>10. StreamInv'
  BY <1>2, StreamKept DEF world, pools, settings
<1> QED BY <1>5, <1>6, <1>7, <1>8, <1>9, <1>10, TypePartsNext DEF TypeInv
-----------------------------------------------------------------------------
(* The client goes away, and its pre-hook with it. *)
LEMMA DisconnectKeepsInv ==
  ASSUME TypeInv, NEW r \in Req, Disconnect(r)
  PROVE  TypeInv'
<1> DEFINE pre == <<r, "pre">>
<1>1. /\ pre \in Job /\ UNCHANGED <<settings, request, resp, found_errors, at, world>>
      /\ phase' = [phase EXCEPT ![r] = "done"] /\ stage = "serving"
  BY Jobs, OpenIsServed DEF Disconnect, NoResponse
<1>2. PICK w \in {"dropped", step[pre]} :
        /\ step' = [step EXCEPT ![pre] = w]
        /\ w \in Ended
        /\ w # "none" => step[pre] # "none"
  <2>1. step' = [step EXCEPT ![pre] = IF Running(pre) THEN "dropped" ELSE step[pre]]
    BY DEF Disconnect
  <2>2. CASE Running(pre)
    BY <2>1, <2>2 DEF Running, Ended
  <2>3. CASE ~Running(pre)
    BY <2>1, <2>3 DEF Running
  <2> QED BY <2>2, <2>3
<1>3. /\ step' \in [Job -> Waiting \cup Ended] /\ step'[pre] = w
      /\ \A i \in Job \ {pre} : step'[i] = step[i]
      /\ step'[pre] # "none" => step[pre] # "none"
  BY <1>1, <1>2 DEF TypeInv, TypeOK, Running, Ended
<1>4. Sinks' = Sinks /\ conf' = conf /\ \A j \in Job : hook_is_active(j)' = hook_is_active(j)
  BY <1>1 DEF settings, Sinks, Opts, hook_is_active, HookOf
<1>5. ExchangesOK' /\ WorldOK'
  BY <1>1, TypeParts DEF TypeInv, ExchangesOK, WorldOK, world
<1>6. SendsOK'
  BY <1>1, <1>2, <1>3, <1>4, TypeParts DEF TypeInv, SendsOK, Running
<1>7. PoolsOK'
  BY <1>1, ReturnedType, TypeParts DEF TypeInv, PoolsOK, Disconnect
<1>8. ConnInv'
  BY <1>1, <1>2, ConnReturns DEF Disconnect
<1>9. ASSUME NEW j \in Job PROVE WaitsOK(j)'
  <2>1. step'[j] \in Ended \/ step'[j] = step[j]
    BY <1>2, <1>3
  <2> QED BY <1>1, <1>4, <2>1, StepKinds DEF TypeInv, WaitsOK, Sink, Awaited, Opts, Waiting
<1>10. ASSUME NEW q \in Req PROVE PhaseOK(q)'
  <2>1. PhaseOK(q) /\ <<q, "pre">> \in Job /\ <<q, "post">> \in Job \ {pre} /\ (q # r => <<q, "pre">> # pre)
    BY Jobs DEF TypeInv
  <2>2. Served(request[q])' = Served(request[q]) /\ stage' = stage /\ request' = request /\ resp' = resp
    BY <1>1 DEF Served, Routes, settings
  <2>3. phase \in [Req -> {"idle", "open", "done"}]
    BY DEF TypeInv, TypeOK
  <2>4. CASE q = r
    <3>1. ~Running(<<q, "pre">>)'
      BY <1>2, <1>3, <2>4 DEF Running
    <3> QED BY <1>1, <1>3, <1>4, <2>1, <2>2, <2>3, <2>4, <3>1 DEF PhaseOK
  <2>5. CASE q # r
    BY <1>1, <1>3, <1>4, <2>1, <2>2, <2>3, <2>5 DEF PhaseOK, Running
  <2> QED BY <2>4, <2>5
<1>11. StreamInv'
  BY <1>1, StreamKept, ReturnedAlive, TypeParts DEF Disconnect, world, settings, TypeInv
<1> QED BY <1>5, <1>6, <1>7, <1>8, <1>9, <1>10, <1>11, TypePartsNext DEF TypeInv

(* So every step of a handler keeps the invariant. *)
LEMMA HandlerKeepsInv ==
  ASSUME TypeInv, NEW r \in Req, HandlerStep(r)
  PROVE  TypeInv'
<1>1. CASE Reject(r)
  BY <1>1, RejectEnds, EndsKeepsInv DEF Reject
<1>2. CASE WorkFails(r)
  BY <1>2, WorkEnds, EndsKeepsInv DEF WorkFails
<1>3. CASE Cancel(r)
  BY <1>3, CancelEnds, EndsKeepsInv DEF Cancel
<1> QED
  BY <1>1, <1>2, <1>3, ArriveKeepsInv, WorkKeepsInv, DisconnectKeepsInv DEF HandlerStep
-----------------------------------------------------------------------------
(* The world: messages arrive, or are lost with a channel or a connection. *)
LEMMA WorldKeepsInv ==
  ASSUME TypeInv, UNCHANGED <<rvars, sends, conn>>, WorldOK', PoolsOK', StreamInv'
  PROVE  TypeInv'
<1>1. ExchangesOK' /\ SendsOK'
  BY TypeParts DEF TypeInv, ExchangesOK, SendsOK, rvars, settings, exchanges, sends, Running, Sinks, Opts
<1>2. ConnInv' /\ \A j \in Job : WaitsOK(j)'
  BY DEF TypeInv, ConnInv, WaitsOK, Sink, Awaited, Opts, rvars, settings, sends
<1>3. ASSUME NEW q \in Req PROVE PhaseOK(q)'
  <2>1. PhaseOK(q)
    BY DEF TypeInv
  <2> QED BY <2>1 DEF PhaseOK, Running, hook_is_active, HookOf, Opts, Served, Routes, rvars, settings,
                      exchanges, sends
<1> QED BY <1>1, <1>2, <1>3, TypePartsNext DEF TypeInv

(* A call that nobody waits for any more arrives. *)
LEMMA LateArrivalKeepsInv ==
  ASSUME TypeInv, NEW s \in SinkNames, NEW j \in Job, LateArrival(s, j)
  PROVE  TypeInv'
<1>1. Receives(s, j) /\ calls' \subseteq calls
  BY DEF LateArrival, Reached
<1>2. WorldOK'
  BY <1>1, ReceivesType, TypeParts DEF TypeInv, LateArrival, WorldOK
<1>3. PoolsOK'
  BY TypeParts DEF TypeInv, LateArrival, pools, PoolsOK
<1>4. StreamInv'
  BY StreamKept DEF LateArrival, pools, rvars, settings
<1> QED BY <1>2, <1>3, <1>4, WorldKeepsInv DEF LateArrival, pools

(* A message of a stream arrives, or no queue takes it. *)
LEMMA DeliverKeepsInv ==
  ASSUME TypeInv, NEW l \in DOMAIN stream, Deliver(l)
  PROVE  TypeInv'
<1>1. stream \in [{"nats"} \cup Channel -> Seq(Job)] /\ stream[l] # <<>>
  BY DEF TypeInv, TypeOK, Deliver
<1>2. Head(stream[l]) \in Job /\ Tail(stream[l]) \in Seq(Job)
  BY <1>1
<1>3. stream' \in [{"nats"} \cup Channel -> Seq(Job)]
  BY <1>1, <1>2 DEF Deliver
<1>4. got' = got \/ Receives("nats", Head(stream[l])) \/ Receives("amqp", Head(stream[l]))
  BY DEF Deliver
<1>5. got' \in [SinkNames -> Seq(Job)]
  <2>1. "nats" \in SinkNames /\ "amqp" \in SinkNames /\ WorldOK
    BY TypeParts DEF SinkNames, TypeInv
  <2> QED BY <1>2, <1>4, <2>1, ReceivesType DEF WorldOK
<1>6. WorldOK' /\ PoolsOK'
  BY <1>3, <1>5, TypeParts DEF TypeInv, Deliver, WorldOK, PoolsOK, pools
<1>7. StreamInv'
  <2>1. \A c \in Channel : stream'[c] # <<>> => stream[c] # <<>>
    BY <1>1 DEF Deliver
  <2> QED BY <2>1 DEF TypeInv, StreamInv, Deliver, pools, rvars, settings
<1> QED BY <1>6, <1>7, WorldKeepsInv DEF Deliver, pools

(* Channels close ... *)
LEMMA ClosedType ==
  ASSUME WorldOK, PoolsOK, NEW closed \in SUBSET Channel, \A c \in closed : chan[c] # None,
         Closed(closed), UNCHANGED <<got, refused, calls>>
  PROVE  WorldOK' /\ chan' \in [Channel -> LentChannel \cup {None}]
<1>2. ASSUME NEW c \in Channel, chan[c] # None PROVE [chan[c] EXCEPT !.alive = FALSE] \in LentChannel
  <2>1. chan[c] \in LentChannel
    BY <1>2 DEF PoolsOK
  <2> QED BY <2>1 DEF LentChannel
<1>3. <<>> \in Seq(Job) /\ DOMAIN stream = {"nats"} \cup Channel
  BY DEF WorldOK
<1>4. stream' \in [{"nats"} \cup Channel -> Seq(Job)]
  BY <1>3 DEF Closed, WorldOK
<1>5. \A c \in closed : ToSet(stream[c]) \subseteq Job
  BY DEF ToSet, WorldOK
<1>6. lost' \subseteq Job
  BY <1>5 DEF Closed, WorldOK
<1>7. chan' \in [Channel -> LentChannel \cup {None}]
  <2>1. ASSUME NEW c \in Channel PROVE chan'[c] \in LentChannel \cup {None}
    <3>1. chan[c] \in LentChannel \cup {None}
      BY DEF PoolsOK
    <3>2. chan'[c] = IF c \notin closed THEN chan[c] ELSE IF chan[c].by = None THEN None
                     ELSE [chan[c] EXCEPT !.alive = FALSE]
      BY DEF Closed
    <3>3. c \in closed => chan[c] # None
      OBVIOUS
    <3> QED BY <1>2, <3>1, <3>2, <3>3
  <2> QED BY <2>1 DEF Closed
<1> QED BY <1>4, <1>6, <1>7 DEF WorldOK

(* ... and take what is on its way through them with them. *)
LEMMA ClosedStream ==
  ASSUME TypeInv, NEW closed \in SUBSET Channel, Closed(closed), stage' = stage
  PROVE  StreamInv'
<1>1. \A c \in Channel : stream'[c] = IF c \in closed THEN <<>> ELSE stream[c]
  BY DEF Closed, TypeInv, TypeOK
<1>2. \A c \in Channel : c \notin closed => chan'[c] = chan[c]
  BY DEF Closed
<1> QED BY <1>1, <1>2 DEF TypeInv, StreamInv

(* The broker closes a channel that publishes to no exchange. *)
LEMMA NoExchangeKeepsInv ==
  ASSUME TypeInv, NEW c \in Channel, NoExchange(c)
  PROVE  TypeInv'
<1>1. chan[c] # None /\ Closed({c}) /\ WorldOK /\ PoolsOK
  BY TypeParts DEF TypeInv, StreamInv, NoExchange
<1>2. WorldOK' /\ PoolsOK'
  <2>1. \A d \in {c} : chan[d] # None
    BY <1>1
  <2> QED BY <1>1, <2>1, ClosedType DEF NoExchange, PoolsOK
<1>3. StreamInv'
  BY <1>1, ClosedStream DEF NoExchange, rvars, settings
<1> QED BY <1>2, <1>3, WorldKeepsInv DEF NoExchange

(* A connection breaks: the send that has it fails, and its channels close. *)
LEMMA ConnectionLostKeepsInv ==
  ASSUME TypeInv, NEW k \in Connection, ConnectionLost(k)
  PROVE  TypeInv'
<1> DEFINE closed == {c \in Channel : chan[c] # None /\ chan[c].on = k}
           user == conn[k].by
<1>1. Closed(closed) /\ closed \subseteq Channel /\ \A c \in closed : chan[c] # None
  BY DEF ConnectionLost
<1>2. UNCHANGED <<rvars, at, got, refused, calls, broker>> /\ conn' = [conn EXCEPT ![k] = None]
  BY DEF ConnectionLost
<1>3. step' = [j \in Job |-> IF user = j THEN "Other" ELSE step[j]]
  BY DEF ConnectionLost
<1>4. conn[k] # None /\ (user # None => step[user] = "create") /\ user \in Job \cup {None}
  BY DEF ConnectionLost, TypeInv, ConnInv, TypeOK, LentConnection
<1>5. WorldOK' /\ PoolsOK'
  <2>1. WorldOK' /\ chan' \in [Channel -> LentChannel \cup {None}]
    BY <1>1, <1>2, ClosedType, TypeParts, Zenon DEF TypeInv
  <2> QED BY <1>2, <2>1 DEF TypeInv, TypeOK, PoolsOK
<1>6. StreamInv'
  BY <1>1, <1>2, ClosedStream DEF rvars, settings
<1>7. Sinks' = Sinks /\ conf' = conf
  BY <1>2 DEF rvars, settings, Sinks, Opts
<1>8. \A j \in Job : step'[j] = step[j] \/ (step'[j] = "Other" /\ step[j] = "create")
  BY <1>3, <1>4, Jobs
<1>9. step' \in [Job -> Waiting \cup Ended]
  BY <1>3 DEF TypeInv, TypeOK, Ended, Failed
<1>10. \A j \in Job : Running(j)' => Running(j)
  BY <1>8 DEF Running, Ended, Failed
<1>11. ExchangesOK' /\ SendsOK'
  BY <1>2, <1>7, <1>9, <1>10, TypeParts DEF TypeInv, ExchangesOK, SendsOK, rvars, exchanges
<1>12. \A j \in Job : WaitsOK(j)'
  BY <1>2, <1>7, <1>8 DEF TypeInv, WaitsOK, Sink, Awaited, Opts
<1>13. ConnInv'
  <2>1. \A l \in Connection \ {k} : conn'[l] = conn[l]
    BY <1>2 DEF TypeInv, TypeOK
  <2>2. conn'[k] = None
    BY <1>2 DEF TypeInv, TypeOK
  <2>3. ASSUME NEW l \in Connection \ {k}, conn[l] # None, conn[l].by # None
        PROVE  step'[conn[l].by] = "create"
    <3>1. conn[l].by \in Job /\ step[conn[l].by] = "create" /\ conn[l].by # user
      BY <1>4, <2>3 DEF TypeInv, ConnInv, TypeOK, LentConnection
    <3> QED BY <1>3, <3>1
  <2> QED BY <2>1, <2>2, <2>3 DEF TypeInv, ConnInv
<1>14. ASSUME NEW q \in Req PROVE PhaseOK(q)'
  <2>1. PhaseOK(q) /\ <<q, "pre">> \in Job /\ <<q, "post">> \in Job
    BY Jobs DEF TypeInv
  <2>2. /\ Served(request[q])' = Served(request[q]) /\ UNCHANGED <<stage, request, phase, resp>>
        /\ hook_is_active(<<q, "pre">>)' = hook_is_active(<<q, "pre">>)
    BY <1>2, <1>7 DEF Served, Routes, rvars, settings, exchanges, hook_is_active, HookOf, Opts
  <2>3. \A j \in Job : step'[j] = "none" <=> step[j] = "none"
    BY <1>8
  <2> QED BY <1>10, <2>1, <2>2, <2>3 DEF PhaseOK
<1> QED BY <1>5, <1>6, <1>11, <1>12, <1>13, <1>14, TypePartsNext DEF TypeInv
-----------------------------------------------------------------------------
(* main(): before the server serves nothing has happened. *)
LEMMA Quiet ==
  ASSUME TypeInv, stage # "serving"
  PROVE  /\ \A r \in Req : phase[r] = "idle" /\ resp[r] = None
         /\ \A j \in Job : step[j] = "none"
         /\ \A c \in Channel : stream[c] = <<>>
         /\ \A k \in Connection : conn[k] # None => conn[k].by = None
<1>1. \A r \in Req : phase[r] = "idle" /\ resp[r] = None
  BY DEF TypeInv, PhaseOK
<1>2. \A j \in Job : step[j] = "none"
  <2>1. \A r \in Req : step[<<r, "pre">>] = "none" /\ step[<<r, "post">>] = "none"
    BY <1>1 DEF TypeInv, PhaseOK
  <2> QED BY <2>1, Jobs
<1>3. \A k \in Connection : conn[k] # None => conn[k].by = None
  BY <1>2 DEF TypeInv, ConnInv, TypeOK, LentConnection
<1> QED BY <1>1, <1>2, <1>3 DEF TypeInv, StreamInv

(* A step of main() that leaves all that alone ... *)
LEMMA StartsQuiet ==
  ASSUME TypeInv, stage # "serving", UNCHANGED <<exchanges, sends, got, refused, calls, stream, lost>>,
         PoolsOK', \A k \in Connection : conn'[k] # None => conn'[k].by = None
  PROVE  TypeInv'
<1>1. /\ \A r \in Req : phase'[r] = "idle" /\ resp'[r] = None
      /\ \A j \in Job : step'[j] = "none"
      /\ \A c \in Channel : stream'[c] = <<>>
  BY Quiet DEF exchanges, sends
<1>2. ExchangesOK' /\ WorldOK'
  BY TypeParts DEF TypeInv, ExchangesOK, WorldOK, exchanges
<1>3. SendsOK'
  BY <1>1, TypeParts DEF TypeInv, SendsOK, sends, Running, Ended
<1>4. ConnInv' /\ StreamInv' /\ \A j \in Job : WaitsOK(j)'
  BY <1>1 DEF ConnInv, StreamInv, WaitsOK
<1>5. \A q \in Req : PhaseOK(q)'
  BY <1>1, Jobs DEF PhaseOK, Running, Ended
<1> QED BY <1>2, <1>3, <1>4, <1>5, TypePartsNext DEF TypeInv

(* ... keeps the invariant, and each of them is one. *)
LEMMA StartKeepsInv ==
  ASSUME TypeInv, Start
  PROVE  TypeInv'
<1>1. stage # "serving" /\ UNCHANGED <<exchanges, sends, got, refused, calls, stream, lost>>
  BY DEF Start, FromArgs, PrepareDataStorage, PrepareInfoStorage, NewNotifiers, PrepareAmqp,
         PrepareAmqpFails, NothingToPrepare, BuildRouter, Bind, running, world
<1>2. CASE UNCHANGED pools
  <2>1. PoolsOK' /\ conn' = conn
    BY <1>2, TypeParts DEF TypeInv, PoolsOK, pools
  <2> QED BY <1>1, <2>1, Quiet, StartsQuiet
<1>3. CASE PrepareAmqp
  <2>1. PICK k \in Connection, c \in Channel : FirstChannel(k, c)
    BY <1>3 DEF PrepareAmqp
  <2>2. [by |-> None] \in LentConnection /\ [on |-> k, by |-> None, alive |-> TRUE] \in LentChannel
    BY DEF LentConnection, LentChannel
  <2>3. PoolsOK' /\ \A l \in Connection : conn'[l] # None => conn'[l].by = None
    BY <2>1, <2>2 DEF FirstChannel, EmptyPool, PoolsOK
  <2> QED BY <1>1, <2>3, StartsQuiet
<1>4. PrepareAmqp \/ UNCHANGED pools
  BY DEF Start, FromArgs, PrepareDataStorage, PrepareInfoStorage, NewNotifiers,
         PrepareAmqpFails, NothingToPrepare, BuildRouter, Bind, running
<1> QED BY <1>2, <1>3, <1>4

(* It holds in the beginning, ... *)
LEMMA InitInv == Init => TypeInv
<1> SUFFICES ASSUME Init PROVE TypeInv
  OBVIOUS
<1>1. request \in [Req -> HttpRequest] /\ stage = "parse"
  BY ScenariosAssumption DEF Init
<1>2. ExchangesOK
  BY <1>1 DEF Init, RouterInit, ExchangesOK
<1>3. SendsOK /\ WorldOK /\ PoolsOK
  BY DEF Init, HooksInit, SendsOK, WorldOK, PoolsOK, EmptyPool, Running, Ended
<1>4. ConnInv /\ StreamInv /\ \A j \in Job : WaitsOK(j)
  BY DEF Init, HooksInit, ConnInv, StreamInv, WaitsOK, EmptyPool
<1>5. \A r \in Req : PhaseOK(r)
  BY Jobs DEF Init, RouterInit, HooksInit, PhaseOK, Running, Ended
<1> QED BY <1>2, <1>3, <1>4, <1>5, TypeParts DEF TypeInv

(* ... when nothing happens, ... *)
LEMMA StutterInv ==
  ASSUME TypeInv, UNCHANGED nvars
  PROVE  TypeInv'
<1>1. WorldOK' /\ PoolsOK' /\ StreamInv'
  BY TypeParts DEF TypeInv, WorldOK, PoolsOK, StreamInv, nvars, running, world, pools, settings
<1> QED BY <1>1, WorldKeepsInv DEF nvars, running, pools, rvars

(* ... and after every step. *)
LEMMA NextInv ==
  ASSUME TypeInv, [Next]_nvars
  PROVE  TypeInv'
<1>1. CASE Start
  BY <1>1, StartKeepsInv
<1>2. ASSUME NEW r \in Req, RoutesNext(r) PROVE TypeInv'
  BY <1>2, DispatchEnds, EndsKeepsInv DEF RoutesNext
<1>3. CASE HooksNext
  BY <1>3, SendKeepsInv, HandlerKeepsInv, LateArrivalKeepsInv, DeliverKeepsInv, NoExchangeKeepsInv,
     ConnectionLostKeepsInv DEF HooksNext
<1>4. CASE UNCHANGED nvars
  BY <1>4, StutterInv
<1> QED BY <1>1, <1>2, <1>3, <1>4 DEF Next

(* The invariant, for all options, requests and environments. *)
THEOREM InvHolds == Spec => []TypeInv
  BY InitInv, NextInv, PTL DEF Spec

(* The variables of Main always have their types. *)
THEOREM TypeCorrect == Spec => []TypeOK
<1>1. TypeInv => TypeOK
  BY DEF TypeInv
<1> QED BY <1>1, InvHolds, PTL

(***************************************************************************)
(* Safety.                                                                 *)
(***************************************************************************)

(* What a step may do to a request and to its two sends. *)
StepsFrom(r) ==
  LET pre == <<r, "pre">>
      post == <<r, "post">>
  IN /\ step'[pre] = step[pre] \/ Running(pre) \/ phase[r] = "idle"
     /\ step'[post] = step[post] \/ Running(post) \/ step[post] = "none"
     /\ step'[post] # "none" /\ step[post] = "none" =>
          step'[pre] = step[pre] /\ step[pre] \in {"none", "ok"}
     /\ resp'[r] # resp[r] /\ resp'[r].status \in 200..299 =>
          step'[pre] = step[pre] /\ step[pre] \in {"none", "ok"}

(* A step of a send moves that send only, and answers nobody. *)
LEMMA SendSteps ==
  ASSUME TypeInv, NEW j \in Job, SendStep(j) \/ SendFails(j)
  PROVE  \A r \in Req : StepsFrom(r)
<1>1. GoesOn(j)
  BY SendGoesOn DEF TypeInv
<1>2. /\ Running(j) /\ resp' = resp /\ \A i \in Job \ {j} : step'[i] = step[i]
      /\ step[j] # "none"
  BY <1>1 DEF GoesOn, rvars, exchanges, TypeInv, TypeOK, Running, Ended
<1> QED BY <1>2, Jobs DEF StepsFrom

(* An exchange answers its own request, with a 2xx only after its pre-hook. *)
LEMMA EndsAnswers ==
  ASSUME TypeInv, NEW r \in Req, Ends(r)
  PROVE  /\ \A q \in Req \ {r} : resp'[q] = resp[q]
         /\ resp'[r] # resp[r] /\ resp'[r].status \in 200..299 => step[<<r, "pre">>] \in {"none", "ok"}
<1>1. \A q \in Req \ {r} : resp'[q] = resp[q]
  BY EndsExchanges
<1>2. ASSUME NEW status \in 200..999, Responds(r, status)
      PROVE  resp'[r].status = status
  <2>1. PICK extensions \in SUBSET Extensions : Respond(r, Layered(request[r], status, extensions))
    BY <1>2 DEF Responds
  <2>2. TypeOK
    BY DEF TypeInv
  <2>3. Layered(request[r], status, extensions).status = status
    BY DEF Layered
  <2>4. resp'[r] = Layered(request[r], status, extensions)
    BY <2>1, <2>2 DEF Respond, TypeOK
  <2> QED BY <2>3, <2>4
<1>3. NotFound(r) => resp'[r].status = 404
  BY DEF NotFound, Respond, TypeInv, TypeOK
<1>4. NoResponse(r) => resp'[r] = resp[r]
  BY DEF NoResponse
<1>5. resp'[r].status \in 200..299 =>
        step[<<r, "pre">>] \in {"none", "ok"} \/ resp'[r] = resp[r]
  <2>1. CASE NotFound(r) \/ NoResponse(r)
    BY <1>3, <1>4, <2>1
  <2>2. CASE \E status \in 200..999 :
               Responds(r, status) /\ (status \in 200..299 => step[<<r, "pre">>] \in {"none", "ok"})
    <3>1. PICK status \in 200..999 :
            Responds(r, status) /\ (status \in 200..299 => step[<<r, "pre">>] \in {"none", "ok"})
      BY <2>2
    <3>2. resp'[r].status = status
      BY <1>2, <3>1
    <3> QED BY <3>1, <3>2
  <2> QED BY <2>1, <2>2 DEF Ends
<1> QED BY <1>1, <1>5

(* StepsFrom holds of every step. *)
LEMMA AllSteps ==
  ASSUME TypeInv, [Next]_nvars
  PROVE  \A r \in Req : StepsFrom(r)
<1>1. ASSUME NEW r \in Req, Ends(r), \A j \in Job \ {<<r, "post">>} : step'[j] = step[j],
             step'[<<r, "post">>] # step[<<r, "post">>] =>
               step[<<r, "post">>] = "none" /\ step[<<r, "pre">>] \in {"none", "ok"}
      PROVE  \A q \in Req : StepsFrom(q)
  <2>1. /\ \A q \in Req \ {r} : resp'[q] = resp[q]
        /\ resp'[r] # resp[r] /\ resp'[r].status \in 200..299 => step[<<r, "pre">>] \in {"none", "ok"}
    BY <1>1, EndsAnswers
  <2>2. ~(step'[<<r, "post">>] # step[<<r, "post">>] /\ step[<<r, "post">>] # "none")
    BY <1>1
  <2> SUFFICES ASSUME NEW q \in Req PROVE StepsFrom(q)
    OBVIOUS
  <2>3. <<q, "pre">> \in Job \ {<<r, "post">>} /\ (q # r => <<q, "post">> \in Job \ {<<r, "post">>})
    BY Jobs
  <2>4. CASE q = r
    BY <1>1, <2>1, <2>2, <2>3, <2>4 DEF StepsFrom
  <2>5. CASE q # r
    BY <1>1, <2>1, <2>3, <2>5 DEF StepsFrom
  <2> QED BY <2>4, <2>5
<1>2. ASSUME NEW r \in Req, Ends(r), UNCHANGED sends PROVE \A q \in Req : StepsFrom(q)
  BY <1>1, <1>2 DEF sends
<1>3. CASE UNCHANGED <<resp, sends>>
  BY <1>3 DEF StepsFrom, sends
<1>4. ASSUME NEW r \in Req, Work(r) PROVE \A q \in Req : StepsFrom(q)
  <2>1. \A j \in Job \ {<<r, "post">>} : step'[j] = step[j]
    BY <1>4 DEF Work, Begin, GoOn, sends, TypeInv, TypeOK
  <2> QED BY <1>1, <1>4, <2>1, WorkEnds, AllowedMeans, OpenIsServed DEF Work
<1>5. ASSUME NEW r \in Req, Arrive(r) PROVE \A q \in Req : StepsFrom(q)
  <2>1. \A j \in Job \ {<<r, "pre">>} : step'[j] = step[j]
    BY <1>5 DEF Arrive, Begin, GoOn, sends, TypeInv, TypeOK
  <2>2. phase[r] = "idle" /\ resp' = resp
    BY <1>5 DEF Arrive, Handled, Comes
  <2> QED BY <2>1, <2>2, Jobs DEF StepsFrom
<1>6. ASSUME NEW r \in Req, Disconnect(r) PROVE \A q \in Req : StepsFrom(q)
  <2>1. step' = [step EXCEPT ![<<r, "pre">>] = IF Running(<<r, "pre">>) THEN "dropped" ELSE @]
        /\ resp' = resp
    BY <1>6 DEF Disconnect, NoResponse
  <2>2. \A j \in Job : step'[j] = step[j] \/ (j = <<r, "pre">> /\ Running(j))
    BY <2>1 DEF TypeInv, TypeOK
  <2> QED BY <2>1, <2>2, Jobs DEF StepsFrom
<1>7. ASSUME NEW k \in Connection, ConnectionLost(k) PROVE \A q \in Req : StepsFrom(q)
  <2>1. /\ resp' = resp
        /\ step' = [j \in Job |-> IF conn[k].by = j THEN "Other" ELSE step[j]]
        /\ conn[k] # None
    BY <1>7 DEF ConnectionLost, rvars, exchanges
  <2>2. \A j \in Job : conn[k].by = j => step[j] = "create"
    BY <2>1, Jobs DEF TypeInv, ConnInv
  <2>3. \A j \in Job : step'[j] = step[j] \/ (Running(j) /\ step[j] # "none")
    BY <2>1, <2>2 DEF Running, Ended, Failed
  <2> QED BY <2>1, <2>3, Jobs DEF StepsFrom
<1>8. CASE Start
  BY <1>3, <1>8 DEF Start, FromArgs, PrepareDataStorage, PrepareInfoStorage, NewNotifiers, PrepareAmqp,
         PrepareAmqpFails, NothingToPrepare, BuildRouter, Bind, running, exchanges
<1>9. ASSUME NEW r \in Req, HandlerStep(r) PROVE \A q \in Req : StepsFrom(q)
  BY <1>2, <1>4, <1>5, <1>6, <1>9, RejectEnds, WorkEnds, CancelEnds DEF HandlerStep, Reject, WorkFails, Cancel
<1>10. CASE HooksNext
  BY <1>3, <1>7, <1>9, <1>10, SendSteps
    DEF HooksNext, LateArrival, Deliver, NoExchange, rvars, exchanges
<1>11. ASSUME NEW r \in Req, RoutesNext(r) PROVE \A q \in Req : StepsFrom(q)
  BY <1>2, <1>11, DispatchEnds DEF RoutesNext
<1>12. CASE UNCHANGED nvars
  BY <1>3, <1>12 DEF nvars, running, exchanges
<1> QED BY <1>8, <1>10, <1>11, <1>12 DEF Next
-----------------------------------------------------------------------------
(* Whoever is refused has failed. *)
RefusedFailed == \A s \in SinkNames, j \in Job : <<s, j>> \in refused => step[j] \in Failed
(* A request is carried out after its pre-hook has ended well, or if there is none. *)
WorksAllowed ==
  \A r \in Req : step[<<r, "post">>] # "none" \/ (Answered(r) /\ resp[r].status \in 200..299) =>
    step[<<r, "pre">>] \in {"none", "ok"}

(* The inductive invariant. *)
RefusalInv == RefusedFailed /\ WorksAllowed

(* A send that has ended stays as it ended. *)
LEMMA EndedStays ==
  ASSUME TypeInv, [Next]_nvars, NEW j \in Job, ~Running(j), step[j] # "none"
  PROVE  step'[j] = step[j]
<1>1. PICK r \in Req : j = <<r, "pre">> \/ j = <<r, "post">>
  BY Jobs
<1>2. StepsFrom(r) /\ (phase[r] = "idle" => step[<<r, "pre">>] = "none")
  BY AllSteps DEF TypeInv, PhaseOK
<1> QED BY <1>1, <1>2 DEF StepsFrom

(* Whoever gets a no fails with that step. *)
LEMMA RefusedNext ==
  ASSUME TypeInv, [Next]_nvars, NEW s \in SinkNames, NEW j \in Job, <<s, j>> \in refused', <<s, j>> \notin refused
  PROVE  Refuse(j) /\ s = Sink(j) /\ step'[j] \in Failed
<1>1. PICK i \in Job : Refuse(i)
  BY DEF Next, Start, FromArgs, PrepareDataStorage, PrepareInfoStorage, NewNotifiers, PrepareAmqp,
         PrepareAmqpFails, NothingToPrepare, BuildRouter, Bind, RoutesNext, HooksNext, SendStep, SendFails,
         HandlerStep, Call, Accept, PublishNats, ReuseChannel, OpenChannel, BorrowConnection, CreateChannel,
         Publish, CallFails, NoAnswer, AmqpFails, Arrive, Reject, Work, WorkFails, Cancel, Disconnect,
         LateArrival, Deliver, NoExchange, ConnectionLost, nvars, running, world
<1>2. refused' = refused \cup {<<Sink(i), i>>}
  BY <1>1 DEF Refuse
<1>3. i = j /\ s = Sink(j)
  BY <1>2
<1>4. step'[j] \in Failed
  <2>1. Running(j) /\ Sink(j) \in SinkNames \ {"amqp", "kafka"}
    <3>1. Running(j) /\ Sink(j) \in SinkNames /\ Sink(j) # "kafka" /\ Awaited(Sink(j))
      BY <1>1, <1>3, SinkName DEF Refuse, Running, Ended, Failed, TypeInv, WaitsOK
    <3> QED BY <3>1 DEF Awaited
  <2> QED BY <1>1, <1>3, <2>1 DEF Refuse, Fail, Failed, SinkNames, TypeInv, TypeOK
<1> QED BY <1>1, <1>3, <1>4

(* So the invariant is kept. *)
LEMMA RefusalNext ==
  ASSUME TypeInv, RefusalInv, [Next]_nvars
  PROVE  RefusalInv'
<1>1. ASSUME NEW s \in SinkNames, NEW j \in Job, <<s, j>> \in refused' PROVE step'[j] \in Failed
  <2>1. CASE <<s, j>> \in refused
    <3>1. step[j] \in Failed
      BY <2>1 DEF RefusalInv, RefusedFailed
    <3> QED BY <3>1, EndedStays DEF Running, Ended, Failed
  <2>2. CASE <<s, j>> \notin refused
    BY <1>1, <2>2, RefusedNext
  <2> QED BY <2>1, <2>2
<1>2. ASSUME NEW r \in Req, step'[<<r, "post">>] # "none" \/ (resp'[r] # None /\ resp'[r].status \in 200..299)
      PROVE  step'[<<r, "pre">>] \in {"none", "ok"}
  <2>1. StepsFrom(r) /\ PhaseOK(r)
    BY AllSteps DEF TypeInv
  <2>2. CASE step[<<r, "post">>] # "none" \/ (resp[r] # None /\ resp[r].status \in 200..299)
    <3>1. step[<<r, "pre">>] \in {"none", "ok"} /\ phase[r] # "idle" /\ ~Running(<<r, "pre">>)
      BY <2>1, <2>2 DEF RefusalInv, WorksAllowed, Answered, PhaseOK
    <3> QED BY <2>1, <3>1 DEF StepsFrom
  <2>3. CASE step[<<r, "post">>] = "none" /\ ~(resp[r] # None /\ resp[r].status \in 200..299)
    BY <1>2, <2>1, <2>3 DEF StepsFrom
  <2> QED BY <2>2, <2>3
<1> QED BY <1>1, <1>2 DEF RefusalInv, RefusedFailed, WorksAllowed, Answered

(* A no is final: the request is not carried out, and nobody gets its post-hook. *)
THEOREM RefusalHolds == Spec => []RefusalCancels
<1>1. Init => RefusalInv
  BY Jobs DEF Init, RouterInit, HooksInit, RefusalInv, RefusedFailed, WorksAllowed, Answered
<1>2. RefusalInv => RefusalCancels
  BY Jobs DEF RefusalInv, RefusedFailed, WorksAllowed, RefusalCancels, Failed
<1> QED BY <1>1, <1>2, RefusalNext, InvHolds, PTL DEF Spec
-----------------------------------------------------------------------------
(* The exchanges that ErrorsCounted counts. *)
ErrorAnswers == {r \in Req : Answered(r) /\ Known(request[r]) /\ IsError(resp[r].status)}

(* The response that answers a request has the status of the answer. *)
LEMMA LayeredAnswer ==
  ASSUME TypeInv, NEW r \in Req, NEW status \in 200..999, NEW extensions \in SUBSET Extensions
  PROVE  /\ Layered(request[r], status, extensions) # None
         /\ Layered(request[r], status, extensions).status = status
<1>1. TypeOK
  BY DEF TypeInv
<1> QED BY <1>1, LayeredType, ZenonT(60)

(* An exchange that ends with an error is counted once. *)
LEMMA EndsCounts ==
  ASSUME TypeInv, ErrorsCounted, NEW r \in Req, Ends(r)
  PROVE  ErrorsCounted'
<1> USE DEF TypeInv
<1>1. resp[r] = None /\ ErrorAnswers \subseteq Req /\ r \notin ErrorAnswers /\ request' = request
  <2>1. request' = request /\ phase[r] # "done" /\ phase[r] \in {"idle", "open", "done"} /\ PhaseOK(r)
    BY EndsExchanges DEF Ends, TypeOK
  <2>2. resp[r] = None
    BY <2>1 DEF PhaseOK
  <2> QED BY <2>1, <2>2 DEF ErrorAnswers, Answered
<1>2. IsFiniteSet(ErrorAnswers) /\ found_errors = Cardinality(ErrorAnswers)
  BY <1>1, ReqAssumption, FS_Subset DEF ErrorsCounted, ErrorAnswers
<1>3. \A q \in Req \ {r} : resp'[q] = resp[q]
  BY EndsExchanges
<1>4. \A q \in Req \ {r} : q \in ErrorAnswers' <=> q \in ErrorAnswers
  BY <1>1, <1>3 DEF ErrorAnswers, Answered
<1>5. CASE \E status \in 200..999 : Responds(r, status)
  <2>1. PICK status \in 200..999 : Responds(r, status)
    BY <1>5
  <2>2. PICK extensions \in SUBSET Extensions :
          /\ Respond(r, Layered(request[r], status, extensions))
          /\ Counted(status) /\ Known(request[r])
    BY <2>1 DEF Responds
  <2>3. /\ Layered(request[r], status, extensions) # None
        /\ Layered(request[r], status, extensions).status = status
    <3> HIDE DEF TypeInv
    <3> QED BY LayeredAnswer, ZenonT(60)
  <2>4. resp'[r] # None /\ resp'[r].status = status
    BY <2>2, <2>3 DEF Respond, TypeOK
  <2>5. r \in ErrorAnswers' <=> IsError(status)
    BY <1>1, <2>2, <2>4 DEF ErrorAnswers, Answered
  <2>6. CASE IsError(status)
    <3>1. ErrorAnswers' = ErrorAnswers \cup {r}
      <4>1. r \in ErrorAnswers' /\ ErrorAnswers' \subseteq Req
        BY <2>5, <2>6 DEF ErrorAnswers
      <4> QED BY <1>1, <1>4, <4>1
    <3>2. Cardinality(ErrorAnswers') = found_errors + 1
      BY <1>1, <1>2, <3>1, FS_AddElement
    <3> QED BY <2>2, <2>6, <3>2 DEF Counted, ErrorsCounted, ErrorAnswers
  <2>7. CASE ~IsError(status)
    <3>1. ErrorAnswers' = ErrorAnswers
      <4>1. r \notin ErrorAnswers' /\ ErrorAnswers' \subseteq Req
        BY <2>5, <2>7 DEF ErrorAnswers
      <4> QED BY <1>1, <1>4, <4>1
    <3>2. found_errors' = found_errors
      BY <2>2, <2>7 DEF Counted, TypeOK
    <3> QED BY <1>2, <3>1, <3>2 DEF ErrorsCounted, ErrorAnswers
  <2> QED BY <2>6, <2>7
<1>6. CASE NotFound(r) \/ NoResponse(r)
  <2>1. r \notin ErrorAnswers' /\ ErrorAnswers' \subseteq Req /\ found_errors' = found_errors
    BY <1>1, <1>6 DEF ErrorAnswers, NotFound, NoResponse, Answered
  <2>2. ErrorAnswers' = ErrorAnswers
    BY <1>1, <1>4, <2>1
  <2> QED BY <1>2, <2>1, <2>2 DEF ErrorsCounted, ErrorAnswers
<1> QED BY <1>5, <1>6 DEF Ends

(* Every other step leaves the answers and the counter alone. *)
LEMMA EndsOrNot ==
  ASSUME TypeInv, [Next]_nvars
  PROVE  (\E r \in Req : Ends(r)) \/ UNCHANGED <<request, resp, found_errors>>
<1>1. CASE Start
  BY <1>1 DEF Start, FromArgs, PrepareDataStorage, PrepareInfoStorage, NewNotifiers, PrepareAmqp,
         PrepareAmqpFails, NothingToPrepare, BuildRouter, Bind, running, exchanges
<1>2. ASSUME NEW r \in Req, RoutesNext(r) PROVE Ends(r)
  BY <1>2, DispatchEnds DEF RoutesNext
<1>3. ASSUME NEW r \in Req, HandlerStep(r)
      PROVE  Ends(r) \/ UNCHANGED <<request, resp, found_errors>>
  BY <1>3, RejectEnds, WorkEnds, CancelEnds DEF HandlerStep, Arrive, Disconnect, NoResponse
<1>4. ASSUME NEW j \in Job, SendStep(j) \/ SendFails(j) PROVE UNCHANGED <<request, resp, found_errors>>
  BY <1>4, SendGoesOn DEF GoesOn, rvars, exchanges, TypeInv
<1>5. CASE HooksNext
  BY <1>3, <1>4, <1>5 DEF HooksNext, LateArrival, Deliver, NoExchange, ConnectionLost, rvars, exchanges
<1>6. CASE UNCHANGED nvars
  BY <1>6 DEF nvars, running, exchanges
<1> QED BY <1>1, <1>2, <1>5, <1>6 DEF Next

(* So the counter agrees with the answers after every step. *)
LEMMA CountedNext ==
  ASSUME TypeInv, ErrorsCounted, [Next]_nvars
  PROVE  ErrorsCounted'
<1>1. CASE UNCHANGED <<request, resp, found_errors>>
  BY <1>1 DEF ErrorsCounted, Answered
<1> QED BY <1>1, EndsCounts, EndsOrNot

(* The counter is the number of error answers. *)
THEOREM ErrorsCountedHolds == Spec => []ErrorsCounted
<1>1. Init => ErrorsCounted
  <2> SUFFICES ASSUME Init PROVE ErrorsCounted
    OBVIOUS
  <2>1. ErrorAnswers = {} /\ found_errors = 0
    BY DEF Init, RouterInit, ErrorAnswers, Answered
  <2> QED BY <2>1, FS_EmptySet DEF ErrorsCounted, ErrorAnswers
<1> QED BY <1>1, CountedNext, InvHolds, PTL DEF Spec
-----------------------------------------------------------------------------
(* What main() has prepared when it is at a stage. *)
Prepares ==
  /\ stage \notin {"parse", "data storage", "exit", "panic"} /\ Storage.storage = "file-storage" =>
       Storage.data_dir \in dirs
  /\ stage \notin {"parse", "data storage", "info storage", "exit", "panic"}
       /\ InfoStorage.info_storage = "file-info-storage" => InfoStorage.info_dir \in dirs

(* Every step of main() prepares what the next stages rely on. *)
LEMMA PreparesNext ==
  ASSUME TypeInv, Prepares, [Next]_nvars
  PROVE  Prepares'
<1>1. CASE UNCHANGED settings
  BY <1>1 DEF settings, Prepares, Storage, InfoStorage
<1>2. CASE FromArgs
  BY <1>2 DEF FromArgs, Goes, Prepares
<1>3. CASE PrepareDataStorage
  <2>1. Storage.storage = "file-storage" => Storage.data_dir \in Prepared
    BY DEF Prepared, WithParents
  <2> QED BY <1>3, <2>1 DEF PrepareDataStorage, Goes, Prepares, Storage, InfoStorage
<1>4. CASE PrepareInfoStorage
  <2>1. conf' = conf /\ stage = "info storage" /\ dirs \subseteq dirs'
    BY <1>4 DEF PrepareInfoStorage, InfoPrepared
  <2>2. \/ stage' = "exit"
        \/ InfoStorage.info_storage = "file-info-storage" => InfoStorage.info_dir \in dirs'
    BY <1>4 DEF PrepareInfoStorage, InfoPrepared, Goes
  <2> QED BY <2>1, <2>2 DEF Prepares, Storage, InfoStorage
<1>5. ASSUME NewNotifiers \/ PrepareAmqp \/ PrepareAmqpFails \/ NothingToPrepare \/ BuildRouter \/ Bind
      PROVE  Prepares'
  <2>1. /\ stage \notin {"parse", "data storage", "info storage", "exit", "panic"}
        /\ UNCHANGED <<conf, dirs>>
    BY <1>5 DEF NewNotifiers, PrepareAmqp, PrepareAmqpFails, NothingToPrepare, BuildRouter, Bind
  <2> QED BY <2>1 DEF Prepares, Storage, InfoStorage
<1>6. CASE Start
  BY <1>2, <1>3, <1>4, <1>5, <1>6 DEF Start
<1>7. ASSUME NEW j \in Job, SendStep(j) \/ SendFails(j) PROVE UNCHANGED settings
  BY <1>7, SendGoesOn DEF GoesOn, rvars, TypeInv
<1>8. ASSUME NEW r \in Req, HandlerStep(r) \/ RoutesNext(r) PROVE UNCHANGED settings
  BY <1>8, DispatchEnds, RejectEnds, WorkEnds, CancelEnds, EndsExchanges
    DEF HandlerStep, RoutesNext, Arrive, Disconnect, NoResponse
<1>9. Start \/ UNCHANGED settings
  BY <1>7, <1>8 DEF Next, HooksNext, LateArrival, Deliver, NoExchange, ConnectionLost, rvars, nvars
<1> QED BY <1>1, <1>6, <1>9

(* A server that serves has its directories. *)
THEOREM StorageIsReadyHolds == Spec => []StorageIsReady
<1>1. Init => Prepares
  BY DEF Init, Prepares
<1>2. Prepares => StorageIsReady
  BY DEF Prepares, StorageIsReady, CanStore
<1> QED BY <1>1, <1>2, PreparesNext, InvHolds, PTL DEF Spec
-----------------------------------------------------------------------------
(* The pools of the AMQP notifier. *)

(* Send j has channel c. *)
Has(j, c) == chan[c] # None /\ chan[c].by = j

(* Nobody takes, gives back or closes a channel. *)
LEMMA ChannelsKept ==
  ASSUME ChannelsSound, chan' = chan,
         \A j \in Job : step'[j] = "publish" <=> step[j] = "publish",
         \A k \in Connection : conn[k] # None => conn'[k] # None,
         PoolsOK
  PROVE  ChannelsSound'
<1>1. \A c \in Channel : chan[c] # None => chan[c].on \in Connection
  BY DEF PoolsOK, LentChannel
<1> QED BY <1>1 DEF ChannelsSound

(* A send that does not hold a channel goes on without one. *)
LEMMA WithoutChannel ==
  ASSUME TypeInv, ChannelsSound, NEW j \in Job, NEW w, w # "publish", step[j] # "publish",
         step' = [step EXCEPT ![j] = w], chan' = chan,
         \A k \in Connection : conn[k] # None => conn'[k] # None
  PROVE  ChannelsSound'
<1>1. \A i \in Job : step'[i] = "publish" <=> step[i] = "publish"
  BY DEF TypeInv, TypeOK
<1> QED BY <1>1, ChannelsKept, TypeParts DEF TypeInv

(* j gives back what it has; it may be nothing. *)
LEMMA ChannelGivenBack ==
  ASSUME TypeInv, ChannelsSound, NEW j \in Job, NEW w, w # "publish",
         step' = [step EXCEPT ![j] = w], chan' = ChannelReturned(j),
         \A k \in Connection : conn[k] # None => conn'[k] # None
  PROVE  ChannelsSound'
<1>1. \A c \in Channel : chan[c] # None => chan[c] \in LentChannel
  BY DEF TypeInv, TypeOK
<1>2. j # None /\ None \notin LentChannel
  BY Jobs, NoneAssumption
<1>3. ASSUME NEW c \in Channel
      PROVE  /\ ~Has(j, c) => chan'[c] = chan[c]
             /\ Has(j, c) => chan'[c] = None \/ (chan'[c].by = None /\ chan'[c].on = chan[c].on
                                                  /\ chan'[c].alive = chan[c].alive)
  <2>1. chan'[c] = IF ~Has(j, c) THEN chan[c]
                   ELSE IF chan[c].alive THEN [chan[c] EXCEPT !.by = None] ELSE None
    BY DEF ChannelReturned, Has
  <2>2. chan[c] # None => /\ [chan[c] EXCEPT !.by = None].by = None
                          /\ [chan[c] EXCEPT !.by = None].on = chan[c].on
                          /\ [chan[c] EXCEPT !.by = None].alive = chan[c].alive
    BY <1>1 DEF LentChannel
  <2> QED BY <2>1, <2>2 DEF Has
<1>4. \A c \in Channel, i \in Job : Has(i, c)' <=> Has(i, c) /\ i # j
  BY <1>2, <1>3, Jobs DEF Has
<1>5. \A i \in Job : step'[i] = "publish" <=> step[i] = "publish" /\ i # j
  BY DEF TypeInv, TypeOK
<1>6. \A i \in Job : step'[i] = "publish" <=> \E c \in Channel : Has(i, c)'
  BY <1>4, <1>5 DEF ChannelsSound, Has
<1>7. \A c, d \in Channel : chan'[c] # None /\ chan'[d] # None /\ chan'[c].by # None
        /\ chan'[c].by = chan'[d].by => c = d
  BY <1>3 DEF ChannelsSound, Has
<1>8. \A c \in Channel : chan'[c] # None /\ chan'[c].alive => conn'[chan'[c].on] # None
  <2>1. ASSUME NEW c \in Channel, chan'[c] # None, chan'[c].alive
        PROVE  chan[c] # None /\ chan[c].alive /\ chan'[c].on = chan[c].on /\ chan[c].on \in Connection
    BY <1>1, <1>3, <2>1 DEF Has, LentChannel
  <2> QED BY <2>1 DEF ChannelsSound
<1> QED BY <1>6, <1>7, <1>8 DEF ChannelsSound, Has

(* j takes channel c, that nobody has. *)
LEMMA ChannelTaken ==
  ASSUME TypeInv, ChannelsSound, NEW j \in Job, step[j] # "publish",
         step' = [step EXCEPT ![j] = "publish"], NEW c \in Channel,
         chan[c] = None \/ chan[c].by = None,
         \A d \in Channel \ {c} : chan'[d] = chan[d],
         chan'[c] # None, chan'[c].by = j, chan'[c].alive => conn'[chan'[c].on] # None,
         \A k \in Connection : conn[k] # None => conn'[k] # None
  PROVE  ChannelsSound'
<1>1. \A d \in Channel : chan[d] # None => chan[d].on \in Connection
  BY DEF TypeInv, TypeOK, LentChannel
<1>2. j # None /\ \A d \in Channel : ~Has(j, d)
  BY Jobs DEF ChannelsSound, Has
<1>3. \A d \in Channel, i \in Job : Has(i, d)' <=> (IF d = c THEN i = j ELSE Has(i, d))
  BY DEF Has
<1>4. \A i \in Job : ~Has(i, c)
  BY Jobs DEF Has
<1>5. \A i \in Job : step'[i] = "publish" <=> step[i] = "publish" \/ i = j
  BY DEF TypeInv, TypeOK
<1>6. \A i \in Job : step'[i] = "publish" <=> \E d \in Channel : Has(i, d)'
  BY <1>2, <1>3, <1>4, <1>5 DEF ChannelsSound, Has
<1>7. \A d, e \in Channel : chan'[d] # None /\ chan'[e] # None /\ chan'[d].by # None
        /\ chan'[d].by = chan'[e].by => d = e
  BY <1>2 DEF ChannelsSound, Has
<1>8. \A d \in Channel : chan'[d] # None /\ chan'[d].alive => conn'[chan'[d].on] # None
  BY <1>1 DEF ChannelsSound
<1> QED BY <1>6, <1>7, <1>8 DEF ChannelsSound, Has

(* Each step of a send is one of these. *)
LEMMA SendChannels ==
  ASSUME TypeInv, ChannelsSound, NEW j \in Job, SendStep(j) \/ SendFails(j)
  PROVE  ChannelsSound'
<1> USE DEF TypeInv
<1>1. ASSUME NEW w \in {"ok", "call", "answer", "open", "create"} \cup Failed \cup {"panic"},
             step' = [step EXCEPT ![j] = w], step[j] # "publish", chan' = chan,
             \A k \in Connection : conn[k] # None => conn'[k] # None
      PROVE  ChannelsSound'
  BY <1>1, WithoutChannel DEF Failed
<1>2. CASE Call(j) \/ OpenChannel(j)
  BY <1>1, <1>2 DEF Call, OpenChannel, Waits, pools
<1>3. CASE Accept(j) \/ PublishNats(j)
  BY <1>1, <1>3 DEF Accept, PublishNats, Continue, GoOn, pools
<1>4. CASE CallFails(j) \/ NoAnswer(j)
  BY <1>1, <1>4 DEF CallFails, NoAnswer, Fail, Failed, pools
<1>5. CASE Refuse(j)
  <2>1. GoesOn(j) /\ step[j] = "answer" /\ UNCHANGED pools
    BY <1>5, SendGoesOn DEF Refuse
  <2>2. PICK w \in Waiting \cup Failed \cup {"ok", "panic"} : step' = [step EXCEPT ![j] = w]
    BY <2>1 DEF GoesOn
  <2>3. step'[j] # "publish"
    <3>1. Sink(j) \in SinkNames \ {"kafka"} /\ Awaited(Sink(j))
      BY <1>5, SinkName DEF Refuse, Running, Ended, Failed, WaitsOK
    <3>2. Sink(j) \in {"file", "dir", "http1", "http2", "nats"}
      BY <3>1 DEF Awaited, SinkNames
    <3> QED BY <1>5, <3>2 DEF Refuse, Fail, TypeOK
  <2>4. w # "publish"
    BY <2>2, <2>3 DEF TypeOK
  <2> QED BY <2>1, <2>2, <2>4, WithoutChannel DEF pools
<1>6. CASE BorrowConnection(j)
  <2>1. PICK k \in Connection : conn' = [conn EXCEPT ![k] = [by |-> j]]
    BY <1>6 DEF BorrowConnection
  <2>2. [by |-> j] \in LentConnection
    BY DEF LentConnection
  <2>3. \A l \in Connection : conn[l] # None => conn'[l] # None
    BY <2>1, <2>2, NoneAssumption DEF TypeOK
  <2> QED BY <1>1, <1>6, <2>3 DEF BorrowConnection, Waits
<1>7. CASE AmqpFails(j)
  <2>1. [by |-> None] \in LentConnection
    BY DEF LentConnection
  <2>2. \A l \in Connection : conn[l] # None => conn'[l] # None
    BY <1>7, <2>1, NoneAssumption DEF AmqpFails, ConnectionReturned
  <2> QED BY <1>1, <1>7, <2>2 DEF AmqpFails, Fail, Failed
<1>8. CASE Publish(j)
  <2>1. \E w \in {"ok", "call", "Other"} : step' = [step EXCEPT ![j] = w]
    BY <1>8 DEF Publish, Fail, Continue, GoOn
  <2> QED BY <1>8, <2>1, ChannelGivenBack DEF Publish
<1>9. CASE ReuseChannel(j)
  <2>1. PICK c \in Idle : chan' = [chan EXCEPT ![c].by = j]
    BY <1>9 DEF ReuseChannel
  <2>2. c \in Channel /\ chan[c] \in LentChannel /\ chan[c].by = None /\ chan[c] # None
    BY <2>1 DEF Idle, TypeOK
  <2>3. /\ [chan[c] EXCEPT !.by = j] \in LentChannel /\ [chan[c] EXCEPT !.by = j].by = j
        /\ [chan[c] EXCEPT !.by = j].alive = chan[c].alive /\ [chan[c] EXCEPT !.by = j].on = chan[c].on
    BY <2>2 DEF LentChannel
  <2>4. /\ chan'[c] # None /\ chan'[c].by = j /\ chan'[c].alive = chan[c].alive
        /\ chan'[c].on = chan[c].on /\ \A d \in Channel \ {c} : chan'[d] = chan[d]
    BY <2>1, <2>2, <2>3, NoneAssumption DEF TypeOK
  <2>5. conn' = conn /\ (chan[c].alive => conn[chan[c].on] # None)
    BY <1>9, <2>2 DEF ReuseChannel, ChannelsSound
  <2> QED BY <1>9, <2>2, <2>4, <2>5, ChannelTaken DEF ReuseChannel, Waits
<1>10. CASE CreateChannel(j)
  <2>1. PICK k \in Connection, c \in Channel :
          /\ conn[k] = [by |-> j] /\ chan[c] = None
          /\ chan' = [chan EXCEPT ![c] = [on |-> k, by |-> j, alive |-> TRUE]]
          /\ conn' = [conn EXCEPT ![k].by = None]
    BY <1>10 DEF CreateChannel
  <2>2. /\ [on |-> k, by |-> j, alive |-> TRUE] \in LentChannel
        /\ [by |-> None] \in LentConnection /\ [conn[k] EXCEPT !.by = None] = [by |-> None]
    BY <2>1 DEF LentChannel, LentConnection
  <2>3. /\ \A l \in Connection : conn[l] # None => conn'[l] # None
        /\ conn'[k] # None
    BY <2>1, <2>2, NoneAssumption DEF TypeOK
  <2>4. /\ chan'[c] # None /\ chan'[c].by = j /\ chan'[c].on = k
        /\ \A d \in Channel \ {c} : chan'[d] = chan[d]
    BY <2>1, <2>2, NoneAssumption DEF TypeOK
  <2> QED BY <1>10, <2>1, <2>3, <2>4, ChannelTaken, ZenonT(60) DEF CreateChannel, Waits
<1> HIDE DEF TypeInv
<1>11. CASE SendStep(j)
  BY <1>2, <1>3, <1>6, <1>8, <1>9, <1>10, <1>11, SMTT(30) DEF SendStep
<1>12. CASE SendFails(j)
  BY <1>4, <1>5, <1>7, <1>12, SMTT(30) DEF SendFails
<1> QED BY <1>11, <1>12

(* A handler that starts a send holds nothing; one that is dropped gives back all. *)
LEMMA HandlerChannels ==
  ASSUME TypeInv, ChannelsSound, NEW r \in Req, HandlerStep(r)
  PROVE  ChannelsSound'
<1>1. ASSUME NEW j \in Job, NEW w \in {"ok", "call"}, step' = [step EXCEPT ![j] = w], step[j] # "publish",
             UNCHANGED pools
      PROVE  ChannelsSound'
  BY <1>1, WithoutChannel DEF pools
<1>2. ASSUME UNCHANGED <<sends, pools>> PROVE ChannelsSound'
  BY <1>2, ChannelsKept, TypeParts DEF sends, pools, TypeInv
<1>3. CASE Arrive(r)
  <2>1. <<r, "pre">> \in Job /\ step[<<r, "pre">>] # "publish"
    BY <1>3, Jobs, HandledOpens DEF Arrive
  <2> QED BY <1>1, <1>2, <1>3, <2>1 DEF Arrive, Begin, GoOn
<1>4. CASE Work(r)
  <2>1. <<r, "post">> \in Job /\ step[<<r, "post">>] # "publish"
    BY <1>4, Jobs, AllowedMeans, OpenIsServed DEF Work
  <2> QED BY <1>1, <1>2, <1>4, <2>1 DEF Work, Begin, GoOn
<1>5. CASE Reject(r) \/ WorkFails(r) \/ Cancel(r)
  BY <1>2, <1>5 DEF Reject, WorkFails, Cancel
<1>6. CASE Disconnect(r)
  <2> DEFINE pre == <<r, "pre">>
  <2>1. PICK w \in {"dropped", step[pre]} : step' = [step EXCEPT ![pre] = w] /\ w # "publish"
    <3>1. step' = [step EXCEPT ![pre] = IF Running(pre) THEN "dropped" ELSE step[pre]]
      BY <1>6 DEF Disconnect
    <3> QED BY <3>1 DEF Running, Ended, Failed
  <2>2. [by |-> None] \in LentConnection
    BY DEF LentConnection
  <2>3. \A l \in Connection : conn[l] # None => conn'[l] # None
    BY <1>6, <2>2, NoneAssumption DEF Disconnect, ConnectionReturned
  <2>4. pre \in Job /\ chan' = ChannelReturned(pre)
    BY <1>6, Jobs DEF Disconnect
  <2> QED BY <2>1, <2>3, <2>4, ChannelGivenBack
<1> QED BY <1>3, <1>4, <1>5, <1>6 DEF HandlerStep

(* Channels that close keep who has them, and those nobody has are gone. *)
LEMMA ClosedChannels ==
  ASSUME TypeInv, ChannelsSound, NEW closed \in SUBSET Channel, Closed(closed),
         \A c \in closed : chan[c] # None,
         \A j \in Job : step'[j] = "publish" <=> step[j] = "publish",
         \A k \in Connection : conn[k] # None =>
           conn'[k] # None \/ \A c \in Channel \ closed : chan[c] # None => chan[c].on # k
  PROVE  ChannelsSound'
<1>1. \A c \in Channel : chan[c] # None => chan[c] \in LentChannel
  BY DEF TypeInv, TypeOK
<1>2. ASSUME NEW c \in Channel
      PROVE  /\ c \notin closed => chan'[c] = chan[c]
             /\ c \in closed /\ chan[c].by = None => chan'[c] = None
             /\ c \in closed /\ chan[c].by # None =>
                  chan'[c] # None /\ chan'[c].by = chan[c].by /\ ~chan'[c].alive
  <2>1. chan'[c] = IF c \notin closed THEN chan[c] ELSE IF chan[c].by = None THEN None
                   ELSE [chan[c] EXCEPT !.alive = FALSE]
    BY DEF Closed
  <2>2. chan[c] # None => /\ [chan[c] EXCEPT !.alive = FALSE] \in LentChannel
                          /\ [chan[c] EXCEPT !.alive = FALSE].by = chan[c].by
                          /\ ~[chan[c] EXCEPT !.alive = FALSE].alive
    BY <1>1 DEF LentChannel
  <2> QED BY <2>1, <2>2, NoneAssumption
<1>3. \A c \in Channel : chan'[c] # None => chan[c] # None /\ chan'[c].by = chan[c].by
  BY <1>2
<1>4. \A c \in Channel, j \in Job : Has(j, c)' <=> Has(j, c)
  BY <1>2, Jobs DEF Has
<1>5. \A j \in Job : step'[j] = "publish" <=> \E c \in Channel : Has(j, c)'
  BY <1>4 DEF ChannelsSound, Has
<1>6. \A c, d \in Channel : chan'[c] # None /\ chan'[d] # None /\ chan'[c].by # None
        /\ chan'[c].by = chan'[d].by => c = d
  BY <1>3 DEF ChannelsSound
<1>7. ASSUME NEW c \in Channel, chan'[c] # None, chan'[c].alive
      PROVE  conn'[chan'[c].on] # None
  <2>1. c \notin closed /\ chan'[c] = chan[c]
    BY <1>2, <1>7
  <2>2. chan[c].on \in Connection /\ conn[chan[c].on] # None
    BY <1>1, <1>7, <2>1 DEF ChannelsSound, LentChannel
  <2> QED BY <1>7, <2>1, <2>2
<1> QED BY <1>5, <1>6, <1>7 DEF ChannelsSound, Has

(* The broker, or the network, closes channels. *)
LEMMA LossChannels ==
  ASSUME TypeInv, ChannelsSound
  PROVE  /\ \A c \in Channel : NoExchange(c) => ChannelsSound'
         /\ \A k \in Connection : ConnectionLost(k) => ChannelsSound'
<1>1. ASSUME NEW c \in Channel, NoExchange(c) PROVE ChannelsSound'
  <2>1. chan[c] # None
    BY <1>1 DEF TypeInv, StreamInv, NoExchange
  <2>2. {c} \in SUBSET Channel /\ Closed({c}) /\ step' = step /\ conn' = conn
    BY <1>1 DEF NoExchange, sends
  <2> QED BY <2>1, <2>2, ClosedChannels
<1>2. ASSUME NEW k \in Connection, ConnectionLost(k) PROVE ChannelsSound'
  <2> DEFINE closed == {c \in Channel : chan[c] # None /\ chan[c].on = k}
  <2>1. Closed(closed) /\ closed \in SUBSET Channel /\ \A c \in closed : chan[c] # None
    BY <1>2 DEF ConnectionLost
  <2>2. step' = [j \in Job |-> IF conn[k].by = j THEN "Other" ELSE step[j]] /\ conn[k] # None
    BY <1>2 DEF ConnectionLost
  <2>3. \A j \in Job : conn[k].by = j => step[j] = "create"
    BY <2>2, Jobs DEF TypeInv, ConnInv
  <2>4. \A j \in Job : step'[j] = "publish" <=> step[j] = "publish"
    BY <2>2, <2>3
  <2>5. \A l \in Connection : conn[l] # None =>
          conn'[l] # None \/ \A c \in Channel \ closed : chan[c] # None => chan[c].on # l
    BY <1>2 DEF ConnectionLost, TypeInv, TypeOK
  <2> HIDE DEF closed
  <2> QED BY <2>1, <2>4, <2>5, ClosedChannels
<1> QED BY <1>1, <1>2

(* main() opens the first channel and gives it back. *)
LEMMA StartChannels ==
  ASSUME TypeInv, ChannelsSound, Start
  PROVE  ChannelsSound'
<1>1. CASE PrepareAmqp
  <2>1. PICK k \in Connection, c \in Channel : FirstChannel(k, c)
    BY <1>1 DEF PrepareAmqp
  <2>2. [by |-> None] \in LentConnection /\ [on |-> k, by |-> None, alive |-> TRUE] \in LentChannel
    BY DEF LentConnection, LentChannel
  <2>3. /\ conn'[k] # None /\ chan'[c].by = None /\ chan'[c].on = k
        /\ \A d \in Channel \ {c} : chan'[d] = None
    BY <2>1, <2>2, NoneAssumption DEF FirstChannel, EmptyPool
  <2>4. \A j \in Job : step'[j] # "publish" /\ j # None
    <3>1. stage # "serving" /\ step' = step
      BY <1>1 DEF PrepareAmqp, sends
    <3> QED BY <3>1, Quiet, Jobs
  <2> QED BY <2>3, <2>4 DEF ChannelsSound
<1>2. CASE UNCHANGED <<sends, pools>>
  BY <1>2, ChannelsKept, TypeParts DEF sends, pools, TypeInv
<1> QED
  BY <1>1, <1>2 DEF Start, FromArgs, PrepareDataStorage, PrepareInfoStorage, NewNotifiers,
     PrepareAmqpFails, NothingToPrepare, BuildRouter, Bind, running

(* So the pools are sound after every step. *)
LEMMA ChannelsNext ==
  ASSUME TypeInv, ChannelsSound, [Next]_nvars
  PROVE  ChannelsSound'
<1>1. ASSUME UNCHANGED <<sends, pools>> PROVE ChannelsSound'
  BY <1>1, ChannelsKept, TypeParts DEF sends, pools, TypeInv
<1>2. ASSUME NEW r \in Req, RoutesNext(r) PROVE ChannelsSound'
  BY <1>1, <1>2 DEF RoutesNext
<1>3. CASE HooksNext
  BY <1>1, <1>3, SendChannels, HandlerChannels, LossChannels DEF HooksNext, LateArrival, Deliver
<1>4. CASE UNCHANGED nvars
  BY <1>1, <1>4 DEF nvars, running
<1> QED BY <1>2, <1>3, <1>4, StartChannels DEF Next

(* A send that publishes has one channel, its own, on a connection that is there. *)
THEOREM ChannelsSoundHolds == Spec => []ChannelsSound
<1>1. Init => ChannelsSound
  BY DEF Init, HooksInit, EmptyPool, ChannelsSound
<1> QED BY <1>1, ChannelsNext, InvHolds, PTL DEF Spec
-----------------------------------------------------------------------------
(* The order in which the recipients hear of the hooks. *)

(* Nobody has heard of j. *)
Untouched(j) ==
  /\ at[j] = 0
  /\ \A s \in SinkNames : j \notin Told(s)
  /\ \A l \in {"nats"} \cup Channel : j \notin ToSet(stream[l])

(* The recipient at position k has got j and did not refuse it. *)
SaidYes(j, k) == j \in ToSet(got[Order[k]]) /\ <<Order[k], j>> \notin refused

(* Where send j is, and who knows of it. *)
SendInv(j) ==
  /\ step[j] = "none" => Untouched(j)
  /\ \A k \in Sinks : k < at[j] /\ Awaited(Order[k]) => SaidYes(j, k)
  /\ \A k \in Sinks : Awaited(Order[k]) /\ j \in Told(Order[k]) => k <= at[j]
  /\ \A s \in SinkNames : <<s, j>> \in calls =>
       /\ (step[j] = "answer" /\ s = Sink(j)) \/ step[j] \in Failed \cup {"dropped"}
       /\ s = "nats" => Awaited(s)

(* There is a stream to NATS only if it is not awaited. *)
NatsInv == stream["nats"] # <<>> => stage = "serving" /\ ~Awaited("nats")

(* The inductive invariant of ToldInOrder. *)
OrderInv == NatsInv /\ \A j \in Job : SendInv(j)
-----------------------------------------------------------------------------
(* The elements of a sequence that grows, or loses its head. *)
LEMMA SeqSets ==
  ASSUME NEW q \in Seq(Job), NEW j \in Job
  PROVE  /\ ToSet(Append(q, j)) = ToSet(q) \cup {j}
         /\ q # <<>> => ToSet(q) = {Head(q)} \cup ToSet(Tail(q))
         /\ ToSet(<<>>) = {}
<1>1. ToSet(Append(q, j)) = ToSet(q) \cup {j}
  <2>1. \A i \in 1..Len(q) : Append(q, j)[i] = q[i]
    OBVIOUS
  <2>2. Append(q, j)[Len(q) + 1] = j /\ DOMAIN Append(q, j) = 1..(Len(q) + 1) /\ DOMAIN q = 1..Len(q)
    OBVIOUS
  <2>3. Len(q) \in Nat
    OBVIOUS
  <2>4. 1..(Len(q) + 1) = 1..Len(q) \cup {Len(q) + 1}
    BY <2>3
  <2> HIDE DEF ToSet
  <2> QED BY <2>1, <2>2, <2>4 DEF ToSet
<1>2. ASSUME q # <<>> PROVE ToSet(q) = {Head(q)} \cup ToSet(Tail(q))
  <2>1. Len(q) \in Nat \ {0} /\ DOMAIN q = 1..Len(q) /\ Head(q) = q[1] /\ DOMAIN Tail(q) = 1..(Len(q) - 1)
    BY <1>2
  <2>2. \A i \in 1..(Len(q) - 1) : Tail(q)[i] = q[i + 1]
    BY <1>2
  <2>3. \A i \in 1..Len(q) : i = 1 \/ (i - 1 \in 1..(Len(q) - 1) /\ q[i] = Tail(q)[i - 1])
    BY <2>1, <2>2
  <2>4. \A i \in 1..(Len(q) - 1) : i + 1 \in 1..Len(q)
    BY <2>1
  <2>5. ToSet(q) = {q[i] : i \in 1..Len(q)} /\ ToSet(Tail(q)) = {Tail(q)[i] : i \in 1..(Len(q) - 1)}
    BY <2>1 DEF ToSet
  <2>6. 1 \in 1..Len(q)
    BY <2>1
  <2>7. ToSet(q) \subseteq {Head(q)} \cup ToSet(Tail(q))
    <3> SUFFICES ASSUME NEW i \in 1..Len(q) PROVE q[i] \in {Head(q)} \cup ToSet(Tail(q))
      BY <2>5
    <3> QED BY <2>1, <2>3, <2>5
  <2>8. {Head(q)} \cup ToSet(Tail(q)) \subseteq ToSet(q)
    BY <2>1, <2>2, <2>4, <2>5, <2>6
  <2> QED BY <2>7, <2>8
<1>3. ToSet(<<>>) = {}
  BY DEF ToSet
<1> QED BY <1>1, <1>2, <1>3

(* What a recipient has got after it received j. *)
LEMMA ReceivesSets ==
  ASSUME TypeInv, NEW s \in SinkNames, NEW j \in Job, Receives(s, j)
  PROVE  /\ got'[s] = Append(got[s], j) /\ ToSet(got'[s]) = ToSet(got[s]) \cup {j}
         /\ \A t \in SinkNames \ {s} : got'[t] = got[t]
<1>1. got[s] \in Seq(Job) /\ got'[s] = Append(got[s], j) /\ \A t \in SinkNames \ {s} : got'[t] = got[t]
  BY DEF TypeInv, TypeOK, Receives
<1> QED BY <1>1, SeqSets

(* A recipient has one position; AMQP is never awaited. *)
LEMMA Positions ==
  /\ \A k, l \in 1..7 : Order[k] = Order[l] => k = l
  /\ ~Awaited("amqp") /\ "nats" \in SinkNames /\ "amqp" \in SinkNames
<1>1. \A k, l \in 1..7 : Order[k] = Order[l] => k = l
  BY DEF Order
<1> QED BY <1>1 DEF Awaited, SinkNames

(* The options do not change once the server serves. *)
LEMMA SameOptions ==
  ASSUME UNCHANGED conf
  PROVE  Sinks' = Sinks /\ \A s : Awaited(s)' = Awaited(s)
  BY DEF Sinks, Awaited, Opts

(* A send that a step neither moves nor tells anybody about. *)
LEMMA OtherSend ==
  ASSUME TypeInv, NEW j \in Job, SendInv(j), UNCHANGED conf, at'[j] = at[j],
         step'[j] = step[j],
         \A s \in SinkNames : /\ ToSet(got[s]) \subseteq ToSet(got'[s])
                              /\ <<s, j>> \in refused' => <<s, j>> \in refused
                              /\ <<s, j>> \in calls' => <<s, j>> \in calls,
         \A s \in SinkNames : j \in ToSet(got'[s]) =>
           j \in Told(s) \/ (step[j] # "none" /\ ~Awaited(s)),
         \A l \in {"nats"} \cup Channel : j \in ToSet(stream'[l]) => j \in ToSet(stream[l])
  PROVE  SendInv(j)'
<1>1. Sinks' = Sinks /\ (\A s : Awaited(s)' = Awaited(s)) /\ Sinks \subseteq 1..7
  BY SameOptions, OrderFacts
<1>2. \A k \in Sinks : Order[k] \in SinkNames
  BY <1>1, OrderFacts
<1>3. \A s \in SinkNames : j \in Told(s)' => j \in Told(s) \/ (step[j] # "none" /\ ~Awaited(s))
  BY DEF Told
<1>4. step'[j] = "none" => Untouched(j)'
  BY <1>3 DEF SendInv, Untouched
<1>5. \A k \in Sinks : k < at[j] /\ Awaited(Order[k]) => SaidYes(j, k)'
  BY <1>2 DEF SendInv, SaidYes
<1>6. \A k \in Sinks : Awaited(Order[k]) /\ j \in Told(Order[k])' => k <= at[j]
  BY <1>2, <1>3 DEF SendInv
<1>7. \A s \in SinkNames : <<s, j>> \in calls' =>
       /\ (step[j] = "answer" /\ s = Sink(j)) \/ step[j] \in Failed \cup {"dropped"}
       /\ s = "nats" => Awaited(s)
  BY DEF SendInv
<1> QED BY <1>1, <1>4, <1>5, <1>6, <1>7 DEF SendInv, Sink

(* A send that a step moves: to the next recipient, if the last one has said yes. *)
LEMMA MovedSend ==
  ASSUME TypeInv, NEW j \in Job, SendInv(j), Running(j), UNCHANGED conf, step'[j] # "none",
         \A s \in SinkNames : /\ ToSet(got[s]) \subseteq ToSet(got'[s])
                              /\ <<s, j>> \in refused' => <<s, j>> \in refused \/ s = Sink(j),
         \A s \in SinkNames : j \in Told(s)' => j \in Told(s) \/ s = Sink(j),
         at'[j] \in 0..7,
         at'[j] # at[j] => /\ at'[j] > at[j]
                           /\ \A k \in Sinks : k < at'[j] => k <= at[j]
                           /\ \A k \in Sinks : k = at[j] /\ Awaited(Order[k]) => SaidYes(j, k)',
         \A s \in SinkNames : <<s, j>> \in calls' =>
           /\ (step'[j] = "answer" /\ s = Sink(j) /\ at'[j] = at[j]) \/ step'[j] \in Failed \cup {"dropped"}
           /\ s = "nats" => Awaited(s)
  PROVE  SendInv(j)'
<1>1. Sinks' = Sinks /\ (\A s : Awaited(s)' = Awaited(s)) /\ Sinks \subseteq 1..7
  BY SameOptions, OrderFacts
<1>2. (\A k \in Sinks : Order[k] \in SinkNames) /\ at[j] \in Sinks /\ at[j] \in 1..7
  BY <1>1, OrderFacts DEF TypeInv, TypeOK
<1>3. \A k \in Sinks : Order[k] = Sink(j) => k = at[j]
  BY <1>1, <1>2, Positions DEF Sink
<1>4. ASSUME NEW k \in Sinks, k < at'[j], Awaited(Order[k]) PROVE SaidYes(j, k)'
  <2>1. CASE k < at[j]
    <3>1. SaidYes(j, k) /\ Order[k] # Sink(j) /\ Order[k] \in SinkNames
      BY <1>2, <1>3, <1>4, <2>1 DEF SendInv
    <3> QED BY <3>1 DEF SaidYes
  <2>2. CASE ~(k < at[j])
    <3>1. k = at[j] /\ at'[j] # at[j]
      BY <1>1, <1>2, <1>4, <2>2
    <3> QED BY <1>4, <3>1 DEF Sink
  <2> QED BY <2>1, <2>2
<1>5. ASSUME NEW k \in Sinks, Awaited(Order[k]), j \in Told(Order[k])' PROVE k <= at'[j]
  <2>1. k <= at[j]
    BY <1>1, <1>2, <1>3, <1>5 DEF SendInv
  <2> QED BY <1>1, <1>2, <2>1
<1>6. \A s \in SinkNames : <<s, j>> \in calls' =>
       /\ (step'[j] = "answer" /\ s = Sink(j)') \/ step'[j] \in Failed \cup {"dropped"}
       /\ s = "nats" => Awaited(s)'
  BY <1>1 DEF Sink
<1> QED BY <1>1, <1>4, <1>5, <1>6 DEF SendInv
-----------------------------------------------------------------------------
(* Where a send is that goes on. *)
LEMMA Advances ==
  ASSUME TypeInv, NEW j \in Job, Running(j), Continue(j)
  PROVE  /\ step' = [step EXCEPT ![j] = "ok"] \/ step' = [step EXCEPT ![j] = "call"]
         /\ \A i \in Job \ {j} : at'[i] = at[i] /\ step'[i] = step[i]
         /\ step'[j] \in {"ok", "call"} /\ at'[j] \in 0..7
         /\ at'[j] = at[j] \/ (at'[j] > at[j] /\ \A k \in Sinks : k < at'[j] => k <= at[j])
<1>1. /\ at \in [Job -> 0..7] /\ step = [i \in Job |-> step[i]] /\ at[j] \in Sinks
      /\ Sinks \subseteq 1..7 /\ at[j] \in 0..7
  BY OrderFacts DEF TypeInv, TypeOK
<1>2. CASE After(at[j]) = {}
  BY <1>1, <1>2 DEF Continue, GoOn
<1>3. CASE After(at[j]) # {}
  <2> DEFINE next == Min(After(at[j]))
  <2>1. next \in Sinks /\ next > at[j] /\ \A l \in Sinks : l > at[j] => next <= l
    BY <1>1, <1>3, AfterFirst, Zenon
  <2>2. step' = [step EXCEPT ![j] = "call"] /\ at' = [at EXCEPT ![j] = next]
    BY <1>3, Zenon DEF Continue, GoOn
  <2> HIDE DEF next
  <2>3. at'[j] = next /\ next \in 1..7 /\ \A i \in Job \ {j} : at'[i] = at[i]
    BY <1>1, <2>1, <2>2
  <2>4. \A k \in Sinks : k < next => k <= at[j]
    BY <1>1, <2>1, <2>3
  <2> QED BY <1>1, <2>1, <2>2, <2>3, <2>4
<1> QED BY <1>2, <1>3

(* A send that stays with its recipient. *)
LEMMA StaysThere ==
  ASSUME TypeInv, NEW j \in Job, NEW w, step' = [step EXCEPT ![j] = w], at' = at
  PROVE  /\ step'[j] = w /\ at'[j] = at[j] /\ at'[j] \in 0..7
         /\ \A i \in Job \ {j} : at'[i] = at[i] /\ step'[i] = step[i]
  BY OrderFacts DEF TypeInv, TypeOK

(* A step of a send moves that send, and leaves the others as they were. *)
LEMMA SendOrder ==
  ASSUME TypeInv, OrderInv, RefusedFailed, NEW j \in Job, SendStep(j) \/ SendFails(j)
  PROVE  OrderInv'
<1> USE DEF OrderInv
<1>1. GoesOn(j) /\ UNCHANGED conf /\ stage' = stage /\ Running(j) /\ step[j] # "none" /\ Sink(j) \in SinkNames
  BY SendGoesOn, SinkName DEF GoesOn, rvars, settings, TypeInv, Running, Ended
<1>2. /\ stage = "serving" /\ (\A s : Awaited(s)' = Awaited(s)) /\ SendInv(j)
      /\ at[j] \in Sinks /\ Sink(j) = Order[at[j]]
  <2>1. PICK r \in Req : j = <<r, "pre">> \/ j = <<r, "post">>
    BY Jobs
  <2>2. stage = "serving"
    BY <1>1, <2>1 DEF TypeInv, PhaseOK, Running, Ended
  <2>3. \A s : Awaited(s)' = Awaited(s)
    BY <1>1, SameOptions
  <2> QED BY <1>1, <2>2, <2>3 DEF TypeInv, TypeOK, Sink
<1>3. \A s \in SinkNames : <<s, j>> \in calls => step[j] = "answer" /\ s = Sink(j) /\ (s = "nats" => Awaited(s))
  BY <1>1, <1>2 DEF SendInv, Running, Ended
<1>4. ASSUME UNCHANGED <<stream, got, refused, calls>>, step'[j] # "none", at' = at,
             step[j] = "answer" => step'[j] \in Failed,
             \A i \in Job \ {j} : step'[i] = step[i]
      PROVE  OrderInv'
  <2>1. ASSUME NEW i \in Job \ {j} PROVE SendInv(i)'
    BY <1>1, <1>4, <2>1, OtherSend DEF Told
  <2>2. SendInv(j)'
    <3>1. \A s \in SinkNames : <<s, j>> \in calls' =>
            step'[j] \in Failed \cup {"dropped"} /\ (s = "nats" => Awaited(s))
      BY <1>3, <1>4
    <3>2. at'[j] \in 0..7 /\ at'[j] = at[j]
      BY <1>4, OrderFacts DEF TypeInv, TypeOK
    <3> QED BY <1>1, <1>2, <1>4, <3>1, <3>2, MovedSend DEF Told
  <2>3. NatsInv'
    BY <1>1, <1>2, <1>4 DEF NatsInv
  <2> QED BY <2>1, <2>2, <2>3
<1>5. CASE Call(j)
  <2>1. /\ step' = [step EXCEPT ![j] = "answer"] /\ at' = at /\ calls' = calls \cup {<<Sink(j), j>>}
        /\ UNCHANGED <<got, refused, stream>> /\ step[j] = "call" /\ Awaited(Sink(j))
    BY <1>5 DEF Call, Waits
  <2>2. /\ step'[j] = "answer" /\ at'[j] = at[j] /\ at'[j] \in 0..7
        /\ \A i \in Job \ {j} : at'[i] = at[i] /\ step'[i] = step[i]
    BY <2>1, StaysThere
  <2>3. ASSUME NEW i \in Job \ {j} PROVE SendInv(i)'
    BY <1>1, <2>1, <2>2, OtherSend DEF Told
  <2>4. SendInv(j)'
    <3>1. \A s \in SinkNames : <<s, j>> \in calls' => s = Sink(j) /\ (s = "nats" => Awaited(s))
      BY <1>3, <2>1
    <3>2. \A s \in SinkNames : j \in Told(s)' => j \in Told(s) \/ s = Sink(j)
      BY <2>1 DEF Told
    <3> QED BY <1>1, <1>2, <2>1, <2>2, <3>1, <3>2, MovedSend
  <2>5. NatsInv'
    BY <1>1, <1>2, <2>1 DEF NatsInv
  <2> QED BY <2>3, <2>4, <2>5
<1>6. CASE Accept(j)
  <2>1. /\ calls' = calls \ {<<Sink(j), j>>} /\ Receives(Sink(j), j) /\ Continue(j)
        /\ <<Sink(j), j>> \in calls /\ UNCHANGED <<refused, stream>> /\ step[j] = "answer"
    BY <1>6 DEF Accept, Reached
  <2>2. /\ \A i \in Job \ {j} : at'[i] = at[i] /\ step'[i] = step[i]
        /\ step'[j] \in {"ok", "call"} /\ at'[j] \in 0..7
        /\ at'[j] = at[j] \/ (at'[j] > at[j] /\ \A k \in Sinks : k < at'[j] => k <= at[j])
    BY <1>1, <2>1, Advances DEF TypeInv
  <2>3. /\ ToSet(got'[Sink(j)]) = ToSet(got[Sink(j)]) \cup {j}
        /\ \A t \in SinkNames \ {Sink(j)} : got'[t] = got[t]
    BY <1>1, <2>1, ReceivesSets
  <2>4. ASSUME NEW i \in Job \ {j} PROVE SendInv(i)'
    <3>1. \A s \in SinkNames : ToSet(got[s]) \subseteq ToSet(got'[s])
                               /\ (i \in ToSet(got'[s]) => i \in Told(s))
      BY <2>3 DEF Told
    <3> QED BY <1>1, <2>1, <2>2, <3>1, OtherSend
  <2>5. SendInv(j)'
    <3>1. \A s \in SinkNames : ToSet(got[s]) \subseteq ToSet(got'[s])
                               /\ (j \in Told(s)' => j \in Told(s) \/ s = Sink(j))
      BY <2>1, <2>3 DEF Told
    <3>2. \A s \in SinkNames : <<s, j>> \notin calls'
      BY <1>3, <2>1
    <3>3. ASSUME NEW k \in Sinks, k = at[j] PROVE SaidYes(j, k)'
      <4>1. Order[k] = Sink(j) /\ <<Sink(j), j>> \notin refused
        BY <1>1, <1>2, <2>1, <3>3 DEF RefusedFailed, Failed
      <4> QED BY <2>1, <2>3, <4>1 DEF SaidYes
    <3> QED BY <1>1, <1>2, <2>1, <2>2, <3>1, <3>2, <3>3, MovedSend
  <2>6. NatsInv'
    BY <1>1, <1>2, <2>1 DEF NatsInv
  <2> QED BY <2>4, <2>5, <2>6
<1>7. CASE PublishNats(j) \/ (Publish(j) /\ Continue(j))
  <2>1. /\ Continue(j) /\ UNCHANGED <<got, refused, calls>> /\ step[j] # "answer" /\ ~Awaited(Sink(j))
        /\ \E l \in {"nats"} \cup Channel : stream' = [stream EXCEPT ![l] = Append(@, j)] \/ stream' = stream
    BY <1>1, <1>7, Positions DEF PublishNats, Publish, TypeInv, WaitsOK
  <2>2. /\ \A i \in Job \ {j} : at'[i] = at[i] /\ step'[i] = step[i]
        /\ step'[j] \in {"ok", "call"} /\ at'[j] \in 0..7
        /\ at'[j] = at[j] \/ (at'[j] > at[j] /\ \A k \in Sinks : k < at'[j] => k <= at[j])
    BY <1>1, <2>1, Advances DEF TypeInv
  <2>3. \A l \in {"nats"} \cup Channel : ToSet(stream'[l]) \subseteq ToSet(stream[l]) \cup {j}
    <3>1. \A l \in {"nats"} \cup Channel : stream[l] \in Seq(Job)
      BY DEF TypeInv, TypeOK
    <3>2. \A l \in {"nats"} \cup Channel : stream'[l] = stream[l] \/ stream'[l] = Append(stream[l], j)
      BY <2>1 DEF TypeInv, TypeOK
    <3> SUFFICES ASSUME NEW l \in {"nats"} \cup Channel
                 PROVE  ToSet(stream'[l]) \subseteq ToSet(stream[l]) \cup {j}
      OBVIOUS
    <3>3. stream[l] \in Seq(Job) => ToSet(Append(stream[l], j)) = ToSet(stream[l]) \cup {j}
      BY SeqSets
    <3> QED BY <3>1, <3>2, <3>3
  <2>4. ASSUME NEW i \in Job \ {j} PROVE SendInv(i)'
    <3>1. \A l \in {"nats"} \cup Channel : i \in ToSet(stream'[l]) => i \in ToSet(stream[l])
      BY <2>3
    <3>2. \A s \in SinkNames : i \in ToSet(got'[s]) => i \in Told(s)
      BY <2>1 DEF Told
    <3> QED BY <1>1, <2>1, <2>2, <3>1, <3>2, OtherSend
  <2>5. SendInv(j)'
    <3>1. \A s \in SinkNames : <<s, j>> \notin calls' /\ (j \in Told(s)' => j \in Told(s))
      BY <1>3, <2>1 DEF Told
    <3> QED BY <1>1, <1>2, <2>1, <2>2, <3>1, MovedSend
  <2>6. NatsInv'
    <3>1. CASE PublishNats(j)
      BY <1>1, <1>2, <3>1 DEF NatsInv, PublishNats
    <3>2. CASE Publish(j)
      <4>1. stream'["nats"] = stream["nats"]
        BY <3>2, ChannelAssumption DEF Publish, TypeInv, TypeOK
      <4> QED BY <1>1, <1>2, <4>1 DEF NatsInv
    <3> QED BY <1>7, <3>1, <3>2
  <2> QED BY <2>4, <2>5, <2>6
<1>8. CASE Refuse(j)
  <2>1. /\ calls' = calls \ {<<Sink(j), j>>} /\ Receives(Sink(j), j)
        /\ <<Sink(j), j>> \in calls /\ stream' = stream /\ refused' = refused \cup {<<Sink(j), j>>}
    BY <1>8 DEF Refuse, Reached
  <2>2. /\ \A i \in Job \ {j} : at'[i] = at[i] /\ step'[i] = step[i]
        /\ step'[j] # "none" /\ at'[j] \in 0..7 /\ at'[j] = at[j]
    <3>1. at' = at /\ \E w : step' = [step EXCEPT ![j] = w]
      BY <1>8 DEF Refuse, Fail
    <3>2. \E w \in Waiting \cup Failed \cup {"ok", "panic"} : step' = [step EXCEPT ![j] = w]
      BY <1>1 DEF GoesOn
    <3>3. step'[j] # "none"
      BY <3>2 DEF TypeInv, TypeOK, Waiting, Failed
    <3> QED BY <3>1, <3>3, StaysThere
  <2>3. /\ ToSet(got'[Sink(j)]) = ToSet(got[Sink(j)]) \cup {j}
        /\ \A t \in SinkNames \ {Sink(j)} : got'[t] = got[t]
    BY <1>1, <2>1, ReceivesSets
  <2>4. ASSUME NEW i \in Job \ {j} PROVE SendInv(i)'
    <3>1. \A s \in SinkNames : ToSet(got[s]) \subseteq ToSet(got'[s])
                               /\ (i \in ToSet(got'[s]) => i \in Told(s))
      BY <2>3 DEF Told
    <3> QED BY <1>1, <2>1, <2>2, <3>1, OtherSend
  <2>5. SendInv(j)'
    <3>1. \A s \in SinkNames : ToSet(got[s]) \subseteq ToSet(got'[s])
                               /\ (j \in Told(s)' => j \in Told(s) \/ s = Sink(j))
      BY <2>1, <2>3 DEF Told
    <3>2. \A s \in SinkNames : <<s, j>> \notin calls'
      BY <1>3, <2>1
    <3>3. \A s \in SinkNames : <<s, j>> \in refused' => <<s, j>> \in refused \/ s = Sink(j)
      BY <2>1
    <3> QED BY <1>1, <1>2, <2>2, <3>1, <3>2, <3>3, MovedSend
  <2>6. NatsInv'
    BY <1>1, <1>2, <2>1 DEF NatsInv
  <2> QED BY <2>4, <2>5, <2>6
<1>9. ASSUME NEW w, w # "none", step[j] = "answer" => w \in Failed, step' = [step EXCEPT ![j] = w], at' = at,
             UNCHANGED <<stream, got, refused, calls>>
      PROVE  OrderInv'
  <2>1. step'[j] = w /\ \A i \in Job \ {j} : step'[i] = step[i]
    BY <1>9, StaysThere
  <2> QED BY <1>4, <1>9, <2>1
<1>10. CASE ReuseChannel(j) \/ OpenChannel(j) \/ BorrowConnection(j) \/ CreateChannel(j)
  BY <1>9, <1>10 DEF ReuseChannel, OpenChannel, BorrowConnection, CreateChannel, Waits, world
<1>11. CASE CallFails(j) \/ NoAnswer(j) \/ AmqpFails(j)
  BY <1>9, <1>11 DEF CallFails, NoAnswer, AmqpFails, Fail, Failed, world
<1>12. CASE Publish(j) /\ ~Continue(j)
  BY <1>9, <1>12 DEF Publish, Fail, Failed
<1> QED
  BY <1>5, <1>6, <1>7, <1>8, <1>10, <1>11, <1>12 DEF SendStep, SendFails
-----------------------------------------------------------------------------
(* Steps that concern no send. *)
LEMMA SameWorld ==
  ASSUME TypeInv, OrderInv, UNCHANGED <<conf, stage, sends, world>>
  PROVE  OrderInv'
<1>1. \A j \in Job : SendInv(j)'
  BY OtherSend DEF OrderInv, sends, world, Told
<1>2. NatsInv'
  BY SameOptions DEF OrderInv, NatsInv, world
<1> QED BY <1>1, <1>2 DEF OrderInv

(* Nobody has heard of a send that has not begun. *)
LEMMA BeginOrder ==
  ASSUME TypeInv, OrderInv, RefusedFailed, NEW j \in Job, step[j] = "none", Begin(j),
         UNCHANGED <<conf, stage, world>>
  PROVE  OrderInv'
<1>1. Untouched(j) /\ 0 \in 0..7 /\ GoOn(j, 0)
  BY DEF OrderInv, SendInv, Begin
<1>2. /\ step' = [step EXCEPT ![j] = "ok"] \/ step' = [step EXCEPT ![j] = "call"]
      /\ \A i \in Job \ {j} : at'[i] = at[i]
  BY <1>1, GoOnType DEF TypeInv
<1>3. /\ step'[j] \in {"ok", "call"}
      /\ \A i \in Job \ {j} : at'[i] = at[i] /\ step'[i] = step[i]
  BY <1>2 DEF TypeInv, TypeOK
<1>4. \A k \in Sinks : ~(k < at'[j])
  <2>1. CASE After(0) = {}
    <3>1. at' = at /\ at[j] = 0 /\ Sinks \subseteq 1..7
      BY <1>1, <2>1, OrderFacts DEF GoOn, Untouched
    <3> QED BY <3>1
  <2>2. CASE After(0) # {}
    <3> DEFINE first == Min(After(0))
    <3>1. first \in Sinks /\ \A l \in Sinks : l > 0 => first <= l
      BY <1>1, <2>2, AfterFirst, Zenon
    <3>2. at' = [at EXCEPT ![j] = first]
      BY <1>1, <2>2, Zenon DEF GoOn
    <3> HIDE DEF first
    <3>3. at'[j] = first /\ Sinks \subseteq 1..7
      BY <3>2, OrderFacts DEF TypeInv, TypeOK
    <3> SUFFICES ASSUME NEW k \in Sinks PROVE ~(k < first)
      BY <3>3
    <3>4. k \in 1..7 /\ first \in 1..7 /\ first <= k
      BY <3>1, <3>3
    <3> QED BY <3>4
  <2> QED BY <2>1, <2>2
<1>5. SendInv(j)'
  <2>1. Sinks' = Sinks
    BY SameOptions
  <2>2. \A s \in SinkNames : <<s, j>> \notin calls' /\ j \notin Told(s)'
    BY <1>1 DEF Untouched, Told, world
  <2>3. \A k \in Sinks : Order[k] \in SinkNames
    BY OrderFacts
  <2> QED BY <1>3, <1>4, <2>1, <2>2, <2>3 DEF SendInv
<1>6. ASSUME NEW i \in Job \ {j} PROVE SendInv(i)'
  BY <1>3, OtherSend DEF OrderInv, world, Told
<1>7. NatsInv'
  BY SameOptions DEF OrderInv, NatsInv, world
<1> QED BY <1>5, <1>6, <1>7 DEF OrderInv

(* Sends that end where they are: the client, or the connection, is gone. *)
LEMMA DroppedOrder ==
  ASSUME TypeInv, OrderInv, UNCHANGED <<conf, stage, at, got, refused, calls>>,
         \A j \in Job : step'[j] = step[j] \/ (step[j] # "none" /\ step'[j] \in Failed \cup {"dropped"}),
         \A l \in {"nats"} \cup Channel : stream'[l] = stream[l] \/ stream'[l] = <<>>
  PROVE  OrderInv'
<1>1. Sinks' = Sinks /\ (\A s : Awaited(s)' = Awaited(s))
  BY SameOptions
<1>2. ToSet(<<>>) = {}
  BY DEF ToSet
<1>3. ASSUME NEW j \in Job PROVE SendInv(j)'
  <2>1. SendInv(j) /\ (step'[j] = "none" => step[j] = "none")
    BY DEF OrderInv, Failed
  <2>2. step'[j] = "none" => Untouched(j)'
    BY <1>2, <2>1 DEF SendInv, Untouched, Told
  <2>3. \A k \in Sinks : k < at[j] /\ Awaited(Order[k]) => SaidYes(j, k)'
    BY <2>1 DEF SendInv, SaidYes
  <2>4. \A k \in Sinks : Awaited(Order[k]) /\ j \in Told(Order[k])' => k <= at[j]
    BY <2>1 DEF SendInv, Told
  <2>5. \A s \in SinkNames : <<s, j>> \in calls =>
          /\ (step'[j] = "answer" /\ s = Sink(j)) \/ step'[j] \in Failed \cup {"dropped"}
          /\ s = "nats" => Awaited(s)
    BY <2>1 DEF SendInv
  <2> QED BY <1>1, <2>2, <2>3, <2>4, <2>5 DEF SendInv, Sink
<1>4. NatsInv'
  BY <1>1 DEF OrderInv, NatsInv
<1> QED BY <1>3, <1>4 DEF OrderInv

(* Handlers begin sends, or are dropped with them. *)
LEMMA HandlerOrder ==
  ASSUME TypeInv, OrderInv, RefusedFailed, NEW r \in Req, HandlerStep(r)
  PROVE  OrderInv'
<1>1. CASE Arrive(r)
  <2>1. <<r, "pre">> \in Job /\ step[<<r, "pre">>] = "none" /\ UNCHANGED <<conf, stage, world>>
    BY <1>1, Jobs, HandledOpens DEF Arrive, settings
  <2> QED BY <1>1, <2>1, BeginOrder, SameWorld DEF Arrive
<1>2. CASE Work(r)
  <2>1. <<r, "post">> \in Job /\ step[<<r, "post">>] = "none" /\ UNCHANGED <<conf, stage, world>>
    BY <1>2, Jobs, AllowedMeans, OpenIsServed, WorkEnds, EndsExchanges DEF Work, settings
  <2> QED BY <1>2, <2>1, BeginOrder, SameWorld DEF Work
<1>3. CASE Reject(r) \/ WorkFails(r) \/ Cancel(r)
  <2>1. Ends(r) /\ UNCHANGED <<sends, world>>
    BY <1>3, RejectEnds, WorkEnds, CancelEnds DEF Reject, WorkFails, Cancel
  <2> QED BY <2>1, EndsExchanges, SameWorld DEF settings
<1>4. CASE Disconnect(r)
  <2>1. step' = [step EXCEPT ![<<r, "pre">>] = IF Running(<<r, "pre">>) THEN "dropped" ELSE step[<<r, "pre">>]]
    BY <1>4 DEF Disconnect
  <2>2. \A j \in Job : step'[j] = step[j] \/ (step[j] # "none" /\ step'[j] \in Failed \cup {"dropped"})
    BY <2>1 DEF TypeInv, TypeOK, Running, Ended
  <2> QED BY <1>4, <2>2, DroppedOrder DEF Disconnect, NoResponse, settings, world
<1> QED BY <1>1, <1>2, <1>3, <1>4 DEF HandlerStep

(* Messages that are lost. *)
LEMMA LossOrder ==
  ASSUME TypeInv, OrderInv
  PROVE  /\ \A c \in Channel : NoExchange(c) => OrderInv'
         /\ \A k \in Connection : ConnectionLost(k) => OrderInv'
<1>1. ASSUME NEW closed, Closed(closed)
      PROVE  \A l \in {"nats"} \cup Channel : stream'[l] = stream[l] \/ stream'[l] = <<>>
  BY <1>1 DEF Closed, TypeInv, TypeOK
<1>2. ASSUME NEW c \in Channel, NoExchange(c) PROVE OrderInv'
  BY <1>1, <1>2, DroppedOrder DEF NoExchange, rvars, settings, sends
<1>3. ASSUME NEW k \in Connection, ConnectionLost(k) PROVE OrderInv'
  <2>1. /\ step' = [j \in Job |-> IF conn[k].by = j THEN "Other" ELSE step[j]] /\ conn[k] # None
        /\ Closed({c \in Channel : chan[c] # None /\ chan[c].on = k})
        /\ UNCHANGED <<conf, stage, at, got, refused, calls>>
    BY <1>3 DEF ConnectionLost, rvars, settings
  <2>2. \A j \in Job : conn[k].by = j => step[j] = "create"
    BY <2>1, Jobs DEF TypeInv, ConnInv
  <2>3. \A j \in Job : step'[j] = step[j] \/ (step[j] # "none" /\ step'[j] \in Failed \cup {"dropped"})
    BY <2>1, <2>2 DEF Failed
  <2>4. \A l \in {"nats"} \cup Channel : stream'[l] = stream[l] \/ stream'[l] = <<>>
    BY <1>1, <2>1
  <2> QED BY <2>1, <2>3, <2>4, DroppedOrder
<1> QED BY <1>2, <1>3

(* Messages that arrive late are of sends that have begun. *)
LEMMA ArrivalOrder ==
  ASSUME TypeInv, OrderInv
  PROVE  /\ \A s \in SinkNames, j \in Job : LateArrival(s, j) => OrderInv'
         /\ \A l \in DOMAIN stream : Deliver(l) => OrderInv'
<1>1. ASSUME NEW s \in SinkNames, NEW j \in Job, LateArrival(s, j) PROVE OrderInv'
  <2>1. /\ <<s, j>> \in calls /\ calls' = calls \ {<<s, j>>} /\ Receives(s, j)
        /\ UNCHANGED <<conf, stage, at, step, refused, stream>>
    BY <1>1 DEF LateArrival, Reached, rvars, settings, sends
  <2>2. ToSet(got'[s]) = ToSet(got[s]) \cup {j} /\ \A t \in SinkNames \ {s} : got'[t] = got[t]
    BY <2>1, ReceivesSets
  <2>3. ASSUME NEW i \in Job PROVE SendInv(i)'
    <3>1. \A t \in SinkNames : ToSet(got[t]) \subseteq ToSet(got'[t])
                               /\ (i \in ToSet(got'[t]) => i \in Told(t))
      BY <2>1, <2>2 DEF Told
    <3> QED BY <2>1, <3>1, OtherSend DEF OrderInv
  <2>4. NatsInv'
    BY <2>1, SameOptions DEF OrderInv, NatsInv
  <2> QED BY <2>3, <2>4 DEF OrderInv
<1>2. ASSUME NEW l \in DOMAIN stream, Deliver(l) PROVE OrderInv'
  <2> DEFINE j == Head(stream[l])
  <2>1. /\ l \in {"nats"} \cup Channel /\ stream[l] # <<>> /\ stream[l] \in Seq(Job)
        /\ stream' = [stream EXCEPT ![l] = Tail(@)]
        /\ UNCHANGED <<conf, stage, at, step, refused, calls>>
    BY <1>2 DEF Deliver, TypeInv, TypeOK, rvars, settings, sends
  <2>2. /\ j \in Job /\ ToSet(stream[l]) = {j} \cup ToSet(Tail(stream[l]))
        /\ stream'[l] = Tail(stream[l])
        /\ \A m \in {"nats"} \cup Channel : m # l => stream'[m] = stream[m]
    <3>1. j \in Job
      BY <2>1
    <3> QED BY <2>1, <3>1, SeqSets DEF TypeInv, TypeOK
  <2>3. step[j] # "none"
    BY <2>1, <2>2 DEF OrderInv, SendInv, Untouched
  <2>4. \/ got' = got
        \/ Receives("nats", j) /\ ~Awaited("nats")
        \/ Receives("amqp", j)
    <3>1. l = "nats" => ~Awaited("nats")
      BY <2>1 DEF OrderInv, NatsInv
    <3> QED BY <1>2, <3>1 DEF Deliver
  <2>5. \A s \in SinkNames :
          /\ ToSet(got[s]) \subseteq ToSet(got'[s])
          /\ Awaited(s) => got'[s] = got[s]
          /\ ToSet(got'[s]) \subseteq ToSet(got[s]) \cup {j}
    <3>1. CASE got' = got
      BY <3>1
    <3>2. ASSUME NEW t \in SinkNames, ~Awaited(t), Receives(t, j)
          PROVE  \A s \in SinkNames :
                   /\ ToSet(got[s]) \subseteq ToSet(got'[s])
                   /\ Awaited(s) => got'[s] = got[s]
                   /\ ToSet(got'[s]) \subseteq ToSet(got[s]) \cup {j}
      <4>1. ToSet(got'[t]) = ToSet(got[t]) \cup {j} /\ \A s \in SinkNames \ {t} : got'[s] = got[s]
        BY <2>2, <3>2, ReceivesSets
      <4> QED BY <3>2, <4>1
    <3> QED BY <2>4, <3>1, <3>2, Positions
  <2> HIDE DEF j
  <2>6. ASSUME NEW i \in Job PROVE SendInv(i)'
    <3>1. \A s \in SinkNames : i \in ToSet(got'[s]) => i \in Told(s) \/ (step[i] # "none" /\ ~Awaited(s))
      <4> SUFFICES ASSUME NEW s \in SinkNames, i \in ToSet(got'[s])
                   PROVE  i \in ToSet(got[s]) \/ (step[i] # "none" /\ ~Awaited(s))
        BY DEF Told
      <4>1. CASE i = j
        BY <2>3, <2>5, <4>1
      <4>2. CASE i # j
        BY <2>5, <4>2
      <4> QED BY <4>1, <4>2
    <3>2. \A m \in {"nats"} \cup Channel : i \in ToSet(stream'[m]) => i \in ToSet(stream[m])
      BY <2>1, <2>2
    <3>3. /\ SendInv(i) /\ UNCHANGED conf /\ at'[i] = at[i] /\ step'[i] = step[i]
          /\ \A s \in SinkNames :
               /\ ToSet(got[s]) \subseteq ToSet(got'[s])
               /\ <<s, i>> \in refused' => <<s, i>> \in refused
               /\ <<s, i>> \in calls' => <<s, i>> \in calls
      BY <2>1, <2>5 DEF OrderInv
    <3> QED BY <3>1, <3>2, <3>3, OtherSend
  <2>7. NatsInv'
    <3>1. stream'["nats"] # <<>> => stream["nats"] # <<>>
      BY <2>1, <2>2
    <3> QED BY <2>1, <3>1, SameOptions DEF OrderInv, NatsInv
  <2> QED BY <2>6, <2>7 DEF OrderInv
<1> QED BY <1>1, <1>2

(* Before the server serves nobody has heard of anything. *)
LEMMA StartOrder ==
  ASSUME TypeInv, OrderInv, Start
  PROVE  OrderInv'
<1>1. stage # "serving" /\ UNCHANGED <<at, step, got, refused, calls, stream>>
  BY DEF Start, FromArgs, PrepareDataStorage, PrepareInfoStorage, NewNotifiers, PrepareAmqp,
         PrepareAmqpFails, NothingToPrepare, BuildRouter, Bind, running, sends, world
<1>2. ASSUME NEW j \in Job PROVE SendInv(j)'
  <2>1. Untouched(j) /\ step'[j] = "none"
    BY <1>1, Quiet DEF OrderInv, SendInv
  <2>2. \A s \in SinkNames : <<s, j>> \notin calls' /\ j \notin Told(s)'
    BY <1>1, <2>1 DEF Untouched, Told
  <2>3. Sinks' \subseteq 1..7 /\ \A k \in Sinks' : Order[k] \in SinkNames
    BY OrderFacts DEF Sinks, Order, SinkNames
  <2>4. Untouched(j)' /\ at'[j] = 0
    BY <1>1, <2>1 DEF Untouched, Told
  <2>5. \A k \in Sinks' : ~(k < at'[j]) /\ j \notin Told(Order[k])'
    <3>1. ASSUME NEW k \in Sinks' PROVE ~(k < at'[j]) /\ Order[k] \in SinkNames
      BY <2>3, <2>4
    <3>2. ASSUME NEW k \in Sinks' PROVE j \notin Told(Order[k])'
      BY <2>2, <3>1 DEF Told
    <3> QED BY <3>1, <3>2
  <2> QED BY <2>2, <2>4, <2>5 DEF SendInv
<1>3. NatsInv'
  BY <1>1 DEF OrderInv, NatsInv
<1> QED BY <1>2, <1>3 DEF OrderInv

(* So every step keeps the invariant, ... *)
LEMMA OrderNext ==
  ASSUME TypeInv, OrderInv, RefusedFailed, [Next]_nvars
  PROVE  OrderInv'
<1>1. ASSUME NEW r \in Req, RoutesNext(r) PROVE OrderInv'
  <2>1. Ends(r) /\ UNCHANGED <<sends, world>>
    BY <1>1, DispatchEnds DEF RoutesNext
  <2> QED BY <2>1, EndsExchanges, SameWorld DEF settings
<1>2. CASE HooksNext
  BY <1>2, SendOrder, HandlerOrder, LossOrder, ArrivalOrder DEF HooksNext
<1>3. CASE UNCHANGED nvars
  BY <1>3, SameWorld DEF nvars, running, settings
<1> QED BY <1>1, <1>2, <1>3, StartOrder DEF Next

(* ... which holds in the beginning, ... *)
LEMMA OrderInit == Init => OrderInv
<1> SUFFICES ASSUME Init PROVE OrderInv
  OBVIOUS
<1>1. ToSet(<<>>) = {}
  BY DEF ToSet
<1>2. ASSUME NEW j \in Job PROVE SendInv(j)
  <2>1. at[j] = 0 /\ (\A s \in SinkNames : j \notin Told(s) /\ <<s, j>> \notin calls)
        /\ \A l \in {"nats"} \cup Channel : j \notin ToSet(stream[l])
    BY <1>1 DEF Init, HooksInit, Told
  <2>2. Sinks \subseteq 1..7 /\ \A k \in Sinks : Order[k] \in SinkNames
    BY OrderFacts
  <2>3. \A k \in Sinks : ~(k < at[j]) /\ j \notin Told(Order[k])
    <3> SUFFICES ASSUME NEW k \in Sinks PROVE ~(k < at[j]) /\ j \notin Told(Order[k])
      OBVIOUS
    <3>1. k \in 1..7 /\ Order[k] \in SinkNames /\ at[j] = 0
      BY <2>1, <2>2
    <3>2. j \notin Told(Order[k])
      BY <2>1, <3>1
    <3>3. ~(k < at[j])
      BY <3>1
    <3> QED BY <3>2, <3>3
  <2> QED BY <2>1, <2>3 DEF SendInv, Untouched
<1>3. NatsInv
  BY DEF Init, HooksInit, NatsInv
<1> QED BY <1>2, <1>3 DEF OrderInv

(* ... and together with the invariants it needs, always. *)
LEMMA HooksInvHolds == Spec => [](TypeInv /\ RefusalInv /\ OrderInv)
<1>1. Init => RefusalInv
  BY Jobs DEF Init, RouterInit, HooksInit, RefusalInv, RefusedFailed, WorksAllowed, Answered
<1>2. RefusalInv => RefusedFailed
  BY DEF RefusalInv
<1> QED BY <1>1, <1>2, InvHolds, OrderInit, RefusalNext, OrderNext, PTL DEF Spec

(* Nobody is told what a recipient before it has not accepted. *)
THEOREM ToldInOrderHolds == Spec => []ToldInOrder
<1>1. TypeInv /\ OrderInv => ToldInOrder
  <2> SUFFICES ASSUME TypeInv, OrderInv, NEW j \in Job, NEW k \in Sinks, NEW l \in Sinks,
                      k < l, Awaited(Order[k]), Awaited(Order[l]), j \in Told(Order[l])
               PROVE  j \in ToSet(got[Order[k]]) /\ <<Order[k], j>> \notin refused
    BY DEF ToldInOrder
  <2>1. l <= at[j] /\ SendInv(j)
    BY DEF OrderInv, SendInv
  <2>2. k \in 1..7 /\ l \in 1..7 /\ at[j] \in 0..7
    BY OrderFacts DEF TypeInv, TypeOK
  <2>3. k < at[j]
    BY <2>1, <2>2
  <2> QED BY <2>1, <2>3 DEF SendInv, SaidYes
<1> QED BY <1>1, HooksInvHolds, PTL
-----------------------------------------------------------------------------
(* What a step does to what has been received, and to what is on its way to NATS. *)
Called(s, j) == <<s, j>> \in calls /\ Receives(s, j) /\ UNCHANGED stream
NatsKept == stream'["nats"] = stream["nats"]

(* Channels that close leave the stream to NATS alone. *)
LEMMA ClosedNats ==
  ASSUME TypeInv, NEW closed \in SUBSET Channel, Closed(closed)
  PROVE  NatsKept
  BY ChannelAssumption DEF Closed, TypeInv, TypeOK, NatsKept

(* The ways in which a message may get anywhere. *)
LEMMA ReceivedNext ==
  ASSUME TypeInv, [Next]_nvars
  PROVE  \/ UNCHANGED got /\ NatsKept
         \/ \E s \in SinkNames, j \in Job : Called(s, j)
         \/ \E j \in Job : PublishNats(j)
         \/ Deliver("nats")
         \/ \E j \in Job : Receives("amqp", j) /\ NatsKept
<1>1. ASSUME NEW j \in Job, SendStep(j) \/ SendFails(j)
      PROVE  \/ UNCHANGED got /\ NatsKept
             \/ Called(Sink(j), j) /\ Sink(j) \in SinkNames
             \/ PublishNats(j)
  <2>1. Sink(j) \in SinkNames
    BY <1>1, SendGoesOn, SinkName DEF GoesOn, TypeInv
  <2>2. CASE Accept(j) \/ Refuse(j)
    BY <2>1, <2>2 DEF Accept, Refuse, Reached, Called
  <2>3. CASE Publish(j)
    BY <2>3, ChannelAssumption DEF Publish, TypeInv, TypeOK, NatsKept
  <2> QED
    BY <1>1, <2>2, <2>3 DEF SendStep, SendFails, Call, ReuseChannel, OpenChannel, BorrowConnection, CreateChannel,
       CallFails, NoAnswer, AmqpFails, world, NatsKept
<1>2. CASE UNCHANGED <<got, stream>>
  BY <1>2 DEF NatsKept
<1>3. CASE Start \/ UNCHANGED nvars
  BY <1>2, <1>3 DEF Start, FromArgs, PrepareDataStorage, PrepareInfoStorage, NewNotifiers, PrepareAmqp,
         PrepareAmqpFails, NothingToPrepare, BuildRouter, Bind, nvars, running, world
<1>4. ASSUME NEW r \in Req, RoutesNext(r) \/ HandlerStep(r) PROVE UNCHANGED <<got, stream>>
  BY <1>4 DEF RoutesNext, HandlerStep, Arrive, Reject, Work, WorkFails, Cancel, Disconnect, world
<1>5. ASSUME NEW s \in SinkNames, NEW j \in Job, LateArrival(s, j) PROVE Called(s, j)
  BY <1>5 DEF LateArrival, Reached, Called
<1>6. ASSUME NEW l \in DOMAIN stream, Deliver(l)
      PROVE  Deliver("nats") \/ (NatsKept /\ (UNCHANGED got \/ \E j \in Job : Receives("amqp", j)))
  <2>1. stream[l] \in Seq(Job) /\ stream[l] # <<>> /\ "nats" \in DOMAIN stream
    BY <1>6 DEF Deliver, TypeInv, TypeOK
  <2>2. Head(stream[l]) \in Job
    BY <2>1
  <2>3. CASE l # "nats"
    BY <1>6, <2>1, <2>2, <2>3 DEF Deliver, NatsKept, TypeInv, TypeOK
  <2> QED BY <1>6, <2>3
<1>7. ASSUME NEW c \in Channel, NoExchange(c) PROVE UNCHANGED got /\ NatsKept
  <2>1. {c} \in SUBSET Channel
    OBVIOUS
  <2> QED BY <1>7, <2>1, ClosedNats DEF NoExchange
<1>8. ASSUME NEW k \in Connection, ConnectionLost(k) PROVE UNCHANGED got /\ NatsKept
  <2>1. {c \in Channel : chan[c] # None /\ chan[c].on = k} \in SUBSET Channel
    OBVIOUS
  <2> QED BY <1>8, <2>1, ClosedNats DEF ConnectionLost
<1>9. CASE HooksNext
  BY <1>1, <1>2, <1>4, <1>5, <1>6, <1>7, <1>8, <1>9 DEF HooksNext
<1> QED BY <1>2, <1>3, <1>4, <1>9 DEF Next
-----------------------------------------------------------------------------
(* In q no post-hook of r comes before its pre-hook. *)
Ordered(q, r) == \A m, n \in DOMAIN q : q[m] = <<r, "post">> /\ q[n] = <<r, "pre">> => n < m

(* Order is kept when a message is added that may come last, ... *)
LEMMA OrderedAppend ==
  ASSUME NEW q \in Seq(Job), NEW j \in Job, NEW r \in Req, Ordered(q, r),
         j = <<r, "pre">> => <<r, "post">> \notin ToSet(q)
  PROVE  Ordered(Append(q, j), r)
<1>1. /\ Len(q) \in Nat /\ DOMAIN q = 1..Len(q) /\ DOMAIN Append(q, j) = 1..(Len(q) + 1)
      /\ Append(q, j)[Len(q) + 1] = j /\ \A i \in 1..Len(q) : Append(q, j)[i] = q[i]
  OBVIOUS
<1> DEFINE a == Append(q, j)
<1> SUFFICES ASSUME NEW m \in 1..(Len(q) + 1), NEW n \in 1..(Len(q) + 1),
                    a[m] = <<r, "post">>, a[n] = <<r, "pre">>
             PROVE  n < m
  BY <1>1 DEF Ordered
<1>2. m # n
  OBVIOUS
<1>3. CASE m = Len(q) + 1
  BY <1>1, <1>2, <1>3
<1>4. CASE m # Len(q) + 1 /\ n = Len(q) + 1
  <2>1. m \in DOMAIN q /\ q[m] = <<r, "post">> /\ j = <<r, "pre">>
    BY <1>1, <1>4
  <2> QED BY <2>1 DEF ToSet
<1>5. CASE m # Len(q) + 1 /\ n # Len(q) + 1
  <2>1. m \in DOMAIN q /\ n \in DOMAIN q /\ q[m] = <<r, "post">> /\ q[n] = <<r, "pre">>
    BY <1>1, <1>5
  <2> QED BY <2>1 DEF Ordered
<1> QED BY <1>3, <1>4, <1>5

(* ... and when the first one is taken away. *)
LEMMA OrderedTail ==
  ASSUME NEW q \in Seq(Job), q # <<>>, NEW r \in Req, Ordered(q, r)
  PROVE  /\ Ordered(Tail(q), r)
         /\ Head(q) = <<r, "post">> => <<r, "pre">> \notin ToSet(Tail(q))
<1>1. /\ Len(q) \in Nat \ {0} /\ DOMAIN q = 1..Len(q) /\ Head(q) = q[1]
      /\ Len(Tail(q)) = Len(q) - 1 /\ DOMAIN Tail(q) = 1..(Len(q) - 1)
  OBVIOUS
<1>2. \A i \in 1..(Len(q) - 1) : Tail(q)[i] = q[i + 1] /\ i + 1 \in DOMAIN q
  BY <1>1
<1>3. Ordered(Tail(q), r)
  <2> SUFFICES ASSUME NEW m \in 1..(Len(q) - 1), NEW n \in 1..(Len(q) - 1),
                      Tail(q)[m] = <<r, "post">>, Tail(q)[n] = <<r, "pre">>
               PROVE  n < m
    BY <1>1 DEF Ordered
  <2>1. n + 1 < m + 1
    BY <1>2 DEF Ordered
  <2> QED BY <2>1
<1>4. ASSUME Head(q) = <<r, "post">>, <<r, "pre">> \in ToSet(Tail(q)) PROVE FALSE
  <2>1. PICK i \in 1..(Len(q) - 1) : Tail(q)[i] = <<r, "pre">>
    BY <1>1, <1>4 DEF ToSet
  <2>2. q[i + 1] = <<r, "pre">> /\ i + 1 \in DOMAIN q /\ 1 \in DOMAIN q /\ q[1] = <<r, "post">>
    BY <1>1, <1>2, <1>4, <2>1
  <2>3. i + 1 < 1
    BY <2>2 DEF Ordered
  <2> QED BY <2>3
<1> QED BY <1>3, <1>4

(* The two hooks of r, at each recipient and on the way to NATS. *)
BothInv(r) ==
  /\ \A s \in SinkNames \ {"amqp"} : Ordered(got[s], r)
  /\ Ordered(stream["nats"], r)
  /\ <<r, "pre">> \in ToSet(stream["nats"]) => <<r, "post">> \notin ToSet(got["nats"])

(* The inductive invariant of PreBeforePost. *)
PairInv == \A r \in Req : BothInv(r)

(* As long as a pre-hook runs, or after it has failed, nobody has heard of the post-hook. *)
LEMMA PostUntouched ==
  ASSUME OrderInv, RefusalInv, NEW r \in Req, step[<<r, "pre">>] \notin {"none", "ok"}
  PROVE  Untouched(<<r, "post">>)
<1>1. step[<<r, "post">>] = "none" /\ <<r, "post">> \in Job
  BY Jobs DEF RefusalInv, WorksAllowed
<1> QED BY <1>1 DEF OrderInv, SendInv

(* Every step keeps it. *)
LEMMA PairNext ==
  ASSUME TypeInv, OrderInv, RefusalInv, PairInv, [Next]_nvars
  PROVE  PairInv'
<1> SUFFICES ASSUME NEW r \in Req PROVE BothInv(r)'
  BY DEF PairInv
<1> DEFINE pre == <<r, "pre">>
           post == <<r, "post">>
<1>1. /\ BothInv(r) /\ pre \in Job /\ post \in Job /\ pre # post
      /\ got \in [SinkNames -> Seq(Job)] /\ stream["nats"] \in Seq(Job)
  BY Jobs DEF PairInv, TypeInv, TypeOK
<1>2. CASE UNCHANGED got /\ NatsKept
  BY <1>1, <1>2 DEF BothInv, NatsKept
<1>3. ASSUME NEW s \in SinkNames, NEW j \in Job, Called(s, j) PROVE BothInv(r)'
  <2>1. /\ <<s, j>> \in calls /\ UNCHANGED stream /\ got'[s] = Append(got[s], j)
        /\ ToSet(got'[s]) = ToSet(got[s]) \cup {j} /\ \A t \in SinkNames \ {s} : got'[t] = got[t]
    BY <1>3, ReceivesSets DEF Called
  <2>2. SendInv(j) /\ step[j] \notin {"none", "ok"} /\ (s = "nats" => Awaited("nats"))
    <3>1. SendInv(j)
      BY DEF OrderInv
    <3> QED BY <2>1, <3>1 DEF SendInv, Failed
  <2>3. j = pre => post \notin ToSet(got[s])
    BY <2>2, PostUntouched DEF Untouched, Told
  <2>4. s \in SinkNames \ {"amqp"} => Ordered(got'[s], r)
    BY <1>1, <2>1, <2>3, OrderedAppend DEF BothInv
  <2>5. pre \in ToSet(stream["nats"]) => s # "nats"
    BY <2>2 DEF OrderInv, NatsInv, ToSet
  <2> QED BY <1>1, <2>1, <2>4, <2>5, Positions DEF BothInv
<1>4. ASSUME NEW j \in Job, PublishNats(j) PROVE BothInv(r)'
  <2>1. UNCHANGED got /\ stream'["nats"] = Append(stream["nats"], j) /\ step[j] = "call"
    BY <1>4 DEF PublishNats, TypeInv, TypeOK
  <2>2. ToSet(stream'["nats"]) = ToSet(stream["nats"]) \cup {j}
    BY <1>1, <2>1, SeqSets
  <2>3. j = pre => post \notin ToSet(stream["nats"]) /\ post \notin ToSet(got["nats"])
    BY <2>1, PostUntouched, Positions DEF Untouched, Told
  <2>4. Ordered(stream'["nats"], r)
    BY <1>1, <2>1, <2>3, OrderedAppend DEF BothInv
  <2> QED BY <1>1, <2>1, <2>2, <2>3, <2>4 DEF BothInv
<1>5. CASE Deliver("nats")
  <2> DEFINE q == stream["nats"]
  <2>1. q # <<>> /\ q \in Seq(Job) /\ stream'["nats"] = Tail(q) /\ Receives("nats", Head(q))
    BY <1>1, <1>5 DEF Deliver, TypeInv, TypeOK
  <2>2. Head(q) \in Job
    BY <2>1
  <2>3. ToSet(q) = {Head(q)} \cup ToSet(Tail(q))
    BY <2>1, <2>2, SeqSets
  <2>4. /\ got'["nats"] = Append(got["nats"], Head(q))
        /\ ToSet(got'["nats"]) = ToSet(got["nats"]) \cup {Head(q)}
        /\ \A t \in SinkNames \ {"nats"} : got'[t] = got[t]
    BY <2>1, <2>2, ReceivesSets, Positions
  <2>5. Ordered(q, r) /\ (pre \in ToSet(q) => post \notin ToSet(got["nats"]))
    BY <1>1 DEF BothInv
  <2>6. Ordered(Tail(q), r) /\ (Head(q) = post => pre \notin ToSet(Tail(q)))
    BY <2>1, <2>5, OrderedTail
  <2>7. Ordered(got'["nats"], r)
    <3>1. Ordered(got["nats"], r) /\ got["nats"] \in Seq(Job)
      BY <1>1, Positions DEF BothInv
    <3>2. Head(q) = pre => post \notin ToSet(got["nats"])
      BY <2>3, <2>5
    <3> QED BY <2>2, <2>4, <3>1, <3>2, OrderedAppend
  <2>8. pre \in ToSet(Tail(q)) => post \notin ToSet(got'["nats"])
    BY <2>3, <2>4, <2>5, <2>6
  <2>9. \A s \in SinkNames \ {"amqp"} : Ordered(got'[s], r)
    BY <1>1, <2>4, <2>7 DEF BothInv
  <2> QED BY <2>1, <2>6, <2>8, <2>9 DEF BothInv
<1>6. ASSUME NEW j \in Job, Receives("amqp", j), NatsKept PROVE BothInv(r)'
  <2>1. \A t \in SinkNames \ {"amqp"} : got'[t] = got[t]
    BY <1>6, ReceivesSets, Positions
  <2>2. got'["nats"] = got["nats"]
    BY <2>1, Positions
  <2> QED BY <1>1, <1>6, <2>1, <2>2 DEF BothInv, NatsKept
<1> QED BY <1>2, <1>3, <1>4, <1>5, <1>6, ReceivedNext

(* Each recipient but AMQP gets the pre-hook of a request before the post-hook. *)
THEOREM PreBeforePostHolds == Spec => []PreBeforePost
<1>1. Init => PairInv
  BY DEF Init, HooksInit, PairInv, BothInv, Ordered, ToSet
<1>2. PairInv => PreBeforePost
  BY DEF PairInv, BothInv, Ordered, PreBeforePost
<1> QED BY <1>1, <1>2, PairNext, HooksInvHolds, PTL DEF Spec

(*****************************************************************************)
(* The extensions.  Sorting a list keeps what is in it: FlattenSeq joins the *)
(* copies of each extension, and there are none of those that are not there. *)
(*****************************************************************************)

(* f[k] joins the first k pieces of m, for k up to n. *)
Joins(f, m, n) ==
  f = [k \in 1..n |-> IF k = 1 THEN m[k] ELSE f[k - 1] \o m[k]]

(* FlattenSeq takes the last of its joinings. *)
LEMMA FlattenByJoins ==
  ASSUME NEW m
  PROVE  FlattenSeq(m) = IF Len(m) = 0 THEN m ELSE (CHOOSE f : Joins(f, m, Len(m)))[Len(m)]
  BY DEF FlattenSeq, Joins

(* Seven pieces have joinings. *)
LEMMA SevenJoin ==
  ASSUME NEW m
  PROVE  \E f : Joins(f, m, 7)
<1> DEFINE a2 == m[1] \o m[2]
           a3 == a2 \o m[3]
           a4 == a3 \o m[4]
           a5 == a4 \o m[5]
           a6 == a5 \o m[6]
           a7 == a6 \o m[7]
           f == [k \in 1..7 |-> IF k = 1 THEN m[1] ELSE IF k = 2 THEN a2 ELSE IF k = 3 THEN a3 ELSE
                                IF k = 4 THEN a4 ELSE IF k = 5 THEN a5 ELSE IF k = 6 THEN a6 ELSE a7]
<1> HIDE DEF a2, a3, a4, a5, a6, a7
<1>0. f[1] = m[1] /\ f[2] = a2 /\ f[3] = a3 /\ f[4] = a4 /\ f[5] = a5 /\ f[6] = a6 /\ f[7] = a7
  OBVIOUS
<1>2. DOMAIN f = 1..7 /\ f = [k \in 1..7 |-> f[k]]
  OBVIOUS
<1> HIDE DEF f
<1>1. /\ f[2] = f[1] \o m[2] /\ f[3] = f[2] \o m[3] /\ f[4] = f[3] \o m[4]
      /\ f[5] = f[4] \o m[5] /\ f[6] = f[5] \o m[6] /\ f[7] = f[6] \o m[7]
  BY <1>0, Zenon DEF a2, a3, a4, a5, a6, a7
<1>3. \A k \in 1..7 : f[k] = IF k = 1 THEN m[k] ELSE f[k - 1] \o m[k]
  <2> SUFFICES ASSUME NEW k \in 1..7, k # 1 PROVE f[k] = f[k - 1] \o m[k]
    BY <1>0
  <2>1. CASE k = 2
    <3>1. k - 1 = 1
      BY <2>1
    <3> QED BY <1>1, <2>1, <3>1, Zenon
  <2>2. CASE k = 3
    <3>1. k - 1 = 2
      BY <2>2
    <3> QED BY <1>1, <2>2, <3>1, Zenon
  <2>3. CASE k = 4
    <3>1. k - 1 = 3
      BY <2>3
    <3> QED BY <1>1, <2>3, <3>1, Zenon
  <2>4. CASE k = 5
    <3>1. k - 1 = 4
      BY <2>4
    <3> QED BY <1>1, <2>4, <3>1, Zenon
  <2>5. CASE k = 6
    <3>1. k - 1 = 5
      BY <2>5
    <3> QED BY <1>1, <2>5, <3>1, Zenon
  <2>6. CASE k = 7
    <3>1. k - 1 = 6
      BY <2>6
    <3> QED BY <1>1, <2>6, <3>1, Zenon
  <2>7. k \in {2, 3, 4, 5, 6, 7}
    OBVIOUS
  <2> QED BY <2>1, <2>2, <2>3, <2>4, <2>5, <2>6, <2>7, Zenon
<1>4. Joins(f, m, 7)
  BY <1>2, <1>3 DEF Joins
<1> QED BY <1>4

(* The copies of an extension in a list. *)
LEMMA CopiesOf ==
  ASSUME NEW S, NEW ext \in Seq(S), NEW e
  PROVE  /\ Copies(ext, e) \in Seq({e})
         /\ e \in ToSet(ext) => ToSet(Copies(ext, e)) = {e}
         /\ e \notin ToSet(ext) => ToSet(Copies(ext, e)) = {}
<1> DEFINE places == {k \in DOMAIN ext : ext[k] = e}
           n == Cardinality(places)
<1>1. IsFiniteSet(places)
  <2>1. DOMAIN ext = 1..Len(ext) /\ Len(ext) \in Nat
    OBVIOUS
  <2>2. IsFiniteSet(1..Len(ext))
    BY <2>1, FS_Interval
  <2> QED BY <2>1, <2>2, FS_Subset
<1>2. n \in Nat /\ (n = 0 <=> places = {})
  BY <1>1, FS_CardinalityType, FS_EmptySet
<1>3. Copies(ext, e) = [j \in 1..n |-> e]
  BY DEF Copies
<1> HIDE DEF n
<1>4. Copies(ext, e) \in Seq({e})
  BY <1>2, <1>3, SeqDef
<1>5. e \in ToSet(ext) <=> places # {}
  BY DEF ToSet
<1>6. ToSet(Copies(ext, e)) = IF n = 0 THEN {} ELSE {e}
  <2>1. ToSet(Copies(ext, e)) = {e : j \in 1..n}
    BY <1>3 DEF ToSet
  <2>2. n # 0 => 1 \in 1..n
    BY <1>2
  <2> QED BY <1>2, <2>1, <2>2
<1> QED BY <1>2, <1>4, <1>5, <1>6

(* The elements of two lists that are joined. *)
LEMMA JoinedSet ==
  ASSUME NEW S, NEW s \in Seq(S), NEW t \in Seq(S)
  PROVE  s \o t \in Seq(S) /\ ToSet(s \o t) = ToSet(s) \cup ToSet(t)
<1>1. s \o t \in Seq(S) /\ Len(s \o t) = Len(s) + Len(t) /\ Len(s) \in Nat /\ Len(t) \in Nat
  OBVIOUS
<1>2. ASSUME NEW k \in 1..Len(s) PROVE (s \o t)[k] = s[k] /\ k \in 1..Len(s \o t)
  BY <1>1
<1>3. ASSUME NEW k \in 1..Len(t) PROVE (s \o t)[Len(s) + k] = t[k] /\ Len(s) + k \in 1..Len(s \o t)
  BY <1>1
<1>4. ASSUME NEW k \in 1..Len(s \o t) PROVE (s \o t)[k] \in ToSet(s) \cup ToSet(t)
  <2>1. CASE k \in 1..Len(s)
    BY <1>2, <2>1 DEF ToSet
  <2>2. CASE k \notin 1..Len(s)
    <3>1. k - Len(s) \in 1..Len(t) /\ Len(s) + (k - Len(s)) = k
      BY <1>1, <2>2
    <3>2. (s \o t)[k] = t[k - Len(s)]
      BY <1>3, <3>1
    <3> QED BY <3>1, <3>2 DEF ToSet
  <2> QED BY <2>1, <2>2
<1>5. ToSet(s) \subseteq ToSet(s \o t)
  BY <1>1, <1>2 DEF ToSet
<1>6. ToSet(t) \subseteq ToSet(s \o t)
  <2> SUFFICES ASSUME NEW k \in 1..Len(t) PROVE t[k] \in ToSet(s \o t)
    BY DEF ToSet
  <2>1. (s \o t)[Len(s) + k] = t[k] /\ Len(s) + k \in DOMAIN (s \o t)
    BY <1>1, <1>3
  <2> QED BY <2>1 DEF ToSet
<1>7. ToSet(s \o t) \subseteq ToSet(s) \cup ToSet(t)
  <2>1. DOMAIN (s \o t) = 1..Len(s \o t)
    BY <1>1
  <2> QED BY <1>4, <2>1 DEF ToSet
<1> QED BY <1>1, <1>5, <1>6, <1>7

(* Sorting a list of extensions keeps them all, and adds none. *)
LEMMA SortedSet ==
  ASSUME NEW S, NEW ext \in Seq(S), NEW e \in Extensions
  PROVE  e \in ToSet(Sorted(ext)) <=> e \in ToSet(ext)
<1> DEFINE m == [k \in DOMAIN ExtensionOrder |-> Copies(ext, ExtensionOrder[k])]
           f == CHOOSE g : Joins(g, m, Len(m))
<1>1. /\ DOMAIN ExtensionOrder = 1..7 /\ \A k \in 1..7 : ExtensionOrder[k] \in Extensions
      /\ Extensions = {ExtensionOrder[k] : k \in 1..7}
  <2>1. DOMAIN ExtensionOrder = 1..7
    BY DEF ExtensionOrder
  <2> QED BY <2>1 DEF Extensions, ToSet
<1>2. \A k \in 1..7 : /\ m[k] \in Seq(Extensions)
                      /\ \A x : x \in ToSet(m[k]) <=> x = ExtensionOrder[k] /\ x \in ToSet(ext)
  <2> SUFFICES ASSUME NEW k \in 1..7
               PROVE  /\ m[k] \in Seq(Extensions)
                      /\ \A x : x \in ToSet(m[k]) <=> x = ExtensionOrder[k] /\ x \in ToSet(ext)
    OBVIOUS
  <2>1. m[k] = Copies(ext, ExtensionOrder[k])
    BY <1>1
  <2>2. m[k] \in Seq({ExtensionOrder[k]})
    BY <2>1, CopiesOf
  <2>3. m[k] \in Seq(Extensions)
    BY <1>1, <2>2
  <2>4. /\ ExtensionOrder[k] \in ToSet(ext) => ToSet(m[k]) = {ExtensionOrder[k]}
        /\ ExtensionOrder[k] \notin ToSet(ext) => ToSet(m[k]) = {}
    <3> HIDE DEF m
    <3>1. /\ ExtensionOrder[k] \in ToSet(ext) => ToSet(Copies(ext, ExtensionOrder[k])) = {ExtensionOrder[k]}
          /\ ExtensionOrder[k] \notin ToSet(ext) => ToSet(Copies(ext, ExtensionOrder[k])) = {}
      BY CopiesOf, Zenon
    <3> QED BY <2>1, <3>1
  <2> HIDE DEF m
  <2> QED BY <2>3, <2>4
<1>3. Len(m) = 7
  <2>1. m = [k \in 1..7 |-> m[k]]
    BY <1>1
  <2>2. m \in Seq(Seq(Extensions)) /\ DOMAIN m = 1..7
    BY <1>2, <2>1, SeqDef
  <2> QED BY <2>2
<1>4. Sorted(ext) = FlattenSeq(m)
  BY DEF Sorted
<1> HIDE DEF m
<1>5. Joins(f, m, 7)
  <2>1. \E g : Joins(g, m, Len(m))
    BY <1>3, SevenJoin
  <2>2. Joins(f, m, Len(m))
    BY <2>1
  <2> HIDE DEF f
  <2> QED BY <1>3, <2>2
<1>13. FlattenSeq(m) = f[7]
  <2>1. FlattenSeq(m) = IF Len(m) = 0 THEN m ELSE f[Len(m)]
    BY FlattenByJoins, Zenon
  <2> HIDE DEF f
  <2> QED BY <1>3, <2>1
<1> HIDE DEF f
<1>6. \A k \in 1..7 : f[k] = IF k = 1 THEN m[k] ELSE f[k - 1] \o m[k]
  <2>1. f = [k \in 1..7 |-> IF k = 1 THEN m[k] ELSE f[k - 1] \o m[k]]
    BY <1>5 DEF Joins
  <2> HIDE DEF Joins
  <2> QED BY <2>1
<1>7. f[1] = m[1] /\ f[1] \in Seq(Extensions)
  BY <1>2, <1>6
<1>8. \A k \in 2..7 : f[k - 1] \in Seq(Extensions) =>
        f[k] \in Seq(Extensions) /\ ToSet(f[k]) = ToSet(f[k - 1]) \cup ToSet(m[k])
  <2> SUFFICES ASSUME NEW k \in 2..7, f[k - 1] \in Seq(Extensions)
               PROVE  f[k] \in Seq(Extensions) /\ ToSet(f[k]) = ToSet(f[k - 1]) \cup ToSet(m[k])
    OBVIOUS
  <2>1. k \in 1..7 /\ k # 1
    OBVIOUS
  <2>2. m[k] \in Seq(Extensions)
    BY <1>2, <2>1
  <2>3. f[k] = f[k - 1] \o m[k]
    BY <1>6, <2>1, Zenon
  <2> QED BY <2>2, <2>3, JoinedSet
<1>9. ToSet(f[7]) = ToSet(m[1]) \cup ToSet(m[2]) \cup ToSet(m[3]) \cup ToSet(m[4]) \cup ToSet(m[5])
                      \cup ToSet(m[6]) \cup ToSet(m[7])
  <2>2. f[2] \in Seq(Extensions) /\ ToSet(f[2]) = ToSet(f[1]) \cup ToSet(m[2])
    BY <1>7, <1>8
  <2>3. f[3] \in Seq(Extensions) /\ ToSet(f[3]) = ToSet(f[2]) \cup ToSet(m[3])
    BY <2>2, <1>8
  <2>4. f[4] \in Seq(Extensions) /\ ToSet(f[4]) = ToSet(f[3]) \cup ToSet(m[4])
    BY <2>3, <1>8
  <2>5. f[5] \in Seq(Extensions) /\ ToSet(f[5]) = ToSet(f[4]) \cup ToSet(m[5])
    BY <2>4, <1>8
  <2>6. f[6] \in Seq(Extensions) /\ ToSet(f[6]) = ToSet(f[5]) \cup ToSet(m[6])
    BY <2>5, <1>8
  <2>7. ToSet(f[7]) = ToSet(f[6]) \cup ToSet(m[7])
    BY <2>6, <1>8
  <2> QED BY <1>7, <2>2, <2>3, <2>4, <2>5, <2>6, <2>7
<1>10. PICK p \in 1..7 : e = ExtensionOrder[p]
  BY <1>1
<1>11. e \in ToSet(f[7]) <=> \E k \in 1..7 : e \in ToSet(m[k])
  BY <1>9
<1>12. e \in ToSet(f[7]) <=> e \in ToSet(ext)
  BY <1>2, <1>10, <1>11
<1> QED BY <1>4, <1>13, <1>12

(* normalize_extentions adds what the others need, and keeps the rest. *)
LEMMA NormalisedHasCreation ==
  ASSUME NEW S, NEW ext \in Seq(S), Extensions \subseteq S
  PROVE  ToSet(Normalised(ext)) \cap {"creation-with-upload", "creation-defer-length"} # {} =>
           "creation" \in ToSet(Normalised(ext))
<1> DEFINE two == {"creation-with-upload", "creation-defer-length"}
           completed == IF NeedsCreation(ext) THEN Append(ext, "creation") ELSE ext
<1>1. "creation" \in Extensions /\ two \subseteq Extensions
  BY DEF Extensions, ToSet, ExtensionOrder
<1>2. completed \in Seq(S)
  BY <1>1
<1>3. ToSet(completed) = IF NeedsCreation(ext) THEN ToSet(ext) \cup {"creation"} ELSE ToSet(ext)
  <2>1. CASE NeedsCreation(ext)
    <3>1. /\ Len(Append(ext, "creation")) = Len(ext) + 1 /\ Len(ext) \in Nat
          /\ Append(ext, "creation")[Len(ext) + 1] = "creation"
          /\ \A k \in 1..Len(ext) : Append(ext, "creation")[k] = ext[k]
          /\ DOMAIN Append(ext, "creation") = 1..(Len(ext) + 1) /\ DOMAIN ext = 1..Len(ext)
      BY <1>1
    <3>2. ToSet(Append(ext, "creation")) = ToSet(ext) \cup {"creation"}
      BY <3>1 DEF ToSet
    <3> QED BY <2>1, <3>2
  <2> QED BY <2>1
<1>4. \A e \in Extensions : e \in ToSet(Normalised(ext)) <=> e \in ToSet(completed)
  <2>1. Normalised(ext) = Sorted(completed)
    BY DEF Normalised
  <2> HIDE DEF completed
  <2> QED BY <1>2, <2>1, SortedSet
<1> HIDE DEF completed
<1>5. two \cap ToSet(completed) # {} => "creation" \in ToSet(completed)
  BY <1>3 DEF NeedsCreation
<1> QED BY <1>1, <1>4, <1>5

(* The options once they are normalised: the list is a list of names, and it has what *)
(* some of them need.                                                                 *)
OptionsInv ==
  /\ stage = "parse" => conf \in RustusConf
  /\ stage \notin {"parse", "exit"} =>
       (Enabled("creation-with-upload") \/ Enabled("creation-defer-length") => Enabled("creation"))

(* An HTTP hook says no to the request. *)
Declined(r) == step[<<r, "pre">>] = "HTTPHookError"

(* What status the answer to a request may have: 405 if nobody serves it, and not if   *)
(* it is served, unless a hook declines it; and an error if checksums are verified and *)
(* its own is wrong.                                                                   *)
RightStatus(q, status, declined) ==
  /\ \A e \in Extensions : <<q.path, q.method>> \in AddedBy(e) =>
       IF Enabled(e) THEN status = 405 => declined ELSE status = 405
  /\ Enabled("checksum") /\ q.method = "PATCH" /\ q.checksum = "wrong" => IsError(status)

(* The answers agree with the options, which do not change any more; and a PATCH whose *)
(* handler runs has passed the checks of its headers.                                  *)
AnswersInv ==
  /\ OptionsInv
  /\ \A r \in Req :
       /\ Answered(r) => /\ stage = "serving" /\ RightStatus(request[r], resp[r].status, Declined(r))
                         /\ resp[r].extensions \in {{}, Advertised}
                         /\ resp[r].algorithms => Enabled("checksum")
       /\ phase[r] = "open" /\ request[r].method = "PATCH" => HeaderStatus(request[r]) = 0

(* An extension adds a route of its own. *)
LEMMA AddedRoutes ==
  ASSUME NEW q, NEW e \in Extensions, <<q.path, q.method>> \in AddedBy(e)
  PROVE  /\ q.method # "PATCH" /\ q.path \in {"base", "file"} /\ q.method \in {"POST", "GET", "DELETE"}
         /\ Served(q) <=> Enabled(e)
<1>1. \/ e = "creation" /\ q.path = "base" /\ q.method = "POST"
      \/ e = "getting" /\ q.path = "file" /\ q.method = "GET"
      \/ e = "termination" /\ q.path = "file" /\ q.method = "DELETE"
  BY DEF AddedBy
<1>2. <<q.path, q.method>> \notin AlwaysServed
  BY <1>1 DEF AlwaysServed
<1>3. \A d : <<q.path, q.method>> \in AddedBy(d) => d = e
  BY <1>1 DEF AddedBy
<1>4. Served(q) <=> \E d \in ToSet(conf.tus_extensions) : <<q.path, q.method>> \in AddedBy(d)
  BY <1>2 DEF Served, Routes
<1> QED BY <1>1, <1>3, <1>4 DEF Enabled

(* A PATCH without an error in its headers has no wrong checksum that is looked at. *)
LEMMA HeadersFine ==
  ASSUME NEW q, HeaderStatus(q) = 0
  PROVE  ~(Enabled("checksum") /\ q.checksum = "wrong")
  BY DEF HeaderStatus, StatusCode

(* The status of a request that is served and has passed those checks is right if it *)
(* is not 405 or the request is declined, ...                                        *)
LEMMA ServedRight ==
  ASSUME NEW q, NEW status, NEW declined, Served(q), q.method = "PATCH" => HeaderStatus(q) = 0,
         status # 405 \/ declined
  PROVE  RightStatus(q, status, declined)
  BY AddedRoutes, HeadersFine DEF RightStatus

(* ... and this is how requests are answered. *)
RightAnswer(r) ==
  \/ \E status \in 200..999, extensions \in {{}, Advertised} :
       RightStatus(request[r], status, Declined(r)) /\ Respond(r, Layered(request[r], status, extensions))
  \/ NotFound(r)
  \/ NoResponse(r)

(* An answer of a handler without a list of extensions. *)
LEMMA AnswerRight ==
  ASSUME NEW r \in Req, NEW status \in 200..999, Answer(r, status),
         RightStatus(request[r], status, Declined(r))
  PROVE  RightAnswer(r)
  BY DEF Answer, RightAnswer

(* The router answers rightly, ... *)
LEMMA DispatchRight ==
  ASSUME TypeInv, NEW r \in Req, Dispatch(r)
  PROVE  RightAnswer(r)
<1>1. CASE NotFound(r)
  BY <1>1 DEF RightAnswer
<1>2. CASE MethodNotAllowed(r)
  <2>1. Answer(r, 405) /\ ~Served(request[r]) /\ 405 \in 200..999 /\ IsError(405)
    BY <1>2 DEF MethodNotAllowed, IsError
  <2>2. RightStatus(request[r], 405, Declined(r))
    BY <2>1, AddedRoutes DEF RightStatus
  <2> QED BY <2>1, <2>2, AnswerRight
<1>3. CASE ReportStatus(r)
  <2>1. Answer(r, 200) /\ request[r].path \in {"health", "metrics"} /\ Served(request[r]) /\ 200 \in 200..999
    BY <1>3 DEF ReportStatus
  <2>2. request[r].method # "PATCH"
    <3>1. \A e : AddedBy(e) \subseteq {<<"base", "POST">>, <<"file", "GET">>, <<"file", "DELETE">>}
      BY DEF AddedBy
    <3>2. <<request[r].path, request[r].method>> \in AlwaysServed
      BY <2>1, <3>1 DEF Served, Routes
    <3> QED BY <2>1, <3>2 DEF AlwaysServed
  <2>3. RightStatus(request[r], 200, Declined(r))
    BY <2>1, <2>2, ServedRight
  <2> QED BY <2>1, <2>3, AnswerRight
<1>4. CASE ServerInfo(r)
  <2>1. Respond(r, Layered(request[r], 200, Advertised)) /\ request[r].method = "OPTIONS" /\ 200 \in 200..999
    BY <1>4 DEF ServerInfo
  <2>2. RightStatus(request[r], 200, Declined(r))
    BY <2>1, AddedRoutes DEF RightStatus
  <2> QED BY <2>1, <2>2 DEF RightAnswer
<1>5. CASE Read(r)
  <2>1. PICK status \in {200, 404, 500} : Answer(r, status)
    BY <1>5 DEF Read, StatusCode
  <2>2. Served(request[r]) /\ request[r].method # "PATCH" /\ status # 405
    BY <1>5, <2>1 DEF Read
  <2>3. RightStatus(request[r], status, Declined(r))
    BY <2>2, ServedRight
  <2>4. Answer(r, status) /\ status \in 200..999
    BY <2>1
  <2> QED BY <2>3, <2>4, AnswerRight, Zenon
<1>6. CASE HeadersRefused(r)
  <2>1. /\ HeaderStatus(request[r]) \in {415, 417, 400}
        /\ Answer(r, HeaderStatus(request[r])) /\ request[r].method = "PATCH"
    BY <1>6 DEF HeadersRefused, HeaderStatus, StatusCode
  <2>2. HeaderStatus(request[r]) \in 200..999 /\ IsError(HeaderStatus(request[r]))
    BY <2>1 DEF IsError
  <2>3. RightStatus(request[r], HeaderStatus(request[r]), Declined(r))
    BY <2>1, <2>2, AddedRoutes DEF RightStatus
  <2> QED BY <2>1, <2>2, <2>3, AnswerRight
<1>7. CASE BodyTooLarge(r)
  <2>1. Answer(r, 413) /\ Served(request[r]) /\ 413 \in 200..999 /\ IsError(413)
    BY <1>7 DEF BodyTooLarge, IsError
  <2>2. RightStatus(request[r], 413, Declined(r))
    BY <2>1, AddedRoutes DEF RightStatus
  <2> QED BY <2>1, <2>2, AnswerRight
<1> QED BY <1>1, <1>2, <1>3, <1>4, <1>5, <1>6, <1>7 DEF Dispatch

(* None of the handlers says that a method is not allowed, ... *)
LEMMA HandlersServe ==
  /\ \A m \in {"POST", "DELETE", "PATCH"} : 405 \notin Checks[m] \cup Failures[m]
  /\ \A e \in {"HookError", "Other"} : StatusCode[e] # 405
<1>1. ASSUME NEW m \in {"POST", "DELETE", "PATCH"} PROVE 405 \notin Checks[m] \cup Failures[m]
  <2>1. CASE m = "POST"
    BY <2>1 DEF Checks, Failures, StatusCode
  <2>2. CASE m = "DELETE"
    BY <2>2 DEF Checks, Failures, StatusCode
  <2>3. CASE m = "PATCH"
    BY <2>3 DEF Checks, Failures, StatusCode
  <2> QED BY <2>1, <2>2, <2>3
<1> QED BY <1>1 DEF StatusCode

(* ... so that those that call hooks answer rightly, before they do ... *)
LEMMA RejectRight ==
  ASSUME TypeInv, NEW r \in Req, Reject(r)
  PROVE  RightAnswer(r)
<1>1. /\ Served(request[r]) /\ request[r].method \in {"POST", "DELETE", "PATCH"}
      /\ request[r].method = "PATCH" => HeaderStatus(request[r]) = 0
  BY HandledOpens DEF Reject, Handled
<1>2. PICK status \in Checks[request[r].method] : Answer(r, status)
  BY DEF Reject
<1>3. status \in 200..999 /\ status # 405
  BY <1>1, <1>2, Statuses, HandlersServe, ErrorStatus
<1>4. RightStatus(request[r], status, Declined(r))
  BY <1>1, <1>3, ServedRight
<1> QED BY <1>2, <1>3, <1>4, AnswerRight

(* ... and after; a hook that declines may say anything. *)
LEMMA HandlerRight ==
  ASSUME TypeInv, AnswersInv, NEW r \in Req, Work(r) \/ WorkFails(r) \/ Cancel(r) \/ Disconnect(r)
  PROVE  RightAnswer(r)
<1>1. phase[r] = "open"
  BY AllowedMeans DEF Work, WorkFails, Cancel, Disconnect
<1>2. /\ Served(request[r]) /\ request[r].method \in {"POST", "DELETE", "PATCH"}
      /\ request[r].method = "PATCH" => HeaderStatus(request[r]) = 0
  BY <1>1, OpenIsServed DEF AnswersInv
<1>3. ASSUME NEW status, Answer(r, status), status \in 300..999 \/ status \in {201, 204},
             status # 405 \/ Declined(r)
      PROVE  RightAnswer(r)
  <2>1. status \in 200..999
    BY <1>3, ErrorStatus
  <2>2. RightStatus(request[r], status, Declined(r))
    BY <1>2, <1>3, ServedRight
  <2> QED BY <1>3, <2>1, <2>2, AnswerRight
<1>4. CASE Work(r)
  <2>1. PICK status \in {201, 204} : Answer(r, status)
    BY <1>4 DEF Work
  <2> QED BY <1>3, <2>1
<1>5. CASE WorkFails(r)
  <2>1. PICK status \in Failures[request[r].method] : Answer(r, status)
    BY <1>5 DEF WorkFails
  <2> QED BY <1>2, <1>3, <2>1, Statuses, HandlersServe
<1>6. CASE Cancel(r)
  <2>1. CASE step[<<r, "pre">>] = "HTTPHookError"
    <3>1. PICK status \in HookStatus : Answer(r, status)
      BY <1>6, <2>1 DEF Cancel
    <3> QED BY <1>3, <2>1, <3>1, Statuses DEF Declined
  <2>2. CASE step[<<r, "pre">>] \in {"HookError", "Other"}
    <3>1. Answer(r, StatusCode[step[<<r, "pre">>]])
      BY <1>6, <2>2 DEF Cancel
    <3> QED BY <1>3, <2>2, <3>1, Statuses, HandlersServe
  <2>3. CASE step[<<r, "pre">>] = "panic"
    BY <1>6, <2>3 DEF Cancel, RightAnswer
  <2> QED BY <1>6, <2>1, <2>2, <2>3 DEF Cancel
<1>7. CASE Disconnect(r)
  BY <1>7 DEF Disconnect, RightAnswer
<1> QED BY <1>4, <1>5, <1>6, <1>7

(* A right answer keeps the invariant. *)
LEMMA RightKept ==
  ASSUME TypeInv, AnswersInv, NEW r \in Req, RightAnswer(r), stage = "serving",
         \A q \in Req : Declined(q) => Declined(q)'
  PROVE  AnswersInv'
<1>1. /\ UNCHANGED <<settings, request>> /\ phase' = [phase EXCEPT ![r] = "done"]
      /\ \A q \in Req \ {r} : resp'[q] = resp[q]
  <2> DEFINE Keeps == /\ UNCHANGED <<settings, request>> /\ phase' = [phase EXCEPT ![r] = "done"]
                      /\ \A q \in Req \ {r} : resp'[q] = resp[q]
  <2>1. \A response : Respond(r, response) => Keeps
    BY DEF Respond, TypeInv, TypeOK
  <2>2. NoResponse(r) => Keeps
    BY DEF NoResponse
  <2> HIDE DEF Keeps
  <2>3. Keeps
    BY <2>1, <2>2, Zenon DEF RightAnswer, NotFound
  <2> QED BY <2>3 DEF Keeps
<1>2. \/ resp'[r] = resp[r]
      \/ /\ RightStatus(request[r], resp'[r].status, Declined(r))
         /\ resp'[r].extensions \in {{}, Advertised}
         /\ resp'[r].algorithms => Enabled("checksum")
  <2>1. ASSUME NEW status \in 200..999, NEW extensions \in {{}, Advertised},
               RightStatus(request[r], status, Declined(r)),
               Respond(r, Layered(request[r], status, extensions))
        PROVE  /\ RightStatus(request[r], resp'[r].status, Declined(r))
               /\ resp'[r].extensions \in {{}, Advertised}
               /\ resp'[r].algorithms => Enabled("checksum")
    <3>1. resp'[r] = Layered(request[r], status, extensions)
      BY <2>1 DEF Respond, TypeInv, TypeOK
    <3> DEFINE algorithms == extensions # {} /\ Enabled("checksum")
    <3>2. resp'[r] = [status |-> status, origin |-> Welcome(request[r]), tus |-> request[r].path \in {"base", "file"},
                      extensions |-> extensions, algorithms |-> algorithms]
      BY <3>1, Zenon DEF Layered
    <3>3. algorithms \in BOOLEAN /\ (algorithms => Enabled("checksum"))
      OBVIOUS
    <3> HIDE DEF algorithms
    <3>4. resp'[r].status = status /\ resp'[r].extensions = extensions /\ resp'[r].algorithms = algorithms
      BY <3>2, <3>3
    <3> QED BY <2>1, <3>3, <3>4
  <2>2. ASSUME NotFound(r)
        PROVE  /\ RightStatus(request[r], resp'[r].status, Declined(r))
               /\ resp'[r].extensions = {} /\ ~resp'[r].algorithms
    <3>1. resp'[r] = [status |-> 404, origin |-> None, tus |-> FALSE, extensions |-> {}, algorithms |-> FALSE]
      BY <2>2 DEF NotFound, Respond, TypeInv, TypeOK
    <3>2. request[r].path = "unknown"
      BY <2>2 DEF NotFound, Known
    <3>3. RightStatus(request[r], 404, Declined(r))
      BY <3>2, AddedRoutes DEF RightStatus, IsError
    <3> QED BY <3>1, <3>3
  <2>3. CASE NotFound(r)
    BY <2>2, <2>3
  <2>4. CASE NoResponse(r)
    BY <2>4 DEF NoResponse
  <2>5. CASE \E status \in 200..999, extensions \in {{}, Advertised} :
               /\ RightStatus(request[r], status, Declined(r))
               /\ Respond(r, Layered(request[r], status, extensions))
    BY <2>1, <2>5, Zenon
  <2> QED BY <2>3, <2>4, <2>5, Zenon DEF RightAnswer
<1>3. /\ Advertised' = Advertised /\ \A e : Enabled(e)' = Enabled(e)
      /\ \A q \in Req : HeaderStatus(request[q])' = HeaderStatus(request[q])
  BY <1>1 DEF settings, Advertised, Enabled, HeaderStatus
<1>4. OptionsInv'
  BY <1>1, <1>3 DEF AnswersInv, OptionsInv, settings
<1>5. ASSUME NEW q \in Req, Answered(q)'
      PROVE  /\ stage' = "serving" /\ RightStatus(request[q], resp[q].status, Declined(q))'
             /\ resp'[q].extensions \in {{}, Advertised'}
             /\ resp'[q].algorithms => Enabled("checksum")'
  <2>1. /\ RightStatus(request[q], resp'[q].status, Declined(q)) /\ resp'[q].extensions \in {{}, Advertised}
        /\ resp'[q].algorithms => Enabled("checksum")
    <3>1. CASE resp'[q] = resp[q]
      BY <1>5, <3>1 DEF AnswersInv, Answered
    <3>2. CASE resp'[q] # resp[q]
      BY <1>1, <1>2, <3>2
    <3> QED BY <3>1, <3>2
  <2> QED BY <1>1, <1>3, <2>1 DEF settings, RightStatus
<1>6. ASSUME NEW q \in Req, phase'[q] = "open", request'[q].method = "PATCH"
      PROVE  HeaderStatus(request[q])' = 0
  BY <1>1, <1>3, <1>6 DEF AnswersInv, TypeInv, TypeOK
<1> QED BY <1>4, <1>5, <1>6 DEF AnswersInv

(* So does a step that answers nobody and opens no handler. *)
LEMMA UnansweredKept ==
  ASSUME AnswersInv, UNCHANGED <<conf, stage, request, resp>>,
         \A q \in Req : Declined(q) => Declined(q)',
         \A r \in Req : phase'[r] = "open" /\ request[r].method = "PATCH" => HeaderStatus(request[r]) = 0
  PROVE  AnswersInv'
<1>1. /\ Advertised' = Advertised /\ \A e : Enabled(e)' = Enabled(e)
      /\ \A q \in Req : HeaderStatus(request[q])' = HeaderStatus(request[q])
  BY DEF Advertised, Enabled, HeaderStatus
<1>2. OptionsInv'
  BY <1>1 DEF AnswersInv, OptionsInv
<1>3. ASSUME NEW q \in Req, Answered(q)'
      PROVE  /\ stage' = "serving" /\ RightStatus(request[q], resp[q].status, Declined(q))'
             /\ resp'[q].extensions \in {{}, Advertised'}
             /\ resp'[q].algorithms => Enabled("checksum")'
  <2>1. /\ stage = "serving" /\ RightStatus(request[q], resp[q].status, Declined(q))
        /\ resp[q].extensions \in {{}, Advertised}
        /\ resp[q].algorithms => Enabled("checksum")
    BY <1>3 DEF AnswersInv, Answered
  <2> QED BY <1>1, <2>1 DEF RightStatus
<1> QED BY <1>1, <1>2, <1>3 DEF AnswersInv

(* The start of the server normalises the options, and answers nobody. *)
LEMMA StartRight ==
  ASSUME TypeInv, AnswersInv, Start
  PROVE  AnswersInv'
<1>1. UNCHANGED <<request, phase, resp>> /\ stage # "serving"
  BY DEF Start, FromArgs, PrepareDataStorage, PrepareInfoStorage, NewNotifiers, PrepareAmqp,
         PrepareAmqpFails, NothingToPrepare, BuildRouter, Bind, running, exchanges
<1>2. ASSUME NEW r \in Req PROVE phase[r] = "idle" /\ ~Answered(r)
  BY <1>1 DEF TypeInv, PhaseOK, Answered
<1>3. OptionsInv'
  <2>1. CASE FromArgs
    <3>1. conf \in RustusConf
      BY <2>1 DEF FromArgs, AnswersInv, OptionsInv
    <3>2. CASE Accepted(conf)
      <4>1. conf' = [conf EXCEPT !.tus_extensions = Normalised(@)] /\ stage' = "data storage"
        BY <2>1, <3>2 DEF FromArgs, Goes
      <4>2. conf.tus_extensions \in Seq(Extensions \cup {"?"}) /\ "tus_extensions" \in DOMAIN conf
        BY <3>1 DEF RustusConf
      <4>3. conf'.tus_extensions = Normalised(conf.tus_extensions)
        BY <4>1, <4>2
      <4>4. ToSet(conf'.tus_extensions) \cap {"creation-with-upload", "creation-defer-length"} # {} =>
              "creation" \in ToSet(conf'.tus_extensions)
        BY <4>2, <4>3, NormalisedHasCreation
      <4> QED BY <4>1, <4>4 DEF OptionsInv, Enabled
    <3>3. CASE ~Accepted(conf)
      BY <2>1, <3>3 DEF FromArgs, Goes, OptionsInv
    <3> QED BY <3>2, <3>3
  <2>2. CASE ~FromArgs
    <3>1. conf' = conf /\ stage \notin {"parse", "exit"} /\ stage' # "parse"
      BY <2>2 DEF Start, PrepareDataStorage, PrepareInfoStorage, NewNotifiers, PrepareAmqp,
                  PrepareAmqpFails, NothingToPrepare, BuildRouter, Bind, Goes
    <3> QED BY <3>1 DEF AnswersInv, OptionsInv, Enabled
  <2> QED BY <2>1, <2>2
<1> QED BY <1>1, <1>2, <1>3 DEF AnswersInv, Answered

(* Every step keeps the answers as they should be. *)
LEMMA AnswersNext ==
  ASSUME TypeInv, AnswersInv, [Next]_nvars
  PROVE  AnswersInv'
<1>0. \A q \in Req : Declined(q) => Declined(q)'
  BY EndedStays, Jobs DEF Declined, Running, Ended, Failed
<1>1. CASE Start
  BY <1>1, StartRight
<1>2. ASSUME NEW r \in Req, Dispatch(r) \/ Reject(r) PROVE AnswersInv'
  <2>1. RightAnswer(r) /\ stage = "serving"
    BY <1>2, DispatchRight, RejectRight, DispatchEnds, RejectEnds DEF Ends
  <2> QED BY <1>0, <2>1, RightKept
<1>3. ASSUME NEW r \in Req, Work(r) \/ WorkFails(r) \/ Cancel(r) \/ Disconnect(r) PROVE AnswersInv'
  <2>1. phase[r] = "open"
    BY <1>3, AllowedMeans DEF Work, WorkFails, Cancel, Disconnect
  <2> QED BY <1>0, <1>3, <2>1, HandlerRight, OpenIsServed, RightKept
<1>4. ASSUME NEW r \in Req, Arrive(r) PROVE AnswersInv'
  <2>1. /\ UNCHANGED <<conf, stage, request, resp>> /\ phase' = [phase EXCEPT ![r] = "open"]
        /\ request[r].method = "PATCH" => HeaderStatus(request[r]) = 0
    BY <1>4 DEF Arrive, Handled, settings
  <2>2. \A q \in Req : phase'[q] = "open" /\ request[q].method = "PATCH" => HeaderStatus(request[q]) = 0
    BY <2>1 DEF AnswersInv, TypeInv, TypeOK
  <2> QED BY <1>0, <2>1, <2>2, UnansweredKept
<1>5. CASE UNCHANGED rvars
  <2>1. UNCHANGED <<conf, stage, request, resp, phase>>
    BY <1>5 DEF rvars, settings, exchanges
  <2> QED BY <1>0, <2>1, UnansweredKept DEF AnswersInv
<1>6. ASSUME NEW j \in Job, SendStep(j) \/ SendFails(j) PROVE UNCHANGED rvars
  BY <1>6, SendGoesOn DEF GoesOn, TypeInv
<1>7. CASE HooksNext
  BY <1>2, <1>3, <1>4, <1>5, <1>6, <1>7 DEF HooksNext, HandlerStep, LateArrival, Deliver, NoExchange, ConnectionLost
<1>8. CASE UNCHANGED nvars
  BY <1>5, <1>8 DEF nvars, running, rvars, settings
<1> QED BY <1>1, <1>2, <1>7, <1>8 DEF Next, RoutesNext

(* For all options, requests and statuses of hooks: an extension that the answer to *)
(* OPTIONS lists is served, or the request is refused by an HTTP hook; what it does *)
(* not list is not served, and a PATCH with a wrong checksum is refused if it lists *)
(* algorithms.                                                                      *)
THEOREM AdvertisedIsServedHolds == Spec => []AdvertisedIsServed
<1>1. Init => AnswersInv
  <2> SUFFICES ASSUME Init PROVE AnswersInv
    OBVIOUS
  <2>1. conf \in RustusConf /\ stage = "parse" /\ \A r \in Req : phase[r] = "idle" /\ ~Answered(r)
    BY ScenariosAssumption DEF Init, RouterInit, Answered
  <2> QED BY <2>1 DEF AnswersInv, OptionsInv
<1>2. AnswersInv => AdvertisedIsServed
  <2> SUFFICES ASSUME AnswersInv, NEW o \in Req, NEW r \in Req, Answered(o), Answered(r), resp[o].extensions # {}
               PROVE  /\ \A e \in Extensions : <<request[r].path, request[r].method>> \in AddedBy(e) =>
                           IF e \in resp[o].extensions
                           THEN resp[r].status = 405 => step[<<r, "pre">>] = "HTTPHookError"
                           ELSE resp[r].status = 405
                      /\ resp[o].extensions \cap {"creation-with-upload", "creation-defer-length"} # {} =>
                           "creation" \in resp[o].extensions
                      /\ resp[o].algorithms /\ request[r].method = "PATCH" /\ request[r].checksum = "wrong" =>
                           IsError(resp[r].status)
    BY DEF AdvertisedIsServed
  <2>1. /\ resp[o].extensions = Advertised /\ stage = "serving" /\ OptionsInv
        /\ resp[o].algorithms => Enabled("checksum")
        /\ RightStatus(request[r], resp[r].status, Declined(r))
    BY DEF AnswersInv
  <2>2. \A e \in Extensions : e \in resp[o].extensions <=> Enabled(e)
    BY <2>1 DEF Advertised
  <2>3. {"creation-with-upload", "creation-defer-length", "creation"} \subseteq Extensions
    BY DEF Extensions, ToSet, ExtensionOrder
  <2> QED BY <2>1, <2>2, <2>3 DEF RightStatus, OptionsInv, Declined
<1> QED BY <1>1, <1>2, AnswersNext, InvHolds, PTL DEF Spec
=============================================================================

--------------------------- MODULE Notifications ---------------------------
(***************************************************************************)
(* The hooks: NotificationManager, its notifiers and the AMQP pools, with  *)
(* the handlers of Router reduced to what they do with hooks.              *)
(*                                                                         *)
(* A handler awaits send_message of its pre-hook, works only if it         *)
(* succeeded, and leaves send_message of its post-hook to a spawned task.  *)
(* A send goes through the recipients one after the other, in the order of *)
(* the manager.  A recipient is awaited, if its answer decides what the    *)
(* send does next; NATS (without replies) and AMQP only take the message   *)
(* into a stream, of the NATS client or of an AMQP channel, that reaches   *)
(* the recipient later, if the AMQP broker has a queue for it.             *)
(***************************************************************************)
EXTENDS Router

CONSTANTS
  Channel,     \* as many as hooks-amqp-channel-pool-size
  Connection,  \* as many as hooks-amqp-connection-pool-size
  HookStatus,  \* the statuses of HTTP hooks that say no
  Env          \* what the environment may do, see below

(* The environment: "refuse": a recipient says no; "fault": a call returns an  *)
(* error or times out; "disconnect": a client closes its connection before it  *)
(* is answered; "outage": an AMQP connection breaks.                           *)
EnvKinds == {"refuse", "fault", "disconnect", "outage"}

(* An HTTP hook says no with any status but a 2xx, 405 for instance. *)
ASSUME HookStatusAssumption == HookStatus \subseteq 300..999

ASSUME EnvAssumption == Env \subseteq EnvKinds

(* Streams go to NATS or through a channel. *)
ASSUME ChannelAssumption == "nats" \notin Channel

VARIABLES
  at,       \* at[j]: the recipient send j is at, by its position in Order
  step,     \* step[j]: what send j is waiting for there, or how it ended
  got,      \* got[s]: the messages recipient s has received, in that order
  refused,  \* <<s, j>>: recipient s answered no to j
  calls,    \* <<s, j>>: a call to s under way
  stream,   \* stream[l]: messages on the way to NATS, or through an AMQP channel
  lost,     \* messages lost with their AMQP channel
  broker,   \* what there is at the AMQP broker: the exchange, the queues bound to it
  chan,     \* chan[c]: None, or the connection of channel c, who has it, whether it is alive
  conn      \* conn[k]: who has open connection k

sends == <<at, step>>
world == <<got, refused, calls, stream, lost, broker>>
pools == <<chan, conn>>
running == <<exchanges, sends, world, pools>>
nvars == <<settings, running>>

(* send_message of the pre- and of the post-hook of a request *)
Job == Req \X {"pre", "post"}
HookOf(j) ==
  LET q == request[j[1]]
  IN CASE j[2] = "pre" /\ q.method = "POST"               -> "pre-create"
       [] j[2] = "pre" /\ q.method = "DELETE"             -> "pre-terminate"
       [] j[2] = "post" /\ q.method = "DELETE"            -> "post-terminate"
       [] j[2] = "post" /\ q.whole                        -> "post-finish"
       [] j[2] = "post" /\ ~q.whole /\ q.method = "POST"  -> "post-create"
       [] j[2] = "post" /\ ~q.whole /\ q.method = "PATCH" -> "post-receive"
       [] OTHER                                           -> None

Opts == conf.notification_opts
hook_is_active(j) == HookOf(j) \in Opts.hooks

(* NotificationManager::new pushes the notifiers in this order; the HTTP notifier *)
(* calls its urls in turn.                                                        *)
Order == <<"file", "dir", "http1", "http2", "nats", "amqp", "kafka">>
Sinks == {k \in DOMAIN Order : Order[k] \in Opts.sinks}
After(k) == {l \in Sinks : l > k}
Awaited(s) ==
  \/ s \in {"file", "dir", "http1", "http2", "kafka"}
  \/ s = "nats" /\ Opts.nats_hook_opts.wait_for_replies
Sink(j) == Order[at[j]]
Failed == {"HookError", "HTTPHookError", "Other"}
Waiting == {"call", "answer", "open", "create", "publish"}
Ended == {"none", "ok", "panic", "dropped"} \cup Failed
Running(j) == step[j] \notin Ended
-----------------------------------------------------------------------------
(* send_message: the loop over the notifiers, left by the first error. *)
GoOn(j, k) ==
  IF After(k) = {}
  THEN step' = [step EXCEPT ![j] = "ok"] /\ UNCHANGED at
  ELSE step' = [step EXCEPT ![j] = "call"] /\ at' = [at EXCEPT ![j] = Min(After(k))]

CallsTheFirst(j) ==                      \* mutant of Begin: as if the file notifier were always there
  step' = [step EXCEPT ![j] = "call"] /\ at' = [at EXCEPT ![j] = 1]
Begin(j) == GoOn(j, 0)
Continue(j) == GoOn(j, at[j])

IgnoresErrors(j, e) ==                   \* mutant of Fail: goes on with the next notifier
  IF e \in Failed THEN Continue(j) ELSE step' = [step EXCEPT ![j] = e] /\ UNCHANGED at
Fail(j, e) == step' = [step EXCEPT ![j] = e] /\ UNCHANGED at

Waits(j, w) == step' = [step EXCEPT ![j] = w] /\ UNCHANGED at

Receives(s, j) == got' = [got EXCEPT ![s] = Append(@, j)]
-----------------------------------------------------------------------------
(* Awaited recipients: a command (File, Dir), an HTTP request, a NATS request *)
(* or a Kafka record.                                                         *)
Call(j) ==
  /\ step[j] = "call" /\ Awaited(Sink(j))
  /\ Waits(j, "answer")
  /\ calls' = calls \cup {<<Sink(j), j>>}
  /\ UNCHANGED <<rvars, got, refused, stream, lost, broker, pools>>

(* The call does not begin: no such hook file or command, no connection.  The *)
(* NATS notifier panics if a header of the request is not ASCII.              *)
CallFails(j) ==
  /\ "fault" \in Env
  /\ step[j] = "call" /\ Sink(j) # "amqp"
  /\ \/ Fail(j, IF Sink(j) = "dir" THEN "HookError" ELSE "Other")
     \/ Sink(j) = "nats" /\ Fail(j, "panic")
  /\ UNCHANGED <<rvars, world, pools>>

Reached(s, j) ==
  /\ <<s, j>> \in calls
  /\ calls' = calls \ {<<s, j>>}
  /\ Receives(s, j)

AwaitsAnswer(s, j) == step[j] = "answer" /\ Sink(j) = s

(* Exit code 0, a 2xx status, an empty reply or "OK", or an acknowledged record. *)
Accept(j) ==
  /\ step[j] = "answer"
  /\ Reached(Sink(j), j)
  /\ Continue(j)
  /\ UNCHANGED <<rvars, refused, stream, lost, broker, pools>>

Refuse(j) ==
  /\ "refuse" \in Env
  /\ step[j] = "answer" /\ Sink(j) # "kafka"
  /\ Reached(Sink(j), j)
  /\ refused' = refused \cup {<<Sink(j), j>>}
  /\ Fail(j, CASE Sink(j) \in {"file", "dir"}    -> "HookError"
               [] Sink(j) \in {"http1", "http2"} -> "HTTPHookError"
               [] Sink(j) = "nats"               -> "Other")
  /\ UNCHANGED <<rvars, stream, lost, broker, pools>>

(* No answer in time, or an error instead of it: the message may arrive later. *)
NoAnswer(j) ==
  /\ "fault" \in Env
  /\ step[j] = "answer"
  /\ Fail(j, "Other")
  /\ UNCHANGED <<rvars, world, pools>>

(* Nobody waits for the answer any more. *)
LateArrival(s, j) ==
  /\ ~AwaitsAnswer(s, j)
  /\ Reached(s, j)
  /\ UNCHANGED <<rvars, sends, refused, stream, lost, broker, pools>>
-----------------------------------------------------------------------------
(* NatsNotifier without wait_for_replies: publish puts the message into the client. *)
PublishNats(j) ==
  /\ step[j] = "call" /\ Sink(j) = "nats" /\ ~Awaited("nats")
  /\ Continue(j)
  /\ stream' = [stream EXCEPT !["nats"] = Append(@, j)]
  /\ UNCHANGED <<rvars, got, refused, calls, lost, broker, pools>>

(* AMQPNotifier takes a channel from its pool: an open one that nobody uses, ... *)
Lent == {j \in Job : step[j] \in {"open", "create", "publish"}}
AnyChannel == {c \in Channel : chan[c] # None}   \* mutant of Idle: lends a channel twice
Idle == {c \in Channel : chan[c] # None /\ chan[c].by = None}

ReuseChannel(j) ==
  /\ step[j] = "call" /\ Sink(j) = "amqp"
  /\ \E c \in Idle : chan' = [chan EXCEPT ![c].by = j]
  /\ Waits(j, "publish")
  /\ UNCHANGED <<rvars, world, conn>>

(* ... or, if there is none and the pool may have more, a new one, ... *)
OpenChannel(j) ==
  /\ step[j] = "call" /\ Sink(j) = "amqp"
  /\ Idle = {} /\ Cardinality(Lent) < Cardinality(Channel)
  /\ Waits(j, "open")
  /\ UNCHANGED <<rvars, world, pools>>

(* ... that ChannelPool::connect makes with a connection of the connection pool, *)
BorrowConnection(j) ==
  /\ step[j] = "open"
  /\ \E k \in Connection :
       /\ IF conn[k] # None THEN conn[k].by = None
          ELSE \A l \in Connection : conn[l] # None => conn[l].by # None
       /\ conn' = [conn EXCEPT ![k] = [by |-> j]]
  /\ Waits(j, "create")
  /\ UNCHANGED <<rvars, world, chan>>

(* which it gives back as soon as the channel is there. *)
KeepsConnection(j) ==                    \* mutant of CreateChannel
  /\ step[j] = "create"
  /\ \E k \in Connection, c \in Channel :
       /\ conn[k] = [by |-> j] /\ chan[c] = None
       /\ chan' = [chan EXCEPT ![c] = [on |-> k, by |-> j, alive |-> TRUE]]
  /\ Waits(j, "publish")
  /\ UNCHANGED <<rvars, world, conn>>
CreateChannel(j) ==
  /\ step[j] = "create"
  /\ \E k \in Connection, c \in Channel :
       /\ conn[k] = [by |-> j] /\ chan[c] = None
       /\ chan' = [chan EXCEPT ![c] = [on |-> k, by |-> j, alive |-> TRUE]]
       /\ conn' = [conn EXCEPT ![k].by = None]
  /\ Waits(j, "publish")
  /\ UNCHANGED <<rvars, world>>

ConnectionReturned(j) ==
  [k \in Connection |-> IF conn[k] = [by |-> j] THEN [by |-> None] ELSE conn[k]]
ChannelReturned(j) ==
  [c \in Channel |-> IF chan[c] = None \/ chan[c].by # j THEN chan[c]
                     ELSE IF chan[c].alive THEN [chan[c] EXCEPT !.by = None] ELSE None]

(* basic_publish without confirms: it is done when the frames are in the channel. *)
Publish(j) ==
  /\ step[j] = "publish"
  /\ \E c \in Channel :
       /\ chan[c] # None /\ chan[c].by = j
       /\ IF chan[c].alive
          THEN stream' = [stream EXCEPT ![c] = Append(@, j)] /\ Continue(j)
          ELSE Fail(j, "Other") /\ UNCHANGED stream
  /\ chan' = ChannelReturned(j)
  /\ UNCHANGED <<rvars, got, refused, calls, lost, broker, conn>>

(* The broker cannot be reached, or a pool has no free place for 30 seconds. *)
AmqpFails(j) ==
  /\ "fault" \in Env
  /\ \/ step[j] = "call" /\ Sink(j) = "amqp"
     \/ step[j] \in {"open", "create"}
  /\ Fail(j, "Other")
  /\ conn' = ConnectionReturned(j)
  /\ UNCHANGED <<rvars, world, chan>>

(* Channels close; the pool notices it when it checks the channel (`check`).  What *)
(* was on its way through them is lost.                                            *)
Closed(closed) ==
  /\ chan' = [c \in Channel |-> IF c \notin closed THEN chan[c]
                                ELSE IF chan[c].by = None THEN None
                                ELSE [chan[c] EXCEPT !.alive = FALSE]]
  /\ stream' = [l \in DOMAIN stream |-> IF l \in closed THEN <<>> ELSE stream[l]]
  /\ lost' = lost \cup UNION {ToSet(stream[c]) : c \in closed}

ConnectionLost(k) ==
  /\ "outage" \in Env
  /\ conn[k] # None
  /\ Closed({c \in Channel : chan[c] # None /\ chan[c].on = k})
  /\ conn' = [conn EXCEPT ![k] = None]
  /\ step' = [j \in Job |-> IF conn[k].by = j THEN "Other" ELSE step[j]]
  /\ UNCHANGED <<rvars, at, got, refused, calls, broker>>

(* get_queue_name, and the routing key of send_message *)
QueueName(h) == IF Opts.amqp_hook_opts.routing_key THEN "key" ELSE h

(* A message that arrives, or that no queue is bound for: basic_publish is not mandatory. *)
Deliver(l) ==
  /\ stream[l] # <<>>
  /\ l \in Channel => "exchange" \in broker
  /\ stream' = [stream EXCEPT ![l] = Tail(@)]
  /\ IF l = "nats" THEN Receives("nats", Head(stream[l]))
     ELSE IF QueueName(HookOf(Head(stream[l]))) \in broker THEN Receives("amqp", Head(stream[l]))
     ELSE UNCHANGED got
  /\ UNCHANGED <<rvars, sends, refused, calls, lost, broker, pools>>

(* Without the exchange, the broker closes the channel. *)
NoExchange(c) ==
  /\ stream[c] # <<>> /\ "exchange" \notin broker
  /\ Closed({c})
  /\ UNCHANGED <<rvars, sends, got, refused, calls, broker, conn>>
-----------------------------------------------------------------------------
(* create_file and terminate up to the await of the pre-hook; write_bytes has none. *)
Arrive(r) ==
  /\ Handled(r)
  /\ phase' = [phase EXCEPT ![r] = "open"]
  /\ IF hook_is_active(<<r, "pre">>) THEN Begin(<<r, "pre">>) ELSE UNCHANGED sends
  /\ UNCHANGED <<settings, request, resp, found_errors, world, pools>>

(* The checks before the pre-hook, and get_info.  What may fail later: a part of a *)
(* final upload, remove_info, any storage call.                                    *)
Checks ==
  [POST |-> {400}, DELETE |-> {StatusCode.FileNotFound, StatusCode.Other},
   PATCH |-> {403} \cup {StatusCode[e] : e \in {"FileNotFound", "WrongOffset", "FrozenFile", "Other"}}]
Failures ==
  [POST |-> {400, StatusCode.FileNotFound, StatusCode.Other},
   DELETE |-> {StatusCode.FileNotFound, StatusCode.Other}, PATCH |-> {StatusCode.Other}]

Reject(r) ==
  /\ Handled(r)
  /\ \E status \in Checks[request[r].method] : Answer(r, status)
  /\ UNCHANGED <<sends, world, pools>>

WithoutWaiting(r) == phase[r] = "open"   \* mutant of Allowed: spawns the pre-hook, too
Allowed(r) ==
  phase[r] = "open" /\ (hook_is_active(<<r, "pre">>) => step[<<r, "pre">>] = "ok")

(* The storage calls, tokio::spawn of the post-hook, and the answer. *)
Work(r) ==
  /\ Allowed(r)
  /\ Answer(r, IF request[r].method = "POST" THEN 201 ELSE 204)
  /\ IF hook_is_active(<<r, "post">>) THEN Begin(<<r, "post">>) ELSE UNCHANGED sends
  /\ UNCHANGED <<world, pools>>

WorkFails(r) ==
  /\ Allowed(r)
  /\ \E status \in Failures[request[r].method] : Answer(r, status)
  /\ UNCHANGED <<sends, world, pools>>

(* `?` after the pre-hook: the client gets the status of the HTTP hook. *)
Cancel(r) ==
  /\ phase[r] = "open"
  /\ CASE step[<<r, "pre">>] = "HTTPHookError" -> \E status \in HookStatus : Answer(r, status)
       [] step[<<r, "pre">>] \in {"HookError", "Other"} -> Answer(r, StatusCode[step[<<r, "pre">>]])
       [] step[<<r, "pre">>] = "panic" -> NoResponse(r)
       [] OTHER -> FALSE
  /\ UNCHANGED <<sends, world, pools>>

(* The handler is dropped where it is; what it holds goes back to the pools. *)
Disconnect(r) ==
  /\ "disconnect" \in Env
  /\ phase[r] = "open"
  /\ NoResponse(r)
  /\ step' = [step EXCEPT ![<<r, "pre">>] = IF Running(<<r, "pre">>) THEN "dropped" ELSE @]
  /\ chan' = ChannelReturned(<<r, "pre">>)
  /\ conn' = ConnectionReturned(<<r, "pre">>)
  /\ UNCHANGED <<at, world>>
-----------------------------------------------------------------------------
(* The pools are empty, until `prepare` of the AMQP notifier has opened a channel and *)
(* given it back.                                                                     *)
EmptyPool(P) == [x \in P |-> None]
FirstChannel(k, c) ==
  /\ conn' = [EmptyPool(Connection) EXCEPT ![k] = [by |-> None]]
  /\ chan' = [EmptyPool(Channel) EXCEPT ![c] = [on |-> k, by |-> None, alive |-> TRUE]]

HooksInit ==
  /\ at = [j \in Job |-> 0]
  /\ step = [j \in Job |-> "none"]
  /\ got = [s \in SinkNames |-> <<>>]
  /\ refused = {}
  /\ calls = {}
  /\ stream = [l \in {"nats"} \cup Channel |-> <<>>]
  /\ lost = {}
  /\ conn = EmptyPool(Connection)
  /\ chan = EmptyPool(Channel)

(* What tokio, a recipient that answers, and the broker do for send j. *)
SendStep(j) ==
  \/ Call(j)
  \/ Accept(j)
  \/ PublishNats(j)
  \/ ReuseChannel(j)
  \/ OpenChannel(j)
  \/ BorrowConnection(j)
  \/ CreateChannel(j)
  \/ Publish(j)

SendFails(j) ==
  \/ CallFails(j)
  \/ Refuse(j)
  \/ NoAnswer(j)
  \/ AmqpFails(j)

HandlerStep(r) ==
  \/ Arrive(r)
  \/ Reject(r)
  \/ Work(r)
  \/ WorkFails(r)
  \/ Cancel(r)
  \/ Disconnect(r)

HooksNext ==
  \/ \E j \in Job : SendStep(j) \/ SendFails(j)
  \/ \E r \in Req : HandlerStep(r)
  \/ \E s \in SinkNames, j \in Job : LateArrival(s, j)
  \/ \E l \in DOMAIN stream : Deliver(l)
  \/ \E c \in Channel : NoExchange(c)
  \/ \E k \in Connection : ConnectionLost(k)

(* Every running send gets its turn: tokio polls it, and an awaited recipient *)
(* answers, or the timeout of the call does.  Streams are delivered.          *)
HooksFair ==
  /\ \A j \in Job : WF_nvars(SendStep(j))
  /\ \A l \in {"nats"} \cup Channel : WF_nvars(Deliver(l))
-----------------------------------------------------------------------------
LentConnection == [by : Job \cup {None}]
LentChannel == [on : Connection, by : Job \cup {None}, alive : BOOLEAN]

ASSUME NoneAssumption == None \notin Response \cup Job \cup LentConnection \cup LentChannel

(* What the variables of Router and of this module are; a send that goes on is at a *)
(* notifier that the manager has.                                                   *)
TypeOK ==
  /\ request \in [Req -> HttpRequest]
  /\ phase \in [Req -> {"idle", "open", "done"}]
  /\ resp \in [Req -> Response \cup {None}]
  /\ found_errors \in Nat
  /\ at \in [Job -> 0..Len(Order)]
  /\ step \in [Job -> Waiting \cup Ended]
  /\ \A j \in Job : Running(j) => at[j] \in Sinks
  /\ got \in [SinkNames -> Seq(Job)]
  /\ refused \subseteq SinkNames \X Job
  /\ calls \subseteq SinkNames \X Job
  /\ stream \in [{"nats"} \cup Channel -> Seq(Job)]
  /\ lost \subseteq Job
  /\ chan \in [Channel -> LentChannel \cup {None}]
  /\ conn \in [Connection -> LentConnection \cup {None}]

(* Properties.  Each holds under any Env. *)

Told(s) == ToSet(got[s]) \cup {j \in Job : <<s, j>> \in calls}

(* A no is final, whoever says it and whenever it comes: if a recipient that is *)
(* awaited refused the pre-hook of a request, the request is not carried out,   *)
(* its client is not told that it was, and nobody gets its post-hook.           *)
RefusalCancels ==
  \A s \in SinkNames, r \in Req : <<s, <<r, "pre">>>> \in refused =>
    /\ Answered(r) => resp[r].status \notin 200..299
    /\ step[<<r, "post">>] = "none"

(* Two answers of the same server agree.  What the answer to OPTIONS does not list *)
(* is answered with 405, and what it lists is not, but for a request that an HTTP  *)
(* hook refused, with whatever status; an extension is listed with the one that it *)
(* depends on; if algorithms are listed, no PATCH with a wrong checksum succeeds.  *)
(* (The first bytes of an upload, in a POST, are taken with any checksum.)         *)
AdvertisedIsServed ==
  \A o, r \in Req : Answered(o) /\ Answered(r) /\ resp[o].extensions # {} =>
    /\ \A e \in Extensions : <<request[r].path, request[r].method>> \in AddedBy(e) =>
         IF e \in resp[o].extensions
         THEN resp[r].status = 405 => step[<<r, "pre">>] = "HTTPHookError"
         ELSE resp[r].status = 405
    /\ resp[o].extensions \cap {"creation-with-upload", "creation-defer-length"} # {} =>
         "creation" \in resp[o].extensions
    /\ resp[o].algorithms /\ request[r].method = "PATCH" /\ request[r].checksum = "wrong" =>
         IsError(resp[r].status)

(* A recipient is told only what every awaited recipient before it in the order *)
(* of the manager has accepted, so a hook that the first one refuses is never   *)
(* seen by the others.                                                          *)
ToldInOrder ==
  \A j \in Job, k, l \in Sinks :
    k < l /\ Awaited(Order[k]) /\ Awaited(Order[l]) /\ j \in Told(Order[l]) =>
      j \in ToSet(got[Order[k]]) /\ <<Order[k], j>> \notin refused

(* A recipient that gets both hooks of a request gets the pre-hook first, however *)
(* late a call arrives.  AMQP is left out: the two messages may take two channels. *)
PreBeforePost ==
  \A s \in SinkNames \ {"amqp"}, r \in Req : \A m, n \in DOMAIN got[s] :
    got[s][m] = <<r, "post">> /\ got[s][n] = <<r, "pre">> => n < m

(* A send that is about to publish has exactly one channel, no other send has it, and *)
(* a channel that seems usable is on a connection that is still there.                *)
ChannelsSound ==
  /\ \A j \in Job : step[j] = "publish" <=> \E c \in Channel : chan[c] # None /\ chan[c].by = j
  /\ \A c, d \in Channel : chan[c] # None /\ chan[d] # None /\ chan[c].by # None
       /\ chan[c].by = chan[d].by => c = d
  /\ \A c \in Channel : chan[c] # None /\ chan[c].alive => conn[chan[c].on] # None

(* HooksFair.  Every send ends: none waits for ever for a place in the pools, which *)
(* are used one inside the other (a channel needs a connection while it is opened). *)
SendsEnd == \A j \in Job : Running(j) ~> ~Running(j)

(* HooksFair.  With the queues declared, a post-hook reaches every recipient, unless *)
(* one refuses it, a call fails or it is lost with its AMQP connection; whether the  *)
(* client is still there makes no difference to the spawned task.                    *)
PostHookArrives ==
  \A r \in Req : LET j == <<r, "post">> IN
    Running(j) /\ "queues" \in Opts.amqp_hook_opts.declare ~>
      \/ step[j] \in Failed \cup {"panic"}
      \/ \A s \in Opts.sinks : j \in ToSet(got[s]) \/ (s = "amqp" /\ j \in lost)
=============================================================================

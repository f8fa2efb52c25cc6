-------------------------------- MODULE Main --------------------------------
(***************************************************************************)
(* main(): from the command line to a server that serves, and then what    *)
(* Router and Notifications say.                                           *)
(*                                                                         *)
(* State::new gets and prepares the data storage, then the info storage,   *)
(* then the notifiers; nothing is undone when a later one fails.           *)
(***************************************************************************)
EXTENDS Notifications

CONSTANT Scenarios  \* the options that the server is started with, and the requests it gets

ASSUME ScenariosAssumption ==
  Scenarios \subseteq [conf : RustusConf, request : [Req -> HttpRequest]]

Storage == conf.storage_opts
InfoStorage == conf.info_storage_opts

Goes(s) == stage' = s
Parent == [root |-> "root", data |-> "root", nested |-> "data"]
WithParents(d) == {"root", Parent[d], d}
-----------------------------------------------------------------------------
FromArgs ==
  /\ stage = "parse"
  /\ IF Accepted(conf)
     THEN conf' = [conf EXCEPT !.tus_extensions = Normalised(@)] /\ Goes("data storage")
     ELSE Goes("exit") /\ UNCHANGED conf
  /\ UNCHANGED <<running, dirs>>

(* AvailableDataStorages::get: from_string_or_path of both keys, the unwrap of what the *)
(* bucket needs, and the headers, that must be JSON.                                     *)
BucketBuilds == Storage.s3_headers # "text"
Found(key) == key \in {"given", "fromFile"}
CanGet ==
  Storage.storage # "file-storage" =>
    /\ Found(Storage.access_key) /\ Found(Storage.secret_key)
    /\ Storage.s3 = {"bucket", "region", "url"}
    /\ BucketBuilds

(* prepare: only FileDataStorage does anything, create_dir_all. *)
NotPrepared == dirs                      \* mutant of Prepared
Prepared ==
  IF Storage.storage = "file-storage" THEN dirs \cup WithParents(Storage.data_dir) ELSE dirs

PrepareDataStorage ==
  /\ stage = "data storage"
  /\ IF CanGet
     THEN \/ Goes("info storage") /\ dirs' = Prepared
          \/ "fault" \in Env /\ Prepared # dirs /\ Goes("exit") /\ UNCHANGED dirs
     ELSE Goes("panic") /\ UNCHANGED dirs
  /\ UNCHANGED <<running, conf>>

(* FileInfoStorage makes one directory, whose parent must be there; Redis is not asked. *)
Creatable(d) == Parent[d] \in dirs
CanPrepareInfo ==
  IF InfoStorage.info_storage = "file-info-storage" THEN Creatable(InfoStorage.info_dir)
  ELSE InfoStorage.info_db_dsn = "redis"

InfoPrepared ==
  IF InfoStorage.info_storage = "file-info-storage" THEN dirs \cup {InfoStorage.info_dir} ELSE dirs

PrepareInfoStorage ==
  /\ stage = "info storage"
  /\ IF CanPrepareInfo
     THEN \/ Goes("notifiers") /\ dirs' = InfoPrepared
          \/ "fault" \in Env /\ InfoPrepared # dirs /\ Goes("exit") /\ UNCHANGED dirs
     ELSE Goes("exit") /\ UNCHANGED dirs
  /\ UNCHANGED <<running, conf>>
-----------------------------------------------------------------------------
(* NotificationManager::new: NATS connects, and the Kafka client checks its options, *)
(* of which only the extra ones are in the model.                                    *)
NewMayFail == Opts.sinks \cap {"nats", "kafka"} # {} /\ "fault" \in Env
KafkaBuilds == "kafka" \in Opts.sinks => Opts.kafka_hook_opts.extra_kafka_opts # "unknown"

NewNotifiers ==
  /\ stage = "notifiers"
  /\ \/ KafkaBuilds /\ Goes("prepare")
     \/ (NewMayFail \/ ~KafkaBuilds) /\ Goes("exit")
  /\ UNCHANGED <<running, conf, dirs>>

(* AMQPNotifier::prepare declares the exchange and binds the queue of every hook, if *)
(* it is to; nothing can be bound to an exchange that is not there.                  *)
WithExchange == broker \cup (Opts.amqp_hook_opts.declare \cap {"exchange"})
BoundByName == HookNames                 \* mutant of BoundQueues: forgets the routing key
BoundQueues == {QueueName(h) : h \in HookNames}

PrepareAmqp ==
  /\ stage = "prepare" /\ "amqp" \in Opts.sinks
  /\ "queues" \in Opts.amqp_hook_opts.declare => "exchange" \in WithExchange
  /\ Goes("router")
  /\ broker' = WithExchange \cup
       (IF "queues" \in Opts.amqp_hook_opts.declare THEN BoundQueues ELSE {})
  /\ \E k \in Connection, c \in Channel : FirstChannel(k, c)
  /\ UNCHANGED <<exchanges, sends, got, refused, calls, stream, lost, conf, dirs>>

PrepareAmqpFails ==
  /\ stage = "prepare" /\ "amqp" \in Opts.sinks
  /\ "fault" \in Env \/ ("queues" \in Opts.amqp_hook_opts.declare /\ "exchange" \notin WithExchange)
  /\ Goes("exit")
  /\ UNCHANGED <<running, conf, dirs>>

NothingToPrepare ==
  /\ stage = "prepare" /\ "amqp" \notin Opts.sinks
  /\ Goes("router")
  /\ UNCHANGED <<running, conf, dirs>>
-----------------------------------------------------------------------------
(* build_router: axum panics if two handlers overlap, or if it is to nest at the root. *)
BuildRouter ==
  /\ stage = "router"
  /\ Goes(IF Overlapping \/ BaseUrl = "" THEN "panic" ELSE "bind")
  /\ UNCHANGED <<running, conf, dirs>>

(* The host must be an address; the port may be taken. *)
Bind ==
  /\ stage = "bind"
  /\ IF conf.host # "address" THEN Goes("panic")
     ELSE Goes("serving") \/ ("fault" \in Env /\ Goes("exit"))
  /\ UNCHANGED <<running, conf, dirs>>

(* create_file of the storage: data_file_path needs the directory (canonicalize). *)
CanStore == Storage.storage \in {"file-storage", "hybrid-s3"} => Storage.data_dir \in dirs
-----------------------------------------------------------------------------
Init ==
  /\ \E s \in Scenarios : conf = s.conf /\ request = s.request
  /\ stage = "parse"
  /\ dirs \in {{"root"}, {"root", "data"}}
  /\ RouterInit
  /\ HooksInit
  /\ broker \in {{}, {"exchange"}}

Start ==
  \/ FromArgs
  \/ PrepareDataStorage
  \/ PrepareInfoStorage
  \/ NewNotifiers
  \/ PrepareAmqp
  \/ PrepareAmqpFails
  \/ NothingToPrepare
  \/ BuildRouter
  \/ Bind

(* Requests come when it serves; everything else follows from them. *)
RoutesNext(r) == Dispatch(r) /\ UNCHANGED <<sends, world, pools>>

Next ==
  \/ Start
  \/ \E r \in Req : RoutesNext(r)
  \/ HooksNext

Spec == Init /\ [][Next]_nvars /\ HooksFair
-----------------------------------------------------------------------------
(* A server that serves with file storages can keep what it is sent: where it is going *)
(* to put data and infos exists, although one directory may be inside the other.       *)
StorageIsReady ==
  stage = "serving" =>
    /\ Storage.storage = "file-storage" => CanStore
    /\ InfoStorage.info_storage = "file-info-storage" => InfoStorage.info_dir \in dirs

(* What base.rs asks of prepare, of every storage: it fails if something is missing *)
(* that "might be a problem later on".  The directory of the hybrid storage is not  *)
(* looked at.                                                                       *)
ServingCanStore == stage = "serving" => CanStore
=============================================================================

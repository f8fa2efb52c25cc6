------------------------------- MODULE MCMain -------------------------------
(* Instances of Main for TLC. *)
EXTENDS Main

CONSTANTS r1, r2, here, there, h1, h2, k1

-----------------------------------------------------------------------------
(* The default options, but for the directories, which are one in the other. *)
Default ==
  [host |-> "address", url |-> "/files", cors |-> {}, tus_extensions |-> ExtensionOrder,
   storage_opts |-> [storage |-> "file-storage", data_dir |-> "data", s3 |-> {},
                     access_key |-> "none", secret_key |-> "none", s3_headers |-> "none"],
   info_storage_opts |-> [info_storage |-> "file-info-storage", info_dir |-> "nested",
                          info_db_dsn |-> "none"],
   notification_opts |->
     [hooks |-> HookNames, sinks |-> {},
      amqp_hook_opts |-> [declare |-> {"exchange", "queues"}, routing_key |-> FALSE],
      kafka_hook_opts |-> [topic |-> {}, extra_kafka_opts |-> "none"],
      nats_hook_opts |-> [subject |-> {}, login |-> {}, wait_for_replies |-> FALSE]]]

To(sinks) == [Default EXCEPT !.notification_opts.sinks = sinks]
Amqp(declare, key) ==
  [To({"amqp"}) EXCEPT !.notification_opts.amqp_hook_opts = [declare |-> declare, routing_key |-> key]]
Keyed == [To({"file", "amqp"}) EXCEPT !.notification_opts.amqp_hook_opts.routing_key = TRUE]
Replies == [To({"nats", "kafka"}) EXCEPT !.notification_opts.nats_hook_opts.wait_for_replies = TRUE]

Hybrid ==
  [Default EXCEPT !.storage_opts =
     [storage |-> "hybrid-s3", data_dir |-> "data", s3 |-> {"bucket", "region", "url"},
      access_key |-> "given", secret_key |-> "fromFile", s3_headers |-> "json"]]
HybridRedis ==
  [Hybrid EXCEPT !.info_storage_opts =
     [info_storage |-> "redis-info-storage", info_dir |-> "data", info_db_dsn |-> "redis"]]

(* Servers that start, and send no hooks. *)
Serving ==
  {Default, HybridRedis, [Default EXCEPT !.cors = {{here}}],
   [Default EXCEPT !.tus_extensions = <<"creation-with-upload", "checksum">>],
   [Default EXCEPT !.tus_extensions = <<"termination", "creation-defer-length">>],
   [Default EXCEPT !.tus_extensions = <<"getting">>]}

(* Options that main() may not survive. *)
Odd ==
  {Hybrid, [Default EXCEPT !.info_storage_opts = HybridRedis.info_storage_opts],
   [Default EXCEPT !.host = "name"],
   [Default EXCEPT !.url = "/"],
   [Default EXCEPT !.tus_extensions = <<"creation", "creation">>],
   [Default EXCEPT !.tus_extensions = <<"?">>],
   [Default EXCEPT !.storage_opts.storage = "s3"],
   [Hybrid EXCEPT !.storage_opts.s3_headers = "text"],
   [Hybrid EXCEPT !.storage_opts.secret_key = "missingFile"],
   [Hybrid EXCEPT !.storage_opts.s3 = {"bucket"}],
   [HybridRedis EXCEPT !.info_storage_opts.info_db_dsn = "none"],
   [HybridRedis EXCEPT !.info_storage_opts.info_db_dsn = "text"],
   [To({"kafka"}) EXCEPT !.notification_opts.kafka_hook_opts.extra_kafka_opts = "unknown"],
   [To({"kafka"}) EXCEPT !.notification_opts.kafka_hook_opts.topic = {"topic", "prefix"}],
   [To({"nats"}) EXCEPT !.notification_opts.nats_hook_opts.login = {"user"}]}

(* Servers that send hooks. *)
Hooked ==
  {Keyed, To({"http1", "http2"}), To({"dir", "nats"}), Replies,
   Amqp({}, FALSE), Amqp({"queues"}, TRUE)}
-----------------------------------------------------------------------------
R(path, method) ==
  [path |-> path, method |-> method, whole |-> FALSE, origin |-> here,
   headers |-> {"Content-Type", "Upload-Offset"}, checksum |-> None]
Post   == R("base", "POST")
Delete == R("file", "DELETE")
LastChunk == [R("file", "PATCH") EXCEPT !.whole = TRUE]
With(checksum) == [R("file", "PATCH") EXCEPT !.checksum = checksum]

Pages ==
  {R("base", "OPTIONS"), Post, Delete, R("file", "GET"), R("health", "GET"), R("metrics", "POST"),
   R("unknown", "GET"), With("wrong"), With("malformed"), With("right"),
   [Post EXCEPT !.checksum = "wrong"],
   [With("unknown") EXCEPT !.origin = there],
   [R("file", "PATCH") EXCEPT !.headers = {"Content-Type"}]}

(* Two pages at servers without hooks, two uploads at servers with hooks, and the *)
(* last chunks of two uploads, or the list of extensions and a hook that may say  *)
(* that one is not served.                                                        *)
MCScenarios ==
  [conf : Serving, request : [Req -> Pages]]
    \cup [conf : Odd, request : {[r \in Req |-> Post]}]
    \cup [conf : Hooked, request : {[r \in Req |-> IF r = r1 THEN Post ELSE Delete]}]
    \cup [conf : {To({"http1"})},
          request : {[r \in Req |-> LastChunk],
                     [r \in Req |-> IF r = r1 THEN Post ELSE R("base", "OPTIONS")]}]
AnyEnv == EnvKinds
=============================================================================

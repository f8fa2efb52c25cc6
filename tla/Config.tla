------------------------------- MODULE Config -------------------------------
(***************************************************************************)
(* RustusConf: the options that decide what the server does, which command *)
(* lines clap accepts, and what from_args makes of them.                   *)
(*                                                                         *)
(* Option values are reduced to what the server tells apart: a directory   *)
(* is one of Path, a key or a header map is good or not, a CORS pattern is *)
(* the set of the origins that it matches.  "?" is a name that no variant  *)
(* of the enum has.                                                        *)
(***************************************************************************)
EXTENDS Integers, SequencesExt

CONSTANT Origin  \* origins of web pages

VARIABLES
  conf,   \* the options of this server: a command line, then normalised by from_args
  stage,  \* how far main() is; "exit": it returned an error, "panic": it panicked
  dirs    \* the directories that exist

settings == <<conf, stage, dirs>>

DataStorages == {"file-storage", "hybrid-s3", "s3"}
InfoStorages == {"file-info-storage", "redis-info-storage"}

(* enum Extensions, in the order of its declaration *)
ExtensionOrder == <<"creation-defer-length", "creation-with-upload", "creation", "termination",
                    "concatenation", "getting", "checksum">>
Extensions == ToSet(ExtensionOrder)

HookNames == {"pre-create", "post-create", "post-receive",
              "pre-terminate", "post-terminate", "post-finish"}

(* Everybody send_message may notify; of the HTTP urls there are at most two. *)
SinkNames == {"file", "dir", "http1", "http2", "nats", "amqp", "kafka"}

(* Directories: "root" exists; "data" is in it, and "nested" is in "data". *)
Path == {"root", "data", "nested"}

DataStorageOptions ==
  [storage : DataStorages \cup {"?"}, data_dir : Path, s3 : SUBSET {"bucket", "region", "url"},
   access_key : {"none", "given", "fromFile", "missingFile"},
   secret_key : {"none", "given", "fromFile", "missingFile"}, s3_headers : {"none", "json", "text"}]
InfoStoreOptions ==
  [info_storage : InfoStorages \cup {"?"}, info_dir : Path, info_db_dsn : {"none", "redis", "text"}]
AMQPHooksOptions == [declare : SUBSET {"exchange", "queues"}, routing_key : BOOLEAN]
KafkaHookOptions ==
  [topic : SUBSET {"topic", "prefix"}, extra_kafka_opts : {"none", "known", "unknown", "malformed"}]
NatsHookOptions ==
  [subject : SUBSET {"subject", "prefix"}, login : SUBSET {"user", "password"},
   wait_for_replies : BOOLEAN]
NotificationsOptions ==
  [hooks : SUBSET (HookNames \cup {"?"}), sinks : SUBSET SinkNames, amqp_hook_opts : AMQPHooksOptions,
   kafka_hook_opts : KafkaHookOptions, nats_hook_opts : NatsHookOptions]
RustusConf ==
  [host : {"address", "name"}, url : {"/", "/files"}, cors : SUBSET SUBSET Origin,
   tus_extensions : Seq(Extensions \cup {"?"}), storage_opts : DataStorageOptions,
   info_storage_opts : InfoStoreOptions, notification_opts : NotificationsOptions]
-----------------------------------------------------------------------------
(* FromStr of the enums (utils/enums.rs) and of ExtraKafkaOptions: a value that *)
(* cannot be parsed is an error of the command line.                            *)
Parsed(c) ==
  /\ c.storage_opts.storage \in DataStorages
  /\ c.info_storage_opts.info_storage \in InfoStorages
  /\ ToSet(c.tus_extensions) \subseteq Extensions
  /\ c.notification_opts.hooks \subseteq HookNames
  /\ c.notification_opts.kafka_hook_opts.extra_kafka_opts # "malformed"

(* required_if_eq *)
BucketGiven(o) == o.storage = "hybrid-s3" => o.s3 = {"bucket", "region", "url"}

(* required_if_eq_any *)
DsnGiven(o) == o.info_storage = "redis-info-storage" => o.info_db_dsn # "none"

(* conflicts_with *)
OneTopic(o) == o.topic # {"topic", "prefix"}

(* conflicts_with, requires *)
NatsCompatible(o) ==
  /\ o.subject # {"subject", "prefix"}
  /\ o.login \in {{}, {"user", "password"}}

(* Parser::parse returns; otherwise it prints the error and exits. *)
Accepted(c) ==
  /\ Parsed(c) /\ BucketGiven(c.storage_opts) /\ DsnGiven(c.info_storage_opts)
  /\ OneTopic(c.notification_opts.kafka_hook_opts)
  /\ NatsCompatible(c.notification_opts.nats_hook_opts)

(* normalize_extentions: the extension the others depend on, then sort(). *)
NeedsCreation(ext) ==
  /\ {"creation-with-upload", "creation-defer-length"} \cap ToSet(ext) # {}
  /\ "creation" \notin ToSet(ext)

(* Equal names are the same, so sort() puts as many of each as there are in its place. *)
Copies(ext, e) == [j \in 1..Cardinality({k \in DOMAIN ext : ext[k] = e}) |-> e]
Sorted(ext) == FlattenSeq([k \in DOMAIN ExtensionOrder |-> Copies(ext, ExtensionOrder[k])])

OnlySorted(ext) == Sorted(ext)           \* mutant of Normalised
Normalised(ext) == Sorted(IF NeedsCreation(ext) THEN Append(ext, "creation") ELSE ext)

(* base_url() is empty if the url is only a slash. *)
BaseUrl == IF conf.url = "/" THEN "" ELSE "files"
=============================================================================

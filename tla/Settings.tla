------------------------------ MODULE Settings ------------------------------
(***************************************************************************)
(* Configuration: the reader's defaults and checks (internal/cdc/config.go,*)
(* validation.go), the daemon's (internal/daemon/config.go) and the retry  *)
(* delays the reader's settings give (internal/cdc/stream.go).             *)
(*                                                                         *)
(* A reader's settings are a function of the names of its numeric fields;  *)
(* durations and sizes are small numbers, fractions and jitter are in      *)
(* hundredths.  Names are texts of which only the validity matters.        *)
(***************************************************************************)
EXTENDS Positions, FiniteSets

Limits == {"MaxTransactionBytes", "MaxTransactionChanges", "MaxValueBytes", "SnapshotBatchRows"}
Times == {"ConnectionTimeout", "StatusInterval", "ShutdownTimeout",
          "RetentionCheckInterval", "RetentionSampleInterval"}
Retention == {"MaxRetainedWALBytes", "RetentionWarnFraction", "RetentionDegradeFraction"}
Retry == {"InitialBackoff", "MaxBackoff", "MaxAttempts", "Jitter"}
Fields == Limits \cup Times \cup Retention \cup Retry

\* The defaults, to scale: 16 MiB and 1 MiB, 50% and 80%, 250 ms and 10 s, 8 attempts, 20%.
Default(field) ==
  CASE field = "MaxTransactionBytes" -> 16
    [] field = "MaxRetainedWALBytes" -> 100
    [] field = "RetentionWarnFraction" -> 50
    [] field = "RetentionDegradeFraction" -> 80
    [] field = "MaxBackoff" -> 40
    [] field = "MaxAttempts" -> 8
    [] field = "Jitter" -> 20
    [] OTHER -> 1

normalizeReaderConfig(config) ==
  [field \in Fields |-> IF config[field] = 0 THEN Default(field) ELSE config[field]]

\* Mutant: a degrade fraction of the whole budget or more is let through.
ReaderConfigWithoutUpperBound(config) ==
  /\ \A field \in Limits \cup Times \cup {"MaxRetainedWALBytes"} : config[field] > 0
  /\ 0 < config["RetentionWarnFraction"]
  /\ config["RetentionWarnFraction"] < config["RetentionDegradeFraction"]
  /\ config["MaxValueBytes"] <= config["MaxTransactionBytes"]
  /\ config["InitialBackoff"] > 0 /\ config["MaxBackoff"] >= config["InitialBackoff"]
  /\ config["MaxAttempts"] >= 0 /\ config["Jitter"] \in 0 .. 100

\* The numeric checks; names, DatabaseURL and the sink are required as well.
validateReaderConfig(config) ==
  /\ \A field \in Limits \cup Times \cup {"MaxRetainedWALBytes"} : config[field] > 0
  /\ 0 < config["RetentionWarnFraction"]
  /\ config["RetentionWarnFraction"] < config["RetentionDegradeFraction"]
  /\ config["RetentionDegradeFraction"] < 100
  /\ config["MaxValueBytes"] <= config["MaxTransactionBytes"]
  /\ config["InitialBackoff"] > 0 /\ config["MaxBackoff"] >= config["InitialBackoff"]
  /\ config["MaxAttempts"] >= 0 /\ config["Jitter"] \in 0 .. 100

\* InitialBackoff, doubled with every attempt after the first, and at most MaxBackoff.
backoff(config, attempt) ==
  LET capped(delay) == IF delay < config["MaxBackoff"] THEN delay ELSE config["MaxBackoff"]
      base[n \in 0 .. attempt - 1] == IF n = 0 THEN capped(config["InitialBackoff"]) ELSE capped(2 * base[n - 1])
  IN  base[attempt - 1]

\* The delay before an attempt, in ten-thousandths; random is in hundredths, below 100.
retryDelay(config, attempt, random) ==
  backoff(config, attempt) * (10000 + (2 * random - 100) * config["Jitter"])

-----------------------------------------------------------------------------
(* Projection specs and the daemon.  An identifier is valid or not: NoName is *)
(* the empty one, and a name in Quoted needs quotes.                          *)
NoName == ""
Quoted == {"Q"}
Identifier(name) == name # NoName /\ name \notin Quoted

sameStrings(left, right) ==
  Len(left) = Len(right) /\ \A i \in DOMAIN left : left[i] = right[i]

validateProjectionSpecConfig(spec) ==
  /\ spec.sourceID # << >> /\ spec.primaryKey # << >>
  /\ Identifier(spec.schema) /\ Identifier(spec.table) /\ Identifier(spec.scopeColumn)
  /\ \A i \in DOMAIN spec.primaryKey : Identifier(spec.primaryKey[i])
  /\ \A i, j \in DOMAIN spec.primaryKey : spec.primaryKey[i] = spec.primaryKey[j] => i = j
  /\ \E i \in DOMAIN spec.primaryKey : spec.primaryKey[i] = spec.scopeColumn

\* A publication of every row change and of no TRUNCATE.
validatePublication(publication) ==
  publication.exists /\ ~publication.truncate /\ {"insert", "update", "delete"} \subseteq publication.operations

\* validateProjectionSpec: the live table's columns, its primary key in order
\* and its place in the publication.
validateProjectionSpec(spec, table) ==
  /\ table.exists
  /\ spec.scopeColumn \in table.columns
  /\ table.primaryKey # << >> /\ sameStrings(table.primaryKey, spec.primaryKey)
  /\ table.published

opsValid(ops) ==
  /\ ops.mutexProfileFraction >= 0 /\ ops.blockProfileRate >= 0
  /\ ops.mutexProfileFraction > 0 \/ ops.blockProfileRate > 0 => ops.pprof
  /\ ops.pprof => ops.listenAddress # NoName

\* The settings the daemon's file can give the reader; the rest stay at their defaults.
readerConfig(cfg) ==
  [field \in Fields |->
     CASE field = "MaxRetainedWALBytes" -> cfg.maxRetained
       [] field = "RetentionWarnFraction" -> cfg.warn
       [] field = "RetentionDegradeFraction" -> cfg.degrade
       [] field = "RetentionSampleInterval" -> cfg.sampleInterval
       [] OTHER -> 0]

\* The specs of the file's projections, all of the daemon's source.
projectionSpecs(cfg) == {[spec EXCEPT !.sourceID = cfg.sourceID] : spec \in cfg.specs}

\* ParseJSONConfig after the file has decoded, and Config.validate.
parseConfig(cfg) ==
  [cfg EXCEPT !.shutdownTimeout = IF @ = 0 THEN 10 ELSE @]

configValid(cfg) ==
  /\ cfg.databaseURL # NoName /\ cfg.listenAddress # NoName /\ cfg.specs # {}
  /\ cfg.shutdownTimeout >= 0
  /\ opsValid(cfg.ops)
  /\ validateReaderConfig(normalizeReaderConfig(readerConfig(cfg)))
  /\ \A spec \in projectionSpecs(cfg) : validateProjectionSpecConfig(spec)
  /\ ValidSourceID(cfg.sourceID)
=============================================================================

------------------------------ MODULE Failures ------------------------------
(***************************************************************************)
(* What becomes of an error: its classification and whether the reader     *)
(* retries it (internal/cdc/errors.go), the gRPC status a watch ends with  *)
(* (internal/server/server.go), and whether the SDK gives up on it         *)
(* (sdk/go/watchd/client.go).  An error is its kind, and whether a         *)
(* classifiedError carries a verdict of its own.                           *)
(***************************************************************************)
EXTENDS Integers

Plain(kind) == [kind |-> kind, verdict |-> "none"]
Retryable(kind) == [kind |-> kind, verdict |-> "retryable"]
Terminal(kind) == [kind |-> kind, verdict |-> "terminal"]

\* Kinds isRetryable names; any other kind without a verdict is retried.
NotRetried == {"InvalidReaderConfig", "InvalidDatabaseURL", "MalformedReplicationData",
               "UnexpectedReplicationMessage", "SlotInvalidated", "PostgresServer",
               "TransactionTooLarge", "TransactionTooManyChanges", "UnsupportedPGOutputMessage",
               "UnsupportedColumnEncoding", "ValueTooLarge", "SinkRejected"}

retried(err) ==
  IF err.verdict # "none" THEN err.verdict = "retryable" ELSE err.kind \notin NotRetried

\* SQLSTATEs the code tells apart; "WAL" is any state whose message says a
\* requested WAL segment was removed.
SQLStates == {"WAL", "42501", "42704", "55006", "57P01", "57P02", "57P03", "other"}

classifySQLState(sqlState) ==
  CASE sqlState = "WAL" -> Terminal("SlotInvalidated")
    [] sqlState = "42501" -> Terminal("InsufficientPrivileges")
    [] sqlState = "42704" -> Terminal("SlotInvalidated")
    [] sqlState = "55006" -> Retryable("SlotInUse")
    [] sqlState \in {"57P01", "57P02", "57P03"} -> Retryable("ReplicationEnded")
    [] OTHER -> Terminal("PostgresServer")

\* An error of opening a connection: a bad URL, a server error, or a lost network.
classifyConnectionError(cause) ==
  IF cause \in {"InvalidDatabaseURL", "DatabaseURLRequired"} THEN Plain(cause)
  ELSE IF cause = "42501" THEN classifySQLState(cause)
  ELSE Plain("SourceUnavailable")

\* requireSlot's verdict on the slot it finds.
validateSlot(slot) ==
  IF slot.slotType # "logical" \/ slot.plugin # "pgoutput" \/ ~slot.resumable THEN Plain("SlotInvalidated")
  ELSE IF slot.active THEN Retryable("SlotInUse")
  ELSE Plain("none")

\* Mutant: every refusal of the source is taken for its misconfiguration.
StatusOfAnyRefusal(err) ==
  IF err.kind = "UnknownProjection" THEN "NotFound"
  ELSE IF err.kind = "InvalidCursor" THEN "InvalidArgument" ELSE "FailedPrecondition"

\* Server.status of a watch whose context is alive and whose error is no status yet.
status(err) ==
  CASE err.kind = "UnknownProjection" -> "NotFound"
    [] err.kind = "InvalidCursor" -> "InvalidArgument"
    [] err.kind \in {"SourceUnavailable", "SourceNotStarted", "SlotInUse"} -> "Unavailable"
    [] err.kind \in {"InvalidReaderConfig", "InsufficientPrivileges"} -> "FailedPrecondition"
    [] OTHER -> "Internal"

isPermanent(code) ==
  code \in {"NotFound", "InvalidArgument", "FailedPrecondition",
            "PermissionDenied", "Unauthenticated", "Unimplemented"}
=============================================================================

------------------------------ MODULE HttpErrors ------------------------------
(***************************************************************************)
(* ragx/core/exceptions.py and ragx/api/errors.py: the code each exception *)
(* class carries, the HTTP status of a code, and the error envelope.       *)
(***************************************************************************)
EXTENDS Integers

(* default_code of the classes up to the 4xxx band. *)
RequestErrors ==
    [RAGXError |-> 9000, ConfigError |-> 9003, AuthError |-> 1002,
     RateLimitError |-> 1004, ValidationError |-> 1001, IngestError |-> 2000,
     ParseError |-> 2001, UnsupportedFormatError |-> 2002, TaskNotFoundError |-> 2003,
     DuplicateDocumentError |-> 2004, CheckpointCorruptError |-> 2005,
     ChunkError |-> 3000, ChunkNotFoundError |-> 3001, EditConflictError |-> 3002,
     ChunkTooLargeError |-> 3003, RetrievalError |-> 4000, KBNotFoundError |-> 4001,
     FilterValidationError |-> 4003]

(* default_code of the classes from the 5xxx band on. *)
SystemErrors ==
    [GraphError |-> 5000, GraphBuildError |-> 5001, GraphStoreUnavailableError |-> 5002,
     ExtractionSchemaError |-> 5003, LLMError |-> 6000, AllProvidersFailedError |-> 6001,
     CircuitOpenError |-> 6002, BudgetExceededError |-> 6003, CacheBackendError |-> 6004,
     StructuredParseError |-> 6005, AgenticError |-> 7000, AgenticPlanError |-> 7001,
     AgenticTasksFailedError |-> 7002, AgenticVerifyFailedError |-> 7003,
     InfraError |-> 9000, StoreUnavailableError |-> 9001, QueueUnavailableError |-> 9002,
     PluginContractError |-> 9004, PluginTimeoutError |-> 9005]

DefaultCode ==
    [exc \in DOMAIN RequestErrors \cup DOMAIN SystemErrors |->
        IF exc \in DOMAIN RequestErrors THEN RequestErrors[exc] ELSE SystemErrors[exc]]

(* Any exception that is not a RAGXError. *)
Unhandled == "unhandled"

(* http_status_for *)
HttpStatus(code) ==
    CASE code \in {2004, 4002, 7003} -> 200
      [] code \in {1001, 4003, 6003} -> 400
      [] code = 1002 -> 401
      [] code = 1003 -> 403
      [] code \in {2003, 3001, 4001} -> 404
      [] code = 3002 -> 409
      [] code = 2002 -> 415
      [] code \in {2001, 5003} -> 422
      [] code = 1004 -> 429
      [] code \in {6001, 7002} -> 502
      [] code \in {5001, 5002, 6002, 6004, 9001, 9002} -> 503
      [] OTHER -> 500

(* error_response and the two exception handlers: what a client is sent    *)
(* for an exception of class exc (raised with its default code).           *)
ErrorResponse(exc) ==
    IF exc = Unhandled THEN [status |-> 500, code |-> 5000]
    ELSE [status |-> HttpStatus(DefaultCode[exc]), code |-> DefaultCode[exc]]
================================================================================

----------------------------- MODULE ErrorMapping -----------------------------
(***************************************************************************)
(* How an error travels: thrown in a handler, made an AppError by          *)
(* normalizeError() (apps/api, error-handler.ts and shared/errors.ts),     *)
(* answered as an envelope, read by apiRequest() and tryGet() of the web   *)
(* application (api-client.ts), and shown.                                 *)
(*                                                                         *)
(* A message is who wrote it: "own" for a text of the code above, written  *)
(* for a reader, "framework" for Fastify's, "driver" for the text of any   *)
(* other error.  NoWait is a retryAfter that is not set.                   *)
(***************************************************************************)
EXTENDS Integers, Sequences

CONSTANTS
  WaitsMs,        \* how long, in ms, a circuit stays open or a limit lasts
  FrameworkStatus \* statuses that errors of the framework carry

NoWait == -1

(* The classes of shared/errors.ts with their statuses.                      *)
classStatus ==
  [ValidationError |-> 400, BlockedTargetError |-> 400, UnauthorizedError |-> 401,
   ForbiddenError |-> 403, NotFoundError |-> 404, ApiNotFoundError |-> 404, ConflictError |-> 409,
   PayloadTooLargeError |-> 413, RateLimitError |-> 429, UpstreamError |-> 502,
   CircuitOpenAppError |-> 503, ServiceUnavailableError |-> 503, UpstreamTimeoutError |-> 504]

newAppError(status, message, retryAfter) ==
  [statusCode |-> status, message |-> message, retryAfter |-> retryAfter]
ofClass(class, retryAfter) == newAppError(classStatus[class], "own", retryAfter)

(* The codes of PostgreSQL and the network that translateDatabaseError()     *)
(* knows, with the class each becomes.                                       *)
databaseClass ==
  [unique_violation |-> "ConflictError", foreign_key_violation |-> "ValidationError",
   check_violation |-> "ValidationError", string_data_right_truncation |-> "ValidationError",
   serialization_failure |-> "ServiceUnavailableError", query_canceled |-> "ServiceUnavailableError",
   ECONNREFUSED |-> "ServiceUnavailableError", ETIMEDOUT |-> "ServiceUnavailableError"]

(* The codes of Fastify that have a case of their own.                       *)
fastifyStatus == [FST_ERR_CTP_BODY_TOO_LARGE |-> 413, FST_ERR_CTP_INVALID_MEDIA_TYPE |-> 415,
                  FST_ERR_CTP_EMPTY_JSON_BODY |-> 400]

VARIABLES
  thrown,      \* the error, [type, code, status, ms]
  answered,    \* the answer on its way: [status, envelope, message, retryAfter]
  outcome      \* what the page got: [result, text, wait]

errorVars == <<thrown, answered, outcome>>

NothingThrown == [type |-> "none", code |-> "none", status |-> 0, ms |-> 0]
NoAnswer == [status |-> 0, envelope |-> FALSE, message |-> "none", retryAfter |-> NoWait]
NoOutcome == [result |-> "none", text |-> "none", wait |-> NoWait]
errorsInit == thrown = NothingThrown /\ answered = NoAnswer /\ outcome = NoOutcome

Thrown ==
  [type : {"AppError"}, code : DOMAIN classStatus, status : {0}, ms : WaitsMs]
  \cup [type : {"ZodError", "SsrfError", "validation", "Error"}, code : {"none"}, status : {0}, ms : {0}]
  \cup [type : {"CircuitOpenError"}, code : {"CIRCUIT_OPEN"}, status : {0}, ms : WaitsMs]
  \cup [type : {"Error"}, code : DOMAIN databaseClass, status : {0}, ms : {0}]
  \cup [type : {"FastifyError"}, code : DOMAIN fastifyStatus \cup {"other"}, status : FrameworkStatus, ms : {0}]

-----------------------------------------------------------------------------
ceilSeconds(ms) == (ms + 999) \div 1000

(* Mutant: whole seconds that have begun are not counted.                    *)
circuitWaitDown(ms) == ms \div 1000

(* Math.ceil(retryAfterMs / 1000).                                           *)
circuitWait(ms) == ceilSeconds(ms)

(* The limits round up what is left of them (rate-limit.ts); what reports    *)
(* the service unavailable has a wait of its own.                            *)
appErrorItself(e) ==
  ofClass(e.code, CASE e.code \in {"RateLimitError", "CircuitOpenAppError"} -> ceilSeconds(e.ms)
                    [] e.code = "ServiceUnavailableError" -> 30
                    [] OTHER -> NoWait)

translateDatabaseError(code) ==
  ofClass(databaseClass[code],
          CASE code = "serialization_failure" -> 1
            [] databaseClass[code] = "ServiceUnavailableError" -> 30
            [] OTHER -> NoWait)

(* Mutant: a status of 500 is passed through with its message.               *)
fromFrameworkAll(e) ==
  CASE e.type = "validation" -> ofClass("ValidationError", NoWait)
    [] e.code \in DOMAIN fastifyStatus -> newAppError(fastifyStatus[e.code], "own", NoWait)
    [] e.type = "FastifyError" -> newAppError(e.status, "framework", NoWait)
    [] OTHER -> newAppError(500, "own", NoWait)

(* Validation, the framework's codes and statuses below 500; else internal.  *)
fromFramework(e) ==
  CASE e.type = "validation" -> ofClass("ValidationError", NoWait)
    [] e.code \in DOMAIN fastifyStatus -> newAppError(fastifyStatus[e.code], "own", NoWait)
    [] e.type = "FastifyError" /\ e.status < 500 -> newAppError(e.status, "framework", NoWait)
    [] OTHER -> newAppError(500, "own", NoWait)

normalizeError(e) ==
  CASE e.type = "AppError" -> appErrorItself(e)
    [] e.type = "ZodError" -> ofClass("ValidationError", NoWait)
    [] e.type = "SsrfError" -> ofClass("BlockedTargetError", NoWait)
    [] e.type = "CircuitOpenError" -> ofClass("CircuitOpenAppError", circuitWait(e.ms))
    [] e.code \in DOMAIN databaseClass -> translateDatabaseError(e.code)
    [] OTHER -> fromFramework(e)

errorEnvelope(status, message, retryAfter) ==
  [status |-> status, envelope |-> TRUE, message |-> message, retryAfter |-> retryAfter]

(* A handler throws, and setErrorHandler() answers.                          *)
errorHandler(e) ==
  /\ thrown = NothingThrown /\ thrown' = e
  /\ answered' = LET appError == normalizeError(e)
                 IN  errorEnvelope(appError.statusCode, appError.message, appError.retryAfter)
  /\ UNCHANGED outcome

(* setNotFoundHandler(): there is no such route.                             *)
notFoundHandler ==
  /\ thrown = NothingThrown /\ thrown' = [NothingThrown EXCEPT !.type = "route"]
  /\ answered' = errorEnvelope(404, "own", NoWait)
  /\ UNCHANGED outcome

(* Something between the API and the page answers without an envelope, cuts  *)
(* the answer off, or nothing answers at all.                                *)
interfere(status) ==
  /\ thrown = NothingThrown /\ thrown' = [NothingThrown EXCEPT !.type = "transport"]
  /\ answered' = [NoAnswer EXCEPT !.status = status]
  /\ UNCHANGED outcome

(* ApiError: what userMessage says, and the wait it names.                   *)
userMessage(status, message, retryAfter) ==
  CASE status = 429 -> [text |-> "own", wait |-> IF retryAfter > 0 THEN retryAfter ELSE NoWait]
    [] status >= 500 -> [text |-> "own", wait |-> NoWait]
    [] OTHER -> [text |-> message, wait |-> NoWait]

(* apiRequest(): a request that fails is a 503 of its own, an answer without *)
(* an envelope keeps its status and has a text of its own; a 200 whose body  *)
(* is no envelope is an exception that is no ApiError.                       *)
apiError(reply) ==
  CASE reply.status = 0 -> newAppError(503, "own", NoWait)
    [] reply.status = 200 -> newAppError(0, "driver", NoWait)
    [] ~reply.envelope -> newAppError(reply.status, "own", NoWait)
    [] OTHER -> newAppError(reply.status, reply.message, reply.retryAfter)

got(result, error) == LET said == userMessage(error.statusCode, error.message, error.retryAfter)
                      IN  [result |-> result, text |-> said.text, wait |-> said.wait]

(* A component awaits api.get() or another; what is no ApiError is shown as  *)
(* a text of the component's.                                                *)
caught ==
  /\ thrown # NothingThrown /\ outcome = NoOutcome
  /\ outcome' = IF apiError(answered).statusCode = 0 THEN [result |-> "exception", text |-> "own", wait |-> NoWait]
                ELSE got("ApiError", apiError(answered))
  /\ UNCHANGED <<thrown, answered>>

(* Mutant: any mistake of the client's counts as missing.                    *)
tryGetClient ==
  /\ thrown # NothingThrown /\ outcome = NoOutcome
  /\ outcome' = CASE apiError(answered).statusCode = 0 -> [result |-> "exception", text |-> "own", wait |-> NoWait]
                  [] apiError(answered).statusCode \in 400..499 -> [NoOutcome EXCEPT !.result = "null"]
                  [] OTHER -> got("ApiError", apiError(answered))
  /\ UNCHANGED <<thrown, answered>>

(* tryGet(): not found is null, everything else goes on to the boundary.     *)
tryGet ==
  /\ thrown # NothingThrown /\ outcome = NoOutcome
  /\ outcome' = CASE apiError(answered).statusCode = 0 -> [result |-> "exception", text |-> "own", wait |-> NoWait]
                  [] apiError(answered).statusCode = 404 -> [NoOutcome EXCEPT !.result = "null"]
                  [] OTHER -> got("ApiError", apiError(answered))
  /\ UNCHANGED <<thrown, answered>>

errorsNext ==
  \/ \E e \in Thrown : errorHandler(e)
  \/ notFoundHandler
  \/ \E status \in {0, 200, 404, 502} : interfere(status)
  \/ caught \/ tryGet

-----------------------------------------------------------------------------
(* Properties                                                                *)

(* "its details are NOT exposed" (errors.ts:5-6): only texts written for a   *)
(* reader leave the process, a fault of the server's never with one of the   *)
(* framework's, and an error never looks like a success.  A wait is sent     *)
(* only when one was meant, and whoever waits as told is not early.  A page  *)
(* takes something for missing ("no such API") only when the answer said so, *)
(* and never because the API is broken (api-client.ts:169-170).              *)
ErrorsKeptApart ==
  LET missing == \/ thrown.type = "AppError" /\ thrown.code \in {"NotFoundError", "ApiNotFoundError"}
                 \/ thrown.type = "FastifyError" /\ thrown.code = "other" /\ thrown.status = 404
                 \/ thrown.type = "route"
                 \/ thrown.type = "transport" /\ answered.status = 404
      limited == \/ thrown.type = "CircuitOpenError"
                 \/ thrown.type = "AppError" /\ thrown.code \in {"RateLimitError", "CircuitOpenAppError"}
  IN  /\ answered.message # "driver" /\ outcome.text # "driver"
      /\ answered.envelope => answered.status >= 400
      /\ answered.status >= 500 => answered.message # "framework"
      /\ limited => 1000 * answered.retryAfter >= thrown.ms
      /\ answered.retryAfter # NoWait => answered.status \in {429, 503}
      /\ outcome.wait # NoWait => 1000 * outcome.wait >= thrown.ms
      /\ outcome.result = "null" => missing
===============================================================================

-------------------------------- MODULE Answers --------------------------------
(***************************************************************************)
(* The requests in hand and how they are answered: RestLoggingInterceptor  *)
(* around handlers and pipes, HttpExceptionFilter and PrismaExceptionFilter *)
(* around it, Nest's own filter for what is left, and Sentry's beforeSend. *)
(*                                                                         *)
(* An error is given by its class, and one of Prisma's known errors by its *)
(* code.  P2024 stands for the codes that have no handler, Error for every *)
(* class that is neither Nest's nor a known error of Prisma's.             *)
(***************************************************************************)
EXTENDS Naturals, Sequences, FiniteSets, SequencesExt

CONSTANTS
    Calls,      \* the requests that may come
    None

VARIABLES
    calls,      \* what each request asks, how far it is and how it was answered
    production  \* whether Sentry is initialised

StatusCode == [BadRequest |-> 400, Unauthorized |-> 401, Forbidden |-> 403, NotFound |-> 404,
               Conflict |-> 409, UnprocessableEntity |-> 422, InternalServerError |-> 500]
HttpException == DOMAIN StatusCode
KnownRequestError == {"P2002", "P2025", "P2024"}
Errors == HttpException \union KnownRequestError \union {"ZodError", "Error"}

\* Foreign keys and relations, which no query here can violate, are left out.
errorHandlers == [P2002 |-> 409, P2025 |-> 404]

getStatusCode(error) ==
    IF error \in HttpException THEN StatusCode[error]
    ELSE IF error \in DOMAIN errorHandlers THEN errorHandlers[error] ELSE 500

\* A mutated form of intercept: Prisma's errors are wrapped as well.
interceptAll(error) == IF error \in HttpException THEN error ELSE "InternalServerError"

\* What the interceptor makes of an error of a handler.
intercept(error) ==
    IF error \in HttpException \union KnownRequestError THEN error ELSE "InternalServerError"

clientErrorExceptions ==
    {"BadRequest", "Unauthorized", "Forbidden", "NotFound", "Conflict", "UnprocessableEntity"}

beforeSend(error) == error \notin clientErrorExceptions

\* Of the filters only HttpExceptionFilter captures what it catches for Sentry.
captured(error) == production /\ error \in HttpException /\ beforeSend(error)

\* The filter that catches an error answers it, Nest's own with 500.
Caught(error) == [status |-> getStatusCode(error), reported |-> captured(error)]

-----------------------------------------------------------------------------
Answer == [status : {0, 200, 400, 401, 403, 404, 409, 422, 500},
           reported : BOOLEAN]

\* No answer: the connection is cut off.
NoAnswer == [status |-> 0, reported |-> FALSE]

Idle == [op |-> None, step |-> "idle", seen |-> None, failed |-> FALSE, answer |-> None]

InHand == {c \in Calls : calls[c].step \notin {"idle", "ended"}}

InitAnswers ==
    /\ calls = [c \in Calls |-> Idle]
    /\ production \in BOOLEAN

\* What the steps of a request do to it.
Proceed(c, step, seen) == calls' = [calls EXCEPT ![c].step = step, ![c].seen = seen]
End(c, answer) == calls' = [calls EXCEPT ![c].step = "ended", ![c].answer = answer]
Return(c) == End(c, [status |-> 200, reported |-> FALSE])
Throw(c, error) == End(c, Caught(intercept(error)))

\* A guard throws before the interceptor is there.
ThrowFromGuard(c, error) == End(c, Caught(error))

\* A query is lost or refused, and what then comes of the request.
Failures == {"P2024", "Error"}
Lose(c, answer) ==
    calls' = [calls EXCEPT ![c].step = "ended", ![c].failed = TRUE, ![c].answer = answer]
=============================================================================

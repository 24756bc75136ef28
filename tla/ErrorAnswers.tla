---------------------------- MODULE ErrorAnswers ----------------------------
(***************************************************************************)
(* What a client is answered when a call fails: the errors the program     *)
(* throws or lets through, and how the last middleware of REST and the     *)
(* formatter of GraphQL turn one into an answer.                           *)
(*                                                                         *)
(* Sources: src/errors, src/guards/error.guard.ts,                         *)
(* src/api/rest/middlewares/error.middleware.ts,                           *)
(* src/api/graphql/middlewares/error.middleware.ts,                        *)
(* src/api/common/middlewares/payload.middleware.ts.                       *)
(*                                                                         *)
(* A CoreError is named by its code, any other error by its class; "Error" *)
(* stands for all the errors of the driver and of the libraries that no    *)
(* guard recognises.                                                       *)
(***************************************************************************)
EXTENDS Naturals

ApplicationErrorCode ==
    {"USER_NOT_FOUND", "EMAIL_IN_USE", "USERNAME_IN_USE", "DOCUMENT_REFERENCED",
     "INVALID_CREDENTIALS", "PERMISSION_DENIED", "USER_DISABLED", "TOKEN_EXPIRED",
     "TOKEN_TAMPERED", "TOKEN_BEFORE", "DUPLICATE_PASSWORD", "FILE_NOT_FOUND"}

\* The HttpErrors that are thrown somewhere, with their status.
HttpStatus == [UNAUTHORIZED       |-> 401,
               METHOD_NOT_ALLOWED |-> 405,
               TOO_MANY_REQUEST   |-> 429,
               PAYLOAD_TOO_LARGE  |-> 413]

CoreError == ApplicationErrorCode \cup DOMAIN HttpStatus

\* ParserTooLarge: a 413 of a body parser, of multer or of graphql-upload.
\* GraphQLError: an input or a document GraphQL itself objects to.
LibraryError == {"ZodError", "ValidateError", "SyntaxError", "GraphQLError",
                 "ParserTooLarge", "Error"}

\* Mutant: the status map forgets the disabled account.
statusMapWithoutDisabled(code) ==
    CASE code \in {"USER_NOT_FOUND", "FILE_NOT_FOUND"} -> 404
      [] code \in {"EMAIL_IN_USE", "USERNAME_IN_USE", "DOCUMENT_REFERENCED",
                   "DUPLICATE_PASSWORD"} -> 409
      [] code \in {"INVALID_CREDENTIALS", "TOKEN_EXPIRED", "TOKEN_TAMPERED",
                   "TOKEN_BEFORE"} -> 401
      [] code = "PERMISSION_DENIED" -> 403
      [] OTHER -> 400

statusMap(code) ==
    CASE code \in {"USER_NOT_FOUND", "FILE_NOT_FOUND"} -> 404
      [] code \in {"EMAIL_IN_USE", "USERNAME_IN_USE", "DOCUMENT_REFERENCED",
                   "DUPLICATE_PASSWORD"} -> 409
      [] code \in {"INVALID_CREDENTIALS", "TOKEN_EXPIRED", "TOKEN_TAMPERED",
                   "TOKEN_BEFORE"} -> 401
      [] code \in {"PERMISSION_DENIED", "USER_DISABLED"} -> 403
      [] OTHER -> 400

normalizePayloadError(error) ==
    IF error = "ParserTooLarge" THEN "PAYLOAD_TOO_LARGE" ELSE error

\* errorMiddleware
restAnswer(error) ==
    CASE error \in {"ZodError", "ValidateError"} ->
            [status |-> 422, code |-> "UNPROCESSABLE_ENTITY"]
      [] error \in DOMAIN HttpStatus -> [status |-> HttpStatus[error], code |-> error]
      [] error \in ApplicationErrorCode -> [status |-> statusMap(error), code |-> error]
      [] error = "SyntaxError" -> [status |-> 400, code |-> "SYNTAX_ERROR"]
      [] OTHER -> [status |-> 500, code |-> "INTERNAL_ERROR"]

\* Mutant: only application errors are let through.
formatGraphQLApplicationError(error) ==
    [status |-> 200,
     code   |-> CASE error = "ZodError" -> "UNPROCESSABLE_ENTITY"
                  [] error \in ApplicationErrorCode -> error
                  [] error = "GraphQLError" -> "BAD_USER_INPUT"
                  [] OTHER -> "INTERNAL_ERROR"]

\* formatGraphQLError; the transport itself succeeds.  Of the codes that are let
\* through for GraphQL's own errors BAD_USER_INPUT stands for all.
formatGraphQLError(error) ==
    [status |-> 200,
     code   |-> CASE error = "ZodError" -> "UNPROCESSABLE_ENTITY"
                  [] error \in CoreError -> error
                  [] error = "GraphQLError" -> "BAD_USER_INPUT"
                  [] OTHER -> "INTERNAL_ERROR"]
=============================================================================

---------------------------- MODULE PayloadLimit ----------------------------
(***************************************************************************)
(* The life of one HTTP request under the payload limit.  The middleware   *)
(* replaces the push of the request stream, so that it runs between the    *)
(* HTTP parser, which goes on pushing chunks, and the consumer of the body *)
(* (a body parser, or a pipe that pauses and resumes the stream on its     *)
(* own), while the rest of the application may answer at any time.         *)
(*                                                                         *)
(* Sources: src/api/common/middlewares/payload.middleware.ts, the order of *)
(* the middlewares in src/server.ts, and the headersSent test of           *)
(* src/api/rest/middlewares/error.middleware.ts.                           *)
(*                                                                         *)
(* All middlewares before this one are synchronous: nothing of the body is *)
(* buffered yet when it runs, and readableLength is 0.                     *)
(***************************************************************************)
EXTENDS Naturals

CONSTANTS MaxBytes,  \* the payload limit
          MaxSent,   \* bound on the bytes a client sends
          MaxChunk   \* bound on the bytes of a chunk

ASSUME SizesAssumption ==
    MaxBytes \in Nat \ {0} /\ MaxSent \in Nat /\ MaxChunk \in Nat \ {0}

None == MaxSent + 1

VARIABLES declared,   \* the Content-Length, None for a chunked body
          middleware, \* whether the middleware has run, and with what result
          sent,       \* bytes the parser has pushed
          delivered,  \* bytes that reached the stream
          exceeded,   \* the flag of the patched push
          flowing,    \* the stream is not paused
          eof,        \* the end of the body: not there, queued, read
          handler,    \* what the application does with the request
          answer,     \* the answer begun, if any
          destroyed   \* the request and its connection are destroyed

bodyVars == <<declared, middleware, sent, delivered, exceeded, flowing, eof, handler,
              answer, destroyed>>

BodyInit ==
    /\ declared \in 0..MaxSent \cup {None}
    /\ middleware = "headers"
    /\ sent = 0 /\ delivered = 0 /\ exceeded = FALSE
    /\ flowing = TRUE /\ eof = "open"
    /\ handler = "waiting" /\ answer = "none" /\ destroyed = FALSE

-----------------------------------------------------------------------------

\* sendPayloadTooLarge: 413, unless an answer has begun already.
TooLarge ==
    IF answer # "none"
    THEN destroyed' = TRUE /\ flowing' = FALSE /\ UNCHANGED answer
    ELSE flowing' = FALSE /\ answer' = "413" /\ UNCHANGED destroyed

\* The middleware: a declared length beyond the limit is refused at once.
Enter ==
    /\ middleware = "headers" /\ ~destroyed
    /\ IF declared # None /\ declared > MaxBytes
       THEN /\ middleware' = "refused"
            /\ TooLarge
            /\ UNCHANGED handler
       ELSE /\ middleware' = "patched"
            /\ handler' = "reading"
            /\ UNCHANGED <<flowing, answer, destroyed>>
    /\ UNCHANGED <<declared, sent, delivered, exceeded, eof>>

\* Mutant: a body of exactly the limit is refused.
ExceedsEarly(bytes) == bytes >= MaxBytes

Exceeds(bytes) == bytes > MaxBytes

\* Mutant: what exceeds the limit is dropped without an answer.
PushSilently(n) ==
    /\ middleware = "patched" /\ ~destroyed /\ eof = "open"
    /\ sent + n <= IF declared = None THEN MaxSent ELSE declared
    /\ sent' = sent + n
    /\ IF exceeded \/ Exceeds(sent + n)
       THEN exceeded' = TRUE /\ flowing' = FALSE /\ UNCHANGED delivered
       ELSE delivered' = delivered + n /\ UNCHANGED <<exceeded, flowing>>
    /\ UNCHANGED <<declared, middleware, eof, handler, answer, destroyed>>

\* The patched push, for a chunk.  The parser may push more chunks of a packet
\* it has begun after the stream was paused.
Push(n) ==
    /\ middleware = "patched" /\ ~destroyed /\ eof = "open"
    /\ sent + n <= IF declared = None THEN MaxSent ELSE declared
    /\ sent' = sent + n
    /\ CASE exceeded -> UNCHANGED <<exceeded, delivered, flowing, answer, destroyed>>
         [] ~exceeded /\ Exceeds(sent + n) ->
              exceeded' = TRUE /\ TooLarge /\ UNCHANGED delivered
         [] OTHER -> /\ delivered' = delivered + n
                     /\ UNCHANGED <<exceeded, flowing, answer, destroyed>>
    /\ UNCHANGED <<declared, middleware, eof, handler>>

\* The patched push, for null: the end passes even after chunks were dropped.
PushEnd ==
    /\ middleware = "patched" /\ ~destroyed /\ eof = "open"
    /\ declared \in {None, sent}
    /\ eof' = "queued"
    /\ UNCHANGED <<declared, middleware, sent, delivered, exceeded, flowing, handler,
                   answer, destroyed>>

\* A consumer that pipes the body resumes the stream when it has drained.
Resume ==
    /\ handler = "reading" /\ ~destroyed /\ ~flowing
    /\ flowing' = TRUE
    /\ UNCHANGED <<declared, middleware, sent, delivered, exceeded, eof, handler,
                   answer, destroyed>>

\* The consumer has read the body to its end.
ReadEnd ==
    /\ handler = "reading" /\ ~destroyed /\ flowing /\ eof = "queued"
    /\ eof' = "ended"
    /\ handler' = "complete"
    /\ UNCHANGED <<declared, middleware, sent, delivered, exceeded, flowing, answer,
                   destroyed>>

\* The application answers: after the body, or without it (a limiter, a failed
\* authentication, an unknown route).  errorMiddleware and the routes send
\* nothing when an answer has begun.
AnswerBody ==
    /\ handler \in {"reading", "complete"}
    /\ handler' = "done"
    /\ answer' = IF answer = "none" /\ ~destroyed THEN "handler" ELSE answer
    /\ UNCHANGED <<declared, middleware, sent, delivered, exceeded, flowing, eof, destroyed>>

\* Mutant: the answer that refuses a declared length has no callback.
SentPatched ==
    /\ answer # "none" /\ ~destroyed /\ middleware = "patched"
    /\ answer = "413" \/ eof # "ended"
    /\ destroyed' = TRUE
    /\ UNCHANGED <<declared, middleware, sent, delivered, exceeded, flowing, eof,
                   handler, answer>>

\* The answer has been handed to the connection: a request whose end was not
\* read, and any request answered 413, is destroyed.
Sent ==
    /\ answer # "none" /\ ~destroyed
    /\ answer = "413" \/ eof # "ended"
    /\ destroyed' = TRUE
    /\ UNCHANGED <<declared, middleware, sent, delivered, exceeded, flowing, eof,
                   handler, answer>>

\* The client closes the connection, or a timeout does.
CloseBody ==
    /\ ~destroyed
    /\ destroyed' = TRUE
    /\ UNCHANGED <<declared, middleware, sent, delivered, exceeded, flowing, eof,
                   handler, answer>>

\* A request that is over.
Over ==
    /\ destroyed \/ (answer # "none" /\ eof = "ended")
    /\ handler \in {"waiting", "done"}
    /\ UNCHANGED bodyVars

BodyNext ==
    \/ Enter \/ (\E n \in 1..MaxChunk : Push(n)) \/ PushEnd \/ Resume \/ ReadEnd
    \/ AnswerBody \/ Sent \/ CloseBody \/ Over

\* The middleware runs, and what is written is handed to the connection.
BodySpec == BodyInit /\ [][BodyNext]_bodyVars /\ WF_bodyVars(Enter) /\ WF_bodyVars(Sent)

-----------------------------------------------------------------------------

\* All variables have the declared shapes: no more than the limit is ever delivered.
BodyTypeOK ==
    /\ declared \in 0..MaxSent \cup {None}
    /\ middleware \in {"headers", "patched", "refused"}
    /\ sent \in 0..MaxSent /\ delivered \in 0..MaxBytes
    /\ exceeded \in BOOLEAN /\ flowing \in BOOLEAN /\ destroyed \in BOOLEAN
    /\ eof \in {"open", "queued", "ended"}
    /\ handler \in {"waiting", "reading", "complete", "done"}
    /\ answer \in {"none", "413", "handler"}

\* The limit is invisible to a request that keeps it, to the byte: nothing of
\* the body is lost and it is never answered 413.
WithinLimitUntouched ==
    sent <= MaxBytes /\ (declared = None \/ declared <= MaxBytes) =>
        delivered = sent /\ ~exceeded /\ answer # "413"

\* The end of a body passes the patched push even when chunks of it were
\* dropped, and a consumer that resumes the stream takes the rest for the whole.
\* Its result never becomes the answer: an answer has begun by then.
TruncationIsAnswered ==
    delivered < sent => answer # "none"

\* An answer that has begun is never begun again: 413 does not follow another
\* answer, nor does another answer follow 413.
OneAnswer ==
    [][answer # "none" => answer' = answer]_bodyVars

\* A request beyond the limit does not hold its connection: it is destroyed
\* however the chunks, the consumer and an early answer interleave.
OversizedEnds ==
    (sent > MaxBytes \/ (declared # None /\ declared > MaxBytes)) ~> destroyed
=============================================================================

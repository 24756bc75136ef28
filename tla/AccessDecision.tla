--------------------------- MODULE AccessDecision ---------------------------
(***************************************************************************)
(* API calls on their way through the program, one at a time: the          *)
(* middlewares, the token, the guard of the route (a grant is issued for   *)
(* the account the token names, if the role suits the route), the service  *)
(* with its ability check, and the answer to whatever was thrown on the    *)
(* way.  A script call has the SYSTEM actor and meets the service only; a  *)
(* registration or a login has no guard, a login a limiter of its own.     *)
(*                                                                         *)
(* Sources: src/api/common/utils/auth.util.ts, src/security,               *)
(* src/utils/tokenizer.util.ts, src/services, src/rbac, src/api/rest,      *)
(* src/api/graphql, and the middlewares named in ErrorAnswers.             *)
(***************************************************************************)
EXTENDS Rbac, ErrorAnswers

VARIABLES call,     \* the call: who asks, by which transport, for what
          verdict,  \* how far it came, see Verdict
          error,    \* what was thrown, None if nothing was
          answer    \* the answer to it, NoAnswer if there is none yet

vars == <<call, verdict, error, answer>>

NoAnswer == [status |-> 0, code |-> None]

\* Under way: idle, pending, identified, granted, allowed.  Failed: rejected by
\* the middlewares, throttled, unidentified, refused by the route, denied by the
\* abilities, failed in a validation or in the service.  done: the service has
\* returned.
Failures == {"rejected", "throttled", "unidentified", "refused", "denied", "failed"}
Verdict == {"idle", "pending", "identified", "granted", "allowed", "done"} \cup Failures

\* "self" is the calling account and "other" any other one.
Identities == [kind: {"USER"}, id: {"self"}, role: Role, enable: BOOLEAN]
SystemActor == [kind |-> "SYSTEM", id |-> "pid", role |-> None, enable |-> TRUE]

\* What the authorization header brings, and the error of a token that does not
\* name an account.
Token == {"valid", "missing", "malformed", "expired", "early", "tampered", "orphan"}

\* What anybody may ask for, without a permission.
Open == {"auth.register", "auth.login"}
AnonymousActor == [kind |-> "ANONYMOUS", id |-> None, role |-> None, enable |-> TRUE]

Subjects(actor, permission) ==
    CASE permission \in CronPermission \cup {"user.read"} -> {SubjectType}
      [] permission = "user.create" ->
            [id: {None}, role: Role, assignedRole: {None}]
      [] permission = "user.update-role" ->
            {s \in [id: {"self", "other"}, role: Role, assignedRole: UpdateRole] :
                s.id = actor.id => s.role = actor.role}
      [] OTHER ->
            {s \in [id: {"self", "other"}, role: Role, assignedRole: {None}] :
                s.id = actor.id => s.role = actor.role}

OpenCalls == {[actor |-> AnonymousActor, transport |-> t, token |-> "missing",
               permission |-> p, subject |-> SubjectType] :
                 t \in {"REST", "GraphQL"}, p \in Open}

Calls == OpenCalls \cup UNION {{[actor |-> a, transport |-> t, token |-> k, permission |-> p, subject |-> s] :
                    t \in IF a.kind = "SYSTEM" THEN {"script"} ELSE {"REST", "GraphQL"},
                    k \in IF a.kind = "SYSTEM" THEN {"valid"} ELSE Token,
                    s \in Subjects(a, p)} :
                 a \in Identities \cup {SystemActor}, p \in Permission}

NoCall == [actor |-> SystemActor, transport |-> None, token |-> None,
           permission |-> None, subject |-> SubjectType]

Init == call = NoCall /\ verdict = "idle" /\ error = None /\ answer = NoAnswer

Pass(next) == verdict' = next /\ UNCHANGED error

Throw(next, what) == verdict' = next /\ error' = what

-----------------------------------------------------------------------------

Arrive ==
    /\ verdict = "idle"
    /\ \E c \in Calls :
         /\ call' = c
         /\ verdict' = IF c.transport = "script" THEN "granted" ELSE "pending"
    /\ UNCHANGED <<error, answer>>

\* The middlewares of server.ts refuse the request: too many of them, a body that
\* is too large or no JSON, or anything else a library objects to.
Reject ==
    /\ verdict = "pending"
    /\ \E what \in {"TOO_MANY_REQUEST", "ParserTooLarge", "SyntaxError", "Error"} :
         Throw("rejected", what)
    /\ UNCHANGED <<call, answer>>

\* GraphQL objects to a document or to an input before any resolver runs.
Malformed ==
    /\ verdict = "pending" /\ call.transport = "GraphQL"
    /\ Throw("failed", "GraphQLError")
    /\ UNCHANGED <<call, answer>>

\* No guard: the route of an open operation lets everybody in.
Admit ==
    /\ verdict = "pending" /\ call.permission \in Open
    /\ Pass("granted")
    /\ UNCHANGED <<call, answer>>

\* authLimiter: the address is refused before the login, or, on GraphQL, the
\* consumption of a point for a login that failed is rejected.
Throttle ==
    /\ call.permission = "auth.login"
    /\ \/ verdict = "granted"
       \/ verdict \in {"unidentified", "failed"} /\ call.transport = "GraphQL"
          /\ error # "GraphQLError" /\ answer = NoAnswer
    /\ Throw("throttled", "TOO_MANY_REQUEST")
    /\ UNCHANGED <<call, answer>>

\* The Bearer strategy up to the look-up of the account: the header is split, the
\* token is verified, its subject is read.
TokenError(token) ==
    CASE token \in {"missing", "malformed", "orphan"} -> "UNAUTHORIZED"
      [] token = "expired" -> "TOKEN_EXPIRED"
      [] token = "early" -> "TOKEN_BEFORE"
      [] token = "tampered" -> "TOKEN_TAMPERED"

Identify ==
    /\ verdict = "pending" /\ call.permission \notin Open
    /\ IF call.token = "valid" THEN Pass("identified")
       ELSE Throw("unidentified", TokenError(call.token))
    /\ UNCHANGED <<call, answer>>

\* AccessGrant.issue: the grant is issued, or the route refuses the call.
Guard ==
    /\ verdict = "identified"
    /\ IF Issue(call.actor, RouteRole(call.transport, call.permission))
       THEN Pass("granted")
       ELSE Throw("refused", IF call.actor.enable THEN "PERMISSION_DENIED"
                             ELSE "USER_DISABLED")
    /\ UNCHANGED <<call, answer>>

Uploads == {"auth.register", "user.create", "user.update-picture"}

\* What can be thrown between the grant and the ability check: the parser of an
\* upload, the validation of tsoa, the codec, the read of the target.
Before(transport, permission) ==
    {"Error"}
    \cup (IF permission # "auth.login" THEN {"ZodError"} ELSE {})
    \cup (IF transport = "REST" THEN {"ValidateError"} ELSE {})
    \cup (IF permission \in Uploads /\ transport # "script" THEN {"ParserTooLarge"} ELSE {})
    \cup (IF permission \in UserPermission \ {"user.create", "user.read"}
          THEN {"USER_NOT_FOUND"} ELSE {})

\* And after it.  A lost race for a unique index is an error of the driver.
After(permission) ==
    {"Error"}
    \cup (IF permission \in {"auth.register", "user.create", "user.update-email"}
          THEN {"EMAIL_IN_USE"} ELSE {})
    \cup (IF permission \in {"auth.register", "user.create", "user.update-username"}
          THEN {"USERNAME_IN_USE"} ELSE {})
    \cup (IF permission = "user.update-password" THEN {"DUPLICATE_PASSWORD"} ELSE {})
    \cup (IF permission \in Uploads \cup {"user.delete-picture"}
          THEN {"FILE_NOT_FOUND"} ELSE {})
    \cup (IF permission \in {"user.delete", "user.delete-picture"}
          THEN {"DOCUMENT_REFERENCED"} ELSE {})
    \cup (IF permission \in {"user.read", "cron-job.configure"} THEN {"ZodError"} ELSE {})

Fail ==
    /\ \/ /\ verdict = "granted"
          /\ \E what \in Before(call.transport, call.permission) : Throw("failed", what)
       \/ /\ verdict = "allowed"
          /\ \E what \in After(call.permission) : Throw("failed", what)
    /\ UNCHANGED <<call, answer>>

\* AuthService.login: no such account, or another password.
RefuseCredentials ==
    /\ verdict = "allowed" /\ call.permission = "auth.login"
    /\ Throw("unidentified", "INVALID_CREDENTIALS")
    /\ UNCHANGED <<call, answer>>

\* BaseService.authorize with the actor of the execution context; AuthService asks
\* for no permission.
Authorize ==
    /\ verdict = "granted"
    /\ IF call.permission \in Open \/ can(call.actor, call.permission, call.subject)
       THEN Pass("allowed") ELSE Throw("denied", "PERMISSION_DENIED")
    /\ UNCHANGED <<call, answer>>

Return ==
    /\ verdict = "allowed"
    /\ Pass("done")
    /\ UNCHANGED <<call, answer>>

\* What was thrown reaches the client.  An error of the middlewares of server.ts
\* is answered by errorMiddleware on /graphql, too.
Answer ==
    /\ verdict \in Failures /\ answer = NoAnswer /\ call.transport # "script"
    /\ answer' = IF call.transport = "REST" \/ verdict = "rejected"
                 THEN restAnswer(normalizePayloadError(error))
                 ELSE formatGraphQLError(normalizePayloadError(error))
    /\ UNCHANGED <<call, verdict, error>>

Next ==
    \/ Arrive \/ Reject \/ Malformed \/ Admit \/ Throttle \/ Identify \/ Guard
    \/ Authorize \/ RefuseCredentials \/ Fail \/ Return \/ Answer

Spec == Init /\ [][Next]_vars

-----------------------------------------------------------------------------

\* The hierarchy as the README draws it.
Rank == [USER |-> 1, MANAGER |-> 2, ADMIN |-> 3]

\* The rule mapping of the README, role by role, written without the rule
\* definitions, the hierarchy expansion or the scopes.
Documented(actor, permission, subject) ==
    LET administers == actor.role = "ADMIN"
        below(role) == Rank[role] < Rank[actor.role]
    IN  \/ actor.kind = "SYSTEM"
        \/ permission = "user.read"
        \/ permission \in CronPermission /\ administers
        \/ permission \in SelfService /\ (administers \/ subject.id = actor.id)
        \/ permission \in {"user.create", "user.update-status"} /\ below(subject.role)
        \/ permission = "user.delete" /\ administers /\ below(subject.role)
        \/ /\ permission = "user.update-role"
           /\ administers /\ below(subject.role) /\ below(subject.assignedRole)

\* The abilities built from the declarative rules decide every call that gets
\* past its route exactly as the documented rule mapping says: nothing more is
\* allowed and nothing less.
ServicePolicy ==
    verdict \in {"allowed", "denied", "done"} /\ call.permission \in Permission =>
        (verdict # "denied" <=> Documented(call.actor, call.permission, call.subject))

\* A REST route names the least role its service policy serves: no enabled
\* account is turned away by the route of an operation its abilities allow.
RestGuardsAdmitThePolicy ==
    verdict = "refused" /\ call.transport = "REST" =>
        \/ ~call.actor.enable
        \/ ~can(call.actor, call.permission, call.subject)

\* The README's rule mapping says that USER can delete the picture of its own
\* account; the GraphQL resolver of deletePicture asks for ADMIN.
OwnPictureDeletable ==
    verdict = "refused" /\ call.permission = "user.delete-picture" =>
        \/ ~call.actor.enable
        \/ call.subject.id # call.actor.id

\* The two transports cannot drift apart: what an error is called does not depend
\* on the transport that carries it, but for those of GraphQL's own.
OneCodePerError ==
    answer # NoAnswer /\ error # "GraphQLError" => answer.code = restAnswer(normalizePayloadError(error)).code

\* A client can tell from the answer how far its call came: 401 or the code of
\* one of its errors says that it is not known or has not proved who it is, 403
\* that it is known and may not, on either transport.
StatusTellsHowFar ==
    answer # NoAnswer =>
        LET status == IF call.transport = "REST" THEN answer.status
                      ELSE restAnswer(answer.code).status
        IN
        /\ status = 401 <=> verdict = "unidentified"
        /\ status = 403 <=> verdict \in {"refused", "denied"}
=============================================================================

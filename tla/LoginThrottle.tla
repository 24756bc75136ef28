---------------------------- MODULE LoginThrottle ----------------------------
(***************************************************************************)
(* The two limiters in front of a login, for the requests of one client    *)
(* address.  REST: express-rate-limit counts a request on arrival, refuses *)
(* it beyond the limit, and takes the count back when its answer is sent   *)
(* and was a success.  GraphQL: the counter is looked at on arrival and    *)
(* consumed only when the resolver has failed; everything between the two  *)
(* is open to other requests.  The two counters are independent.           *)
(*                                                                         *)
(* Sources: src/api/rest/middlewares/rate-limiter.middleware.ts,           *)
(* src/api/graphql/middlewares/rate-limiter.middleware.ts.  The counters   *)
(* themselves are those of the two libraries, with a window that starts at *)
(* the first count; time passes in ticks.                                  *)
(***************************************************************************)
EXTENDS Integers, FiniteSets

CONSTANTS Requests,     \* slots of logins in flight from the address
          Points,       \* the limit: 5 in both middlewares
          Window,       \* ticks of the window, and of the block of GraphQL
          MaxRefusals   \* bound on the refusals explored in a REST window

ASSUME RequestsAssumption == IsFiniteSet(Requests)
ASSUME LimitsAssumption == Points \in Nat \ {0} /\ Window \in Nat \ {0}

VARIABLES requests,  \* where each login is
          rest,      \* the counter of the REST limiter
          graphql,   \* the counter of the GraphQL limiter
          tally      \* history: what became of the logins of these windows

vars == <<requests, rest, graphql, tally>>

\* "earlier": admitted by REST in a window that has ended since.
Stage == {"idle", "rest", "earlier", "graphql"}

At(stage) == {r \in Requests : requests[r] = stage}

\* The logins a REST window has admitted or refused, by their outcome; earned
\* counts the times a success admitted in an earlier window lowered the
\* counter of this one.  age is the time since the first failure GraphQL counts.
NewWindow == [failed |-> 0, refused |-> 0, lost |-> 0, earned |-> 0]

Init ==
    /\ requests = [r \in Requests |-> "idle"]
    /\ rest = [hits |-> 0, left |-> 0]
    /\ graphql = [consumed |-> 0, left |-> 0, age |-> 0]
    /\ tally = NewWindow

Move(r, stage) == requests' = [requests EXCEPT ![r] = stage]

-----------------------------------------------------------------------------
(* REST                                                                    *)

\* store.increment.
Hit == rest' = [hits |-> rest.hits + 1,
                left |-> IF rest.left = 0 THEN Window ELSE rest.left]

\* Mutant: the comparison lets one request more pass.
RefusesLate(hits) == hits > Points + 1

Refuses(hits) == hits > Points

RestArrive(r) ==
    /\ requests[r] = "idle"
    /\ Hit
    /\ IF Refuses(rest.hits + 1)
       THEN /\ tally.refused < MaxRefusals
            /\ tally' = [tally EXCEPT !.refused = @ + 1]
            /\ UNCHANGED requests
       ELSE Move(r, "rest") /\ UNCHANGED tally
    /\ UNCHANGED graphql

\* store.decrement, which knows no window and stops at zero.
Decrement == rest' = [rest EXCEPT !.hits = IF @ > 0 THEN @ - 1 ELSE @]

\* The answer has been sent and its status is below 400.
RestSucceed(r) ==
    /\ requests[r] \in {"rest", "earlier"}
    /\ Decrement
    /\ tally' = IF requests[r] = "earlier" /\ rest.hits > 0
                THEN [tally EXCEPT !.earned = @ + 1] ELSE tally
    /\ Move(r, "idle")
    /\ UNCHANGED graphql

\* Any other answer leaves the count.
RestFail(r) ==
    /\ requests[r] \in {"rest", "earlier"}
    /\ tally' = IF requests[r] = "rest" THEN [tally EXCEPT !.failed = @ + 1] ELSE tally
    /\ Move(r, "idle")
    /\ UNCHANGED <<rest, graphql>>

\* The client closes the connection first: "finish" is never emitted, so that
\* even a successful login stays counted.
RestAbort(r) ==
    /\ requests[r] \in {"rest", "earlier"}
    /\ tally' = IF requests[r] = "rest" THEN [tally EXCEPT !.lost = @ + 1] ELSE tally
    /\ Move(r, "idle")
    /\ UNCHANGED <<rest, graphql>>

-----------------------------------------------------------------------------
(* GraphQL                                                                 *)

\* Mutant: the address is refused only beyond the points.
LooksLate == graphql.consumed <= Points

\* rateLimiter.get: a refusal changes nothing.
Looks == graphql.consumed < Points

GraphqlArrive(r) ==
    /\ requests[r] = "idle"
    /\ Looks
    /\ Move(r, "graphql")
    /\ UNCHANGED <<rest, graphql, tally>>

GraphqlSucceed(r) ==
    /\ requests[r] = "graphql"
    /\ Move(r, "idle")
    /\ UNCHANGED <<rest, graphql, tally>>

\* Mutant: every rejected consumption starts the block anew.
BlockAlways(consumed) == consumed > Points

\* The block starts when the points are first exceeded, not again after that.
Block(consumed) == consumed = Points + 1

\* rateLimiter.consume, after the resolver has thrown.
GraphqlFail(r) ==
    LET consumed == graphql.consumed + 1 IN
    /\ requests[r] = "graphql"
    /\ graphql' = [consumed |-> consumed,
                   left |-> IF graphql.left = 0 \/ Block(consumed)
                            THEN Window ELSE graphql.left,
                   age |-> graphql.age]
    /\ Move(r, "idle")
    /\ UNCHANGED <<rest, tally>>

-----------------------------------------------------------------------------

\* A tick ends a REST window whose time is up.
TickRest ==
    IF rest.left = 1
    THEN /\ rest' = [hits |-> 0, left |-> 0]
         /\ requests' = [r \in Requests |->
                           IF requests[r] = "rest" THEN "earlier" ELSE requests[r]]
         /\ tally' = NewWindow
    ELSE /\ rest' = [rest EXCEPT !.left = IF @ = 0 THEN 0 ELSE @ - 1]
         /\ UNCHANGED <<requests, tally>>

\* A tick deletes an expired GraphQL entry.
TickGraphql ==
    graphql' = IF graphql.left <= 1
               THEN [consumed |-> 0, left |-> 0, age |-> 0]
               ELSE [consumed |-> graphql.consumed, left |-> graphql.left - 1,
                     age |-> graphql.age + 1]

Tick ==
    /\ rest.left > 0 \/ graphql.left > 0
    /\ TickRest
    /\ TickGraphql

Rest(r) == RestArrive(r) \/ RestSucceed(r) \/ RestFail(r) \/ RestAbort(r)

Graphql(r) == GraphqlArrive(r) \/ GraphqlSucceed(r) \/ GraphqlFail(r)

Next == (\E r \in Requests : Rest(r) \/ Graphql(r)) \/ Tick

Spec == Init /\ [][Next]_vars

-----------------------------------------------------------------------------

\* A counter is zero while no window runs, and a window lasts at most Window ticks.
TypeOK ==
    /\ requests \in [Requests -> Stage]
    /\ rest \in [hits : Nat, left : 0..Window]
    /\ graphql \in [consumed : Nat, left : 0..Window, age : Nat]
    /\ tally \in [failed : Nat, refused : Nat, lost : Nat, earned : Nat]
    /\ rest.left = 0 => rest.hits = 0 /\ tally = NewWindow /\ At("rest") = {}
    /\ graphql.left = 0 => graphql.consumed = 0 /\ graphql.age = 0

\* GraphQL looks before and counts after: logins that were let through together
\* may all fail beyond the points.  Exactly the logins in flight can do so: the
\* failures of a window stay below the points plus the number of slots.
GraphqlFailuresBounded ==
    graphql.consumed < Points + Cardinality(Requests)

\* What the REST counter stands for, although it is lowered by answers that may
\* be late and stops at zero: no more than the logins of this window that did not
\* succeed, and no less but for the successes of earlier windows.
Counted == tally.failed + tally.refused + tally.lost + Cardinality(At("rest"))

HitsAccounted ==
    rest.hits <= Counted /\ Counted <= rest.hits + tally.earned

\* A REST window lets no more logins fail than the limit, however they overlap,
\* except one for each success of an earlier window whose answer arrived in it.
RestFailuresBounded ==
    tally.failed + tally.lost + Cardinality(At("rest")) <= Points + tally.earned

\* REST refuses an address only when the limit is really used up: by logins of
\* this window that failed, were refused or went unanswered, or are in flight.
RefusalsJustified ==
    [][tally'.refused > tally.refused => Counted >= Points]_vars

\* The block that follows the points is imposed once: failures that arrive
\* during it do not prolong it, and an address is free again at most two windows
\* after its first failure.
LockoutEnds == graphql.age + graphql.left <= 2 * Window
=============================================================================

---------------------------- MODULE ServerProofs ----------------------------
(***************************************************************************)
(* Proofs about what server.ts puts around the application, one part after *)
(* the other: LoginThrottle, for any number of logins in flight, any limit *)
(* and any window; PayloadLimit, for any limit and bodies of any length;   *)
(* ServerLifecycle, for any connections and jobs.                          *)
(***************************************************************************)
EXTENDS LoginThrottle, PayloadLimit, ServerLifecycle, FiniteSetTheorems, TLAPS

(* The login limiters                                                      *)

Count(stage) == Cardinality(At(stage))

\* The logins at a stage can be counted.
LEMMA CountsAreNumbers ==
    /\ Cardinality(Requests) \in Nat
    /\ \A stage : /\ IsFiniteSet(At(stage)) /\ Count(stage) \in Nat
                  /\ Count(stage) <= Cardinality(Requests)
BY RequestsAssumption, FS_CardinalityType, FS_Subset DEF At, Count

\* A request that changes its stage is counted in the new one only.
LEMMA MoveCounts ==
    ASSUME requests \in [Requests -> Stage], NEW r \in Requests, NEW to \in Stage,
           requests[r] # to, Move(r, to), NEW stage \in Stage
    PROVE  /\ requests' \in [Requests -> Stage]
           /\ Count(stage)' = IF stage = to THEN Count(stage) + 1
                              ELSE IF stage = requests[r] THEN Count(stage) - 1
                              ELSE Count(stage)
<1>1. requests' = [requests EXCEPT ![r] = to]
  BY DEF Move
<1>2. \A s \in Requests : requests'[s] = IF s = r THEN to ELSE requests[s]
  BY <1>1
<1>3. CASE stage = to
  <2>1. At(stage)' = At(stage) \cup {r} /\ r \notin At(stage)
    BY <1>2, <1>3 DEF At
  <2>2. QED BY <1>1, <1>3, <2>1, CountsAreNumbers, FS_AddElement DEF Count
<1>4. CASE stage # to /\ stage = requests[r]
  <2>1. At(stage)' = At(stage) \ {r} /\ r \in At(stage)
    BY <1>2, <1>4 DEF At
  <2>2. QED BY <1>1, <1>4, <2>1, CountsAreNumbers, FS_RemoveElement DEF Count
<1>5. CASE stage # to /\ stage # requests[r]
  <2>1. At(stage)' = At(stage)
    BY <1>2, <1>5 DEF At
  <2>2. QED BY <1>1, <1>5, <2>1 DEF Count
<1>6. QED BY <1>3, <1>4, <1>5

\* The inductive invariant of the GraphQL limiter: what is in flight may still
\* be counted, and a block is imposed before the window has been prolonged.
GraphqlInv ==
    /\ graphql.consumed + Count("graphql") < Points + Cardinality(Requests)
    /\ graphql.age + graphql.left <= 2 * Window
    /\ graphql.consumed <= Points => graphql.age + graphql.left <= Window

RestInv == HitsAccounted /\ RestFailuresBounded

\* A window starts with an empty tally.
LEMMA EmptyWindow ==
    NewWindow \in [failed : Nat, refused : Nat, lost : Nat, earned : Nat]
    /\ NewWindow.failed = 0 /\ NewWindow.refused = 0
    /\ NewWindow.lost = 0 /\ NewWindow.earned = 0
BY DEF NewWindow

\* The first state satisfies the invariant.
LEMMA InitInv == Init => TypeOK /\ GraphqlInv /\ RestInv
<1> SUFFICES ASSUME Init PROVE TypeOK /\ GraphqlInv /\ RestInv
  OBVIOUS
<1>1. \A stage \in Stage : stage # "idle" => At(stage) = {}
  BY DEF Init, At
<1>2. Count("rest") = 0 /\ Count("graphql") = 0 /\ At("rest") = {}
  BY <1>1, FS_EmptySet DEF Count, Stage
<1>3. TypeOK
  BY <1>2, LimitsAssumption, EmptyWindow DEF Init, TypeOK, Stage
<1>4. GraphqlInv
  BY <1>2, LimitsAssumption, CountsAreNumbers DEF Init, GraphqlInv
<1>5. RestInv
  BY <1>2, LimitsAssumption, EmptyWindow
  DEF Init, RestInv, HitsAccounted, RestFailuresBounded, Counted, Count
<1>6. QED BY <1>3, <1>4, <1>5

\* The steps of a REST login leave the GraphQL limiter alone.
LEMMA RestKeepsGraphql ==
    ASSUME TypeOK, GraphqlInv, NEW r \in Requests, Rest(r)
    PROVE  GraphqlInv'
<1>1. graphql' = graphql
  BY DEF Rest, RestArrive, RestSucceed, RestFail, RestAbort
<1>2. CASE requests' = requests
  BY <1>1, <1>2 DEF GraphqlInv, Count, At
<1>3. CASE requests' # requests
  <2>1. PICK to \in {"idle", "rest"} : Move(r, to) /\ requests[r] # to
                                       /\ requests[r] # "graphql"
    BY <1>3 DEF Rest, RestArrive, RestSucceed, RestFail, RestAbort
  <2>2. Count("graphql")' = Count("graphql")
    BY <2>1, MoveCounts DEF TypeOK, Stage
  <2>3. QED BY <1>1, <2>2 DEF GraphqlInv
<1>4. QED BY <1>2, <1>3

\* The effects of the steps of a REST login on counter, tally and flight.
LEMMA RestSteps ==
    ASSUME TypeOK, RestInv, NEW r \in Requests, Rest(r)
    PROVE  TypeOK' /\ RestInv'
<1>1. /\ rest \in [hits : Nat, left : 0..Window]
      /\ tally \in [failed : Nat, refused : Nat, lost : Nat, earned : Nat]
      /\ requests \in [Requests -> Stage] /\ Count("rest") \in Nat
      /\ Points \in Nat \ {0} /\ Window \in Nat \ {0}
  BY CountsAreNumbers, LimitsAssumption DEF TypeOK
<1>2. /\ rest.hits <= tally.failed + tally.refused + tally.lost + Count("rest")
      /\ tally.failed + tally.refused + tally.lost + Count("rest")
           <= rest.hits + tally.earned
      /\ tally.failed + tally.lost + Count("rest") <= Points + tally.earned
  BY DEF RestInv, HitsAccounted, RestFailuresBounded, Counted, Count
<1>3. /\ (rest.hits <= tally.failed + tally.refused + tally.lost + Count("rest"))'
      /\ (tally.failed + tally.refused + tally.lost + Count("rest")
           <= rest.hits + tally.earned)'
      /\ (tally.failed + tally.lost + Count("rest") <= Points + tally.earned)'
      => RestInv'
  BY DEF RestInv, HitsAccounted, RestFailuresBounded, Counted, Count
<1>4. rest.left = 0 => At("rest") = {} /\ rest.hits = 0 /\ tally = NewWindow
  BY DEF TypeOK
<1>5. graphql' = graphql
  BY DEF Rest, RestArrive, RestSucceed, RestFail, RestAbort
<1>6. CASE RestArrive(r) /\ Refuses(rest.hits + 1)
  <2>1. /\ rest'.hits = rest.hits + 1 /\ rest'.left \in 1..Window
        /\ rest' \in [hits : Nat, left : 0..Window]
    BY <1>1, <1>6 DEF RestArrive, Hit
  <2>2. /\ tally'.failed = tally.failed /\ tally'.refused = tally.refused + 1
        /\ tally'.lost = tally.lost /\ tally'.earned = tally.earned
        /\ tally' \in [failed : Nat, refused : Nat, lost : Nat, earned : Nat]
        /\ requests' = requests
    BY <1>1, <1>6 DEF RestArrive
  <2>3. Count("rest")' = Count("rest")
    BY <2>2 DEF Count, At
  <2>4. RestInv'
    BY <1>1, <1>2, <1>3, <2>1, <2>2, <2>3
  <2>5. TypeOK'
    BY <1>5, <2>1, <2>2 DEF TypeOK
  <2>6. QED BY <2>4, <2>5
<1>7. CASE RestArrive(r) /\ ~Refuses(rest.hits + 1)
  <2>1. /\ rest'.hits = rest.hits + 1 /\ rest'.left \in 1..Window
        /\ rest' \in [hits : Nat, left : 0..Window] /\ rest.hits + 1 <= Points
    BY <1>1, <1>7 DEF RestArrive, Hit, Refuses
  <2>2. tally' = tally /\ Move(r, "rest") /\ requests[r] = "idle"
    BY <1>7 DEF RestArrive
  <2>3. Count("rest")' = Count("rest") + 1 /\ requests' \in [Requests -> Stage]
    BY <1>1, <2>2, MoveCounts DEF Stage
  <2>4. RestInv'
    BY <1>1, <1>2, <1>3, <2>1, <2>2, <2>3
  <2>5. TypeOK'
    BY <1>1, <1>5, <2>1, <2>2, <2>3 DEF TypeOK
  <2>6. QED BY <2>4, <2>5
<1>8. ASSUME RestSucceed(r) \/ RestFail(r) \/ RestAbort(r)
      PROVE  /\ Move(r, "idle") /\ requests' \in [Requests -> Stage]
             /\ Count("rest")' = IF requests[r] = "rest"
                                 THEN Count("rest") - 1 ELSE Count("rest")
             /\ requests[r] = "rest" => rest.left # 0
             /\ requests[r] \in {"rest", "earlier"}
             /\ rest.left = 0 => At("rest")' = {}
  <2>1. Move(r, "idle") /\ requests[r] \in {"rest", "earlier"}
    BY <1>8 DEF RestSucceed, RestFail, RestAbort
  <2>2. requests' \in [Requests -> Stage]
        /\ Count("rest")' = IF requests[r] = "rest" THEN Count("rest") - 1 ELSE Count("rest")
    BY <1>1, <2>1, MoveCounts DEF Stage
  <2>3. requests[r] = "rest" => rest.left # 0
    BY <1>4 DEF At
  <2>4. At("rest")' \subseteq At("rest")
    BY <1>1, <2>1 DEF At, Move
  <2>5. QED BY <1>4, <2>1, <2>2, <2>3, <2>4
<1>9. CASE RestSucceed(r)
  <2>1. /\ rest'.hits = IF rest.hits > 0 THEN rest.hits - 1 ELSE rest.hits
        /\ rest'.left = rest.left /\ rest' \in [hits : Nat, left : 0..Window]
    BY <1>1, <1>9 DEF RestSucceed, Decrement
  <2>2. CASE requests[r] = "earlier" /\ rest.hits > 0
    <3>1. /\ tally'.failed = tally.failed /\ tally'.refused = tally.refused
          /\ tally'.lost = tally.lost /\ tally'.earned = tally.earned + 1
          /\ tally' \in [failed : Nat, refused : Nat, lost : Nat, earned : Nat]
      BY <1>1, <1>9, <2>2 DEF RestSucceed
    <3>2. RestInv'
      BY <1>1, <1>2, <1>3, <1>8, <1>9, <2>1, <2>2, <3>1
    <3>3. TypeOK'
      BY <1>1, <1>4, <1>5, <1>8, <1>9, <2>1, <2>2, <3>1 DEF TypeOK
    <3>4. QED BY <3>2, <3>3
  <2>3. CASE ~(requests[r] = "earlier" /\ rest.hits > 0)
    <3>1. tally' = tally
      BY <1>9, <2>3 DEF RestSucceed
    <3>2. requests[r] = "rest" => Count("rest") > 0
      <4>1. requests[r] = "rest" => Count("rest")' = Count("rest") - 1
        BY <1>8, <1>9
      <4>2. requests[r] = "rest" => At("rest") # {}
        BY DEF At
      <4>3. QED BY <4>2, CountsAreNumbers, FS_EmptySet DEF Count
    <3>3. RestInv'
      BY <1>1, <1>2, <1>3, <1>8, <1>9, <2>1, <2>3, <3>1, <3>2
    <3>4. TypeOK'
      BY <1>1, <1>4, <1>5, <1>8, <1>9, <2>1, <3>1 DEF TypeOK
    <3>5. QED BY <3>3, <3>4
  <2>4. QED BY <2>2, <2>3
<1>10. CASE RestFail(r) \/ RestAbort(r)
  <2>1. rest' = rest
    BY <1>10 DEF RestFail, RestAbort
  <2>2. CASE requests[r] = "rest"
    <3>1. /\ tally' \in [failed : Nat, refused : Nat, lost : Nat, earned : Nat]
          /\ tally'.failed + tally'.lost = tally.failed + tally.lost + 1
          /\ tally'.refused = tally.refused /\ tally'.earned = tally.earned
      BY <1>1, <1>10, <2>2 DEF RestFail, RestAbort
    <3>2. RestInv'
      BY <1>1, <1>2, <1>3, <1>8, <1>10, <2>1, <2>2, <3>1
    <3>3. TypeOK'
      BY <1>1, <1>5, <1>8, <1>10, <2>1, <2>2, <3>1 DEF TypeOK
    <3>4. QED BY <3>2, <3>3
  <2>3. CASE requests[r] # "rest"
    <3>1. tally' = tally
      BY <1>10, <2>3 DEF RestFail, RestAbort
    <3>2. RestInv'
      BY <1>1, <1>2, <1>3, <1>8, <1>10, <2>1, <2>3, <3>1
    <3>3. TypeOK'
      BY <1>1, <1>4, <1>5, <1>8, <1>10, <2>1, <3>1 DEF TypeOK
    <3>4. QED BY <3>2, <3>3
  <2>4. QED BY <2>2, <2>3
<1>11. QED BY <1>6, <1>7, <1>9, <1>10 DEF Rest

\* The steps of a GraphQL login.
LEMMA GraphqlSteps ==
    ASSUME TypeOK, GraphqlInv, RestInv, NEW r \in Requests, Graphql(r)
    PROVE  TypeOK' /\ GraphqlInv' /\ RestInv'
<1>1. rest' = rest /\ tally' = tally
  BY DEF Graphql, GraphqlArrive, GraphqlSucceed, GraphqlFail
<1>2. PICK to \in {"idle", "graphql"} : Move(r, to) /\ requests[r] # to
                                       /\ requests[r] \in {"idle", "graphql"}
  BY DEF Graphql, GraphqlArrive, GraphqlSucceed, GraphqlFail
<1>3. requests' \in [Requests -> Stage] /\ Count("rest")' = Count("rest")
  BY <1>2, MoveCounts DEF TypeOK, Stage
<1>4. RestInv'
  BY <1>1, <1>3 DEF RestInv, HitsAccounted, RestFailuresBounded, Counted, Count
<1>5. At("rest")' \subseteq At("rest")
  BY <1>2 DEF At, Move, TypeOK
<1>6. /\ graphql \in [consumed : Nat, left : 0..Window, age : Nat]
      /\ Points \in Nat \ {0} /\ Window \in Nat \ {0}
      /\ Cardinality(Requests) \in Nat /\ Count("graphql") \in Nat
  BY LimitsAssumption, CountsAreNumbers DEF TypeOK
<1>7. /\ graphql.consumed + Count("graphql") < Points + Cardinality(Requests)
      /\ graphql.age + graphql.left <= 2 * Window
      /\ graphql.consumed <= Points => graphql.age + graphql.left <= Window
      /\ graphql.left = 0 => graphql.consumed = 0 /\ graphql.age = 0
  BY DEF GraphqlInv, TypeOK
<1>8. CASE GraphqlArrive(r)
  <2>1. graphql' = graphql /\ graphql.consumed < Points /\ requests[r] = "idle"
        /\ Move(r, "graphql")
    BY <1>8 DEF GraphqlArrive, Looks
  <2>2. Count("graphql")' = Count("graphql") + 1
    BY <2>1, MoveCounts DEF TypeOK, Stage
  <2>3. Count("graphql")' <= Cardinality(Requests)
    <3>1. At("graphql")' \subseteq Requests
      BY DEF At
    <3>2. QED BY <3>1, RequestsAssumption, FS_Subset DEF Count
  <2>4. GraphqlInv'
    BY <1>6, <1>7, <2>1, <2>2, <2>3 DEF GraphqlInv
  <2>5. TypeOK'
    BY <1>1, <1>3, <1>5, <2>1 DEF TypeOK
  <2>6. QED BY <1>4, <2>4, <2>5
<1>9. CASE GraphqlSucceed(r)
  <2>1. graphql' = graphql /\ requests[r] = "graphql" /\ Move(r, "idle")
    BY <1>9 DEF GraphqlSucceed
  <2>2. Count("graphql")' = Count("graphql") - 1
    BY <2>1, MoveCounts DEF TypeOK, Stage
  <2>3. GraphqlInv'
    BY <1>6, <1>7, <2>1, <2>2 DEF GraphqlInv
  <2>4. TypeOK'
    BY <1>1, <1>3, <1>5, <2>1 DEF TypeOK
  <2>5. QED BY <1>4, <2>3, <2>4
<1>10. CASE GraphqlFail(r)
  <2>1. requests[r] = "graphql" /\ Move(r, "idle")
    BY <1>10 DEF GraphqlFail
  <2>2. Count("graphql")' = Count("graphql") - 1
    BY <2>1, MoveCounts DEF TypeOK, Stage
  <2>3. /\ graphql' \in [consumed : Nat, left : 0..Window, age : Nat]
        /\ graphql'.consumed = graphql.consumed + 1
        /\ graphql'.age = graphql.age
        /\ graphql'.left = IF graphql.left = 0 \/ graphql.consumed = Points
                           THEN Window ELSE graphql.left
    BY <1>6, <1>10 DEF GraphqlFail, Block
  <2>4. graphql'.left # 0
    BY <1>6, <2>3
  <2>5. GraphqlInv'
    BY <1>6, <1>7, <2>2, <2>3 DEF GraphqlInv
  <2>6. TypeOK'
    BY <1>1, <1>3, <1>5, <2>3, <2>4 DEF TypeOK
  <2>7. QED BY <1>4, <2>5, <2>6
<1>11. QED BY <1>8, <1>9, <1>10 DEF Graphql

\* The end of a window starts its counter and its tally anew together.
LEMMA TickSteps ==
    ASSUME TypeOK, GraphqlInv, RestInv, Tick
    PROVE  TypeOK' /\ GraphqlInv' /\ RestInv'
<1>1. /\ rest \in [hits : Nat, left : 0..Window]
      /\ graphql \in [consumed : Nat, left : 0..Window, age : Nat]
      /\ tally \in [failed : Nat, refused : Nat, lost : Nat, earned : Nat]
      /\ requests \in [Requests -> Stage]
      /\ Points \in Nat \ {0} /\ Window \in Nat \ {0}
      /\ Cardinality(Requests) \in Nat /\ Count("graphql") \in Nat
      /\ Count("graphql") <= Cardinality(Requests)
  BY LimitsAssumption, CountsAreNumbers DEF TypeOK
<1>2. /\ graphql'.consumed \in {0, graphql.consumed}
      /\ graphql' \in [consumed : Nat, left : 0..Window, age : Nat]
      /\ graphql'.left = 0 => graphql'.consumed = 0 /\ graphql'.age = 0
      /\ \/ graphql'.age + graphql'.left = 0
         \/ /\ graphql'.age + graphql'.left = graphql.age + graphql.left
            /\ graphql'.consumed = graphql.consumed
  <2>1. CASE graphql.left <= 1
    BY <1>1, <2>1 DEF Tick, TickGraphql
  <2>2. CASE graphql.left > 1
    BY <1>1, <2>2 DEF Tick, TickGraphql
  <2>3. QED BY <1>1, <2>1, <2>2
<1>3. requests' \in [Requests -> Stage] /\ At("graphql")' = At("graphql")
  BY <1>1 DEF Tick, TickRest, At, Stage
<1>4. GraphqlInv'
  BY <1>1, <1>2, <1>3 DEF GraphqlInv, Count
<1>5. CASE rest.left = 1
  <2>1. rest' = [hits |-> 0, left |-> 0] /\ tally' = NewWindow
    BY <1>5 DEF Tick, TickRest
  <2>2. At("rest")' = {}
    BY <1>1, <1>5 DEF Tick, TickRest, At
  <2>3. Count("rest")' = 0
    BY <2>2, FS_EmptySet DEF Count
  <2>4. RestInv'
    BY <1>1, <2>1, <2>3, EmptyWindow
    DEF RestInv, HitsAccounted, RestFailuresBounded, Counted, Count
  <2>5. TypeOK'
    BY <1>1, <1>2, <1>3, <2>1, <2>2, EmptyWindow DEF TypeOK
  <2>6. QED BY <1>4, <2>4, <2>5
<1>6. CASE rest.left # 1
  <2>1. /\ tally' = tally /\ requests' = requests /\ rest'.hits = rest.hits
        /\ rest' \in [hits : Nat, left : 0..Window]
        /\ rest'.left = 0 => rest.left = 0
    BY <1>1, <1>6 DEF Tick, TickRest
  <2>2. RestInv'
    BY <2>1 DEF RestInv, HitsAccounted, RestFailuresBounded, Counted, At
  <2>3. TypeOK'
    BY <1>1, <1>2, <2>1 DEF TypeOK, At
  <2>4. QED BY <1>4, <2>2, <2>3
<1>7. QED BY <1>5, <1>6

\* A step that changes nothing keeps the invariant.
LEMMA StutterKeeps ==
    ASSUME TypeOK, GraphqlInv, RestInv, UNCHANGED vars
    PROVE  TypeOK' /\ GraphqlInv' /\ RestInv'
BY DEF vars, TypeOK, GraphqlInv, RestInv, HitsAccounted, RestFailuresBounded,
       Counted, Count, At

\* The counters stay well formed, and count exactly what they should.
THEOREM LimitersInvariant == Spec => [](TypeOK /\ GraphqlInv /\ RestInv)
<1>1. TypeOK /\ GraphqlInv /\ RestInv /\ [Next]_vars => (TypeOK /\ GraphqlInv /\ RestInv)'
  BY RestKeepsGraphql, RestSteps, GraphqlSteps, TickSteps, StutterKeeps DEF Next
<1>2. QED BY InitInv, <1>1, PTL DEF Spec

\* The counters never leave their ranges, and stand for nothing while no window runs.
THEOREM LoginThrottleTypeCorrect == Spec => []TypeOK
BY LimitersInvariant, PTL

\* For any limit and any number of overlapping logins, the failures GraphQL lets
\* happen in a window stay below the points plus the number of slots.
THEOREM GraphqlBound == Spec => []GraphqlFailuresBounded
<1>1. TypeOK /\ GraphqlInv => GraphqlFailuresBounded
  BY LimitsAssumption, CountsAreNumbers DEF TypeOK, GraphqlInv, GraphqlFailuresBounded
<1>2. QED BY <1>1, LimitersInvariant, PTL

\* For any limit and any number of overlapping logins, REST lets no more logins
\* fail in a window than the limit and the late successes of earlier windows.
THEOREM RestBound == Spec => [](HitsAccounted /\ RestFailuresBounded)
<1>1. RestInv => HitsAccounted /\ RestFailuresBounded
  BY DEF RestInv
<1>2. QED BY <1>1, LimitersInvariant, PTL

\* A lockout is over two windows after the first failure, whatever arrives.
THEOREM LockoutIsBounded == Spec => []LockoutEnds
<1>1. GraphqlInv => LockoutEnds
  BY DEF GraphqlInv, LockoutEnds
<1>2. QED BY <1>1, LimitersInvariant, PTL

\* A login is refused only when the limit is used up by logins that did not succeed.
THEOREM RefusalIsJustified == Spec => RefusalsJustified
<1>1. ASSUME TypeOK, RestInv, Next, tally'.refused > tally.refused
      PROVE  Counted >= Points
  <2>1. tally \in [failed : Nat, refused : Nat, lost : Nat, earned : Nat]
        /\ rest \in [hits : Nat, left : 0..Window]
    BY <1>1 DEF TypeOK
  <2>2. NewWindow.refused = 0
    BY EmptyWindow
  <2>3. ~Tick /\ \A r \in Requests : ~Graphql(r) /\ ~RestSucceed(r) /\ ~RestFail(r)
                                     /\ ~RestAbort(r)
    BY <1>1, <2>1, <2>2 DEF Tick, TickRest, Graphql, GraphqlArrive, GraphqlSucceed,
       GraphqlFail, RestSucceed, RestFail, RestAbort
  <2>4. PICK r \in Requests : RestArrive(r)
    BY <1>1, <2>3 DEF Next, Rest
  <2>5. rest.hits + 1 > Points
    BY <1>1, <2>1, <2>4 DEF RestArrive, Refuses
  <2>6. rest.hits <= Counted /\ Counted \in Nat
    BY <1>1, <2>1, CountsAreNumbers DEF RestInv, HitsAccounted, Counted, Count
  <2>7. QED BY <2>1, <2>5, <2>6, LimitsAssumption
<1>2. TypeOK /\ RestInv /\ [Next]_vars => [tally'.refused > tally.refused => Counted >= Points]_vars
  BY <1>1
<1>3. QED BY <1>2, LimitersInvariant, PTL DEF Spec, RefusalsJustified

-----------------------------------------------------------------------------
(* The payload limit                                                       *)

\* Why the limit is exact: the stream has everything until the flag is set,
\* the flag is set by a byte too many and never without an answer, and 413
\* is answered to nothing else but a declared length beyond the limit.
LimitInv ==
    /\ ~exceeded => delivered = sent
    /\ exceeded => sent > MaxBytes /\ answer # "none"
    /\ middleware = "refused" => declared # None /\ declared > MaxBytes
    /\ answer = "413" => exceeded \/ middleware = "refused"

\* The first states satisfy the invariant.
LEMMA InitLimit == BodyInit => BodyTypeOK /\ LimitInv
<1> SUFFICES ASSUME BodyInit PROVE BodyTypeOK /\ LimitInv
  OBVIOUS
<1>1. 0 \in 0..MaxSent /\ 0 \in 0..MaxBytes
  BY SizesAssumption
<1>2. QED BY <1>1 DEF BodyInit, BodyTypeOK, LimitInv

\* The middleware either refuses a declared length or lets the request in.
LEMMA EnterKeeps ==
    ASSUME BodyTypeOK, LimitInv, Enter
    PROVE  BodyTypeOK' /\ LimitInv'
<1>1. CASE declared # None /\ declared > MaxBytes
  <2>1. CASE answer # "none"
    BY <1>1, <2>1 DEF Enter, TooLarge, BodyTypeOK, LimitInv
  <2>2. CASE answer = "none"
    BY <1>1, <2>2 DEF Enter, TooLarge, BodyTypeOK, LimitInv
  <2>3. QED BY <2>1, <2>2
<1>2. CASE ~(declared # None /\ declared > MaxBytes)
  BY <1>2 DEF Enter, BodyTypeOK, LimitInv
<1>3. QED BY <1>1, <1>2

\* A chunk is passed on, sets the flag with an answer, or is dropped after it.
LEMMA PushKeeps ==
    ASSUME BodyTypeOK, LimitInv, NEW n \in 1..MaxChunk, Push(n)
    PROVE  BodyTypeOK' /\ LimitInv'
<1>1. /\ sent \in Nat /\ n \in Nat /\ MaxBytes \in Nat /\ MaxSent \in Nat
      /\ delivered \in 0..MaxBytes
      /\ sent' = sent + n /\ sent' \in 0..MaxSent
  BY SizesAssumption DEF BodyTypeOK, Push, None
<1>2. UNCHANGED <<declared, middleware, eof, handler>>
  BY DEF Push
<1>3. CASE exceeded
  <2>1. UNCHANGED <<exceeded, delivered, flowing, answer, destroyed>>
    BY <1>3 DEF Push
  <2>2. QED BY <1>1, <1>2, <1>3, <2>1 DEF BodyTypeOK, LimitInv
<1>4. CASE ~exceeded /\ Exceeds(sent + n)
  <2>1. exceeded' = TRUE /\ TooLarge /\ delivered' = delivered
    BY <1>4 DEF Push
  <2>2. sent' > MaxBytes
    BY <1>1, <1>4 DEF Exceeds
  <2>3. answer' \in {"413", "handler"} /\ flowing' = FALSE /\ destroyed' \in BOOLEAN
    BY <2>1 DEF TooLarge, BodyTypeOK
  <2>4. QED BY <1>1, <1>2, <2>1, <2>2, <2>3 DEF BodyTypeOK, LimitInv
<1>5. CASE ~exceeded /\ ~Exceeds(sent + n)
  <2>1. delivered' = delivered + n /\ UNCHANGED <<exceeded, flowing, answer, destroyed>>
    BY <1>5 DEF Push
  <2>2. delivered' = sent' /\ delivered' \in 0..MaxBytes
    BY <1>1, <1>5, <2>1 DEF Exceeds, LimitInv
  <2>3. QED BY <1>1, <1>2, <1>5, <2>1, <2>2 DEF BodyTypeOK, LimitInv
<1>6. QED BY <1>3, <1>4, <1>5

\* The other steps neither push nor refuse.
LEMMA OthersKeep ==
    ASSUME BodyTypeOK, LimitInv,
           PushEnd \/ Resume \/ ReadEnd \/ AnswerBody \/ Sent \/ CloseBody \/ UNCHANGED bodyVars
    PROVE  BodyTypeOK' /\ LimitInv'
<1>1. UNCHANGED <<declared, middleware, sent, delivered, exceeded>>
  BY DEF PushEnd, Resume, ReadEnd, AnswerBody, Sent, CloseBody, bodyVars
<1>2. /\ flowing' \in BOOLEAN /\ eof' \in {"open", "queued", "ended"}
      /\ handler' \in {"waiting", "reading", "complete", "done"}
      /\ destroyed' \in BOOLEAN
      /\ answer' \in {"none", "413", "handler"}
      /\ answer' = answer \/ (answer = "none" /\ answer' = "handler")
  BY DEF BodyTypeOK, PushEnd, Resume, ReadEnd, AnswerBody, Sent, CloseBody, bodyVars
<1>3. QED BY <1>1, <1>2 DEF BodyTypeOK, LimitInv

\* The state keeps its shape, and what was cut is on record.
THEOREM LimitInvariant == BodySpec => [](BodyTypeOK /\ LimitInv)
<1>1. BodyTypeOK /\ LimitInv /\ [BodyNext]_bodyVars => (BodyTypeOK /\ LimitInv)'
  BY EnterKeeps, PushKeeps, OthersKeep DEF BodyNext, Over
<1>2. QED BY InitLimit, <1>1, PTL DEF BodySpec

\* For any limit, a body that keeps it reaches the application whole.
THEOREM LimitIsExact == BodySpec => []WithinLimitUntouched
<1>1. BodyTypeOK /\ LimitInv => WithinLimitUntouched
  BY SizesAssumption DEF BodyTypeOK, LimitInv, WithinLimitUntouched, None
<1>2. QED BY <1>1, LimitInvariant, PTL

\* For any limit, no answer depends on the end of a body that was cut.
THEOREM TruncationAnswered == BodySpec => []TruncationIsAnswered
<1>1. BodyTypeOK /\ LimitInv => TruncationIsAnswered
  BY DEF BodyTypeOK, LimitInv, TruncationIsAnswered
<1>2. QED BY <1>1, LimitInvariant, PTL

\* No step replaces an answer that has begun.
THEOREM AnswersOnce == BodySpec => OneAnswer
<1>1. BodyTypeOK /\ LimitInv /\ [BodyNext]_bodyVars =>
        [answer # "none" => answer' = answer]_bodyVars
  <2> SUFFICES ASSUME BodyTypeOK, LimitInv, BodyNext, answer # "none" PROVE answer' = answer
    OBVIOUS
  <2>1. CASE Enter
    BY <2>1 DEF Enter, TooLarge
  <2>2. ASSUME NEW n \in 1..MaxChunk, Push(n) PROVE answer' = answer
    BY <2>2 DEF Push, TooLarge, BodyTypeOK
  <2>3. CASE PushEnd \/ Resume \/ ReadEnd \/ AnswerBody \/ Sent \/ CloseBody \/ Over
    BY <2>3 DEF PushEnd, Resume, ReadEnd, AnswerBody, Sent, CloseBody, Over, bodyVars
  <2>4. QED BY <2>1, <2>2, <2>3 DEF BodyNext
<1>2. QED BY <1>1, LimitInvariant, PTL DEF BodySpec, OneAnswer

-----------------------------------------------------------------------------
(* The life cycle                                                          *)

Idle == connections = [c \in Connections |-> "none"]

\* No handler and no execution anybody waits for.
Quiet == Idle /\ jobs = {} /\ cron = "off" /\ ~listening

NoSockets == \A c \in Connections : connections[c] # "socket"

\* The parts the process holds in each phase.
Held ==
    /\ phase \in {"load", "connect"} => Quiet /\ ~database /\ ~consumers /\ ~bridge
    /\ phase = "prepare" => Quiet /\ database /\ consumers
    /\ phase = "initialize" =>
         Idle /\ ~listening /\ cron = "starting" /\ database /\ consumers
    /\ phase = "bind" => Idle /\ ~listening /\ cron = "on" /\ database /\ consumers
    /\ phase = "up" => database /\ consumers /\ bridge /\ cron = "on"
    /\ phase = "abortCron" =>
         /\ Idle /\ ~listening /\ database /\ consumers
         /\ cron = "off" => jobs = {}
         /\ cron \in {"off", "settling", "waiting"}
    /\ phase = "abortApollo" => Quiet /\ database /\ consumers
    /\ phase = "abortDatabase" => Quiet
    /\ phase \in {"prepare", "initialize", "bind"} => bridge
    /\ phase = "stopCron" =>
         /\ ~listening /\ database /\ consumers /\ bridge
         /\ cron \in {"settling", "waiting"}
    /\ phase = "stopHttp" =>
         /\ ~listening /\ database /\ consumers /\ ~bridge /\ ~io
         /\ NoSockets /\ jobs = {} /\ cron = "off"
    /\ phase = "stopApollo" => Quiet /\ database /\ consumers /\ ~bridge
    /\ phase = "stopDatabase" => Quiet /\ ~consumers /\ ~bridge
    /\ phase = "run" => Quiet /\ database /\ consumers /\ ~bridge
    /\ phase = "close" => Quiet /\ ~consumers /\ ~bridge
    /\ phase = "failed" =>
         Quiet \/ (database /\ consumers /\ bridge /\ ~listening)
    /\ phase \in {"done", "exited", "killed"} =>
         Quiet /\ ~database /\ ~consumers /\ ~bridge

IInv == ServerTypeOK /\ ConfigurationIsComplete /\ Held

\* The two readers of the environment agree: what the validation accepts can be
\* built.
LEMMA AcceptedIsBuilt ==
    ASSUME NEW env \in Environment, Accepted(env)
    PROVE  /\ buildMongoUri(env) \in {"mongo", "assembled"}
           /\ buildPublicUrl(env) \in {"host", "address"}
BY DEF Environment, Accepted, hasDatabaseUri, buildMongoUri, buildPublicUrl

\* The first states satisfy the invariant.
LEMMA ServerInitInv == ServerInit => IInv
<1> SUFFICES ASSUME ServerInit PROVE IInv
  OBVIOUS
<1>1. config \in Config /\ ConfigurationIsComplete
  BY DEF ServerInit, NoConfig, Config, ConfigurationIsComplete
<1>2. connections \in [Connections -> {"none", "idle", "busy", "socket"}]
  BY DEF ServerInit
<1>3. ServerTypeOK
  BY <1>1, <1>2 DEF ServerInit, ServerTypeOK, Phase, Starting
<1>4. Held
  BY DEF ServerInit, Held, Quiet, Idle
<1> QED
  BY <1>1, <1>3, <1>4 DEF IInv

\* A step keeps the shapes of the state, and the configuration is built from an
\* environment that was accepted.
LEMMA StepTypes ==
    ServerTypeOK /\ ConfigurationIsComplete /\ [ServerNext]_serverVars
        => ServerTypeOK' /\ ConfigurationIsComplete'
<1> SUFFICES ASSUME ServerTypeOK, ConfigurationIsComplete, [ServerNext]_serverVars
             PROVE  ServerTypeOK' /\ ConfigurationIsComplete'
  OBVIOUS
<1> USE DEF ServerTypeOK, ConfigurationIsComplete, Phase, Starting, Aborting, Stopping, Ended
<1>1. CASE Load
  <2>1. CASE Accepted(environment)
    <3>1. config' = [uri |-> buildMongoUri(environment),
                     publicHost |-> buildPublicUrl(environment)]
      BY <1>1, <2>1 DEF Load
    <3>2. config'.uri \in {"mongo", "assembled"} /\ config'.publicHost \in {"host", "address"}
      BY <3>1, <2>1, AcceptedIsBuilt
    <3>3. config' \in Config
      BY <3>1, <3>2 DEF Config
    <3> QED BY <1>1, <2>1, <3>2, <3>3 DEF Load, parts, work
  <2>2. CASE ~Accepted(environment)
    BY <1>1, <2>2 DEF Load, Gone, settings
  <2> QED BY <2>1, <2>2
<1>2. CASE NoScript
  BY <1>2 DEF NoScript, settings, parts, work
<1>3. CASE Connect
  BY <1>3 DEF Connect, Goto, settings, parts, work
<1>4. CASE ConnectFails
  BY <1>4 DEF ConnectFails, Gone, settings, parts, work
<1>5. CASE Prepare
  <2>1. CASE Gone("exited", 1)
    BY <2>1 DEF Gone, settings, parts, work
  <2>2. CASE /\ Goto("initialize") /\ cron' = "starting"
             /\ UNCHANGED <<parts, jobs, connections, orphans>>
    <3>1. phase = "prepare" /\ phase' = "initialize"
      BY <1>5, <2>2 DEF Prepare, Goto
    <3> QED BY <2>2, <3>1 DEF Goto, settings, parts, work
  <2> QED BY <1>5, <2>1, <2>2 DEF Prepare
<1>6. CASE Initialize
  BY <1>6 DEF Initialize, Goto, settings, parts, work
<1>7. CASE InitializeFails
  BY <1>7 DEF InitializeFails, Goto, settings, parts, work
<1>8. CASE Bind
  BY <1>8 DEF Bind, settings, parts, work
<1>9. CASE BindFails
  BY <1>9 DEF BindFails, Goto, settings, parts, work
<1>10. CASE Settle
  BY <1>10 DEF Settle, settings, parts, work
<1>11. CASE StopCron
  BY <1>11 DEF StopCron, Goto, settings, parts, work
<1>12. CASE StopHttp
  BY <1>12 DEF StopHttp, Goto, settings, parts, work
<1>13. CASE StopApollo
  BY <1>13 DEF StopApollo, Goto, settings, parts, work
<1>14. CASE StopDatabase
  BY <1>14 DEF StopDatabase, Goto, settings, parts, work
<1>15. CASE AbortCron
  BY <1>15 DEF AbortCron, Goto, settings, parts, work
<1>16. CASE AbortApollo
  BY <1>16 DEF AbortApollo, Goto, settings, parts, work
<1>17. CASE Exit
  BY <1>17 DEF Exit, Gone, settings, parts, work
<1>18. CASE Run
  BY <1>18 DEF Run, settings, parts, work
<1>19. CASE CloseScript
  BY <1>19 DEF CloseScript, Goto, settings, parts, work
<1>20. CASE StopFails
  BY <1>20 DEF StopFails, settings, parts, work
<1>21. CASE Kill
  BY <1>21 DEF Kill, Gone, settings, parts, work
<1>22. ASSUME NEW s \in Signals, Shutdown(s)
      PROVE  ServerTypeOK' /\ ConfigurationIsComplete'
  <2>1. CASE phase = "up"
    <3>1. connections' \in [Connections -> {"none", "idle", "busy", "socket"}]
      BY <1>22, <2>1 DEF Shutdown
    <3> QED BY <1>22, <2>1, <3>1 DEF Shutdown, settings
  <2>2. CASE phase # "up"
    BY <1>22, <2>2 DEF Shutdown, settings, parts, work
  <2> QED BY <2>1, <2>2
<1>23. ASSUME NEW c \in Connections, Open(c)
      PROVE  ServerTypeOK' /\ ConfigurationIsComplete'
  BY <1>23 DEF Open, To, OnConnections, settings, parts, work
<1>24. ASSUME NEW c \in Connections, Request(c)
      PROVE  ServerTypeOK' /\ ConfigurationIsComplete'
  BY <1>24 DEF Request, To, OnConnections, settings, parts, work
<1>25. ASSUME NEW c \in Connections, Answer(c)
      PROVE  ServerTypeOK' /\ ConfigurationIsComplete'
  BY <1>25 DEF Answer, To, OnConnections, settings, parts, work
<1>26. ASSUME NEW c \in Connections, Upgrade(c)
      PROVE  ServerTypeOK' /\ ConfigurationIsComplete'
  BY <1>26 DEF Upgrade, To, OnConnections, settings, parts, work
<1>27. ASSUME NEW c \in Connections, Close(c)
      PROVE  ServerTypeOK' /\ ConfigurationIsComplete'
  BY <1>27 DEF Close, To, OnConnections, settings, parts, work
<1>28. ASSUME NEW j \in Jobs, Fire(j)
      PROVE  ServerTypeOK' /\ ConfigurationIsComplete'
  BY <1>28 DEF Fire, settings, parts, work
<1>29. ASSUME NEW w \in Connections \cup Jobs, Finish(w)
      PROVE  ServerTypeOK' /\ ConfigurationIsComplete'
  BY <1>29 DEF Finish, settings, parts, work
<1>30. CASE UNCHANGED serverVars
  BY <1>30 DEF serverVars, settings, parts, work
<1> QED
  BY <1>1, <1>2, <1>3, <1>4, <1>5, <1>6, <1>7, <1>8, <1>9, <1>10, <1>11,
     <1>12, <1>13, <1>14, <1>15, <1>16, <1>17, <1>18, <1>19, <1>20, <1>21,
     <1>22, <1>23, <1>24, <1>25, <1>26, <1>27, <1>28, <1>29, <1>30 DEF ServerNext,
     StartStep, StopStep

\* A step moves the parts of the process from what one phase holds to what the
\* next one does.
LEMMA StepHeld == ServerTypeOK /\ Held /\ [ServerNext]_serverVars => Held'
<1> SUFFICES ASSUME ServerTypeOK, Held, [ServerNext]_serverVars
             PROVE  Held'
  OBVIOUS
<1> USE DEF Held, Quiet, Idle, NoSockets
<1>1. CASE Load
  BY <1>1 DEF Load, Gone, settings, parts, work, ServerTypeOK, Phase,
         Starting, Aborting, Stopping, Ended
<1>2. CASE NoScript
  BY <1>2 DEF NoScript, settings, parts, work, ServerTypeOK, Phase,
         Starting, Aborting, Stopping, Ended
<1>3. CASE Connect
  BY <1>3 DEF Connect, Goto, settings, parts, work, ServerTypeOK, Phase,
         Starting, Aborting, Stopping, Ended
<1>4. CASE ConnectFails
  BY <1>4 DEF ConnectFails, Gone, settings, parts, work, ServerTypeOK, Phase,
         Starting, Aborting, Stopping, Ended
<1>5. CASE Prepare
  <2>1. CASE Gone("exited", 1)
    BY <2>1 DEF Gone, settings, parts, work
  <2>2. CASE /\ Goto("initialize") /\ cron' = "starting"
             /\ UNCHANGED <<parts, jobs, connections, orphans>>
    <3>1. phase = "prepare" /\ phase' = "initialize"
      BY <1>5, <2>2 DEF Prepare, Goto
    <3> QED BY <2>2, <3>1 DEF Goto, settings, parts, work
  <2> QED BY <1>5, <2>1, <2>2 DEF Prepare
<1>6. CASE Initialize
  BY <1>6 DEF Initialize, Goto, settings, parts, work, ServerTypeOK, Phase,
         Starting, Aborting, Stopping, Ended
<1>7. CASE InitializeFails
  BY <1>7 DEF InitializeFails, Goto, settings, parts, work, ServerTypeOK, Phase,
         Starting, Aborting, Stopping, Ended
<1>8. CASE Bind
  BY <1>8 DEF Bind, settings, parts, work, ServerTypeOK, Phase,
         Starting, Aborting, Stopping, Ended
<1>9. CASE BindFails
  BY <1>9 DEF BindFails, Goto, settings, parts, work, ServerTypeOK, Phase,
         Starting, Aborting, Stopping, Ended
<1>10. CASE Settle
  BY <1>10 DEF Settle, settings, parts, work, ServerTypeOK, Phase,
         Starting, Aborting, Stopping, Ended
<1>11. CASE StopCron
  BY <1>11 DEF StopCron, Goto, settings, parts, work, ServerTypeOK, Phase,
         Starting, Aborting, Stopping, Ended
<1>12. CASE StopHttp
  BY <1>12 DEF StopHttp, Goto, settings, parts, work, ServerTypeOK, Phase,
         Starting, Aborting, Stopping, Ended
<1>13. CASE StopApollo
  BY <1>13 DEF StopApollo, Goto, settings, parts, work, ServerTypeOK, Phase,
         Starting, Aborting, Stopping, Ended
<1>14. CASE StopDatabase
  BY <1>14 DEF StopDatabase, Goto, settings, parts, work, ServerTypeOK, Phase,
         Starting, Aborting, Stopping, Ended
<1>15. CASE AbortCron
  BY <1>15 DEF AbortCron, Goto, settings, parts, work, ServerTypeOK, Phase,
         Starting, Aborting, Stopping, Ended
<1>16. CASE AbortApollo
  BY <1>16 DEF AbortApollo, Goto, settings, parts, work, ServerTypeOK, Phase,
         Starting, Aborting, Stopping, Ended
<1>17. CASE Exit
  BY <1>17 DEF Exit, Gone, settings, parts, work, ServerTypeOK, Phase,
         Starting, Aborting, Stopping, Ended
<1>18. CASE Run
  BY <1>18 DEF Run, settings, parts, work, ServerTypeOK, Phase,
         Starting, Aborting, Stopping, Ended
<1>19. CASE CloseScript
  BY <1>19 DEF CloseScript, Goto, settings, parts, work, ServerTypeOK, Phase,
         Starting, Aborting, Stopping, Ended
<1>20. CASE StopFails
  BY <1>20 DEF StopFails, settings, parts, work, ServerTypeOK, Phase,
         Starting, Aborting, Stopping, Ended
<1>21. CASE Kill
  BY <1>21 DEF Kill, Gone, settings, parts, work, ServerTypeOK, Phase,
         Starting, Aborting, Stopping, Ended
<1>22. ASSUME NEW s \in Signals, Shutdown(s)
      PROVE  Held'
  BY <1>22 DEF Shutdown, settings, parts, work, ServerTypeOK, Phase,
         Starting, Aborting, Stopping, Ended
<1>23. ASSUME NEW c \in Connections, Open(c)
      PROVE  Held'
  BY <1>23 DEF Open, To, OnConnections, settings, parts, work, ServerTypeOK, Phase,
         Starting, Aborting, Stopping, Ended
<1>24. ASSUME NEW c \in Connections, Request(c)
      PROVE  Held'
  BY <1>24 DEF Request, To, OnConnections, settings, parts, work, ServerTypeOK, Phase,
         Starting, Aborting, Stopping, Ended
<1>25. ASSUME NEW c \in Connections, Answer(c)
      PROVE  Held'
  BY <1>25 DEF Answer, To, OnConnections, settings, parts, work, ServerTypeOK, Phase,
         Starting, Aborting, Stopping, Ended
<1>26. ASSUME NEW c \in Connections, Upgrade(c)
      PROVE  Held'
  BY <1>26 DEF Upgrade, To, OnConnections, settings, parts, work, ServerTypeOK, Phase,
         Starting, Aborting, Stopping, Ended
<1>27. ASSUME NEW c \in Connections, Close(c)
      PROVE  Held'
  BY <1>27 DEF Close, To, OnConnections, settings, parts, work, ServerTypeOK, Phase,
         Starting, Aborting, Stopping, Ended
<1>28. ASSUME NEW j \in Jobs, Fire(j)
      PROVE  Held'
  BY <1>28 DEF Fire, settings, parts, work, ServerTypeOK, Phase,
         Starting, Aborting, Stopping, Ended
<1>29. ASSUME NEW w \in Connections \cup Jobs, Finish(w)
      PROVE  Held'
  BY <1>29 DEF Finish, settings, parts, work, ServerTypeOK, Phase,
         Starting, Aborting, Stopping, Ended
<1>30. CASE UNCHANGED serverVars
  BY <1>30 DEF serverVars, settings, parts, work
<1> QED
  BY <1>1, <1>2, <1>3, <1>4, <1>5, <1>6, <1>7, <1>8, <1>9, <1>10, <1>11,
     <1>12, <1>13, <1>14, <1>15, <1>16, <1>17, <1>18, <1>19, <1>20, <1>21,
     <1>22, <1>23, <1>24, <1>25, <1>26, <1>27, <1>28, <1>29, <1>30 DEF ServerNext,
     StartStep, StopStep

\* The invariant of the process.
THEOREM LifecycleInvariant == ServerSpec => []IInv
<1>1. ServerInit => IInv
  BY ServerInitInv
<1>2. IInv /\ [ServerNext]_serverVars => IInv'
  BY StepTypes, StepHeld DEF IInv
<1> QED
  BY <1>1, <1>2, PTL DEF ServerSpec

\* The parts of the process always have the declared shapes.
THEOREM ServerTypeCorrect == ServerSpec => []ServerTypeOK
<1>1. IInv => ServerTypeOK
  BY DEF IInv
<1> QED
  BY <1>1, LifecycleInvariant, PTL

\* A configuration is never built from an environment it cannot be built from.
THEOREM ConfigurationBuilt == ServerSpec => []ConfigurationIsComplete
<1>1. IInv => ConfigurationIsComplete
  BY DEF IInv
<1> QED
  BY <1>1, LifecycleInvariant, PTL

\* No request whose client waits and no execution the scheduler knows is ever
\* left without the database, with any number of connections and jobs.
THEOREM WorkKeepsDatabase == ServerSpec => []WorkHasItsDatabase
<1>1. IInv => WorkHasItsDatabase
  BY DEF IInv, ServerTypeOK, Held, Quiet, Idle, WorkHasItsDatabase, Phase, Starting,
         Aborting, Stopping, Ended
<1> QED
  BY <1>1, LifecycleInvariant, PTL

\* No socket outlives the bridge.
THEOREM SocketsKeepBridge == ServerSpec => []SocketsAreBridged
<1>1. IInv => SocketsAreBridged
  BY DEF IInv, ServerTypeOK, Held, Quiet, Idle, NoSockets, SocketsAreBridged, Phase,
         Starting, Aborting, Stopping, Ended
<1> QED
  BY <1>1, LifecycleInvariant, PTL

\* A program that ended by itself has let go of everything.
THEOREM EndsAreClean == ServerSpec => []CleanEnd
<1>1. IInv => CleanEnd
  BY DEF IInv, Held, Quiet, Idle, CleanEnd
<1> QED
  BY <1>1, LifecycleInvariant, PTL
=============================================================================

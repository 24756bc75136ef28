------------------------- MODULE AccessControlProofs -------------------------
(***************************************************************************)
(* Proofs about the load of the policy and the calls it decides.           *)
(***************************************************************************)
EXTENDS AccessControl, RbacTheorems, SequenceTheorems, WellFoundedInduction

-----------------------------------------------------------------------------
(* The search of validateCycles                                            *)

Steps == {"roles", "includes", "refused", "cycles", "cycle", "rules", "accepted"}

\* What the validations before the search have established.
Validated ==
    /\ definitions \in H!Lists /\ step \in Steps
    /\ step \notin {"roles", "refused"} => H!Defined = Role
    /\ step \notin {"roles", "includes", "refused"} =>
         \A role \in Role : H!Includes(role) \subseteq Role

\* The activations of visit(): each role is included by the one below it, directly,
\* and what an activation has been through is visited, but for the role being visited.
Activations ==
    /\ stack \in Seq([role: Role, todo: SUBSET Role])
    /\ visiting = {stack[n].role : n \in DOMAIN stack}
    /\ visiting \cap visited = {}
    /\ \A m, n \in DOMAIN stack : m < n =>
         /\ stack[m].role # stack[n].role
         /\ H!Reaches(stack[m].role, stack[n].role)
    /\ \A n \in DOMAIN stack :
         /\ stack[n].todo \subseteq H!Includes(stack[n].role)
         /\ H!Includes(stack[n].role) \ stack[n].todo \subseteq
              visited \cup {stack[m].role : m \in {k \in DOMAIN stack : k = n + 1}}
    /\ Role \subseteq pending \cup visiting \cup visited

Closure(role) == {role} \cup {r \in Role : H!Reaches(role, r)}

\* What a visited role stands for: everything it leads to has been visited, it is on
\* no cycle, and its expansion is known.
Explored ==
    /\ visited \subseteq Role /\ pending \subseteq Role
    /\ \A role \in visited :
         /\ H!Includes(role) \subseteq visited
         /\ ~H!Reaches(role, role)
         /\ H!includedRoles[role] = Closure(role)

Outcome ==
    /\ step \in {"roles", "includes"} => visited = {} /\ visiting = {} /\ stack = <<>>
    /\ step = "cycle" => H!Cyclic
    /\ step \in {"rules", "accepted"} => visited = Role
    /\ step = "accepted" => \A rule \in rules : ~H!NotImplemented(rule)

Search ==
    /\ Validated /\ Explored /\ Outcome
    /\ step = "cycles" => Activations

\* Calls are decided by the definitions the validation accepted.
Serving ==
    verdict # "idle" => step = "accepted" /\ definitions = ROLE_DEFINITIONS

-----------------------------------------------------------------------------

\* The definitions never change, nor does what they say.
LEMMA HierarchyStays ==
    ASSUME definitions' = definitions
    PROVE  /\ H!Defined' = H!Defined
           /\ \A role : H!Includes(role)' = H!Includes(role)
           /\ \A role, other : H!Reaches(role, other)' = H!Reaches(role, other)
           /\ H!Cyclic' = H!Cyclic
           /\ H!includedRoles' = H!includedRoles
           /\ \A role : Closure(role)' = Closure(role)
<1>1. H!Defined' = H!Defined
  BY DEF H!Defined
<1>2. \A role : H!Includes(role)' = H!Includes(role)
  BY <1>1 DEF H!Includes
<1>3. \A role, other : H!Reaches(role, other)' = H!Reaches(role, other)
  BY <1>2 DEF H!Reaches, H!Closed
<1>4. H!Cyclic' = H!Cyclic
  BY <1>3 DEF H!Cyclic
<1>5. H!includedRoles' = H!includedRoles
  BY <1>2 DEF H!includedRoles
<1>6. \A role : Closure(role)' = Closure(role)
  BY <1>3 DEF Closure
<1>7. QED BY <1>1, <1>2, <1>3, <1>4, <1>5, <1>6

\* What is included is reached, and paths go on.
LEMMA PathsGoOn ==
    ASSUME \A r \in Role : H!Includes(r) \subseteq Role, H!Defined = Role,
           NEW role
    PROVE  /\ H!Includes(role) \subseteq Role
           /\ \A r \in H!Includes(role) : H!Reaches(role, r)
           /\ \A r : H!Reaches(role, r) =>
                r \in Role /\ \A s \in H!Includes(r) : H!Reaches(role, s)
           /\ \A r \in Role : H!Reaches(role, r) <=>
                \E s \in H!Includes(role) : r = s \/ H!Reaches(s, r)
<1>1. \A r : H!Includes(r) \subseteq Role
  BY DEF H!Includes
<1>2. \A r \in H!Includes(role) : H!Reaches(role, r)
  BY DEF H!Reaches
<1>3. \A r : H!Reaches(role, r) => r \in Role
  BY <1>1 DEF H!Reaches, H!Closed
<1>4. \A r : H!Reaches(role, r) => \A s \in H!Includes(r) : H!Reaches(role, s)
  BY DEF H!Reaches, H!Closed
<1>5. \A r, s : s \in H!Includes(role) /\ (r = s \/ H!Reaches(s, r)) => H!Reaches(role, r)
  BY DEF H!Reaches, H!Closed
<1>6. ASSUME NEW r \in Role, H!Reaches(role, r)
      PROVE  \E s \in H!Includes(role) : r = s \/ H!Reaches(s, r)
  <2> DEFINE Beyond == {x \in Role : \E s \in H!Includes(role) : x = s \/ H!Reaches(s, x)}
  <2>1. H!Includes(role) \subseteq Beyond
    BY <1>1
  <2>2. ASSUME NEW x \in Beyond, NEW y \in H!Includes(x) PROVE y \in Beyond
    <3>1. PICK s \in H!Includes(role) : x = s \/ H!Reaches(s, x)
      OBVIOUS
    <3>2. H!Reaches(s, y)
      BY <3>1 DEF H!Reaches, H!Closed
    <3>3. QED BY <1>1, <3>2
  <2>3. Beyond \in SUBSET (Role \cup {Foreign}) /\ H!Closed(Beyond)
    BY <2>2 DEF H!Closed
  <2>4. r \in Beyond
    BY <1>6, <2>1, <2>3 DEF H!Reaches
  <2>5. QED BY <2>4
<1>7. QED BY <1>1, <1>2, <1>3, <1>4, <1>5, <1>6

\* The recursion of includedRoles has a solution, so it is one: a role's expansion is
\* itself with the expansions of what it includes.
LEMMA ExpansionRecurs ==
    ASSUME \A r \in Role : H!Includes(r) \subseteq Role, H!Defined = Role
    PROVE  \A role \in Role : H!includedRoles[role] =
             {role} \cup UNION {{r} \cup H!includedRoles[r] : r \in H!Includes(role)}
<1> DEFINE Step(f, role) == {role} \cup UNION {{r} \cup f[r] : r \in H!Includes(role)}
           Solution == [role \in Role |-> Closure(role)]
<1>1. ASSUME NEW role \in Role PROVE Closure(role) = Step(Solution, role)
  <2>1. \A r \in H!Includes(role) : r \in Role /\ Solution[r] = Closure(r)
    BY PathsGoOn
  <2>2. Step(Solution, role) = {role} \cup UNION {{r} \cup Closure(r) : r \in H!Includes(role)}
    BY <2>1
  <2>3. \A r : r \in Closure(role) <=>
           r = role \/ \E s \in H!Includes(role) : r = s \/ r \in Closure(s)
    BY PathsGoOn DEF Closure
  <2> HIDE DEF Solution
  <2>4. QED BY <2>2, <2>3
<1>2. \E f : f = [role \in Role |-> Step(f, role)]
  <2>1. [role \in Role |-> Closure(role)] = [role \in Role |-> Step(Solution, role)]
    BY <1>1
  <2>2. Solution = [role \in Role |-> Step(Solution, role)]
    BY <2>1
  <2> HIDE DEF Solution, Step
  <2>3. QED BY <2>2
<1>3. H!includedRoles = [role \in Role |-> Step(H!includedRoles, role)]
  BY <1>2, Zenon DEF H!includedRoles
<1>4. QED BY <1>3

-----------------------------------------------------------------------------

Activation == [role: Role, todo: SUBSET Role]

\* A bounded set of naturals has a greatest member.
LEMMA GreatestExists ==
    ASSUME NEW n \in Nat, NEW T \in SUBSET (1..n), T # {}
    PROVE  \E x \in T : \A y \in T : y <= x
<1> DEFINE Distances == {n - x : x \in T}
<1>1. Distances \subseteq Nat /\ Distances # {}
  <2>1. \A x \in T : x \in 1..n /\ n - x \in Nat
    OBVIOUS
  <2>2. PICK x : x \in T
    OBVIOUS
  <2>3. n - x \in Distances
    BY <2>2
  <2>4. QED BY <2>1, <2>3
<1>2. \E d \in Distances : \A e \in Distances : ~(<<e, d>> \in OpToRel(<, Nat))
  <2> HIDE DEF Distances
  <2>1. QED BY <1>1, NatLessThanWellFounded, WFMin
<1>3. PICK d \in Distances : \A e \in Distances : ~(e < d)
  BY <1>1, <1>2 DEF OpToRel
<1>4. PICK x \in T : d = n - x
  OBVIOUS
<1>5. ASSUME NEW y \in T PROVE y <= x
  <2>1. x \in 1..n /\ y \in 1..n
    OBVIOUS
  <2>2. n - y \in Distances
    OBVIOUS
  <2>3. ~(n - y < n - x)
    BY <1>3, <1>4, <2>2
  <2>4. QED BY <2>1, <2>3
<1>6. QED BY <1>5

\* The stack without its top, and with another top.
LEMMA TopOfStack ==
    ASSUME NEW S, NEW s \in Seq(S), s # <<>>, NEW top \in S
    PROVE  /\ Len(s) \in Nat \ {0} /\ s[Len(s)] \in S
           /\ H!Front(s) \in Seq(S) /\ Len(H!Front(s)) = Len(s) - 1
           /\ \A n \in 1..(Len(s) - 1) : H!Front(s)[n] = s[n]
           /\ Append(H!Front(s), top) \in Seq(S) /\ Len(Append(H!Front(s), top)) = Len(s)
           /\ Append(H!Front(s), top)[Len(s)] = top
           /\ \A n \in 1..(Len(s) - 1) : Append(H!Front(s), top)[n] = s[n]
<1>1. Len(s) \in Nat \ {0} /\ s[Len(s)] \in S
  OBVIOUS
<1>2. /\ H!Front(s) \in Seq(S) /\ Len(H!Front(s)) = Len(s) - 1
      /\ \A n \in 1..(Len(s) - 1) : H!Front(s)[n] = s[n]
  <2>1. PICK n \in Nat : n = Len(s) - 1
    BY <1>1
  <2>2. \A i \in 1..n : s[i] \in S
    BY <2>1
  <2>3. /\ SubSeq(s, 1, n) \in Seq(S) /\ Len(SubSeq(s, 1, n)) = IF 1 <= n THEN n - 1 + 1 ELSE 0
        /\ \A i \in 1..(n - 1 + 1) : SubSeq(s, 1, n)[i] = s[1 + i - 1]
    BY <2>2, SubSeqProperties
  <2>4. Len(SubSeq(s, 1, n)) = n /\ \A i \in 1..n : SubSeq(s, 1, n)[i] = s[i]
    BY <2>3
  <2>5. H!Front(s) = SubSeq(s, 1, n)
    BY <2>1 DEF H!Front
  <2>6. QED BY <2>1, <2>3, <2>4, <2>5
<1>3. QED BY <1>1, <1>2

\* A call of visit keeps the invariant, if the stack it leaves behind does but for
\* the role that is visited.
LEMMA VisitKeepsSearch ==
    ASSUME Search, step = "cycles", NEW role \in Role, NEW rest \in Seq(Activation),
           visiting = {rest[n].role : n \in DOMAIN rest},
           \A m, n \in DOMAIN rest : m < n =>
             rest[m].role # rest[n].role /\ H!Reaches(rest[m].role, rest[n].role),
           \A n \in DOMAIN rest :
             /\ rest[n].todo \subseteq H!Includes(rest[n].role)
             /\ H!Includes(rest[n].role) \ rest[n].todo \subseteq
                  visited \cup {rest[m].role : m \in {k \in DOMAIN rest : k = n + 1}}
                    \cup (IF n = Len(rest) THEN {role} ELSE {})
             /\ H!Reaches(rest[n].role, role),
           Role \subseteq pending' \cup visiting \cup visited \cup {role}, pending' \subseteq Role,
           H!visit(role, rest), UNCHANGED <<definitions, rules, visited>>
    PROVE  Search'
<1> USE HierarchyStays
<1>1. /\ \A r \in Role : H!Includes(r) \subseteq Role
      /\ H!Defined = Role
  BY DEF Search, Validated
<1>2. Explored'
  BY DEF Search, Explored
<1>3. CASE role \in visiting
  <2>1. step' = "cycle" /\ stack' = rest
    BY <1>3 DEF H!visit
  <2>2. H!Reaches(role, role)
    BY <1>3
  <2>3. Validated' /\ Outcome'
    BY <1>1, <2>1, <2>2 DEF Search, Validated, Steps, Outcome, H!Cyclic
  <2>4. QED BY <1>2, <2>1, <2>3 DEF Search
<1>4. CASE role \notin visiting /\ role \in visited
  <2>1. stack' = rest /\ UNCHANGED <<step, visiting>>
    BY <1>4 DEF H!visit
  <2>2. Validated' /\ Outcome'
    BY <1>1, <2>1 DEF Search, Validated, Outcome
  <2>3. Activations'
    <3>1. Role \subseteq pending' \cup visiting \cup visited
      BY <1>4
    <3>2. visiting \cap visited = {}
      BY DEF Search, Activations
    <3>3. \A n \in DOMAIN rest : H!Includes(rest[n].role) \ rest[n].todo \subseteq
                  visited \cup {rest[m].role : m \in {k \in DOMAIN rest : k = n + 1}}
      BY <1>4
    <3>4. QED BY <2>1, <3>1, <3>2, <3>3 DEF Activations, Activation
  <2>4. QED BY <1>2, <2>2, <2>3 DEF Search
<1>5. CASE role \notin visiting /\ role \notin visited
  <2> DEFINE new == [role |-> role, todo |-> H!Includes(role)]
  <2>1. /\ stack' = Append(rest, new) /\ UNCHANGED step
        /\ visiting' = visiting \cup {role}
    BY <1>5 DEF H!visit
  <2>2. Validated' /\ Outcome'
    BY <1>1, <2>1 DEF Search, Validated, Outcome
  <2>3. new \in Activation /\ new.role = role /\ new.todo = H!Includes(role)
    BY <1>1 DEF Activation
  <2> HIDE DEF new
  <2>4. /\ stack' \in Seq(Activation) /\ Len(stack') = Len(rest) + 1
        /\ Len(rest) \in Nat /\ DOMAIN rest = 1..Len(rest)
        /\ DOMAIN stack' = 1..(Len(rest) + 1)
        /\ stack'[Len(rest) + 1] = new
        /\ \A n \in 1..Len(rest) : stack'[n] = rest[n]
    BY <2>1, <2>3
  <2>5. visiting' = {stack'[n].role : n \in DOMAIN stack'}
    BY <2>1, <2>3, <2>4
  <2>6. visiting' \cap visited' = {}
    BY <1>5, <2>1 DEF Search, Activations
  <2>7. \A m, n \in DOMAIN stack' : m < n =>
          stack'[m].role # stack'[n].role /\ H!Reaches(stack'[m].role, stack'[n].role)
    <3> SUFFICES ASSUME NEW m \in DOMAIN stack', NEW n \in DOMAIN stack', m < n
                 PROVE  stack'[m].role # stack'[n].role
                        /\ H!Reaches(stack'[m].role, stack'[n].role)
      OBVIOUS
    <3>1. m \in DOMAIN rest /\ stack'[m] = rest[m] /\ rest[m].role \in visiting
      BY <2>4
    <3>2. CASE n = Len(rest) + 1
      BY <1>5, <2>3, <2>4, <3>1, <3>2
    <3>3. CASE n # Len(rest) + 1
      BY <2>4, <3>1, <3>3
    <3>4. QED BY <3>2, <3>3
  <2>8. ASSUME NEW n \in DOMAIN stack'
        PROVE  /\ stack'[n].todo \subseteq H!Includes(stack'[n].role)
               /\ H!Includes(stack'[n].role) \ stack'[n].todo \subseteq
                    visited \cup {stack'[m].role : m \in {k \in DOMAIN stack' : k = n + 1}}
    <3>1. CASE n = Len(rest) + 1
      BY <2>3, <2>4, <3>1
    <3>2. CASE n = Len(rest)
      <4>1. n \in DOMAIN rest /\ stack'[n] = rest[n]
        BY <2>4, <3>2
      <4>2. {k \in DOMAIN rest : k = n + 1} = {}
        BY <2>4, <3>2
      <4>3. H!Includes(rest[n].role) \ rest[n].todo \subseteq visited \cup {role}
        BY <3>2, <4>1, <4>2
      <4>4. {k \in DOMAIN stack' : k = n + 1} = {Len(rest) + 1}
        BY <2>4, <3>2
      <4>5. {stack'[m].role : m \in {k \in DOMAIN stack' : k = n + 1}} = {role}
        BY <2>3, <2>4, <4>4
      <4>6. QED BY <4>1, <4>3, <4>5
    <3>3. CASE n < Len(rest)
      <4>1. n \in DOMAIN rest /\ n + 1 \in DOMAIN rest /\ stack'[n] = rest[n]
            /\ stack'[n + 1] = rest[n + 1] /\ n # Len(rest)
        BY <2>4, <3>3
      <4>2. H!Includes(rest[n].role) \ rest[n].todo \subseteq visited \cup {rest[n + 1].role}
        BY <4>1
      <4>3. rest[n + 1].role \in {stack'[m].role : m \in {k \in DOMAIN stack' : k = n + 1}}
        BY <2>4, <4>1
      <4>4. QED BY <4>1, <4>2, <4>3
    <3>4. QED BY <2>4, <3>1, <3>2, <3>3
  <2>9. Role \subseteq pending' \cup visiting' \cup visited'
    BY <2>1
  <2>10. Activations'
    BY <2>4, <2>5, <2>6, <2>7, <2>8, <2>9 DEF Activations, Activation
  <2>11. QED BY <1>2, <2>2, <2>10 DEF Search
<1>6. QED BY <1>3, <1>4, <1>5

-----------------------------------------------------------------------------

LEMMA SearchInit == ControlInit => Search
<1> SUFFICES ASSUME ControlInit PROVE Search
  OBVIOUS
<1>1. H!Init
  BY DEF ControlInit
<1>2. Validated
  BY <1>1 DEF Validated, Steps, H!Init
<1>3. Explored /\ Outcome
  BY <1>1 DEF Explored, Outcome, H!Init
<1>4. QED BY <1>1, <1>2, <1>3 DEF Search, H!Init

LEMMA VisitKeySearch == ASSUME Search, H!VisitKey PROVE Search'
<1>1. PICK role \in pending : pending' = pending \ {role} /\ H!visit(role, <<>>)
  BY DEF H!VisitKey
<1>2. step = "cycles" /\ stack = <<>> /\ UNCHANGED <<definitions, rules, visited>>
  BY DEF H!VisitKey
<1>3. role \in Role /\ pending' \subseteq Role
  BY <1>1 DEF Search, Explored
<1>4. visiting = {} /\ Role \subseteq pending \cup visited
  BY <1>2 DEF Search, Activations
<1>5. DOMAIN <<>> = {} /\ <<>> \in Seq(Activation)
  OBVIOUS
<1>6. Role \subseteq pending' \cup visiting \cup visited \cup {role}
  BY <1>1, <1>4
<1>7. visiting = {<<>>[n].role : n \in DOMAIN <<>>}
  BY <1>4, <1>5
<1> DEFINE rest == <<>>
<1> HIDE DEF rest
<1>8. rest \in Seq(Activation) /\ DOMAIN rest = {} /\ visiting = {rest[n].role : n \in DOMAIN rest}
      /\ H!visit(role, rest)
  BY <1>1, <1>5, <1>7 DEF rest
<1>9. QED BY <1>2, <1>3, <1>6, <1>8, VisitKeepsSearch

LEMMA VisitIncludedSearch == ASSUME Search, H!VisitIncluded PROVE Search'
<1> DEFINE last == Len(stack)
           top == stack[Len(stack)]
<1>1. PICK role \in top.todo :
         H!visit(role, Append(H!Front(stack), [top EXCEPT !.todo = @ \ {role}]))
  BY DEF H!VisitIncluded
<1>2. /\ step = "cycles" /\ stack # <<>>
      /\ UNCHANGED <<definitions, rules, pending, visited>>
  BY DEF H!VisitIncluded
<1>3. Activations /\ stack \in Seq(Activation) /\ DOMAIN stack = 1..last
  BY <1>2 DEF Search, Activations, Activation
<1>4. last \in Nat \ {0} /\ top \in Activation
  BY <1>2, <1>3, TopOfStack
<1> DEFINE newTop == [top EXCEPT !.todo = @ \ {role}]
<1>5. newTop \in Activation /\ newTop.role = top.role /\ newTop.todo = top.todo \ {role}
  BY <1>4 DEF Activation
<1> DEFINE rest == Append(H!Front(stack), newTop)
<1>6. H!visit(role, rest)
  BY <1>1
<1> HIDE DEF newTop
<1>7. /\ rest \in Seq(Activation) /\ Len(rest) = last /\ DOMAIN rest = 1..last
      /\ rest[last] = newTop /\ \A n \in 1..(last - 1) : rest[n] = stack[n]
  <2>1. stack \in Seq(Activation) /\ stack # <<>> /\ newTop \in Activation
    BY <1>2, <1>3, <1>5
  <2>2. /\ rest \in Seq(Activation) /\ Len(rest) = last
        /\ rest[last] = newTop /\ \A n \in 1..(last - 1) : rest[n] = stack[n]
    BY <2>1, TopOfStack
  <2> HIDE DEF rest, last
  <2>3. DOMAIN rest = 1..last
    BY <2>2
  <2>4. QED BY <2>2, <2>3
<1> HIDE DEF rest
<1>8. role \in Role /\ role \in H!Includes(top.role)
  BY <1>3, <1>4 DEF Activations, Activation
<1>9. \A n \in 1..last : rest[n].role = stack[n].role
  BY <1>5, <1>7
<1>10. visiting = {rest[n].role : n \in DOMAIN rest}
  BY <1>3, <1>7, <1>9 DEF Activations
<1>11. \A m, n \in DOMAIN rest : m < n =>
         rest[m].role # rest[n].role /\ H!Reaches(rest[m].role, rest[n].role)
  BY <1>3, <1>7, <1>9 DEF Activations
<1>12. ASSUME NEW n \in DOMAIN rest
       PROVE  /\ rest[n].todo \subseteq H!Includes(rest[n].role)
              /\ H!Includes(rest[n].role) \ rest[n].todo \subseteq
                   visited \cup {rest[m].role : m \in {k \in DOMAIN rest : k = n + 1}}
                     \cup (IF n = Len(rest) THEN {role} ELSE {})
              /\ H!Reaches(rest[n].role, role)
  <2>1. /\ stack[n].todo \subseteq H!Includes(stack[n].role)
        /\ H!Includes(stack[n].role) \ stack[n].todo \subseteq
              visited \cup {stack[m].role : m \in {k \in DOMAIN stack : k = n + 1}}
    BY <1>3, <1>7 DEF Activations
  <2>2. {stack[m].role : m \in {k \in DOMAIN stack : k = n + 1}} =
           {rest[m].role : m \in {k \in DOMAIN rest : k = n + 1}}
    BY <1>3, <1>7, <1>9
  <2>3. \A r \in Role : H!Includes(r) \subseteq Role
    BY <1>2 DEF Search, Validated
  <2>4. H!Defined = Role
    BY <1>2 DEF Search, Validated
  <2>5. H!Reaches(rest[n].role, role)
    <3>1. H!Reaches(top.role, role)
      BY <1>8, <2>3, <2>4, PathsGoOn
    <3>2. CASE n < last
      <4>1. H!Reaches(rest[n].role, top.role)
        BY <1>3, <1>4, <1>7, <1>9, <3>2 DEF Activations
      <4>2. QED BY <1>8, <2>3, <2>4, <4>1, PathsGoOn
    <3>3. CASE n = last
      BY <1>5, <1>7, <3>1, <3>3
    <3>4. QED BY <1>4, <1>7, <3>2, <3>3
  <2>6. CASE n = last
    BY <1>5, <1>7, <2>1, <2>2, <2>5, <2>6
  <2>7. CASE n # last
    <3>1. rest[n] = stack[n] /\ n # Len(rest)
      BY <1>4, <1>7, <2>7
    <3>2. QED BY <2>1, <2>2, <2>5, <3>1
  <2>8. QED BY <2>6, <2>7
<1>13. Role \subseteq pending' \cup visiting \cup visited \cup {role}
  BY <1>2, <1>3 DEF Activations
<1>14. pending' \subseteq Role
  BY <1>2 DEF Search, Explored
<1>15. QED
  BY <1>2, <1>7, <1>6, <1>8, <1>10, <1>11, <1>12, <1>13, <1>14, VisitKeepsSearch

\* The innermost visit ends: its role reaches only what is visited, not itself.
LEMMA ReturnSearch == ASSUME Search, H!Return PROVE Search'
<1> USE HierarchyStays
<1> DEFINE last == Len(stack)
           top == stack[Len(stack)]
<1>1. /\ step = "cycles" /\ stack # <<>> /\ top.todo = {}
      /\ visiting' = visiting \ {top.role} /\ visited' = visited \cup {top.role}
      /\ stack' = H!Front(stack)
      /\ UNCHANGED <<definitions, rules, step, pending>>
  BY DEF H!Return
<1>2. Activations /\ stack \in Seq(Activation) /\ DOMAIN stack = 1..last
  BY <1>1 DEF Search, Activations, Activation
<1>3. last \in Nat \ {0} /\ top \in Activation
  BY <1>1, <1>2, TopOfStack
<1>4. /\ stack' \in Seq(Activation) /\ Len(stack') = last - 1
      /\ \A n \in 1..(last - 1) : stack'[n] = stack[n]
  <2>1. PICK e \in Activation : e = top
    BY <1>3
  <2>2. stack \in Seq(Activation) /\ stack # <<>>
    BY <1>1, <1>2
  <2>3. QED BY <1>1, <2>1, <2>2, TopOfStack, Zenon
<1>5. DOMAIN stack' = 1..(last - 1)
  BY <1>4
<1>6. /\ \A r \in Role : H!Includes(r) \subseteq Role
      /\ H!Defined = Role
  BY <1>1 DEF Search, Validated
<1>7. top.role \in Role /\ top.role \in visiting
  BY <1>2, <1>3 DEF Activations, Activation
<1>8. H!Includes(top.role) \subseteq visited
  <2>1. H!Includes(top.role) \ top.todo \subseteq
           visited \cup {stack[m].role : m \in {k \in DOMAIN stack : k = last + 1}}
    BY <1>2, <1>3 DEF Activations
  <2>2. {k \in DOMAIN stack : k = last + 1} = {}
    BY <1>2, <1>3
  <2>3. QED BY <1>1, <2>1, <2>2
<1>9. Explored
  BY DEF Search
<1>10. ~H!Reaches(top.role, top.role)
  <2>1. visited \in SUBSET (Role \cup {Foreign}) /\ H!Closed(visited)
    BY <1>9 DEF Explored, H!Closed
  <2>2. top.role \notin visited
    BY <1>2, <1>7 DEF Activations
  <2>3. QED BY <1>8, <2>1, <2>2 DEF H!Reaches
<1>11. H!includedRoles[top.role] = Closure(top.role)
  <2>1. H!includedRoles[top.role] =
           {top.role} \cup UNION {{r} \cup H!includedRoles[r] : r \in H!Includes(top.role)}
    BY <1>6, <1>7, ExpansionRecurs
  <2>2. \A r \in H!Includes(top.role) : H!includedRoles[r] = Closure(r)
    BY <1>8, <1>9 DEF Explored
  <2>3. H!includedRoles[top.role] =
           {top.role} \cup UNION {{r} \cup Closure(r) : r \in H!Includes(top.role)}
    BY <2>1, <2>2
  <2>4. \A r : r \in Closure(top.role) <=>
           r = top.role \/ \E s \in H!Includes(top.role) : r = s \/ r \in Closure(s)
    BY <1>6, PathsGoOn DEF Closure
  <2>5. QED BY <2>3, <2>4
<1>12. Explored'
  <2>1. visited' \subseteq Role /\ pending' \subseteq Role
    BY <1>1, <1>7, <1>9 DEF Explored
  <2>2. ASSUME NEW role \in visited'
        PROVE  /\ H!Includes(role) \subseteq visited'
               /\ ~H!Reaches(role, role)
               /\ H!includedRoles[role] = Closure(role)
    BY <1>1, <1>8, <1>9, <1>10, <1>11 DEF Explored
  <2>3. QED BY <1>1, <2>1, <2>2 DEF Explored
<1>13. Validated' /\ Outcome'
  BY <1>1 DEF Search, Validated, Outcome
<1>14. Activations'
  <2>1. visiting' = {stack'[n].role : n \in DOMAIN stack'}
    <3>1. \A n \in 1..(last - 1) : stack[n].role # top.role
      BY <1>2, <1>3 DEF Activations
    <3>2. visiting = {stack[n].role : n \in 1..(last - 1)} \cup {top.role}
      BY <1>2, <1>3 DEF Activations
    <3>3. QED BY <1>1, <1>4, <1>5, <3>1, <3>2
  <2>2. visiting' \cap visited' = {}
    BY <1>1, <1>2 DEF Activations
  <2>3. \A m, n \in DOMAIN stack' : m < n =>
          stack'[m].role # stack'[n].role /\ H!Reaches(stack'[m].role, stack'[n].role)
    BY <1>2, <1>3, <1>4, <1>5 DEF Activations
  <2>4. ASSUME NEW n \in DOMAIN stack'
        PROVE  /\ stack'[n].todo \subseteq H!Includes(stack'[n].role)
               /\ H!Includes(stack'[n].role) \ stack'[n].todo \subseteq
                    visited' \cup {stack'[m].role : m \in {k \in DOMAIN stack' : k = n + 1}}
    <3>1. stack'[n] = stack[n] /\ n \in DOMAIN stack
      BY <1>2, <1>4, <1>5
    <3>2. /\ stack[n].todo \subseteq H!Includes(stack[n].role)
          /\ H!Includes(stack[n].role) \ stack[n].todo \subseteq
                visited \cup {stack[m].role : m \in {k \in DOMAIN stack : k = n + 1}}
      BY <1>2, <3>1 DEF Activations
    <3>3. {stack[m].role : m \in {k \in DOMAIN stack : k = n + 1}} \subseteq
            {top.role} \cup {stack'[m].role : m \in {k \in DOMAIN stack' : k = n + 1}}
      BY <1>2, <1>3, <1>4, <1>5
    <3>4. QED BY <1>1, <3>1, <3>2, <3>3
  <2>5. Role \subseteq pending' \cup visiting' \cup visited'
    BY <1>1, <1>2 DEF Activations
  <2>6. stack' \in Seq([role: Role, todo: SUBSET Role])
    BY <1>4 DEF Activation
  <2>7. \A r, s : H!Reaches(r, s)' = H!Reaches(r, s)
    BY <1>1
  <2>8. \A r : H!Includes(r)' = H!Includes(r)
    BY <1>1
  <2>9. QED BY <2>1, <2>2, <2>3, <2>4, <2>5, <2>6, <2>7, <2>8 DEF Activations
<1>15. QED BY <1>12, <1>13, <1>14 DEF Search

\* The steps before and after the search.
LEMMA ValidationSearch ==
    ASSUME Search, H!validateUniqueRoles \/ H!validateIncludes \/ H!NoCycle \/ H!Accept
    PROVE  Search'
<1> USE HierarchyStays
<1>1. H!Defined \subseteq Role
  BY DEF Search, Validated, H!Lists, H!Definition, H!Defined
<1>2. UNCHANGED <<definitions, rules, visiting, visited, stack>>
  BY DEF H!validateUniqueRoles, H!validateIncludes, H!NoCycle, H!Accept, H!Continue
<1>3. CASE H!validateUniqueRoles
  <2>1. step = "roles" /\ step' \in {"includes", "refused"} /\ UNCHANGED pending
        /\ (step' = "includes" => Role \subseteq H!Defined)
    BY <1>3 DEF H!validateUniqueRoles, H!Continue
  <2>2. Validated' /\ Explored' /\ Outcome'
    BY <1>1, <1>2, <2>1 DEF Search, Validated, Explored, Outcome, Steps
  <2>3. QED BY <2>1, <2>2 DEF Search
<1>4. CASE H!validateIncludes
  <2>1. step = "includes" /\ H!Defined = Role
    BY <1>4 DEF H!validateIncludes, Search, Validated
  <2>2. CASE step' = "refused"
    <3>1. UNCHANGED pending
      BY <1>4, <2>2 DEF H!validateIncludes, H!Continue
    <3>2. QED BY <1>2, <2>1, <2>2, <3>1 DEF Search, Validated, Explored, Outcome, Steps
  <2>3. CASE step' # "refused"
    <3>1. /\ \A i \in DOMAIN definitions : definitions[i].includes \subseteq H!Defined
          /\ step' = "cycles" /\ pending' = H!Defined
      BY <1>4, <2>3 DEF H!validateIncludes, H!Continue
    <3>2. \A role \in Role : H!Includes(role) \subseteq Role
      <4> TAKE role \in Role
      <4>1. DOMAIN definitions \in SUBSET Nat
        BY DEF Search, Validated, H!Lists
      <4>2. PICK n \in Nat : definitions \in [1..n -> H!Definition]
        BY DEF Search, Validated, H!Lists
      <4> DEFINE last == CHOOSE i \in DOMAIN definitions :
                            /\ definitions[i].role = role
                            /\ \A j \in DOMAIN definitions : definitions[j].role = role => j <= i
      <4>3. last \in DOMAIN definitions
        <5>1. \E i \in DOMAIN definitions : definitions[i].role = role
          BY <2>1 DEF H!Defined
        <5>2. \E i \in DOMAIN definitions : definitions[i].role = role
                /\ \A j \in DOMAIN definitions : definitions[j].role = role => j <= i
          <6> DEFINE mine == {i \in 1..n : definitions[i].role = role}
          <6>1. mine # {} /\ DOMAIN definitions = 1..n
            BY <4>2, <5>1
          <6>2. PICK i \in mine : \A j \in mine : j <= i
            BY <6>1, GreatestExists
          <6>3. QED BY <6>1, <6>2
        <5>3. QED BY <5>2
      <4>4. H!Includes(role) = definitions[last].includes
        BY <2>1 DEF H!Includes
      <4>5. QED BY <2>1, <3>1, <4>3, <4>4
    <3>3. Validated' /\ Explored' /\ Outcome'
      BY <1>2, <2>1, <3>1, <3>2 DEF Search, Validated, Explored, Outcome, Steps
    <3>4. visiting = {} /\ visited = {} /\ stack = <<>>
      BY <2>1 DEF Search, Outcome
    <3>5. stack \in Seq([role: Role, todo: SUBSET Role]) /\ DOMAIN stack = {}
      BY <3>4
    <3>6. Activations'
      BY <1>2, <2>1, <3>1, <3>4, <3>5 DEF Activations
    <3>7. QED BY <3>3, <3>6 DEF Search
  <2>4. QED BY <2>2, <2>3
<1>5. CASE H!NoCycle
  <2>1. step = "cycles" /\ stack = <<>> /\ pending = {} /\ step' = "rules" /\ UNCHANGED pending
    BY <1>5 DEF H!NoCycle, H!Continue
  <2>2. visited = Role
    <3>1. Role \subseteq pending \cup {stack[n].role : n \in DOMAIN stack} \cup visited
      BY <2>1 DEF Search, Activations
    <3>2. DOMAIN stack = {}
      BY <2>1
    <3>3. visited \subseteq Role
      BY DEF Search, Explored
    <3>4. QED BY <2>1, <3>1, <3>2, <3>3
  <2>3. QED BY <1>2, <2>1, <2>2 DEF Search, Validated, Explored, Outcome, Steps
<1>6. CASE H!Accept
  <2>1. /\ step = "rules" /\ step' \in {"accepted", "refused"} /\ UNCHANGED pending
        /\ step' = "accepted" => \A rule \in rules : ~H!NotImplemented(rule)
    BY <1>6 DEF H!Accept, H!Continue, H!validateRule, H!NotImplemented
  <2>2. QED BY <1>2, <2>1 DEF Search, Validated, Explored, Outcome, Steps, H!NotImplemented
<1>7. QED BY <1>3, <1>4, <1>5, <1>6

LEMMA SearchStays == Search /\ UNCHANGED hierarchy => Search'
<1> SUFFICES ASSUME Search, UNCHANGED hierarchy PROVE Search'
  OBVIOUS
<1> USE HierarchyStays
<1>1. UNCHANGED <<definitions, rules, step, pending, visiting, visited, stack>>
  BY DEF hierarchy
<1>2. Validated' /\ Outcome'
  BY <1>1 DEF Search, Validated, Outcome, H!NotImplemented
<1>3. Explored'
  BY <1>1 DEF Search, Explored
<1>4. step = "cycles" => Activations'
  BY <1>1 DEF Search, Activations
<1>5. QED BY <1>1, <1>2, <1>3, <1>4 DEF Search

\* Search is an invariant of the whole program.
LEMMA SearchHolds == ControlSpec => [](Search /\ Serving)
<1>1. ControlInit => Search /\ Serving
  BY SearchInit DEF ControlInit, Init, Serving
<1>2. ASSUME Search /\ Serving, [ControlNext]_<<vars, hierarchy>>
      PROVE  (Search /\ Serving)'
  <2>1. CASE LoadPolicy
    <3>1. H!Next /\ UNCHANGED verdict
      BY <2>1 DEF LoadPolicy, vars
    <3>2. Search'
      BY <1>2, <3>1, VisitKeySearch, VisitIncludedSearch, ReturnSearch, ValidationSearch
      DEF H!Next
    <3>3. step # "accepted"
      BY <3>1 DEF H!Next, H!validateUniqueRoles, H!validateIncludes, H!VisitKey,
         H!VisitIncluded, H!Return, H!NoCycle, H!Accept
    <3>4. QED BY <1>2, <3>1, <3>2, <3>3 DEF Serving
  <2>2. CASE Serve
    <3>1. UNCHANGED hierarchy /\ step = "accepted" /\ definitions = ROLE_DEFINITIONS
      BY <2>2 DEF Serve
    <3>2. QED BY <1>2, <3>1, SearchStays DEF Serving, hierarchy
  <2>3. CASE UNCHANGED <<vars, hierarchy>>
    BY <1>2, <2>3, SearchStays DEF Serving, hierarchy, vars
  <2>4. QED BY <1>2, <2>1, <2>2, <2>3 DEF ControlNext
<1>3. QED BY <1>1, <1>2, PTL DEF ControlSpec

\* Of any list of definitions of any length, the search of validateCycles lets pass
\* those without a cycle only and refuses those with one only, and an accepted policy
\* has no rule that defineAbilityFor would throw at later.
THEOREM LoadFailsFast == ControlSpec => []FailsFast
<1>1. Search => FailsFast
  <2> SUFFICES ASSUME Search PROVE FailsFast
    OBVIOUS
  <2>1. ASSUME step \in {"rules", "accepted"} PROVE ~H!Cyclic
    BY <2>1 DEF Search, Outcome, Explored, H!Cyclic
  <2>2. QED BY <2>1 DEF Search, Outcome, FailsFast, H!FailsFast
<1>2. QED BY <1>1, SearchHolds, PTL

\* What the calls are decided with: the expansion of the program's own definitions.
LEMMA OwnExpansion ==
    ASSUME Search, step = "accepted", definitions = ROLE_DEFINITIONS
    PROVE  \A role \in Role : H!includedRoles[role] = includedRoles[role]
<1>1. /\ \A r \in Role : H!Includes(r) \subseteq Role
      /\ H!Defined = Role
  BY DEF Search, Validated
<1>2. /\ DOMAIN definitions = {1, 2, 3}
      /\ definitions[1] = [role |-> "ADMIN", includes |-> {"MANAGER", "USER"}]
      /\ definitions[2] = [role |-> "MANAGER", includes |-> {"USER"}]
      /\ definitions[3] = [role |-> "USER", includes |-> {}]
  BY DEF ROLE_DEFINITIONS
<1>3. ASSUME NEW k \in {1, 2, 3} PROVE H!Includes(definitions[k].role) = definitions[k].includes
  <2> DEFINE chosen(i) == /\ definitions[i].role = definitions[k].role
                          /\ \A j \in DOMAIN definitions :
                               definitions[j].role = definitions[k].role => j <= i
  <2>1. chosen(k) /\ k \in DOMAIN definitions
    BY <1>2
  <2>2. \A i \in DOMAIN definitions : chosen(i) => i = k
    BY <1>2
  <2>3. (CHOOSE i \in DOMAIN definitions : chosen(i)) = k
    <3> HIDE DEF chosen
    <3>1. QED BY <2>1, <2>2
  <2>4. definitions[k].role \in H!Defined
    BY <1>2 DEF H!Defined
  <2>5. QED BY <2>3, <2>4 DEF H!Includes
<1>4. /\ H!Includes("ADMIN") = {"MANAGER", "USER"}
      /\ H!Includes("MANAGER") = {"USER"}
      /\ H!Includes("USER") = {}
  <2>1. definitions[1].role = "ADMIN" /\ definitions[1].includes = {"MANAGER", "USER"}
        /\ definitions[2].role = "MANAGER" /\ definitions[2].includes = {"USER"}
        /\ definitions[3].role = "USER" /\ definitions[3].includes = {}
    BY <1>2
  <2>2. QED BY <1>3, <2>1
<1>5. \A role \in Role : H!includedRoles[role] =
         {role} \cup UNION {{r} \cup H!includedRoles[r] : r \in H!Includes(role)}
  BY <1>1, ExpansionRecurs
<1>6. H!includedRoles["USER"] = {"USER"}
  BY <1>4, <1>5 DEF Role
<1>7. H!includedRoles["MANAGER"] = {"MANAGER", "USER"}
  BY <1>4, <1>5, <1>6 DEF Role
<1>8. H!includedRoles["ADMIN"] = {"ADMIN", "MANAGER", "USER"}
  BY <1>4, <1>5, <1>6, <1>7 DEF Role
<1>9. QED BY <1>6, <1>7, <1>8, HierarchyExpanded DEF Role

\* In every accepted hierarchy the expansion that abilities and route guards use is
\* the reflexive and transitive closure of includes, and the calls are decided with
\* the expansion that was accepted.
THEOREM ExpansionCloses == ControlSpec => []ExpansionIsClosure
<1>1. Search /\ Serving => ExpansionIsClosure
  <2> SUFFICES ASSUME Search, Serving PROVE ExpansionIsClosure
    OBVIOUS
  <2>1. H!ExpansionIsClosure
    BY DEF Search, Outcome, Explored, Closure, H!ExpansionIsClosure
  <2>2. verdict # "idle" => \A role \in Role : H!includedRoles[role] = includedRoles[role]
    BY OwnExpansion DEF Serving
  <2>3. QED BY <2>1, <2>2 DEF ExpansionIsClosure
<1>2. QED BY <1>1, SearchHolds, PTL

-----------------------------------------------------------------------------
(* The calls                                                               *)

\* What may have been thrown at a call that ended like this.
Thrown ==
    CASE verdict = "rejected" -> {"TOO_MANY_REQUEST", "ParserTooLarge", "SyntaxError", "Error"}
      [] verdict = "throttled" -> {"TOO_MANY_REQUEST"}
      [] verdict = "unidentified" ->
            {"UNAUTHORIZED", "TOKEN_EXPIRED", "TOKEN_BEFORE", "TOKEN_TAMPERED",
             "INVALID_CREDENTIALS"}
      [] verdict = "refused" -> {"PERMISSION_DENIED", "USER_DISABLED"}
      [] verdict = "denied" -> {"PERMISSION_DENIED"}
      [] verdict = "failed" ->
            {"Error", "ZodError", "ValidateError", "ParserTooLarge", "USER_NOT_FOUND",
             "EMAIL_IN_USE", "USERNAME_IN_USE", "DUPLICATE_PASSWORD", "FILE_NOT_FOUND",
             "DOCUMENT_REFERENCED", "GraphQLError"}
      [] OTHER -> {None}

\* The answer a call gets for what was thrown at it.
Answered ==
    IF call.transport = "REST" \/ verdict = "rejected"
    THEN restAnswer(normalizePayloadError(error))
    ELSE formatGraphQLError(normalizePayloadError(error))

\* Every stage a call has reached says what has been decided about it.
Progress ==
    /\ verdict \in Verdict
    /\ verdict # "idle" => call \in Calls
    /\ error \in Thrown
    /\ error = "ValidateError" => call.transport = "REST"
    /\ answer # NoAnswer => verdict \in Failures /\ answer = Answered
    /\ verdict \in {"pending", "identified"} => call.transport # "script"
    /\ verdict = "identified" => call.permission \notin Open
    /\ verdict = "refused" =>
         /\ call.permission \notin Open /\ call.transport # "script"
         /\ ~Issue(call.actor, RouteRole(call.transport, call.permission))
    /\ verdict \in {"allowed", "done"} =>
         call.permission \in Open \/ can(call.actor, call.permission, call.subject)
    /\ verdict = "denied" => ~can(call.actor, call.permission, call.subject)

\* What can be thrown around the ability check is no failure of identity or access.
LEMMA ThrownByService ==
    ASSUME NEW transport, NEW permission
    PROVE  /\ Before(transport, permission) \cup After(permission) \subseteq
                {"Error", "ZodError", "ValidateError", "ParserTooLarge", "USER_NOT_FOUND",
                 "EMAIL_IN_USE", "USERNAME_IN_USE", "DUPLICATE_PASSWORD", "FILE_NOT_FOUND",
                 "DOCUMENT_REFERENCED"}
           /\ "ValidateError" \in Before(transport, permission) \cup After(permission) =>
                transport = "REST"
BY DEF Before, After

LEMMA TokenErrors ==
    ASSUME NEW token \in Token \ {"valid"}
    PROVE  TokenError(token) \in {"UNAUTHORIZED", "TOKEN_EXPIRED", "TOKEN_BEFORE", "TOKEN_TAMPERED"}
BY DEF Token, TokenError

LEMMA TokenOfCall == \A c \in Calls : c.token \in Token
BY DEF Calls, OpenCalls, Token

LEMMA ProgressStep == ASSUME Progress, Next PROVE Progress'
<1>1. CASE Arrive
  <2>1. PICK c \in Calls : /\ call' = c
                           /\ verdict' = IF c.transport = "script" THEN "granted" ELSE "pending"
    BY <1>1 DEF Arrive
  <2>2. verdict = "idle" /\ UNCHANGED <<error, answer>>
    BY <1>1 DEF Arrive
  <2>3. QED BY <2>1, <2>2 DEF Progress, Verdict, Failures, Thrown, None
<1>2. ASSUME verdict \in {"pending", "identified", "granted", "allowed"}
             \/ (verdict \in {"unidentified", "failed"} /\ answer = NoAnswer),
             verdict' \in Verdict \ {"idle"}, error' \in Thrown', UNCHANGED <<call, answer>>,
             error' = "ValidateError" => call.transport = "REST",
             verdict' \in {"pending", "identified"} => call.transport # "script",
             verdict' = "identified" => call.permission \notin Open,
             verdict' = "refused" =>
               /\ call.permission \notin Open /\ call.transport # "script"
               /\ ~Issue(call.actor, RouteRole(call.transport, call.permission)),
             verdict' \in {"allowed", "done"} =>
               call.permission \in Open \/ can(call.actor, call.permission, call.subject),
             verdict' = "denied" => ~can(call.actor, call.permission, call.subject)
      PROVE  Progress'
  <2>1. answer = NoAnswer /\ verdict # "idle"
    BY <1>2 DEF Progress, Failures
  <2>2. QED BY <1>2, <2>1 DEF Progress
<1>3. verdict # "idle" /\ verdict \notin Failures => error = None
  BY DEF Progress, Thrown, Failures, Verdict
<1>4. CASE Reject
  <2>1. verdict = "pending" /\ UNCHANGED <<call, answer>> /\ verdict' = "rejected"
        /\ error' \in {"TOO_MANY_REQUEST", "ParserTooLarge", "SyntaxError", "Error"}
    BY <1>4 DEF Reject, Throw
  <2>2. QED BY <1>2, <2>1 DEF Verdict, Failures, Thrown
<1>5. CASE Malformed
  <2>1. verdict = "pending" /\ UNCHANGED <<call, answer>> /\ verdict' = "failed"
        /\ error' = "GraphQLError"
    BY <1>5 DEF Malformed, Throw
  <2>2. QED BY <1>2, <2>1 DEF Verdict, Failures, Thrown
<1>6. CASE Admit
  <2>1. verdict = "pending" /\ UNCHANGED <<call, answer, error>> /\ verdict' = "granted"
    BY <1>6 DEF Admit, Pass
  <2>2. QED BY <1>2, <1>3, <2>1 DEF Verdict, Failures, Thrown, None
<1>7. CASE Throttle
  <2>1. /\ verdict = "granted" \/ (verdict \in {"unidentified", "failed"} /\ answer = NoAnswer)
        /\ verdict' = "throttled" /\ error' = "TOO_MANY_REQUEST" /\ UNCHANGED <<call, answer>>
    BY <1>7 DEF Throttle, Throw
  <2>2. QED BY <1>2, <2>1 DEF Verdict, Failures, Thrown
<1>8. CASE Identify
  <2>1. verdict = "pending" /\ call.permission \notin Open /\ UNCHANGED <<call, answer>>
    BY <1>8 DEF Identify
  <2>2. call.transport # "script" /\ call.token \in Token
    BY <2>1, TokenOfCall DEF Progress
  <2>3. CASE call.token = "valid"
    <3>1. verdict' = "identified" /\ UNCHANGED error
      BY <1>8, <2>3 DEF Identify, Pass
    <3>2. QED BY <1>2, <1>3, <2>1, <2>2, <3>1 DEF Verdict, Failures, Thrown, None
  <2>4. CASE call.token # "valid"
    <3>1. verdict' = "unidentified" /\ error' = TokenError(call.token)
      BY <1>8, <2>4 DEF Identify, Throw
    <3>2. QED BY <1>2, <2>1, <2>2, <2>4, <3>1, TokenErrors DEF Verdict, Failures, Thrown
  <2>5. QED BY <2>3, <2>4
<1>9. CASE Guard
  <2>1. verdict = "identified" /\ UNCHANGED <<call, answer>>
        /\ call.permission \notin Open /\ call.transport # "script"
    BY <1>9 DEF Guard, Progress
  <2>2. CASE Issue(call.actor, RouteRole(call.transport, call.permission))
    <3>1. verdict' = "granted" /\ UNCHANGED error
      BY <1>9, <2>2 DEF Guard, Pass
    <3>2. QED BY <1>2, <1>3, <2>1, <3>1 DEF Verdict, Failures, Thrown, None
  <2>3. CASE ~Issue(call.actor, RouteRole(call.transport, call.permission))
    <3>1. verdict' = "refused" /\ error' \in {"PERMISSION_DENIED", "USER_DISABLED"}
      BY <1>9, <2>3 DEF Guard, Throw
    <3>2. QED BY <1>2, <2>1, <2>3, <3>1 DEF Verdict, Failures, Thrown
  <2>4. QED BY <2>2, <2>3
<1>10. CASE Authorize
  <2>1. verdict = "granted" /\ UNCHANGED <<call, answer>>
    BY <1>10 DEF Authorize
  <2>2. CASE call.permission \in Open \/ can(call.actor, call.permission, call.subject)
    <3>1. verdict' = "allowed" /\ UNCHANGED error
      BY <1>10, <2>2 DEF Authorize, Pass
    <3>2. QED BY <1>2, <1>3, <2>1, <2>2, <3>1 DEF Verdict, Failures, Thrown, None
  <2>3. CASE ~(call.permission \in Open \/ can(call.actor, call.permission, call.subject))
    <3>1. verdict' = "denied" /\ error' = "PERMISSION_DENIED"
      BY <1>10, <2>3 DEF Authorize, Throw
    <3>2. QED BY <1>2, <2>1, <2>3, <3>1 DEF Verdict, Failures, Thrown
  <2>4. QED BY <2>2, <2>3
<1>11. CASE RefuseCredentials
  <2>1. verdict = "allowed" /\ UNCHANGED <<call, answer>> /\ verdict' = "unidentified"
        /\ error' = "INVALID_CREDENTIALS"
    BY <1>11 DEF RefuseCredentials, Throw
  <2>2. QED BY <1>2, <2>1 DEF Verdict, Failures, Thrown
<1>12. CASE Fail
  <2>1. verdict \in {"granted", "allowed"} /\ UNCHANGED <<call, answer>> /\ verdict' = "failed"
        /\ error' \in Before(call.transport, call.permission) \cup After(call.permission)
    BY <1>12 DEF Fail, Throw
  <2>2. /\ error' \in {"Error", "ZodError", "ValidateError", "ParserTooLarge", "USER_NOT_FOUND",
             "EMAIL_IN_USE", "USERNAME_IN_USE", "DUPLICATE_PASSWORD", "FILE_NOT_FOUND",
             "DOCUMENT_REFERENCED", "GraphQLError"}
        /\ error' = "ValidateError" => call.transport = "REST"
    BY <2>1, ThrownByService
  <2>3. QED BY <1>2, <2>1, <2>2 DEF Verdict, Failures, Thrown
<1>13. CASE Return
  <2>1. verdict = "allowed" /\ UNCHANGED <<call, answer, error>> /\ verdict' = "done"
    BY <1>13 DEF Return, Pass
  <2>2. call.permission \in Open \/ can(call.actor, call.permission, call.subject)
    BY <2>1 DEF Progress
  <2>3. QED BY <1>2, <1>3, <2>1, <2>2 DEF Verdict, Failures, Thrown, None
<1>14. CASE Answer
  <2>1. verdict \in Failures /\ UNCHANGED <<call, verdict, error>> /\ answer' = Answered
    BY <1>14 DEF Answer, Answered
  <2>2. Answered' = Answered /\ Thrown' = Thrown
    BY <2>1 DEF Answered, Thrown
  <2>3. QED BY <2>1, <2>2 DEF Progress
<1>15. QED
  BY <1>1, <1>4, <1>5, <1>6, <1>7, <1>8, <1>9, <1>10, <1>11, <1>12, <1>13, <1>14 DEF Next

LEMMA ProgressHolds == ControlSpec => []Progress
<1>1. ControlInit => Progress
  BY DEF ControlInit, Init, Progress, Verdict, Failures, Thrown, NoAnswer, None
<1>2. ASSUME Progress, UNCHANGED vars PROVE Progress'
  BY <1>2 DEF Progress, vars, Thrown, Answered
<1>3. Progress /\ [ControlNext]_<<vars, hierarchy>> => Progress'
  BY <1>2, ProgressStep DEF ControlNext, LoadPolicy, Serve
<1>4. QED BY <1>1, <1>3, PTL DEF ControlSpec

-----------------------------------------------------------------------------
(* The answers                                                             *)

\* What every error that is thrown is answered with on REST, and what it is called on
\* GraphQL.
LEMMA AnswersOfErrors ==
    /\ \A e \in {"UNAUTHORIZED", "TOKEN_EXPIRED", "TOKEN_BEFORE", "TOKEN_TAMPERED",
                 "INVALID_CREDENTIALS"} : restAnswer(e) = [status |-> 401, code |-> e]
    /\ \A e \in {"PERMISSION_DENIED", "USER_DISABLED"} :
         restAnswer(e) = [status |-> 403, code |-> e]
    /\ \A e \in {"USER_NOT_FOUND", "FILE_NOT_FOUND"} : restAnswer(e) = [status |-> 404, code |-> e]
    /\ \A e \in {"EMAIL_IN_USE", "USERNAME_IN_USE", "DOCUMENT_REFERENCED", "DUPLICATE_PASSWORD"} :
         restAnswer(e) = [status |-> 409, code |-> e]
    /\ restAnswer("TOO_MANY_REQUEST") = [status |-> 429, code |-> "TOO_MANY_REQUEST"]
    /\ restAnswer("PAYLOAD_TOO_LARGE") = [status |-> 413, code |-> "PAYLOAD_TOO_LARGE"]
    /\ \A e \in {"ZodError", "ValidateError"} :
         restAnswer(e) = [status |-> 422, code |-> "UNPROCESSABLE_ENTITY"]
    /\ restAnswer("SyntaxError") = [status |-> 400, code |-> "SYNTAX_ERROR"]
    /\ \A e \in {"Error", "GraphQLError", "INTERNAL_ERROR", "UNPROCESSABLE_ENTITY",
                 "BAD_USER_INPUT"} :
         restAnswer(e) = [status |-> 500, code |-> "INTERNAL_ERROR"]
<1>1. DOMAIN HttpStatus = {"UNAUTHORIZED", "METHOD_NOT_ALLOWED", "TOO_MANY_REQUEST",
                            "PAYLOAD_TOO_LARGE"}
      /\ HttpStatus["UNAUTHORIZED"] = 401 /\ HttpStatus["TOO_MANY_REQUEST"] = 429
      /\ HttpStatus["PAYLOAD_TOO_LARGE"] = 413
  BY DEF HttpStatus
<1>2. QED BY <1>1 DEF restAnswer, statusMap, ApplicationErrorCode

\* The same on GraphQL, but for what GraphQL itself objects to and for the validation
\* error of tsoa, which no resolver meets.
LEMMA CodesAgree ==
    ASSUME NEW e \in {"UNAUTHORIZED", "TOKEN_EXPIRED", "TOKEN_BEFORE", "TOKEN_TAMPERED",
                      "INVALID_CREDENTIALS", "PERMISSION_DENIED", "USER_DISABLED",
                      "USER_NOT_FOUND", "FILE_NOT_FOUND", "EMAIL_IN_USE", "USERNAME_IN_USE",
                      "DOCUMENT_REFERENCED", "DUPLICATE_PASSWORD", "TOO_MANY_REQUEST",
                      "PAYLOAD_TOO_LARGE", "ZodError", "Error"}
    PROVE  formatGraphQLError(e).code = restAnswer(e).code
<1>1. DOMAIN HttpStatus = {"UNAUTHORIZED", "METHOD_NOT_ALLOWED", "TOO_MANY_REQUEST",
                            "PAYLOAD_TOO_LARGE"}
  BY DEF HttpStatus
<1>2. restAnswer(e).code = IF e = "ZodError" THEN "UNPROCESSABLE_ENTITY"
                           ELSE IF e = "Error" THEN "INTERNAL_ERROR" ELSE e
  BY AnswersOfErrors
<1>3. formatGraphQLError(e).code = IF e = "ZodError" THEN "UNPROCESSABLE_ENTITY"
                           ELSE IF e = "Error" THEN "INTERNAL_ERROR" ELSE e
  BY <1>1 DEF formatGraphQLError, CoreError, ApplicationErrorCode
<1>4. QED BY <1>2, <1>3

\* The errors a call that is not refused by the middlewares can end with, normalised.
Normalized ==
    {"UNAUTHORIZED", "TOKEN_EXPIRED", "TOKEN_BEFORE", "TOKEN_TAMPERED",
     "INVALID_CREDENTIALS", "PERMISSION_DENIED", "USER_DISABLED",
     "USER_NOT_FOUND", "FILE_NOT_FOUND", "EMAIL_IN_USE", "USERNAME_IN_USE",
     "DOCUMENT_REFERENCED", "DUPLICATE_PASSWORD", "TOO_MANY_REQUEST",
     "PAYLOAD_TOO_LARGE", "ZodError", "Error"}

LEMMA GraphqlErrors ==
    ASSUME Progress, answer # NoAnswer, call.transport # "REST", verdict # "rejected",
           error # "GraphQLError"
    PROVE  normalizePayloadError(error) \in Normalized
<1>1. error \in Thrown /\ error # "ValidateError" /\ verdict \in Failures
  BY DEF Progress
<1>2. QED BY <1>1 DEF Thrown, Failures, normalizePayloadError, Normalized

\* Whatever call, whatever transport, whatever was thrown where: an error has one name.
THEOREM OneCode == ControlSpec => []OneCodePerError
<1>1. Progress => OneCodePerError
  <2> SUFFICES ASSUME Progress, answer # NoAnswer, error # "GraphQLError"
               PROVE  answer.code = restAnswer(normalizePayloadError(error)).code
    BY DEF OneCodePerError
  <2>1. answer = Answered
    BY DEF Progress
  <2>2. CASE call.transport = "REST" \/ verdict = "rejected"
    BY <2>1, <2>2 DEF Answered
  <2>3. CASE ~(call.transport = "REST" \/ verdict = "rejected")
    <3>1. answer.code = formatGraphQLError(normalizePayloadError(error)).code
      BY <2>1, <2>3 DEF Answered
    <3>2. normalizePayloadError(error) \in Normalized
      BY <2>3, GraphqlErrors
    <3>3. QED BY <3>1, <3>2, CodesAgree DEF Normalized
  <2>4. QED BY <2>2, <2>3
<1>2. QED BY <1>1, ProgressHolds, PTL

\* The status a code stands for on REST, for the codes GraphQL answers with.
LEMMA StatusOfCodes ==
    ASSUME NEW e \in Normalized
    PROVE  restAnswer(restAnswer(e).code).status \in {401, 403} =>
               restAnswer(restAnswer(e).code).status = restAnswer(e).status
<1>1. CASE e \in {"ZodError", "Error"}
  BY <1>1, AnswersOfErrors
<1>2. CASE e \notin {"ZodError", "Error"}
  BY <1>2, AnswersOfErrors DEF Normalized
<1>3. QED BY <1>1, <1>2

\* An answer of 401, or the code that stands for it, exactly to calls whose sender is
\* not known or proved, and of 403 exactly to those that are known and may not.
THEOREM StatusTells == ControlSpec => []StatusTellsHowFar
<1>1. Progress => StatusTellsHowFar
  <2> DEFINE normal == normalizePayloadError(error)
             status == IF call.transport = "REST" THEN answer.status
                       ELSE restAnswer(answer.code).status
  <2> SUFFICES ASSUME Progress, answer # NoAnswer
               PROVE  /\ status = 401 <=> verdict = "unidentified"
                      /\ status = 403 <=> verdict \in {"refused", "denied"}
    BY DEF StatusTellsHowFar
  <2>1. answer = Answered /\ error \in Thrown /\ verdict \in Failures
    BY DEF Progress
  <2>2. /\ restAnswer(normal).status = 401 <=> verdict = "unidentified"
        /\ restAnswer(normal).status = 403 <=> verdict \in {"refused", "denied"}
    <3>1. CASE verdict \in {"rejected", "throttled"}
      BY <2>1, <3>1, AnswersOfErrors DEF Thrown, normalizePayloadError
    <3>2. CASE verdict \in {"unidentified", "refused", "denied"}
      BY <2>1, <3>2, AnswersOfErrors DEF Thrown, normalizePayloadError
    <3>3. CASE verdict = "failed"
      BY <2>1, <3>3, AnswersOfErrors DEF Thrown, normalizePayloadError
    <3>4. QED BY <2>1, <3>1, <3>2, <3>3 DEF Failures
  <2>3. CASE call.transport = "REST"
    BY <2>1, <2>2, <2>3 DEF Answered
  <2>4. CASE call.transport # "REST" /\ verdict = "rejected"
    <3>1. answer = restAnswer(normal)
      BY <2>1, <2>4 DEF Answered
    <3>2. normal \in {"TOO_MANY_REQUEST", "PAYLOAD_TOO_LARGE", "SyntaxError", "Error"}
      BY <2>1, <2>4 DEF Thrown, normalizePayloadError
    <3>3. answer.code \in {"TOO_MANY_REQUEST", "PAYLOAD_TOO_LARGE", "SYNTAX_ERROR", "INTERNAL_ERROR"}
      BY <3>1, <3>2, AnswersOfErrors
    <3>4. restAnswer("SYNTAX_ERROR").status = 500
      BY DEF restAnswer, HttpStatus, ApplicationErrorCode
    <3>5. restAnswer(answer.code).status \notin {401, 403}
      BY <3>3, <3>4, AnswersOfErrors
    <3>6. QED BY <2>4, <3>5
  <2>5. CASE call.transport # "REST" /\ verdict # "rejected" /\ error = "GraphQLError"
    <3>1. answer.code = "BAD_USER_INPUT"
      BY <2>1, <2>5 DEF Answered, formatGraphQLError, normalizePayloadError, CoreError,
         ApplicationErrorCode, HttpStatus
    <3>2. restAnswer(answer.code).status = 500 /\ verdict = "failed"
      BY <2>1, <2>5, <3>1, AnswersOfErrors DEF Thrown, Failures
    <3>3. QED BY <2>5, <3>2
  <2>6. CASE call.transport # "REST" /\ verdict # "rejected" /\ error # "GraphQLError"
    <3>1. normal \in Normalized
      BY <2>6, GraphqlErrors
    <3>2. answer.code = restAnswer(normal).code
      BY <2>1, <2>6, <3>1, CodesAgree DEF Answered, Normalized
    <3>3. restAnswer(normal).status \in {401, 403} => answer.code = normal
      BY <3>1, <3>2, AnswersOfErrors DEF Normalized
    <3>4. status = restAnswer(answer.code).status
      BY <2>6
    <3>5. QED BY <2>2, <3>1, <3>2, <3>3, <3>4, StatusOfCodes
  <2>7. QED BY <2>3, <2>4, <2>5, <2>6
<1>2. QED BY <1>1, ProgressHolds, PTL

-----------------------------------------------------------------------------
(* The policy                                                              *)

\* MANAGER creates, enables and disables USER accounts.
LEMMA ManagerManages ==
    ASSUME NEW actor, actor.kind = "USER", actor.role = "MANAGER",
           NEW permission \in {"user.create", "user.update-status"},
           NEW subject, subject.role = "USER"
    PROVE  can(actor, permission, subject)
<1> DEFINE rule == [permission |-> permission, access |-> "managed"]
<1>1. rule \in RulesOf(actor)
  BY RulesExpanded DEF RulesOf, Rules, Scoped
<1>2. "USER" \in managedRoles("MANAGER")
  BY HierarchyExpanded DEF managedRoles
<1>3. Matches(actor, rule, subject)
  BY <1>2 DEF Matches, ScopeRoles
<1>4. QED BY <1>1, <1>3 DEF can

\* Everybody may read; the cron jobs are the administrators'.
LEMMA UnscopedPermissions ==
    ASSUME NEW actor, actor.kind = "USER", actor.role \in Role, NEW subject
    PROVE  /\ can(actor, "user.read", subject)
           /\ \A permission \in CronPermission :
                can(actor, permission, subject) <=> actor.role = "ADMIN"
<1>1. can(actor, "user.read", subject)
  <2> DEFINE rule == [permission |-> "user.read", access |-> None]
  <2>1. rule \in Rules["USER"]
    BY DEF Rules, Scoped
  <2>2. rule \in RulesOf(actor)
    BY <2>1, RulesExpanded DEF RulesOf, Role
  <2>3. QED BY <2>2 DEF can, Matches
<1>2. ASSUME NEW permission \in CronPermission, actor.role = "ADMIN"
      PROVE  can(actor, permission, subject)
  <2> DEFINE rule == [permission |-> permission, access |-> None]
  <2>1. rule \in RulesOf(actor)
    BY <1>2, RulesExpanded DEF RulesOf, Rules, Scoped
  <2>2. QED BY <2>1 DEF can, Matches
<1>3. ASSUME NEW permission \in CronPermission, actor.role # "ADMIN",
             can(actor, permission, subject)
      PROVE  FALSE
  <2>1. PICK rule \in RulesOf(actor) : rule.permission = permission
    BY <1>3 DEF can
  <2>2. rule \in Rules["MANAGER"] \cup Rules["USER"]
    BY <1>3, <2>1, RulesExpanded DEF RulesOf, Role
  <2>3. permission \in {"user.create", "user.update-status", "user.read"} \cup SelfService
    BY <2>1, <2>2, ScopesOfRules
  <2>4. QED BY <2>3 DEF CronPermission, SelfService
<1>4. QED BY <1>1, <1>2, <1>3

\* The calls with a permission: their actors, transports and subjects.
LEMMA GuardedCalls ==
    ASSUME NEW c \in Calls, c.permission \in Permission
    PROVE  /\ c.actor \in Identities \cup {SystemActor}
           /\ c.actor.kind = "SYSTEM" => c.transport = "script"
           /\ c.actor.kind # "SYSTEM" => c.transport \in {"REST", "GraphQL"}
           /\ c.permission \notin Open
           /\ c.subject \in Subjects(c.actor, c.permission)
<1>1. c.permission \notin Open
  BY DEF Open, Permission, UserPermission, SelfService, CronPermission
<1>2. c \notin OpenCalls
  BY <1>1 DEF OpenCalls
<1>3. PICK a \in Identities \cup {SystemActor}, p \in Permission :
         \E t \in IF a.kind = "SYSTEM" THEN {"script"} ELSE {"REST", "GraphQL"},
            k \in IF a.kind = "SYSTEM" THEN {"valid"} ELSE Token,
            s \in Subjects(a, p) :
           c = [actor |-> a, transport |-> t, token |-> k, permission |-> p, subject |-> s]
  BY <1>2 DEF Calls
<1>4. QED BY <1>1, <1>3

\* The abilities of the rule definitions against the documented mapping.
LEMMA AbilitiesAreDocumented ==
    ASSUME NEW actor \in Identities \cup {SystemActor}, NEW permission \in Permission,
           NEW subject \in Subjects(actor, permission)
    PROVE  can(actor, permission, subject) <=> Documented(actor, permission, subject)
<1> USE DEF Rank
<1>1. CASE actor = SystemActor
  BY <1>1 DEF can, Documented, SystemActor
<1>2. CASE actor \in Identities
  <2>1. actor.kind = "USER" /\ actor.id = "self" /\ actor.role \in Role
    BY <1>2 DEF Identities
  <2>2. CASE permission \in CronPermission \cup {"user.read"}
    BY <2>1, <2>2, UnscopedPermissions
    DEF Documented, CronPermission, SelfService, Role
  <2>3. CASE permission \in SelfService
    <3>1. subject \in [id: {"self", "other"}, role: Role, assignedRole: {None}]
      BY <2>3 DEF Subjects, SelfService, CronPermission
    <3>2. subject # SubjectType
      BY <3>1 DEF SubjectType, userSubject, None, Role
    <3>3. can(actor, permission, subject) <=> actor.role = "ADMIN" \/ subject.id = actor.id
      BY <2>1, <2>3, <3>1, <3>2, SelfServiceScope
    <3>4. QED BY <2>1, <2>3, <3>3 DEF Documented, SelfService, CronPermission
  <2>4. CASE permission \in {"user.create", "user.update-status"}
    <3>1. subject.role \in Role /\ subject.assignedRole = None
      BY <2>4 DEF Subjects, SelfService, CronPermission
    <3>2. subject # SubjectType
      BY <3>1 DEF SubjectType, userSubject, None, Role
    <3>3. Documented(actor, permission, subject) <=> Rank[subject.role] < Rank[actor.role]
      BY <2>1, <2>4 DEF Documented, SelfService, CronPermission
    <3>4. can(actor, permission, subject) =>
             /\ subject.role \in UpdateRole /\ actor.role \in {"ADMIN", "MANAGER"}
             /\ actor.role = "MANAGER" => subject.role = "USER"
      BY <2>1, <2>4, <3>2, ManagementIsDownward
    <3>5. actor.role = "ADMIN" /\ subject.role \in UpdateRole => can(actor, permission, subject)
      BY <2>1, <2>4, AdminManages
    <3>6. actor.role = "MANAGER" /\ subject.role = "USER" => can(actor, permission, subject)
      BY <2>1, <2>4, ManagerManages
    <3>7. QED BY <2>1, <3>1, <3>3, <3>4, <3>5, <3>6 DEF Role, UpdateRole
  <2>5. CASE permission \in {"user.delete", "user.update-role"}
    <3>1. /\ subject.role \in Role
          /\ permission = "user.update-role" => subject.assignedRole \in UpdateRole
      BY <2>5 DEF Subjects, SelfService, CronPermission
    <3>2. subject # SubjectType
      BY <3>1 DEF SubjectType, userSubject, None, Role
    <3>3. Documented(actor, permission, subject) <=>
             /\ actor.role = "ADMIN" /\ Rank[subject.role] < Rank[actor.role]
             /\ permission = "user.update-role" => Rank[subject.assignedRole] < Rank[actor.role]
      BY <2>1, <2>5 DEF Documented, SelfService, CronPermission
    <3>4. can(actor, permission, subject) => subject.role \in UpdateRole /\ actor.role = "ADMIN"
      BY <2>1, <2>5, <3>2, ManagementIsDownward
    <3>5. actor.role = "ADMIN" /\ subject.role \in UpdateRole => can(actor, permission, subject)
      BY <2>1, <2>5, <3>1, AdminManages
    <3>6. QED BY <2>1, <3>1, <3>3, <3>4, <3>5 DEF Role, UpdateRole
  <2>6. QED BY <2>2, <2>3, <2>4, <2>5 DEF Permission, UserPermission
<1>3. QED BY <1>1, <1>2

\* Every call that meets its ability check is decided as the README says.
THEOREM PolicyIsDocumented == ControlSpec => []ServicePolicy
<1>1. Progress => ServicePolicy
  <2> SUFFICES ASSUME Progress, verdict \in {"allowed", "denied", "done"},
                      call.permission \in Permission
               PROVE  verdict # "denied" <=> Documented(call.actor, call.permission, call.subject)
    BY DEF ServicePolicy
  <2>1. call \in Calls
    BY DEF Progress
  <2>2. call.permission \notin Open
    BY <2>1, GuardedCalls
  <2>3. verdict # "denied" <=> can(call.actor, call.permission, call.subject)
    BY <2>2 DEF Progress
  <2>4. QED BY <2>1, <2>3, GuardedCalls, AbilitiesAreDocumented
<1>2. QED BY <1>1, ProgressHolds, PTL

\* The route of an operation turns no enabled account away whose abilities allow it.
THEOREM RestRoutesAdmit == ControlSpec => []RestGuardsAdmitThePolicy
<1>1. Progress => RestGuardsAdmitThePolicy
  <2> SUFFICES ASSUME Progress, verdict = "refused", call.transport = "REST",
                      call.actor.enable, can(call.actor, call.permission, call.subject)
               PROVE  FALSE
    BY DEF RestGuardsAdmitThePolicy
  <2>1. /\ call \in Calls /\ call.permission \notin Open
        /\ ~Issue(call.actor, RestRole(call.permission))
    BY DEF Progress, RouteRole
  <2>2. call.permission \in Permission
    BY <2>1 DEF Calls, OpenCalls
  <2>3. call.actor \in Identities /\ call.actor.role \in Role /\ call.actor.kind = "USER"
    BY <2>1, <2>2, GuardedCalls DEF SystemActor, Identities
  <2>4. RestRole(call.permission) \notin includedRoles[call.actor.role]
    BY <2>1 DEF Issue
  <2>5. PICK rule \in RulesOf(call.actor) : rule.permission = call.permission
    BY <2>3 DEF can
  <2>6. CASE call.actor.role = "ADMIN"
    BY <2>4, <2>6, HierarchyExpanded DEF RestRole, CronRestRole
  <2>7. CASE call.actor.role = "MANAGER"
    <3>1. RestRole(call.permission) = "ADMIN"
      BY <2>4, <2>7, HierarchyExpanded DEF RestRole, CronRestRole
    <3>2. call.permission \in CronPermission \cup {"user.update-role", "user.delete"}
      BY <3>1 DEF RestRole
    <3>3. rule \in Rules["MANAGER"] \cup Rules["USER"]
      BY <2>3, <2>5, <2>7, RulesExpanded DEF RulesOf
    <3>4. QED BY <2>5, <3>2, <3>3, ScopesOfRules DEF SelfService, CronPermission
  <2>8. CASE call.actor.role = "USER"
    <3>1. RestRole(call.permission) # "USER"
      BY <2>4, <2>8, HierarchyExpanded
    <3>2. call.permission \in CronPermission \cup {"user.update-role", "user.delete",
                                "user.create", "user.update-status"}
      BY <3>1 DEF RestRole
    <3>3. rule \in Rules["USER"]
      BY <2>3, <2>5, <2>8, RulesExpanded DEF RulesOf
    <3>4. QED BY <2>5, <3>2, <3>3, ScopesOfRules DEF SelfService, CronPermission
  <2>9. QED BY <2>3, <2>6, <2>7, <2>8 DEF Role
<1>2. QED BY <1>1, ProgressHolds, PTL
=============================================================================

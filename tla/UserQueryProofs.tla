--------------------------- MODULE UserQueryProofs ---------------------------
(***************************************************************************)
(* Proofs about the paginated search for users.                            *)
(***************************************************************************)
EXTENDS UserQuery, FiniteSetTheorems, TLAPS

-----------------------------------------------------------------------------
(* Fields and filters                                                      *)

\* Merging fields whose keys are not declared again.
LEMMA NothingReplaced ==
    ASSUME NEW own, NEW inherited, \A g \in inherited, h \in own : h.key # g.key
    PROVE  own \cup {g \in inherited : \A h \in own : h.key # g.key} = own \cup inherited
OBVIOUS

\* No class declares a property again, so that a user has the fields of all three.
LEMMA CollectedFields ==
    ASSUME NEW kept
    PROVE  collectFields("User", kept) = Declared \cap kept
<1> DEFINE Step(f, c) ==
                LET own == Own[c] \cap kept
                    inherited == IF Parent[c] = None THEN {} ELSE f[Parent[c]]
                IN  own \cup {g \in inherited : \A h \in own : h.key # g.key}
           Collected == [c \in Class |->
                IF c = "Entity" THEN Own["Entity"] \cap kept
                ELSE IF c = "Person" THEN (Own["Entity"] \cup Own["Person"]) \cap kept
                ELSE Declared \cap kept]
<1>1. /\ Parent["Entity"] = None /\ Parent["Person"] = "Entity" /\ Parent["User"] = "Person"
      /\ None \notin Class
  <2>1. Parent["Entity"] = None /\ Parent["Person"] = "Entity" /\ Parent["User"] = "Person"
    BY DEF Parent
  <2>2. QED BY <2>1, NoneAssumption
<1>2. /\ \A f \in Own["Entity"], g \in Own["Person"] : f.key # g.key
      /\ \A f \in Own["Entity"] \cup Own["Person"], g \in Own["User"] : f.key # g.key
  <2>1. \A f \in Own["Entity"] : f.key \in {"id", "createdAt", "updatedAt"}
    BY DEF Own, Plain
  <2>2. \A f \in Own["Person"] : f.key \in {"firstname", "lastname", "birthday"}
    BY DEF Own, Plain
  <2>3. \A f \in Own["User"] : f.key \in {"username", "email", "role", "enable"}
    BY DEF Own, Plain
  <2>4. QED BY <2>1, <2>2, <2>3
<1>3. Declared = Own["Entity"] \cup Own["Person"] \cup Own["User"]
  BY DEF Declared, Class
<1> DEFINE Merged(own, inherited) == own \cup {g \in inherited : \A h \in own : h.key # g.key}
<1>11. Merged(Own["Person"] \cap kept, Own["Entity"] \cap kept) =
          (Own["Person"] \cap kept) \cup (Own["Entity"] \cap kept)
  <2>1. PICK own, inherited : own = Own["Person"] \cap kept /\ inherited = Own["Entity"] \cap kept
    OBVIOUS
  <2>2. \A g \in inherited, h \in own : h.key # g.key
    BY <1>2, <2>1
  <2>3. QED BY <2>1, <2>2, NothingReplaced
<1>12. Merged(Own["User"] \cap kept, (Own["Entity"] \cup Own["Person"]) \cap kept) =
          (Own["User"] \cap kept) \cup ((Own["Entity"] \cup Own["Person"]) \cap kept)
  <2>1. PICK own, inherited : /\ own = Own["User"] \cap kept
                              /\ inherited = (Own["Entity"] \cup Own["Person"]) \cap kept
    OBVIOUS
  <2>2. \A g \in inherited, h \in own : h.key # g.key
    BY <1>2, <2>1
  <2>3. QED BY <2>1, <2>2, NothingReplaced
<1>4. \A c \in Class : Collected[c] = Step(Collected, c)
  <2>1. /\ Collected["Entity"] = Own["Entity"] \cap kept
        /\ Collected["Person"] = (Own["Entity"] \cup Own["Person"]) \cap kept
        /\ Collected["User"] = Declared \cap kept
    BY DEF Class
  <2> HIDE DEF Collected
  <2>2. Collected["Entity"] = Step(Collected, "Entity")
    BY <1>1, <2>1
  <2>3. Collected["Person"] = Step(Collected, "Person")
    <3>1. Step(Collected, "Person") = (Own["Person"] \cap kept) \cup Collected["Entity"]
      BY <1>1, <1>11, <2>1 DEF Class
    <3>2. QED BY <2>1, <3>1
  <2>4. Collected["User"] = Step(Collected, "User")
    <3>1. Step(Collected, "User") = (Own["User"] \cap kept) \cup Collected["Person"]
      BY <1>1, <1>12, <2>1 DEF Class
    <3>2. QED BY <1>3, <2>1, <3>1
  <2>5. QED BY <2>2, <2>3, <2>4 DEF Class
<1>5. \E f : f = [c \in Class |-> Step(f, c)]
  <2>1. Collected = [c \in Class |-> Collected[c]]
    OBVIOUS
  <2> HIDE DEF Collected, Step
  <2>2. [c \in Class |-> Collected[c]] = [c \in Class |-> Step(Collected, c)]
    BY <1>4
  <2>3. QED BY <2>1, <2>2
<1>6. PICK fields : /\ fields = [c \in Class |-> Step(fields, c)]
                    /\ collectFields("User", kept) = fields["User"]
  <2>1. PICK fields : fields = CHOOSE f : f = [c \in Class |-> Step(f, c)]
    OBVIOUS
  <2>2. fields = [c \in Class |-> Step(fields, c)]
    <3> HIDE DEF Step
    <3>1. QED BY <1>5, <2>1, Zenon
  <2>3. collectFields("User", kept) = fields["User"]
    BY <2>1, Zenon DEF collectFields
  <2>4. QED BY <2>2, <2>3
<1>7. \A c \in Class : fields[c] = Step(fields, c)
  <2> HIDE DEF Step
  <2>1. QED BY <1>6
<1>8. fields["Entity"] = Own["Entity"] \cap kept
  BY <1>1, <1>7 DEF Class
<1>9. fields["Person"] = (Own["Entity"] \cup Own["Person"]) \cap kept
  <2>1. fields["Person"] = Step(fields, "Person")
    BY <1>7 DEF Class
  <2>2. Step(fields, "Person") = (Own["Person"] \cap kept) \cup (Own["Entity"] \cap kept)
    BY <1>1, <1>8, <1>11 DEF Class
  <2>3. QED BY <2>1, <2>2
<1>10. fields["User"] = Declared \cap kept
  <2>1. fields["User"] = Step(fields, "User")
    BY <1>7 DEF Class
  <2>2. Step(fields, "User") =
          (Own["User"] \cap kept) \cup ((Own["Entity"] \cup Own["Person"]) \cap kept)
    BY <1>1, <1>9, <1>12 DEF Class
  <2>3. QED BY <1>3, <2>1, <2>2
<1>13. QED BY <1>6, <1>10

\* The fields by name.
LEMMA FieldsByName ==
    /\ Filterable = {f \in Declared : f.filterable} /\ Sortable = {f \in Declared : f.sortable}
    /\ {f.key : f \in Sortable} = Ordered
    /\ {f.key : f \in {g \in Filterable : g.range}} = {"createdAt", "updatedAt"}
    /\ {f.key : f \in {g \in Filterable : ~g.range}} = Named \cup {"id"}
    /\ Searchable = {"username", "email", "role", "firstname", "lastname"}
<1>1. Filterable = {f \in Declared : f.filterable} /\ Sortable = {f \in Declared : f.sortable}
  BY CollectedFields DEF Filterable, Sortable
<1> DEFINE Text(f) == f.filterable /\ f.sortable /\ ~f.range /\ f.type = "string"
<1>2. /\ \A f \in Own["Entity"] :
           \/ f.key = "id" /\ f.filterable /\ ~f.sortable /\ ~f.range
           \/ /\ f.key \in {"createdAt", "updatedAt"}
              /\ f.filterable /\ f.sortable /\ f.range
      /\ \A k \in {"id", "createdAt", "updatedAt"} : \E f \in Own["Entity"] : f.key = k
  <2>1. PICK id : id = [Plain EXCEPT !.key = "id", !.sortable = FALSE]
    OBVIOUS
  <2>2. id.key = "id" /\ id.filterable /\ ~id.sortable /\ ~id.range
    BY <2>1 DEF Plain
  <2>3. PICK dates : dates = {[Plain EXCEPT !.key = k, !.range = TRUE, !.type = "date"] :
                                k \in {"createdAt", "updatedAt"}}
    OBVIOUS
  <2>4. \A k : [Plain EXCEPT !.key = k, !.range = TRUE, !.type = "date"].key = k
    BY DEF Plain
  <2>5. \A f \in dates : f.key \in {"createdAt", "updatedAt"} /\ f.filterable /\ f.sortable /\ f.range
    BY <2>3 DEF Plain
  <2>6. \A k \in {"createdAt", "updatedAt"} : \E f \in dates : f.key = k
    BY <2>3, <2>4
  <2>7. Own["Entity"] = {id} \cup dates
    BY <2>1, <2>3 DEF Own
  <2>8. QED BY <2>2, <2>5, <2>6, <2>7
<1>3. /\ \A f \in Own["Person"] :
           \/ f.key \in {"firstname", "lastname"} /\ Text(f)
           \/ f.key = "birthday" /\ ~f.filterable /\ f.sortable
      /\ \A k \in {"firstname", "lastname", "birthday"} : \E f \in Own["Person"] : f.key = k
  <2>1. PICK birthday : birthday = [Plain EXCEPT !.key = "birthday", !.filterable = FALSE, !.type = "date"]
    OBVIOUS
  <2>2. birthday.key = "birthday" /\ ~birthday.filterable /\ birthday.sortable
    BY <2>1 DEF Plain
  <2>3. PICK names : names = {[Plain EXCEPT !.key = k] : k \in {"firstname", "lastname"}}
    OBVIOUS
  <2>4. \A f \in names : f.key \in {"firstname", "lastname"} /\ Text(f)
    BY <2>3 DEF Plain
  <2>5. \A k \in {"firstname", "lastname"} : \E f \in names : f.key = k
    <3>1. \A k : [Plain EXCEPT !.key = k].key = k
      BY DEF Plain
    <3>2. QED BY <2>3, <3>1
  <2>6. Own["Person"] = names \cup {birthday}
    BY <2>1, <2>3 DEF Own
  <2>7. QED BY <2>2, <2>4, <2>5, <2>6
<1>4. /\ \A f \in Own["User"] :
           \/ f.key \in {"username", "email", "role"} /\ Text(f)
           \/ f.key = "enable" /\ f.filterable /\ f.sortable /\ ~f.range /\ f.type = "boolean"
      /\ \A k \in {"username", "email", "role", "enable"} : \E f \in Own["User"] : f.key = k
  <2>1. PICK enable : enable = [Plain EXCEPT !.key = "enable", !.type = "boolean"]
    OBVIOUS
  <2>2. enable.key = "enable" /\ enable.filterable /\ enable.sortable /\ ~enable.range /\ enable.type = "boolean"
    BY <2>1 DEF Plain
  <2>3. PICK texts : texts = {[Plain EXCEPT !.key = k] : k \in {"username", "email", "role"}}
    OBVIOUS
  <2>4. \A f \in texts : f.key \in {"username", "email", "role"} /\ Text(f)
    BY <2>3 DEF Plain
  <2>5. \A k \in {"username", "email", "role"} : \E f \in texts : f.key = k
    <3>1. \A k : [Plain EXCEPT !.key = k].key = k
      BY DEF Plain
    <3>2. QED BY <2>3, <3>1
  <2>6. Own["User"] = texts \cup {enable}
    BY <2>1, <2>3 DEF Own
  <2>7. QED BY <2>2, <2>4, <2>5, <2>6
<1>5. Declared = Own["Entity"] \cup Own["Person"] \cup Own["User"]
  BY DEF Declared, Class
<1>6. {f.key : f \in Sortable} = Ordered
  <2>1. \A f \in Sortable : f.key \in Ordered
    BY <1>1, <1>2, <1>3, <1>4, <1>5 DEF Ordered, Named
  <2>2. \A k \in Ordered : \E f \in Sortable : f.key = k
    BY <1>1, <1>2, <1>3, <1>4, <1>5 DEF Ordered, Named
  <2>3. QED BY <2>1, <2>2
<1>7. {f.key : f \in {g \in Filterable : g.range}} = {"createdAt", "updatedAt"}
  BY <1>1, <1>2, <1>3, <1>4, <1>5
<1>8. {f.key : f \in {g \in Filterable : ~g.range}} = Named \cup {"id"}
  <2>1. \A f \in Filterable : ~f.range => f.key \in Named \cup {"id"}
    BY <1>1, <1>2, <1>3, <1>4, <1>5 DEF Named
  <2>2. \A k \in Named \cup {"id"} : \E f \in Filterable : f.key = k /\ ~f.range
    BY <1>1, <1>2, <1>3, <1>4, <1>5 DEF Named
  <2>3. QED BY <2>1, <2>2
<1>9. Searchable = {"username", "email", "role", "firstname", "lastname"}
  <2>1. \A f \in Filterable : f.type = "string" /\ ~f.range /\ f.key # "id" =>
           f.key \in {"username", "email", "role", "firstname", "lastname"}
    BY <1>1, <1>2, <1>3, <1>4, <1>5
  <2>2. \A k \in {"username", "email", "role", "firstname", "lastname"} :
           \E f \in Filterable : f.key = k /\ f.type = "string" /\ ~f.range
    BY <1>1, <1>2, <1>3, <1>4, <1>5
  <2>3. QED BY <2>1, <2>2 DEF Searchable
<1>10. QED BY <1>1, <1>6, <1>7, <1>8, <1>9

\* What the condition of one range field asks.
LEMMA RangeHolds ==
    ASSUME NEW q, NEW f, NEW d
    PROVE  (\A condition \in buildRange(f, q) : Holds(condition, d)) <=>
              /\ q.from[f.key] = None \/ d[f.key] >= q.from[f.key]
              /\ q.to[f.key] = None \/ d[f.key] <= q.to[f.key]
<1>1. PICK from, to, range : /\ from = q.from[f.key] /\ to = q.to[f.key]
                             /\ range = [kind |-> "range", key |-> f.key, from |-> from, to |-> to]
  OBVIOUS
<1>2. Holds(range, d) <=> /\ from = None \/ d[f.key] >= from
                          /\ to = None \/ d[f.key] <= to
  <2>1. range.kind = "range" /\ range.key = f.key /\ range.from = from /\ range.to = to
    BY <1>1
  <2>2. QED BY <2>1 DEF Holds
<1>3. buildRange(f, q) = IF from = None /\ to = None THEN {} ELSE {range}
  BY <1>1 DEF buildRange
<1>4. QED BY <1>1, <1>2, <1>3

\* The conditions built from the fields describe what the query asks.
LEMMA FiltersAsk ==
    query \in Queries =>
        \A d : (\A condition \in buildFilters(query) : Holds(condition, d)) <=> Asked(d)
<1> SUFFICES ASSUME query \in Queries, NEW d
             PROVE  (\A condition \in buildFilters(query) : Holds(condition, d)) <=> Asked(d)
  OBVIOUS
<1> DEFINE Ranges == UNION {buildRange(f, query) : f \in {g \in Filterable : g.range}}
           Equals == {[kind |-> "equal", key |-> f.key, value |-> query.exact[f.key]] :
                        f \in {g \in Filterable : ~g.range /\ g.key \in DOMAIN query.exact}}
           Search == IF query.search = None \/ Searchable = {} THEN {}
                     ELSE {[kind |-> "or", term |-> query.search, keys |-> Searchable]}
           All(conditions) == \A condition \in conditions : Holds(condition, d)
<1>1. All(buildFilters(query)) <=> All(Ranges) /\ All(Equals) /\ All(Search)
  <2>1. buildFilters(query) = Ranges \cup Equals \cup Search
    BY DEF buildFilters
  <2> HIDE DEF Ranges, Equals, Search
  <2>2. QED BY <2>1
<1>2. All(Ranges) <=> \A k \in {"createdAt", "updatedAt"} :
                        /\ query.from[k] = None \/ d[k] >= query.from[k]
                        /\ query.to[k] = None \/ d[k] <= query.to[k]
  <2> DEFINE Inside(k) == /\ query.from[k] = None \/ d[k] >= query.from[k]
                          /\ query.to[k] = None \/ d[k] <= query.to[k]
  <2>1. \A f : All(buildRange(f, query)) <=> Inside(f.key)
    BY RangeHolds
  <2>2. All(Ranges) <=> \A f \in {g \in Filterable : g.range} : All(buildRange(f, query))
    OBVIOUS
  <2> HIDE DEF Inside, All, Ranges
  <2>3. All(Ranges) <=> \A k \in {f.key : f \in {g \in Filterable : g.range}} : Inside(k)
    BY <2>1, <2>2
  <2>4. All(Ranges) <=> \A k \in {"createdAt", "updatedAt"} : Inside(k)
    BY <2>3, FieldsByName
  <2>5. QED BY <2>4 DEF Inside
<1>3. All(Equals) <=> \A k \in DOMAIN query.exact : d[k] = query.exact[k]
  <2>1. \A k : Holds([kind |-> "equal", key |-> k, value |-> query.exact[k]], d) <=>
                 d[k] = query.exact[k]
    BY DEF Holds
  <2>2. All(Equals) <=> \A f \in {g \in Filterable : ~g.range /\ g.key \in DOMAIN query.exact} :
                          d[f.key] = query.exact[f.key]
    BY <2>1
  <2>3. \A k \in DOMAIN query.exact : \E f \in Filterable : ~f.range /\ f.key = k
    BY FieldsByName, QueriesAssumption
  <2> HIDE DEF All, Equals
  <2>4. QED BY <2>2, <2>3
<1>4. All(Search) <=> \/ query.search = None
                      \/ \E k \in {"username", "email", "role", "firstname", "lastname"} :
                            <<query.search, d[k]>> \in Mentions
  <2>1. Holds([kind |-> "or", term |-> query.search, keys |-> Searchable], d) <=>
          \E k \in Searchable : <<query.search, d[k]>> \in Mentions
    BY DEF Holds
  <2>2. Searchable = {"username", "email", "role", "firstname", "lastname"}
    BY FieldsByName
  <2>3. QED BY <2>1, <2>2
<1>5. QED
  <2> HIDE DEF Ranges, Equals, Search
  <2>1. QED BY <1>1, <1>2, <1>3, <1>4 DEF Asked

\* Whatever the query and the documents, a search selects the documents the query
\* describes and no others, and never looks at a password or a picture.
THEOREM SelectionIsAsked == Spec => []SelectsWhatIsAsked
<1>1. query \in Queries => SelectsWhatIsAsked
  <2>1. SUFFICES ASSUME query \in Queries PROVE SelectsWhatIsAsked
    OBVIOUS
  <2>2. Selected(query, docs) = {i \in docs : Asked(Documents[i])}
    <3>1. \A d : (\A condition \in buildFilters(query) : Holds(condition, d)) <=> Asked(d)
      BY <2>1, FiltersAsk
    <3>2. QED BY <3>1, Zenon DEF Selected
  <2>3. \A f \in Filterable \cup Sortable : f.key \notin {"password", "picture"}
    <3>1. \A f \in Filterable : f.key \in {"createdAt", "updatedAt"} \cup Named \cup {"id"}
      BY FieldsByName
    <3>2. \A f \in Sortable : f.key \in Ordered
      BY FieldsByName
    <3>3. QED BY <3>1, <3>2 DEF Ordered, Named
  <2>4. QED BY <2>2, <2>3 DEF SelectsWhatIsAsked
<1>2. Init => query \in Queries
  BY DEF Init
<1>3. query \in Queries /\ [Next]_vars => (query \in Queries)'
  BY DEF Next, Fetch, Register, vars
<1>4. QED BY <1>1, <1>2, <1>3, PTL DEF Spec

-----------------------------------------------------------------------------
(* Sort                                                                    *)

\* A set of naturals has a least member.
LEMMA LeastExists ==
    ASSUME NEW T \in SUBSET Nat, T # {}
    PROVE  \E x \in T : \A y \in T : x <= y
<1>1. \E x \in T : \A y \in T : ~(<<y, x>> \in OpToRel(<, Nat))
  BY NatLessThanWellFounded, WFMin
<1>2. PICK x \in T : \A y \in T : ~(y < x)
  BY <1>1 DEF OpToRel
<1>3. QED BY <1>2

Part == [field : STRING, direction : {1, -1}]

\* What the sort object is after n parts: the fields mentioned that can be sorted by,
\* in the order of their first mention, each in the direction of its last one.
SortAfter(sort, parts, n) ==
    /\ sort \in Seq(Ordered \X {1, -1})
    /\ \A i \in 1..Len(sort) : \E m \in 1..n :
         /\ parts[m].field = sort[i][1]
         /\ parts[m].direction = sort[i][2]
         /\ \A l \in 1..n : parts[l].field = sort[i][1] => l <= m
    /\ \A m \in 1..n : parts[m].field \in Ordered =>
         \E i \in 1..Len(sort) : sort[i][1] = parts[m].field
    /\ \A i, j \in 1..Len(sort) : i < j => \E m \in 1..n :
         /\ parts[m].field = sort[i][1]
         /\ \A l \in 1..n : parts[l].field = sort[j][1] => m < l

\* Skipping a part whose field cannot be sorted by.
LEMMA SkipPart ==
    ASSUME NEW parts \in Seq(Part), NEW n \in 1..Len(parts), NEW sort,
           SortAfter(sort, parts, n - 1), parts[n].field \notin Ordered
    PROVE  SortAfter(sort, parts, n)
<1>1. \A i \in 1..Len(sort) : sort[i][1] \in Ordered
  BY DEF SortAfter
<1>2. 1..n = 1..(n - 1) \cup {n}
  OBVIOUS
<1>3. QED BY <1>1, <1>2 DEF SortAfter

\* Putting a part whose field has a place already.
LEMMA PutAgain ==
    ASSUME NEW parts \in Seq(Part), NEW n \in 1..Len(parts), NEW sort,
           SortAfter(sort, parts, n - 1), parts[n].field \in Ordered,
           \E i \in DOMAIN sort : sort[i][1] = parts[n].field
    PROVE  SortAfter(Put(sort, parts[n]), parts, n)
<1>1. PICK put, field, direction, length :
         /\ put = Put(sort, parts[n]) /\ field = parts[n].field
         /\ direction = parts[n].direction /\ length = Len(sort)
  OBVIOUS
<1>2. /\ sort \in Seq(Ordered \X {1, -1}) /\ length \in Nat /\ DOMAIN sort = 1..length
      /\ \A i \in 1..length : sort[i] \in Ordered \X {1, -1}
  <2>1. sort \in Seq(Ordered \X {1, -1})
    BY DEF SortAfter
  <2>2. QED BY <1>1, <2>1
<1>3. parts[n] \in Part
  OBVIOUS
<1>4. <<field, direction>> \in Ordered \X {1, -1}
  BY <1>1, <1>3 DEF Part
<1>5. put = [i \in 1..length |-> IF sort[i][1] = field THEN <<field, direction>> ELSE sort[i]]
  BY <1>1, <1>2 DEF Put
<1>6. put \in Seq(Ordered \X {1, -1}) /\ Len(put) = length
  <2>1. \A i \in 1..length : put[i] \in Ordered \X {1, -1}
    BY <1>2, <1>4, <1>5
  <2>2. put \in [1..length -> Ordered \X {1, -1}]
    BY <1>5, <2>1
  <2>3. QED BY <1>2, <2>2
<1>7. \A i \in 1..length :
         /\ put[i][1] = sort[i][1]
         /\ sort[i][1] = field => put[i][2] = direction
         /\ sort[i][1] # field => put[i][2] = sort[i][2]
  BY <1>5
<1>8. 1..n = 1..(n - 1) \cup {n} /\ \A l \in 1..(n - 1) : l < n
  OBVIOUS
<1>9. \A i \in 1..length : \E m \in 1..n :
         /\ parts[m].field = put[i][1]
         /\ parts[m].direction = put[i][2]
         /\ \A l \in 1..n : parts[l].field = put[i][1] => l <= m
  <2> SUFFICES ASSUME NEW i \in 1..length
               PROVE  \E m \in 1..n :
                        /\ parts[m].field = put[i][1]
                        /\ parts[m].direction = put[i][2]
                        /\ \A l \in 1..n : parts[l].field = put[i][1] => l <= m
    OBVIOUS
  <2>1. CASE sort[i][1] = field
    BY <1>1, <1>7, <2>1
  <2>2. CASE sort[i][1] # field
    <3>1. PICK m \in 1..(n - 1) : /\ parts[m].field = sort[i][1]
                                  /\ parts[m].direction = sort[i][2]
                                  /\ \A l \in 1..(n - 1) : parts[l].field = sort[i][1] => l <= m
      BY <1>1 DEF SortAfter
    <3>2. QED BY <1>1, <1>7, <1>8, <2>2, <3>1
  <2>3. QED BY <2>1, <2>2
<1>10. \A m \in 1..n : parts[m].field \in Ordered => \E i \in 1..length : put[i][1] = parts[m].field
  <2>1. \A m \in 1..(n - 1) : parts[m].field \in Ordered =>
           \E i \in 1..length : sort[i][1] = parts[m].field
    BY <1>1 DEF SortAfter
  <2>2. \E i \in 1..length : sort[i][1] = parts[n].field
    BY <1>2
  <2>3. QED BY <1>7, <1>8, <2>1, <2>2
<1>11. \A i, j \in 1..length : i < j => \E m \in 1..n :
         /\ parts[m].field = put[i][1]
         /\ \A l \in 1..n : parts[l].field = put[j][1] => m < l
  <2> SUFFICES ASSUME NEW i \in 1..length, NEW j \in 1..length, i < j
               PROVE  \E m \in 1..n :
                        /\ parts[m].field = put[i][1]
                        /\ \A l \in 1..n : parts[l].field = put[j][1] => m < l
    OBVIOUS
  <2>1. PICK m \in 1..(n - 1) : /\ parts[m].field = sort[i][1]
                                /\ \A l \in 1..(n - 1) : parts[l].field = sort[j][1] => m < l
    BY <1>1 DEF SortAfter
  <2>2. QED BY <1>7, <1>8, <2>1
<1>12. QED BY <1>1, <1>6, <1>9, <1>10, <1>11 DEF SortAfter

\* Putting a part whose field has none.
LEMMA PutNew ==
    ASSUME NEW parts \in Seq(Part), NEW n \in 1..Len(parts), NEW sort,
           SortAfter(sort, parts, n - 1), parts[n].field \in Ordered,
           ~ \E i \in DOMAIN sort : sort[i][1] = parts[n].field
    PROVE  SortAfter(Put(sort, parts[n]), parts, n)
<1>1. PICK put, field, direction, length :
         /\ put = Put(sort, parts[n]) /\ field = parts[n].field
         /\ direction = parts[n].direction /\ length = Len(sort)
  OBVIOUS
<1>2. /\ sort \in Seq(Ordered \X {1, -1}) /\ length \in Nat /\ DOMAIN sort = 1..length
      /\ \A i \in 1..length : sort[i] \in Ordered \X {1, -1}
  <2>1. sort \in Seq(Ordered \X {1, -1})
    BY DEF SortAfter
  <2>2. QED BY <1>1, <2>1
<1>3. parts[n] \in Part
  OBVIOUS
<1>4. <<field, direction>> \in Ordered \X {1, -1}
  BY <1>1, <1>3 DEF Part
<1>5. put = Append(sort, <<field, direction>>)
  BY <1>1 DEF Put
<1>6. put \in Seq(Ordered \X {1, -1}) /\ Len(put) = length + 1
  BY <1>1, <1>2, <1>4, <1>5
<1>7. /\ \A i \in 1..length : put[i] = sort[i]
      /\ put[length + 1] = <<field, direction>>
  BY <1>1, <1>2, <1>4, <1>5
<1>8. /\ 1..n = 1..(n - 1) \cup {n} /\ \A l \in 1..(n - 1) : l < n
      /\ 1..(length + 1) = 1..length \cup {length + 1}
  BY <1>2
<1>9. \A l \in 1..(n - 1) : parts[l].field # field
  <2>1. \A m \in 1..(n - 1) : parts[m].field \in Ordered =>
           \E i \in 1..length : sort[i][1] = parts[m].field
    BY <1>1 DEF SortAfter
  <2>2. QED BY <1>1, <1>2, <2>1
<1>10. \A i \in 1..length : sort[i][1] # field
  BY <1>1, <1>2
<1>11. \A i \in 1..(length + 1) : \E m \in 1..n :
         /\ parts[m].field = put[i][1]
         /\ parts[m].direction = put[i][2]
         /\ \A l \in 1..n : parts[l].field = put[i][1] => l <= m
  <2> SUFFICES ASSUME NEW i \in 1..(length + 1)
               PROVE  \E m \in 1..n :
                        /\ parts[m].field = put[i][1]
                        /\ parts[m].direction = put[i][2]
                        /\ \A l \in 1..n : parts[l].field = put[i][1] => l <= m
    OBVIOUS
  <2>1. CASE i = length + 1
    BY <1>1, <1>7, <2>1
  <2>2. CASE i \in 1..length
    <3>1. PICK m \in 1..(n - 1) : /\ parts[m].field = sort[i][1]
                                  /\ parts[m].direction = sort[i][2]
                                  /\ \A l \in 1..(n - 1) : parts[l].field = sort[i][1] => l <= m
      BY <1>1, <2>2 DEF SortAfter
    <3>2. parts[n].field # sort[i][1] /\ put[i] = sort[i]
      BY <1>1, <1>7, <1>10, <2>2
    <3>3. QED BY <1>8, <3>1, <3>2
  <2>3. QED BY <1>8, <2>1, <2>2
<1>12. \A m \in 1..n : parts[m].field \in Ordered =>
         \E i \in 1..(length + 1) : put[i][1] = parts[m].field
  <2>1. \A m \in 1..(n - 1) : parts[m].field \in Ordered =>
           \E i \in 1..length : sort[i][1] = parts[m].field
    BY <1>1 DEF SortAfter
  <2>2. put[length + 1][1] = parts[n].field
    BY <1>1, <1>7
  <2>3. QED BY <1>7, <1>8, <2>1, <2>2
<1>13. \A i, j \in 1..(length + 1) : i < j => \E m \in 1..n :
         /\ parts[m].field = put[i][1]
         /\ \A l \in 1..n : parts[l].field = put[j][1] => m < l
  <2> SUFFICES ASSUME NEW i \in 1..(length + 1), NEW j \in 1..(length + 1), i < j
               PROVE  \E m \in 1..n :
                        /\ parts[m].field = put[i][1]
                        /\ \A l \in 1..n : parts[l].field = put[j][1] => m < l
    OBVIOUS
  <2>1. i \in 1..length
    BY <1>2
  <2>2. CASE j = length + 1
    <3>1. PICK m \in 1..(n - 1) : parts[m].field = sort[i][1]
      BY <1>1, <2>1 DEF SortAfter
    <3>2. put[j][1] = field /\ put[i] = sort[i]
      BY <1>7, <2>1, <2>2
    <3>3. QED BY <1>8, <1>9, <3>1, <3>2
  <2>3. CASE j \in 1..length
    <3>1. PICK m \in 1..(n - 1) : /\ parts[m].field = sort[i][1]
                                  /\ \A l \in 1..(n - 1) : parts[l].field = sort[j][1] => m < l
      BY <1>1, <2>1, <2>3 DEF SortAfter
    <3>2. put[j] = sort[j] /\ put[i] = sort[i]
      BY <1>7, <2>1, <2>3
    <3>3. QED BY <1>8, <3>1, <3>2
  <2>4. QED BY <1>8, <2>2, <2>3
<1>14. QED BY <1>1, <1>6, <1>11, <1>12, <1>13 DEF SortAfter

\* The sort object after the n-th part, from the one before it.
PutPart(sortObj, parts, n) ==
    IF n = 0 THEN <<>>
    ELSE IF \E f \in Sortable : f.key = parts[n].field THEN Put(sortObj[n - 1], parts[n])
    ELSE sortObj[n - 1]

\* The loop over the parts has a result.
LEMMA SortObjExists ==
    ASSUME NEW parts \in Seq(Part)
    PROVE  \E sortObj : sortObj = [n \in 0..Len(parts) |-> PutPart(sortObj, parts, n)]
<1> DEFINE Exists(k) == \E sortObj : sortObj = [n \in 0..k |-> PutPart(sortObj, parts, n)]
           missing == {k \in 0..Len(parts) : ~Exists(k)}
<1>1. SUFFICES ASSUME missing # {} PROVE FALSE
  <2>1. Len(parts) \in 0..Len(parts)
    OBVIOUS
  <2> HIDE DEF Exists
  <2>2. missing = {} => Exists(Len(parts))
    BY <2>1
  <2>3. QED BY <2>2 DEF Exists
<1>2. PICK k \in missing : \A l \in missing : k <= l
  <2>1. missing \in SUBSET Nat
    OBVIOUS
  <2> HIDE DEF missing
  <2>2. QED BY <1>1, <2>1, LeastExists
<1>3. k \in 0..Len(parts) /\ ~Exists(k)
  OBVIOUS
<1>4. CASE k = 0
  <2>1. PICK g : g = [n \in 0..0 |-> <<>>]
    OBVIOUS
  <2>2. \A n \in 0..0 : PutPart(g, parts, n) = <<>>
    BY DEF PutPart
  <2>3. g = [n \in 0..0 |-> PutPart(g, parts, n)]
    BY <2>1, <2>2
  <2>4. QED BY <1>3, <1>4, <2>3
<1>5. CASE k # 0
  <2>1. Exists(k - 1)
    <3>1. k - 1 \in 0..Len(parts) /\ ~(k <= k - 1)
      BY <1>3, <1>5
    <3> HIDE DEF Exists
    <3>2. QED BY <1>2, <3>1
  <2>2. PICK g : g = [n \in 0..(k - 1) |-> PutPart(g, parts, n)]
    BY <2>1
  <2>3. PICK h : h = [n \in 0..k |-> IF n = k THEN PutPart(g, parts, k) ELSE g[n]]
    OBVIOUS
  <2>4. \A n \in 0..k : PutPart(h, parts, n) = PutPart(g, parts, n)
    <3>1. \A n \in 0..k : n # 0 => h[n - 1] = g[n - 1]
      BY <1>3, <2>3
    <3>2. QED BY <3>1 DEF PutPart
  <2>5. \A n \in 0..k : h[n] = PutPart(h, parts, n)
    <3>1. \A n \in 0..(k - 1) : g[n] = PutPart(g, parts, n)
      BY <2>2
    <3>2. \A n \in 0..k : h[n] = PutPart(g, parts, n)
      BY <1>3, <2>3, <3>1
    <3>3. QED BY <2>4, <3>2
  <2>6. h = [n \in 0..k |-> PutPart(h, parts, n)]
    <3>1. h = [n \in 0..k |-> h[n]]
      BY <2>3
    <3>2. QED BY <2>5, <3>1
  <2>7. QED BY <1>3, <2>6
<1>6. QED BY <1>4, <1>5

\* What buildSort makes of the parts.
LEMMA SortBuilt ==
    ASSUME NEW parts \in Seq(Part)
    PROVE  \E sort : /\ SortAfter(sort, parts, Len(parts))
                     /\ buildSort(parts) = IF sort = <<>> THEN defaultSort ELSE sort
<1>1. PICK g : g = CHOOSE f : f = [n \in 0..Len(parts) |-> PutPart(f, parts, n)]
  OBVIOUS
<1>2. g = [n \in 0..Len(parts) |-> PutPart(g, parts, n)]
  BY <1>1, SortObjExists, Zenon
<1>3. buildSort(parts) = IF g[Len(parts)] = <<>> THEN defaultSort ELSE g[Len(parts)]
  <2>1. buildSort(parts) =
          LET sortObj == CHOOSE f : f = [n \in 0..Len(parts) |-> PutPart(f, parts, n)]
          IN  IF sortObj[Len(parts)] = <<>> THEN defaultSort ELSE sortObj[Len(parts)]
    BY Zenon DEF buildSort, PutPart
  <2>2. QED BY <1>1, <2>1, Zenon
<1>4. \A n \in 0..Len(parts) : g[n] = PutPart(g, parts, n)
  BY <1>2
<1> DEFINE wrong == {n \in 0..Len(parts) : ~SortAfter(g[n], parts, n)}
<1>5. ASSUME wrong # {} PROVE FALSE
  <2>1. PICK k \in wrong : \A l \in wrong : k <= l
    <3>1. wrong \in SUBSET Nat
      OBVIOUS
    <3> HIDE DEF wrong
    <3>2. QED BY <1>5, <3>1, LeastExists
  <2>2. k \in 0..Len(parts) /\ ~SortAfter(g[k], parts, k)
    OBVIOUS
  <2>3. CASE k = 0
    <3>1. g[k] = <<>>
      BY <1>4, <2>2, <2>3 DEF PutPart
    <3>2. SortAfter(<<>>, parts, 0)
      BY DEF SortAfter
    <3>3. QED BY <2>2, <2>3, <3>1, <3>2
  <2>4. CASE k # 0
    <3>1. k \in 1..Len(parts) /\ k - 1 \in 0..Len(parts) /\ ~(k <= k - 1)
      BY <2>2, <2>4
    <3>2. SortAfter(g[k - 1], parts, k - 1)
      BY <2>1, <3>1
    <3>3. (\E f \in Sortable : f.key = parts[k].field) <=> parts[k].field \in Ordered
      BY FieldsByName
    <3>4. g[k] = IF parts[k].field \in Ordered THEN Put(g[k - 1], parts[k]) ELSE g[k - 1]
      BY <1>4, <2>2, <2>4, <3>3 DEF PutPart
    <3>5. PICK before : before = g[k - 1]
      OBVIOUS
    <3>6. SortAfter(IF parts[k].field \in Ordered THEN Put(before, parts[k]) ELSE before, parts, k)
      BY <3>1, <3>2, <3>5, SkipPart, PutAgain, PutNew
    <3>7. QED BY <2>2, <3>4, <3>5, <3>6
  <2>5. QED BY <2>3, <2>4
<1>6. Len(parts) \in 0..Len(parts)
  OBVIOUS
<1>7. SortAfter(g[Len(parts)], parts, Len(parts))
  BY <1>5, <1>6
<1>8. QED BY <1>3, <1>7

\* A sequence of distinct things has as many elements as it names.
LEMMA DistinctCount ==
    ASSUME NEW n \in Nat, NEW S, NEW f \in [1..n -> S],
           \A x \in S : \E i \in 1..n : f[i] = x,
           \A i, j \in 1..n : i < j => f[i] # f[j]
    PROVE  Cardinality(S) = n
<1>1. \A i, j \in 1..n : f[i] = f[j] => i = j
  <2>1. \A i, j \in 1..n : i = j \/ i < j \/ j < i
    OBVIOUS
  <2>2. QED BY <2>1
<1>2. f \in Bijection(1..n, S)
  BY <1>1 DEF Bijection, Injection, Surjection, IsInjective
<1>3. QED BY <1>2, FS_CountingElements DEF ExistsBijection

\* What the sort object is after the last part is what the string asks.
LEMMA SortAsked ==
    ASSUME query.sort \in Seq(Part)
    PROVE  SortIsAsked
<1> DEFINE mentions(parts, field) == {n \in DOMAIN parts : parts[n].field = field}
           first(parts, field) ==
              CHOOSE n \in mentions(parts, field) : \A m \in mentions(parts, field) : n <= m
           last(parts, field) ==
              CHOOSE n \in mentions(parts, field) : \A m \in mentions(parts, field) : m <= n
<1>1. PICK parts, length : parts = query.sort /\ length = Len(parts)
  OBVIOUS
<1>2. parts \in Seq(Part) /\ length \in Nat /\ DOMAIN parts = 1..length
  BY <1>1
<1>3. PICK sort : /\ SortAfter(sort, parts, length)
                  /\ buildSort(parts) = IF sort = <<>> THEN defaultSort ELSE sort
  BY <1>1, <1>2, SortBuilt
<1>4. PICK asked : asked = {parts[n].field : n \in DOMAIN parts} \cap Ordered
  OBVIOUS
<1>5. PICK size : size = Len(sort)
  OBVIOUS
<1>6. /\ sort \in Seq(Ordered \X {1, -1}) /\ size \in Nat /\ DOMAIN sort = 1..size
      /\ \A i \in 1..size : sort[i][1] \in Ordered
  <2>1. sort \in Seq(Ordered \X {1, -1})
    BY <1>3 DEF SortAfter
  <2>2. QED BY <1>5, <2>1
<1>7. {sort[i][1] : i \in 1..size} = asked
  <2>1. \A i \in 1..size : \E m \in 1..length : parts[m].field = sort[i][1]
    BY <1>3, <1>5 DEF SortAfter
  <2>2. \A m \in 1..length : parts[m].field \in Ordered =>
           \E i \in 1..size : sort[i][1] = parts[m].field
    BY <1>3, <1>5 DEF SortAfter
  <2>3. \A i \in 1..size : sort[i][1] \in asked
    BY <1>2, <1>4, <1>6, <2>1
  <2>4. \A x \in asked : \E i \in 1..size : sort[i][1] = x
    BY <1>2, <1>4, <2>2
  <2>5. QED BY <2>3, <2>4
<1>8. asked = {} => buildSort(parts) = defaultSort
  <2>1. ASSUME asked = {} PROVE sort = <<>>
    <3>1. 1..size = {}
      BY <1>7, <2>1
    <3>2. size = 0
      BY <1>6, <3>1
    <3>3. QED BY <1>5, <1>6, <3>2
  <2>2. QED BY <1>3, <2>1
<1>9. asked # {} => buildSort(parts) = sort
  <2>1. ASSUME asked # {} PROVE sort # <<>>
    <3>1. 1..size # {}
      BY <1>7, <2>1
    <3>2. QED BY <1>5, <3>1
  <2>2. QED BY <1>3, <2>1
<1>10. size = Cardinality(asked)
  <2>1. PICK names : names = [i \in 1..size |-> sort[i][1]]
    OBVIOUS
  <2>2. names \in [1..size -> asked] /\ \A x \in asked : \E i \in 1..size : names[i] = x
    BY <1>7, <2>1
  <2>3. \A i, j \in 1..size : i < j => names[i] # names[j]
    <3>1. SUFFICES ASSUME NEW i \in 1..size, NEW j \in 1..size, i < j, sort[i][1] = sort[j][1]
                   PROVE  FALSE
      BY <2>1
    <3>2. PICK m \in 1..length : /\ parts[m].field = sort[i][1]
                                 /\ \A l \in 1..length : parts[l].field = sort[j][1] => m < l
      BY <1>3, <1>5, <3>1 DEF SortAfter
    <3>3. QED BY <3>1, <3>2
  <2>4. QED BY <1>6, <2>2, <2>3, DistinctCount
<1>11. \A i, j \in 1..size : i < j => first(parts, sort[i][1]) < first(parts, sort[j][1])
  <2>1. ASSUME NEW i \in 1..size
        PROVE  /\ first(parts, sort[i][1]) \in mentions(parts, sort[i][1])
               /\ \A l \in mentions(parts, sort[i][1]) : first(parts, sort[i][1]) <= l
    <3>1. PICK mine : mine = mentions(parts, sort[i][1])
      OBVIOUS
    <3>2. mine \in SUBSET Nat /\ mine # {}
      <4>1. \E m \in 1..length : parts[m].field = sort[i][1]
        BY <1>3, <1>5, <2>1 DEF SortAfter
      <4>2. QED BY <1>2, <3>1, <4>1
    <3>3. \E x \in mine : \A y \in mine : x <= y
      BY <3>2, LeastExists
    <3> HIDE DEF mentions
    <3>4. QED BY <3>1, <3>3
  <2>2. SUFFICES ASSUME NEW i \in 1..size, NEW j \in 1..size, i < j
                 PROVE  first(parts, sort[i][1]) < first(parts, sort[j][1])
    OBVIOUS
  <2>3. PICK m \in 1..length : /\ parts[m].field = sort[i][1]
                               /\ \A l \in 1..length : parts[l].field = sort[j][1] => m < l
    BY <1>3, <1>5, <2>2 DEF SortAfter
  <2>4. PICK a, b : a = first(parts, sort[i][1]) /\ b = first(parts, sort[j][1])
    OBVIOUS
  <2>5. m \in mentions(parts, sort[i][1])
    BY <1>2, <2>3
  <2>6. a <= m
    <3> HIDE DEF first, mentions
    <3>1. QED BY <2>1, <2>4, <2>5
  <2>7. a \in mentions(parts, sort[i][1]) /\ b \in mentions(parts, sort[j][1])
    <3> HIDE DEF first, mentions
    <3>1. QED BY <2>1, <2>4
  <2>8. a \in Nat /\ b \in Nat /\ m \in Nat /\ m < b
    BY <1>2, <2>3, <2>7
  <2> HIDE DEF first
  <2>9. QED BY <2>4, <2>6, <2>8
<1>12. \A i \in 1..size : sort[i][2] = parts[last(parts, sort[i][1])].direction
  <2>1. SUFFICES ASSUME NEW i \in 1..size
                 PROVE  sort[i][2] = parts[last(parts, sort[i][1])].direction
    OBVIOUS
  <2>2. PICK m \in 1..length : /\ parts[m].field = sort[i][1]
                               /\ parts[m].direction = sort[i][2]
                               /\ \A l \in 1..length : parts[l].field = sort[i][1] => l <= m
    BY <1>3, <1>5, <2>1 DEF SortAfter
  <2>3. PICK mine : mine = mentions(parts, sort[i][1])
    OBVIOUS
  <2>4. m \in mine /\ \A l \in mine : l <= m
    BY <1>2, <2>2, <2>3
  <2>5. mine \in SUBSET Nat
    BY <1>2, <2>3
  <2>6. PICK z : z = CHOOSE x \in mine : \A y \in mine : y <= x
    OBVIOUS
  <2>7. z \in mine /\ \A y \in mine : y <= z
    BY <2>4, <2>6
  <2>8. z = m
    <3>1. z <= m /\ m <= z /\ z \in Nat /\ m \in Nat
      BY <2>4, <2>5, <2>7
    <3>2. QED BY <3>1
  <2>9. last(parts, sort[i][1]) = z
    <3> HIDE DEF mentions
    <3>1. QED BY <2>3, <2>6
  <2>10. QED BY <2>2, <2>8, <2>9
<1>13. CASE asked = {}
  BY <1>1, <1>4, <1>8, <1>13 DEF SortIsAsked
<1>14. CASE asked # {}
  <2>1. buildSort(query.sort) = sort
    BY <1>1, <1>9, <1>14
  <2> HIDE DEF first, last
  <2>2. /\ {sort[n][1] : n \in DOMAIN sort} = asked
        /\ Len(sort) = Cardinality(asked)
        /\ \A m, n \in DOMAIN sort : m < n =>
             first(query.sort, sort[m][1]) < first(query.sort, sort[n][1])
        /\ \A n \in DOMAIN sort :
             sort[n][2] = query.sort[last(query.sort, sort[n][1])].direction
    BY <1>1, <1>5, <1>6, <1>7, <1>10, <1>11, <1>12
  <2> USE DEF first, last
  <2>3. {query.sort[n].field : n \in DOMAIN query.sort} \cap Ordered = asked
    BY <1>1, <1>4
  <2> DEFINE Claim(p, s, a) ==
        IF a = {} THEN s = defaultSort
        ELSE /\ {s[n][1] : n \in DOMAIN s} = a
             /\ Len(s) = Cardinality(a)
             /\ \A m, n \in DOMAIN s : m < n =>
                  first(p, s[m][1]) < first(p, s[n][1])
             /\ \A n \in DOMAIN s :
                  s[n][2] = p[last(p, s[n][1])].direction
  <2>4. Claim(query.sort, sort, asked)
    <3> HIDE DEF first, last
    <3>1. QED BY <1>14, <2>2
  <2>5. Claim(query.sort, buildSort(query.sort),
              {query.sort[n].field : n \in DOMAIN query.sort} \cap Ordered)
    <3> HIDE DEF Claim
    <3>1. QED BY <2>1, <2>3, <2>4
  <2>6. QED BY <2>5, Zenon DEF SortIsAsked
<1>15. QED BY <1>13, <1>14

\* Whatever the sort string, of any length and over any fields, its fields decide the
\* order as they were first mentioned, each once and in the direction mentioned last.
THEOREM TheSortIsAsked == Spec => []SortIsAsked
<1>1. query \in Queries => SortIsAsked
  <2>1. query \in Queries => query.sort \in Seq(Part)
    BY QueriesAssumption DEF Part
  <2>2. QED BY <2>1, SortAsked
<1>2. Init => query \in Queries
  BY DEF Init
<1>3. query \in Queries /\ [Next]_vars => (query \in Queries)'
  BY DEF Next, Fetch, Register, vars
<1>4. QED BY <1>1, <1>2, <1>3, PTL DEF Spec

-----------------------------------------------------------------------------
(* Pages                                                                   *)

\* No ties among the documents.
Separated(sort, ids) ==
    \A i, j \in ids : i # j => Precedes(sort, i, j) \/ Precedes(sort, j, i)

\* How many documents come before one of them.
Before(sort, ids, i) == {j \in ids : Precedes(sort, j, i)}
Rank(sort, ids, i) == Cardinality(Before(sort, ids, i))

\* The types, and that the pages have been fetched one after the other.
Walk ==
    /\ query \in Queries
    /\ docs \subseteq DOMAIN Documents /\ old \subseteq docs
    /\ page \in (Nat \ {0}) \cup {None}
    /\ seen \in Seq(Seq(DOMAIN Documents))
    /\ \A n \in DOMAIN seen : Len(seen[n]) <= limit(query)
    /\ page # None => Len(seen) = page - 1

\* Whatever ranks before the next page has been seen, the registrations since
\* notwithstanding: they only move a document to a later page.
Covered ==
    Separated(buildSort(query.sort), docs) =>
        \A i \in Selected(query, old) :
            \/ /\ page # None
               /\ Rank(buildSort(query.sort), Selected(query, docs), i) >= (page - 1) * limit(query)
            \/ \E n \in DOMAIN seen : \E m \in DOMAIN seen[n] : seen[n][m] = i

\* While nothing is registered a place in the pages is a rank.
Ranked ==
    Separated(buildSort(query.sort), docs) /\ docs = old =>
        \A n \in DOMAIN seen : \A m \in DOMAIN seen[n] :
            /\ seen[n][m] \in Selected(query, docs)
            /\ Rank(buildSort(query.sort), Selected(query, docs), seen[n][m]) =
                  (n - 1) * limit(query) + m - 1

-----------------------------------------------------------------------------

SortObject == Seq(Ordered \X {1, -1})

\* A sort is made of sortable fields and directions.
LEMMA SortTyped ==
    ASSUME NEW parts \in Seq(Part)
    PROVE  buildSort(parts) \in SortObject
<1>1. defaultSort \in SortObject
  <2>1. <<"createdAt", -1>> \in Ordered \X {1, -1}
    BY DEF Ordered
  <2>2. QED BY <2>1 DEF defaultSort, SortObject
<1>2. PICK sort : /\ SortAfter(sort, parts, Len(parts))
                  /\ buildSort(parts) = IF sort = <<>> THEN defaultSort ELSE sort
  BY SortBuilt
<1>3. sort \in SortObject
  BY <1>2 DEF SortAfter, SortObject
<1>4. QED BY <1>1, <1>2, <1>3

\* The value of a document under one key of the sort.
LEMMA KeysCompare ==
    ASSUME NEW sort \in SortObject, NEW n \in DOMAIN sort, NEW i \in DOMAIN Documents
    PROVE  /\ Documents[i][sort[n][1]] \in Int /\ sort[n][2] \in {1, -1}
           /\ sort[n][2] * Documents[i][sort[n][1]] \in Int
<1>1. sort[n] \in Ordered \X {1, -1}
  BY DEF SortObject
<1>2. PICK key, direction : key = sort[n][1] /\ direction = sort[n][2]
  OBVIOUS
<1>3. key \in Ordered /\ direction \in {1, -1}
  BY <1>1, <1>2
<1>4. PICK value : value = Documents[i][key]
  OBVIOUS
<1>5. value \in Int
  BY <1>3, <1>4, DocumentsAssumption
<1>6. direction * value \in Int
  BY <1>3, <1>5
<1>7. QED BY <1>2, <1>3, <1>4, <1>5, <1>6

\* A sort is a strict order.
LEMMA NotBeforeItself ==
    ASSUME NEW sort \in SortObject, NEW i \in DOMAIN Documents
    PROVE  ~Precedes(sort, i, i)
<1>1. \A n \in DOMAIN sort :
         ~(sort[n][2] * Documents[i][sort[n][1]] < sort[n][2] * Documents[i][sort[n][1]])
  <2>1. \A x \in Int : ~(x < x)
    OBVIOUS
  <2>2. QED BY <2>1, KeysCompare
<1>2. QED BY <1>1 DEF Precedes

\* What comes before a document comes before what follows it.
LEMMA BeforeIsTransitive ==
    ASSUME NEW sort \in SortObject, NEW i \in DOMAIN Documents, NEW j \in DOMAIN Documents,
           NEW k \in DOMAIN Documents, Precedes(sort, i, j), Precedes(sort, j, k)
    PROVE  Precedes(sort, i, k)
<1> DEFINE Value(d, n) == Documents[d][sort[n][1]]
           Key(d, n) == sort[n][2] * Value(d, n)
<1>1. DOMAIN sort \subseteq Nat \ {0} /\ \A n \in DOMAIN sort : 1..n \subseteq DOMAIN sort
  BY DEF SortObject
<1>2. \A n \in DOMAIN sort : Key(i, n) \in Int /\ Key(j, n) \in Int /\ Key(k, n) \in Int
  BY KeysCompare
<1>3. PICK a \in DOMAIN sort : /\ \A m \in 1..(a - 1) : Value(i, m) = Value(j, m)
                               /\ Key(i, a) < Key(j, a)
  BY DEF Precedes
<1>4. PICK b \in DOMAIN sort : /\ \A m \in 1..(b - 1) : Value(j, m) = Value(k, m)
                               /\ Key(j, b) < Key(k, b)
  BY DEF Precedes
<1>5. \A d, e, n : Value(d, n) = Value(e, n) => Key(d, n) = Key(e, n)
  OBVIOUS
<1> HIDE DEF Value, Key
<1>6. a \in Nat \ {0} /\ b \in Nat \ {0}
  BY <1>1
<1>7. \E n \in DOMAIN sort : (\A m \in 1..(n - 1) : Value(i, m) = Value(k, m)) /\ Key(i, n) < Key(k, n)
  <2>1. CASE a < b
    <3>1. a \in 1..(b - 1)
      BY <1>6, <2>1
    <3>2. Key(j, a) = Key(k, a)
      BY <1>4, <1>5, <3>1
    <3>3. \A m \in 1..(a - 1) : m \in 1..(b - 1)
      BY <1>6, <2>1
    <3>4. QED BY <1>3, <1>4, <3>2, <3>3
  <2>2. CASE b < a
    <3>1. b \in 1..(a - 1)
      BY <1>6, <2>2
    <3>2. Key(i, b) = Key(j, b)
      BY <1>3, <1>5, <3>1
    <3>3. \A m \in 1..(b - 1) : m \in 1..(a - 1)
      BY <1>6, <2>2
    <3>4. QED BY <1>3, <1>4, <3>2, <3>3
  <2>3. CASE a = b
    <3>1. Key(i, a) < Key(k, a)
      BY <1>2, <1>3, <1>4, <2>3
    <3>2. QED BY <1>3, <1>4, <2>3, <3>1
  <2>4. QED BY <1>6, <2>1, <2>2, <2>3
<1>8. QED
  <2> USE DEF Value, Key
  <2>1. QED BY <1>7 DEF Precedes

\* Where a rank is lower, the document comes before.
LEMMA RankOrders ==
    ASSUME NEW sort \in SortObject, NEW ids \in SUBSET DOMAIN Documents, Separated(sort, ids),
           NEW i \in ids, NEW j \in ids, Rank(sort, ids, i) < Rank(sort, ids, j)
    PROVE  Precedes(sort, i, j)
<1>1. IsFiniteSet(Before(sort, ids, i)) /\ IsFiniteSet(Before(sort, ids, j))
  <2>1. IsFiniteSet(ids)
    BY DocumentsAssumption, FS_Subset
  <2>2. Before(sort, ids, i) \subseteq ids /\ Before(sort, ids, j) \subseteq ids
    BY DEF Before
  <2>3. QED BY <2>1, <2>2, FS_Subset
<1>2. /\ Rank(sort, ids, i) \in Nat /\ Rank(sort, ids, j) \in Nat
  BY <1>1, FS_CardinalityType DEF Rank
<1>3. ASSUME Precedes(sort, j, i) PROVE FALSE
  <2>1. Before(sort, ids, j) \subseteq Before(sort, ids, i)
    BY <1>3, BeforeIsTransitive DEF Before
  <2>2. Rank(sort, ids, j) <= Rank(sort, ids, i)
    BY <1>1, <2>1, FS_Subset DEF Rank
  <2>3. QED BY <1>2, <2>2
<1>4. i # j
  BY <1>2
<1>5. QED BY <1>3, <1>4 DEF Separated

\* More documents never lower a rank.
LEMMA RankGrows ==
    ASSUME NEW sort, NEW ids \in SUBSET DOMAIN Documents, NEW more \in SUBSET DOMAIN Documents,
           ids \subseteq more, NEW i
    PROVE  /\ Rank(sort, ids, i) \in Nat /\ Rank(sort, more, i) \in Nat
           /\ Rank(sort, ids, i) <= Rank(sort, more, i)
<1>1. IsFiniteSet(more)
  BY DocumentsAssumption, FS_Subset
<1>2. /\ Before(sort, more, i) \subseteq more
      /\ Before(sort, ids, i) \subseteq Before(sort, more, i)
  BY DEF Before
<1>3. IsFiniteSet(Before(sort, more, i))
  BY <1>1, <1>2, FS_Subset
<1>4. /\ IsFiniteSet(Before(sort, ids, i))
      /\ Cardinality(Before(sort, ids, i)) <= Cardinality(Before(sort, more, i))
  BY <1>2, <1>3, FS_Subset
<1>5. QED BY <1>3, <1>4, FS_CardinalityType DEF Rank

\* Every order lists the documents once each.
LEMMA OrderLists ==
    ASSUME NEW sort, NEW ids \in SUBSET DOMAIN Documents, NEW order \in Orders(sort, ids)
    PROVE  /\ order \in Seq(ids) /\ Len(order) \in Nat /\ DOMAIN order = 1..Len(order)
           /\ \A m, n \in 1..Len(order) : m # n => order[m] # order[n]
           /\ \A i \in ids : \E n \in 1..Len(order) : order[n] = i
<1>1. PICK size : size = Cardinality(ids)
  OBVIOUS
<1>2. IsFiniteSet(ids) /\ size \in Nat
  BY <1>1, DocumentsAssumption, FS_Subset, FS_CardinalityType
<1>3. order \in [1..size -> ids] /\ \A m, n \in 1..size : m # n => order[m] # order[n]
  BY <1>1 DEF Orders, SetToSeqs
<1>4. order \in Seq(ids) /\ Len(order) = size /\ DOMAIN order = 1..size
  BY <1>2, <1>3
<1>5. order \in Injection(1..size, ids)
  BY <1>3 DEF Injection, IsInjective
<1>6. IsFiniteSet(1..size) /\ Cardinality(1..size) = size
  BY <1>2, FS_Interval
<1>7. order \in Surjection(1..size, ids)
  BY <1>1, <1>2, <1>5, <1>6, FS_Injection
<1>8. \A i \in ids : \E n \in 1..size : order[n] = i
  BY <1>7 DEF Surjection
<1>9. QED BY <1>2, <1>3, <1>4, <1>8

\* Without ties the place of a document is its rank.
LEMMA PlaceIsRank ==
    ASSUME NEW sort \in SortObject, NEW ids \in SUBSET DOMAIN Documents, Separated(sort, ids),
           NEW order \in Orders(sort, ids), NEW n \in 1..Len(order)
    PROVE  Rank(sort, ids, order[n]) = n - 1
<1>1. /\ order \in Seq(ids) /\ Len(order) \in Nat /\ DOMAIN order = 1..Len(order)
      /\ \A l, m \in 1..Len(order) : l # m => order[l] # order[m]
      /\ \A i \in ids : \E m \in 1..Len(order) : order[m] = i
  BY OrderLists
<1>2. \A l, m \in 1..Len(order) : l < m => ~Precedes(sort, order[m], order[l])
  BY <1>1 DEF Orders
<1>3. \A m \in 1..Len(order) : order[m] \in ids
  BY <1>1
<1>4. \A l, m \in 1..Len(order) : l < m => Precedes(sort, order[l], order[m])
  BY <1>1, <1>2, <1>3 DEF Separated
<1>5. \A m \in 1..Len(order) : Precedes(sort, order[m], order[n]) => m < n
  <2>1. ~Precedes(sort, order[n], order[n])
    BY <1>3, NotBeforeItself
  <2>2. \A m \in 1..Len(order) : m < n \/ m = n \/ n < m
    BY <1>1
  <2>3. QED BY <1>2, <2>1, <2>2
<1>6. PICK before : before = Before(sort, ids, order[n])
  OBVIOUS
<1>7. \A m \in 1..(n - 1) : m \in 1..Len(order) /\ m < n
  BY <1>1
<1>8. PICK f : f = [m \in 1..(n - 1) |-> order[m]]
  OBVIOUS
<1>9. f \in [1..(n - 1) -> before]
  BY <1>3, <1>4, <1>6, <1>7, <1>8 DEF Before
<1>10. \A x \in before : \E m \in 1..(n - 1) : f[m] = x
  <2>1. SUFFICES ASSUME NEW x \in before PROVE \E m \in 1..(n - 1) : f[m] = x
    OBVIOUS
  <2>2. x \in ids /\ Precedes(sort, x, order[n])
    BY <1>6 DEF Before
  <2>3. PICK m \in 1..Len(order) : order[m] = x
    BY <1>1, <2>2
  <2>4. m \in 1..(n - 1)
    BY <1>1, <1>5, <2>2, <2>3
  <2>5. QED BY <1>8, <2>3, <2>4
<1>11. \A l, m \in 1..(n - 1) : l < m => f[l] # f[m]
  BY <1>1, <1>7, <1>8
<1>12. n - 1 \in Nat
  BY <1>1
<1>13. Cardinality(before) = n - 1
  BY <1>9, <1>10, <1>11, <1>12, DistinctCount
<1>14. QED BY <1>6, <1>13 DEF Rank

-----------------------------------------------------------------------------

\* The size of a page is within its bounds, whatever the client asks.
LEMMA LimitTyped ==
    ASSUME query \in Queries
    PROVE  limit(query) \in 1..MaxLimit
<1>1. query.limit \in Int \cup {None} /\ MaxLimit \in Nat \ {0}
  BY QueriesAssumption, LimitAssumption
<1>2. PICK wanted : wanted = IF query.limit = None THEN 10 ELSE query.limit
  OBVIOUS
<1>3. wanted \in Int
  BY <1>1, <1>2
<1>4. AtMost(MaxLimit, AtLeast(1, wanted)) \in 1..MaxLimit
  BY <1>1, <1>3 DEF AtMost, AtLeast
<1>5. QED BY <1>2, <1>4 DEF limit

\* The part of a sequence after its first a elements, up to the b-th.
LEMMA Slice ==
    ASSUME NEW S, NEW order \in Seq(S), NEW a \in Nat, NEW b \in Nat, b <= Len(order)
    PROVE  /\ SubSeq(order, a + 1, b) \in Seq(S)
           /\ Len(SubSeq(order, a + 1, b)) = IF a <= b THEN b - a ELSE 0
           /\ \A m \in 1..Len(SubSeq(order, a + 1, b)) : SubSeq(order, a + 1, b)[m] = order[a + m]
<1>1. CASE a <= b
  <2>1. SubSeq(order, a + 1, b) = [m \in 1..(b - a) |-> order[a + m]]
    BY <1>1
  <2>2. PICK slice : slice = [m \in 1..(b - a) |-> order[a + m]]
    OBVIOUS
  <2>3. \A m \in 1..(b - a) : order[a + m] \in S
    BY <1>1
  <2>4. b - a \in Nat
    BY <1>1
  <2>5. slice \in Seq(S) /\ Len(slice) = b - a /\ \A m \in 1..(b - a) : slice[m] = order[a + m]
    BY <2>2, <2>3, <2>4
  <2>6. QED BY <1>1, <2>1, <2>2, <2>5
<1>2. CASE ~(a <= b)
  <2>1. SubSeq(order, a + 1, b) = <<>>
    BY <1>2
  <2>2. QED BY <1>2, <2>1
<1>3. QED BY <1>1, <1>2

\* A place in an earlier page comes before every place in a later one.
LEMMA PlacesInOrder ==
    ASSUME NEW l \in Nat, NEW n \in Nat \ {0}, NEW m \in 1..l, NEW p \in Nat \ {0}, NEW q \in 1..l,
           n < p \/ (n = p /\ m < q)
    PROVE  (n - 1) * l + m - 1 < (p - 1) * l + q - 1
<1>1. CASE n < p
  <2>1. PICK d \in Nat : p = n + 1 + d
    <3>1. p - n - 1 \in Nat /\ p = n + 1 + (p - n - 1)
      BY <1>1
    <3>2. QED BY <3>1
  <2>2. (p - 1) * l = (n - 1) * l + l + d * l
    BY <2>1
  <2>3. d * l \in Nat /\ (n - 1) * l \in Nat
    OBVIOUS
  <2>4. QED BY <2>2, <2>3
<1>2. CASE n = p /\ m < q
  <2>1. (n - 1) * l \in Nat
    OBVIOUS
  <2>2. QED BY <1>2, <2>1
<1>3. QED BY <1>1, <1>2

\* The next page is the next part of an order of the documents.
LEMMA FetchKeeps ==
    Walk /\ Covered /\ Ranked /\ Fetch => Walk' /\ Covered' /\ Ranked'
<1> SUFFICES ASSUME Walk, Covered, Ranked, Fetch PROVE Walk' /\ Covered' /\ Ranked'
  OBVIOUS
<1>1. PICK sort, ids, size, now : /\ sort = buildSort(query.sort) /\ ids = Selected(query, docs)
                                  /\ size = limit(query) /\ now = page
  OBVIOUS
<1>2. PICK order \in Orders(sort, ids) :
         LET last == AtMost(now * size, Len(order)) IN
         /\ seen' = Append(seen, SubSeq(order, (now - 1) * size + 1, last))
         /\ page' = IF last < Len(order) THEN now + 1 ELSE None
  BY <1>1 DEF Fetch
<1>3. UNCHANGED <<query, docs, old>> /\ now # None
  BY <1>1 DEF Fetch
<1>4. PICK length, last, first : /\ length = Len(order) /\ last = AtMost(now * size, length)
                                 /\ first = (now - 1) * size
  OBVIOUS
<1>5. PICK slice : slice = SubSeq(order, first + 1, last)
  OBVIOUS
<1>6. /\ query \in Queries /\ docs \subseteq DOMAIN Documents /\ old \subseteq docs
      /\ now \in Nat \ {0} /\ size \in 1..MaxLimit /\ MaxLimit \in Nat
  BY <1>1, <1>3, LimitTyped, LimitAssumption DEF Walk
<1>7. sort \in SortObject
  <2>1. query.sort \in Seq(Part)
    BY <1>6, QueriesAssumption DEF Part
  <2>2. QED BY <1>1, <2>1, SortTyped
<1>8. ids \subseteq docs /\ ids \in SUBSET DOMAIN Documents /\ Selected(query, old) \subseteq ids
  BY <1>1, <1>6 DEF Selected
<1>9. /\ order \in Seq(ids) /\ length \in Nat /\ DOMAIN order = 1..length
      /\ \A i \in ids : \E n \in 1..length : order[n] = i
  BY <1>4, <1>8, OrderLists
<1>10. first \in Nat /\ now * size = first + size /\ last \in Nat /\ last <= length
  <2>1. first \in Nat /\ now * size = first + size
    BY <1>4, <1>6
  <2>2. QED BY <1>4, <1>6, <1>9, <2>1 DEF AtMost
<1>11. /\ slice \in Seq(ids) /\ Len(slice) = (IF first <= last THEN last - first ELSE 0)
       /\ \A m \in 1..Len(slice) : slice[m] = order[first + m]
  <2>1. last <= Len(order)
    BY <1>4, <1>10
  <2>2. /\ SubSeq(order, first + 1, last) \in Seq(ids)
        /\ Len(SubSeq(order, first + 1, last)) = IF first <= last THEN last - first ELSE 0
        /\ \A m \in 1..Len(SubSeq(order, first + 1, last)) :
             SubSeq(order, first + 1, last)[m] = order[first + m]
    BY <1>9, <1>10, <2>1, Slice
  <2>3. QED BY <1>5, <2>2
<1>12. Len(slice) \in Nat /\ Len(slice) <= size /\ last <= first + size
  BY <1>4, <1>6, <1>9, <1>10, <1>11 DEF AtMost
<1>13. seen \in Seq(Seq(DOMAIN Documents)) /\ Len(seen) = now - 1 /\ seen' = Append(seen, slice)
  BY <1>1, <1>2, <1>3, <1>4, <1>5 DEF Walk
<1>14. slice \in Seq(DOMAIN Documents)
  <2>1. \A m \in 1..Len(slice) : slice[m] \in DOMAIN Documents
    BY <1>8, <1>11
  <2>2. QED BY <1>11, <2>1
<1>15. /\ seen' \in Seq(Seq(DOMAIN Documents)) /\ Len(seen') = now /\ DOMAIN seen' = 1..now
       /\ DOMAIN seen = 1..(now - 1) /\ \A n \in 1..(now - 1) : seen'[n] = seen[n]
       /\ seen'[now] = slice
  BY <1>6, <1>13, <1>14
<1>16. 1..now = 1..(now - 1) \cup {now}
  BY <1>6
<1>17. page' = IF last < length THEN now + 1 ELSE None
  BY <1>2, <1>4
<1>18. Walk'
  <2>1. page' \in (Nat \ {0}) \cup {None} /\ (page' # None => Len(seen') = page' - 1)
    BY <1>6, <1>15, <1>17
  <2>2. \A n \in DOMAIN seen' : Len(seen'[n]) <= size
    <3>1. \A n \in 1..(now - 1) : Len(seen[n]) <= size
      BY <1>1, <1>15 DEF Walk
    <3>2. QED BY <1>12, <1>15, <1>16, <3>1
  <2>3. QED BY <1>1, <1>3, <1>6, <1>15, <2>1, <2>2 DEF Walk
<1>19. ASSUME Separated(sort, docs), NEW n \in 1..length PROVE Rank(sort, ids, order[n]) = n - 1
  <2>1. Separated(sort, ids)
    BY <1>8, <1>19 DEF Separated
  <2>2. QED BY <1>4, <1>7, <1>8, <1>19, <2>1, PlaceIsRank
<1>20. Covered'
  <2>1. SUFFICES ASSUME Separated(sort, docs), NEW i \in Selected(query, old)
                 PROVE  \/ page' # None /\ Rank(sort, ids, i) >= (page' - 1) * size
                        \/ \E n \in DOMAIN seen' : \E m \in DOMAIN seen'[n] : seen'[n][m] = i
    BY <1>1, <1>3 DEF Covered
  <2>2. CASE \E n \in DOMAIN seen : \E m \in DOMAIN seen[n] : seen[n][m] = i
    BY <1>15, <1>16, <2>2
  <2>3. CASE Rank(sort, ids, i) >= first
    <3>1. PICK n \in 1..length : order[n] = i
      BY <1>8, <1>9, <2>1
    <3>2. Rank(sort, ids, i) = n - 1
      BY <1>19, <2>1, <3>1
    <3>3. CASE n <= last
      <4>1. PICK m : m = n - first
        OBVIOUS
      <4>2. m \in 1..Len(slice) /\ first + m = n
        BY <1>9, <1>10, <1>11, <2>3, <3>2, <3>3, <4>1
      <4>3. slice[m] = i /\ m \in DOMAIN slice
        BY <1>11, <3>1, <4>2
      <4>4. QED BY <1>15, <1>16, <4>3
    <3>4. CASE ~(n <= last)
      <4>1. last < length
        BY <1>9, <1>10, <3>4
      <4>2. last = now * size /\ page' = now + 1
        BY <1>4, <1>6, <1>9, <1>10, <1>17, <4>1 DEF AtMost
      <4>3. page' # None
        BY <1>6, <4>2, NoneAssumption
      <4>4. (page' - 1) * size = last
        <5>1. page' - 1 = now
          BY <1>6, <4>2
        <5>2. QED BY <4>2, <5>1
      <4>5. QED BY <1>9, <1>10, <3>2, <3>4, <4>3, <4>4
    <3>5. QED BY <3>3, <3>4
  <2>4. QED BY <1>1, <1>4, <2>1, <2>2, <2>3 DEF Covered
<1>21. Ranked'
  <2>1. SUFFICES ASSUME Separated(sort, docs), docs = old,
                        NEW n \in 1..now, NEW m \in DOMAIN seen'[n]
                 PROVE  /\ seen'[n][m] \in ids
                        /\ Rank(sort, ids, seen'[n][m]) = (n - 1) * size + m - 1
    BY <1>1, <1>3, <1>15 DEF Ranked
  <2>2. CASE n \in 1..(now - 1)
    <3>1. seen'[n] = seen[n] /\ n \in DOMAIN seen
      BY <1>15, <2>2
    <3>2. m \in DOMAIN seen[n]
      BY <2>1, <3>1
    <3>3. /\ seen[n][m] \in ids
          /\ Rank(sort, ids, seen[n][m]) = (n - 1) * size + m - 1
      BY <1>1, <2>1, <3>1, <3>2 DEF Ranked
    <3>4. QED BY <3>1, <3>3
  <2>3. CASE n = now
    <3>1. seen'[n] = slice /\ m \in 1..Len(slice)
      BY <1>11, <1>15, <2>1, <2>3
    <3>2. slice[m] = order[first + m] /\ first + m \in 1..length
      BY <1>9, <1>10, <1>11, <3>1
    <3>3. PICK k \in 1..length : k = first + m
      BY <3>2
    <3>4. Rank(sort, ids, order[k]) = k - 1
      BY <1>19, <2>1
    <3>5. order[k] \in ids
      BY <1>9
    <3>6. QED BY <1>4, <2>3, <3>1, <3>2, <3>3, <3>4, <3>5
  <2>4. QED BY <1>16, <2>1, <2>2, <2>3
<1>22. QED BY <1>18, <1>20, <1>21

\* A registration moves no document to an earlier page.
LEMMA RegisterKeeps ==
    Walk /\ Covered /\ Ranked /\ Register => Walk' /\ Covered' /\ Ranked'
<1> SUFFICES ASSUME Walk, Covered, Ranked, Register PROVE Walk' /\ Covered' /\ Ranked'
  OBVIOUS
<1>1. PICK i \in (DOMAIN Documents) \ docs : docs' = docs \cup {i}
  BY DEF Register
<1>2. UNCHANGED <<query, old, page, seen>>
  BY DEF Register
<1>3. docs' \subseteq DOMAIN Documents /\ docs \subseteq docs' /\ docs' # old /\ old \subseteq docs
  BY <1>1 DEF Walk
<1>4. Walk'
  BY <1>2, <1>3 DEF Walk
<1>5. Ranked'
  BY <1>2, <1>3 DEF Ranked
<1>6. PICK sort, ids, more, size :
         /\ sort = buildSort(query.sort) /\ size = limit(query)
         /\ ids = Selected(query, docs) /\ more = Selected(query, docs')
  OBVIOUS
<1>7. ids \subseteq more /\ ids \in SUBSET DOMAIN Documents /\ more \in SUBSET DOMAIN Documents
  BY <1>3, <1>6 DEF Selected
<1>8. Covered'
  <2>1. SUFFICES ASSUME Separated(sort, docs'), NEW j \in Selected(query, old)
                 PROVE  \/ page # None /\ Rank(sort, more, j) >= (page - 1) * size
                        \/ \E n \in DOMAIN seen : \E m \in DOMAIN seen[n] : seen[n][m] = j
    BY <1>2, <1>6 DEF Covered
  <2>2. Separated(sort, docs)
    BY <1>3, <2>1 DEF Separated
  <2>3. \/ page # None /\ Rank(sort, ids, j) >= (page - 1) * size
        \/ \E n \in DOMAIN seen : \E m \in DOMAIN seen[n] : seen[n][m] = j
    BY <1>6, <2>1, <2>2 DEF Covered
  <2>4. CASE page # None /\ Rank(sort, ids, j) >= (page - 1) * size
    <3>1. /\ Rank(sort, ids, j) \in Nat /\ Rank(sort, more, j) \in Nat
          /\ Rank(sort, ids, j) <= Rank(sort, more, j)
      BY <1>7, RankGrows
    <3>2. (page - 1) * size \in Nat
      <4>1. page - 1 \in Nat
        BY <2>4 DEF Walk
      <4>2. size \in Nat
        BY <1>6, LimitTyped, LimitAssumption DEF Walk
      <4>3. QED BY <4>1, <4>2
    <3>3. QED BY <2>4, <3>1, <3>2
  <2>5. QED BY <2>3, <2>4
<1>9. QED BY <1>4, <1>5, <1>8

\* The invariants hold when the client begins and are kept by every step.
LEMMA WalkBegins == Init => Walk /\ Covered /\ Ranked
<1> SUFFICES ASSUME Init PROVE Walk /\ Covered /\ Ranked
  OBVIOUS
<1>1. /\ query \in Queries /\ docs \in SUBSET DOMAIN Documents /\ old = docs
      /\ page = 1 /\ seen = <<>> /\ DOMAIN seen = {}
  BY DEF Init
<1>2. Walk
  BY <1>1 DEF Walk
<1>3. Ranked
  BY <1>1 DEF Ranked
<1>4. Covered
  <2>1. PICK sort, ids : sort = buildSort(query.sort) /\ ids = Selected(query, docs)
    OBVIOUS
  <2>2. ids \in SUBSET DOMAIN Documents
    BY <1>1, <2>1 DEF Selected
  <2>3. \A i : Rank(sort, ids, i) \in Nat
    BY <2>2, RankGrows
  <2>4. (page - 1) * limit(query) = 0
    <3>1. limit(query) \in Nat
      BY <1>1, LimitTyped, LimitAssumption
    <3>2. page - 1 = 0
      BY <1>1
    <3>3. QED BY <3>1, <3>2
  <2>5. page # None
    BY <1>1, NoneAssumption
  <2>6. QED BY <2>1, <2>3, <2>4, <2>5 DEF Covered
<1>5. QED BY <1>2, <1>3, <1>4

LEMMA WalkKept == Walk /\ Covered /\ Ranked /\ [Next]_vars => Walk' /\ Covered' /\ Ranked'
<1>1. Walk /\ Covered /\ Ranked /\ UNCHANGED vars => Walk' /\ Covered' /\ Ranked'
  <2>1. SUFFICES ASSUME Walk, Covered, Ranked, UNCHANGED vars PROVE Walk' /\ Covered' /\ Ranked'
    OBVIOUS
  <2>2. UNCHANGED <<query, docs, old, page, seen>>
    BY <2>1 DEF vars
  <2>3. Walk'
    BY <2>1, <2>2 DEF Walk
  <2>4. Covered'
    BY <2>1, <2>2 DEF Covered
  <2>5. Ranked'
    BY <2>1, <2>2 DEF Ranked
  <2>6. QED BY <2>3, <2>4, <2>5
<1>2. QED BY <1>1, FetchKeeps, RegisterKeeps DEF Next

\* The walk through the pages, whatever the sort, the documents and the size of a page.
LEMMA WalkIsComplete == Walk /\ Covered /\ Ranked => PagesAreComplete
<1> SUFFICES ASSUME Walk, Covered, Ranked PROVE PagesAreComplete
  OBVIOUS
<1>1. PICK sort, ids, size : /\ sort = buildSort(query.sort) /\ size = limit(query)
                             /\ ids = Selected(query, docs)
  OBVIOUS
<1>2. PICK found : found = {p \in (DOMAIN seen) \X (1..MaxLimit) : p[2] <= Len(seen[p[1]])}
  OBVIOUS
<1>3. /\ size \in 1..MaxLimit /\ MaxLimit \in Nat
      /\ DOMAIN seen \subseteq Nat \ {0}
      /\ \A n \in DOMAIN seen : /\ Len(seen[n]) \in Nat /\ Len(seen[n]) <= size
                                /\ DOMAIN seen[n] = 1..Len(seen[n])
  BY <1>1, LimitTyped, LimitAssumption DEF Walk
<1>4. \A n \in DOMAIN seen : Len(seen[n]) <= MaxLimit
  BY <1>3
<1>5. ids \in SUBSET DOMAIN Documents /\ sort \in SortObject /\ ids \subseteq docs
  <2>1. ids \in SUBSET DOMAIN Documents /\ ids \subseteq docs
    BY <1>1 DEF Walk, Selected
  <2>2. query.sort \in Seq(Part)
    BY QueriesAssumption DEF Walk, Part
  <2>3. QED BY <1>1, <2>1, <2>2, SortTyped
<1>6. page = None /\ Separated(sort, docs) =>
         Selected(query, old) \subseteq {seen[p[1]][p[2]] : p \in found}
  <2>1. SUFFICES ASSUME page = None, Separated(sort, docs), NEW i \in Selected(query, old)
                 PROVE  \E p \in found : seen[p[1]][p[2]] = i
    OBVIOUS
  <2>2. PICK n \in DOMAIN seen : \E m \in DOMAIN seen[n] : seen[n][m] = i
    BY <1>1, <2>1 DEF Covered
  <2>3. PICK m \in DOMAIN seen[n] : seen[n][m] = i
    BY <2>2
  <2>4. m \in 1..MaxLimit /\ m <= Len(seen[n])
    BY <1>3
  <2>5. PICK p : p = <<n, m>>
    OBVIOUS
  <2>6. p \in found /\ seen[p[1]][p[2]] = i
    BY <1>2, <2>3, <2>4, <2>5
  <2>7. QED BY <2>6
<1>7. ASSUME Separated(sort, docs), docs = old, NEW p \in found, NEW q \in found,
             p[1] < q[1] \/ (p[1] = q[1] /\ p[2] < q[2])
      PROVE  Precedes(sort, seen[p[1]][p[2]], seen[q[1]][q[2]])
  <2>1. PICK n \in DOMAIN seen, m \in 1..MaxLimit : p[1] = n /\ p[2] = m /\ m <= Len(seen[n])
    BY <1>2, <1>7
  <2>2. PICK k \in DOMAIN seen, l \in 1..MaxLimit : q[1] = k /\ q[2] = l /\ l <= Len(seen[k])
    BY <1>2, <1>7
  <2>3. m \in 1..size /\ l \in 1..size /\ m \in DOMAIN seen[n] /\ l \in DOMAIN seen[k]
    BY <1>3, <2>1, <2>2
  <2>4. /\ seen[n][m] \in ids /\ Rank(sort, ids, seen[n][m]) = (n - 1) * size + m - 1
        /\ seen[k][l] \in ids /\ Rank(sort, ids, seen[k][l]) = (k - 1) * size + l - 1
    BY <1>1, <1>7, <2>3 DEF Ranked
  <2>5. (n - 1) * size + m - 1 < (k - 1) * size + l - 1
    <3>1. n \in Nat \ {0} /\ k \in Nat \ {0} /\ size \in Nat /\ (n < k \/ (n = k /\ m < l))
      BY <1>3, <1>7, <2>1, <2>2
    <3>2. QED BY <2>3, <3>1, PlacesInOrder
  <2>6. Separated(sort, ids)
    BY <1>5, <1>7 DEF Separated
  <2>7. Precedes(sort, seen[n][m], seen[k][l])
    BY <1>5, <2>4, <2>5, <2>6, RankOrders
  <2>8. QED BY <2>1, <2>2, <2>7
<1>8. QED
  <2> DEFINE Claim(order, places) ==
        LET separated == \A i, j \in docs : i # j => Precedes(order, i, j) \/ Precedes(order, j, i)
            later(p, q) == p[1] < q[1] \/ (p[1] = q[1] /\ p[2] < q[2])
        IN  /\ \A n \in DOMAIN seen : Len(seen[n]) <= MaxLimit
            /\ page = None /\ separated =>
                 Selected(query, old) \subseteq {seen[p[1]][p[2]] : p \in places}
            /\ separated /\ docs = old =>
                 \A p, q \in places : later(p, q) => Precedes(order, seen[p[1]][p[2]], seen[q[1]][q[2]])
  <2>1. Claim(sort, found)
    BY <1>4, <1>6, <1>7 DEF Separated
  <2>2. Claim(buildSort(query.sort), {p \in (DOMAIN seen) \X (1..MaxLimit) : p[2] <= Len(seen[p[1]])})
    <3> HIDE DEF Claim
    <3>1. QED BY <1>1, <1>2, <2>1
  <2>3. QED BY <2>2, Zenon DEF PagesAreComplete

\* Whatever the documents, the query and the size of a page: no page is too large, a
\* client that walks to the last page under a sort without ties has found every
\* document that was there when it began, whoever registered meanwhile, and while
\* nobody did it finds them in the order of the sort, none of them twice.
THEOREM PagesComplete == Spec => []PagesAreComplete
<1>1. QED BY WalkBegins, WalkKept, WalkIsComplete, PTL DEF Spec
=============================================================================

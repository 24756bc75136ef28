------------------------------ MODULE UserQuery ------------------------------
(***************************************************************************)
(* The paginated search for users: which documents a query selects, in     *)
(* which order, and what a client sees that walks through the pages.       *)
(*                                                                         *)
(* Sources: src/plugins/paginate-query.plugin.ts, with the fields of       *)
(* src/models.  The query is one queryUsersCodec has accepted: wildcards,  *)
(* lists and operator filters do not pass it and are left out.  MongoDB    *)
(* and mongoose-paginate-v2 are external: filters select, documents the    *)
(* sort does not separate come in any order, and a page is a slice.        *)
(***************************************************************************)
EXTENDS Integers, SequencesExt

CONSTANTS Documents, \* the documents there may be, by identifier: key -> value
          Queries,   \* the queries asked
          Mentions,  \* <<term, value>>: the text of value contains the term
          MaxLimit,  \* the largest page, 100 in the code
          None       \* an absent value

\* The fields a query can name, and those a sort can use.
Named == {"firstname", "lastname", "username", "email", "role", "enable"}
Ordered == {"createdAt", "updatedAt", "birthday"} \cup Named

Class == {"Entity", "Person", "User"}

ASSUME NoneAssumption == None \notin Class /\ None \notin Nat

ASSUME LimitAssumption == MaxLimit \in Nat \ {0}

\* Finitely many documents, whose values are compared as numbers.
ASSUME DocumentsAssumption ==
    /\ IsFiniteSet(DOMAIN Documents)
    /\ \A i \in DOMAIN Documents : \A k \in Ordered : Documents[i][k] \in Int

\* What queryUsersCodec accepts.
ASSUME QueriesAssumption ==
    \A q \in Queries :
        /\ DOMAIN q.exact \subseteq Named
        /\ q.sort \in Seq([field : STRING, direction : {1, -1}])
        /\ q.limit \in Int \cup {None}

VARIABLES query, \* the query a client asks, page by page
          docs,  \* the identifiers of the documents stored
          old,   \* those stored when the client began (history)
          page,  \* the page to be fetched next, None after the last one
          seen   \* the pages fetched

vars == <<query, docs, old, page, seen>>

Parent == [Entity |-> None, Person |-> "Entity", User |-> "Person"]

Plain == [key |-> "", filterable |-> TRUE, sortable |-> TRUE, range |-> FALSE, type |-> "string"]

\* The properties each class decorates with @field, with their options and types.
Own ==
    [Entity |-> {[Plain EXCEPT !.key = "id", !.sortable = FALSE]} \cup
                {[Plain EXCEPT !.key = k, !.range = TRUE, !.type = "date"] :
                   k \in {"createdAt", "updatedAt"}},
     Person |-> {[Plain EXCEPT !.key = k] : k \in {"firstname", "lastname"}} \cup
                {[Plain EXCEPT !.key = "birthday", !.filterable = FALSE, !.type = "date"]},
     User   |-> {[Plain EXCEPT !.key = k] : k \in {"username", "email", "role"}} \cup
                {[Plain EXCEPT !.key = "enable", !.type = "boolean"]}]

\* collectFields of a class, among the fields kept by a predicate: a property it
\* declares again replaces the inherited one.
collectFields(class, kept) ==
    LET fields[c \in Class] ==
          LET own == Own[c] \cap kept
              inherited == IF Parent[c] = None THEN {} ELSE fields[Parent[c]]
          IN  own \cup {f \in inherited : \A g \in own : g.key # f.key}
    IN  fields[class]

Declared == UNION {Own[c] : c \in Class}
Filterable == collectFields("User", {f \in Declared : f.filterable})
Sortable == collectFields("User", {f \in Declared : f.sortable})

-----------------------------------------------------------------------------
(* Filters                                                                 *)

\* The text fields a search looks into.
Searchable == {f.key : f \in {g \in Filterable : g.type = "string" /\ ~g.range /\ g.key # "id"}}

\* Mutant: a range needs both ends.
buildRangeClosed(f, q) ==
    IF q.from[f.key] = None \/ q.to[f.key] = None THEN {}
    ELSE {[kind |-> "range", key |-> f.key, from |-> q.from[f.key], to |-> q.to[f.key]]}

\* buildRange, of a range field.
buildRange(f, q) ==
    IF q.from[f.key] = None /\ q.to[f.key] = None THEN {}
    ELSE {[kind |-> "range", key |-> f.key, from |-> q.from[f.key], to |-> q.to[f.key]]}

\* buildFilters: the conditions a document has to meet.
buildFilters(q) ==
    (UNION {buildRange(f, q) : f \in {g \in Filterable : g.range}}) \cup
    {[kind |-> "equal", key |-> f.key, value |-> q.exact[f.key]] :
       f \in {g \in Filterable : ~g.range /\ g.key \in DOMAIN q.exact}} \cup
    (IF q.search = None \/ Searchable = {} THEN {}
     ELSE {[kind |-> "or", term |-> q.search, keys |-> Searchable]})

Holds(condition, d) ==
    CASE condition.kind = "range" -> /\ condition.from # None => condition.from <= d[condition.key]
                                     /\ condition.to # None => d[condition.key] <= condition.to
      [] condition.kind = "equal" -> d[condition.key] = condition.value
      [] condition.kind = "or"    -> \E k \in condition.keys : <<condition.term, d[k]>> \in Mentions

Selected(q, ids) == {i \in ids : \A condition \in buildFilters(q) : Holds(condition, Documents[i])}

-----------------------------------------------------------------------------
(* Order                                                                   *)

defaultSort == <<<<"createdAt", -1>>>>

\* Mutant: a field named twice is sorted by twice.
PutTwice(sort, part) == Append(sort, <<part.field, part.direction>>)

\* The assignment of a property of the sort object, which keeps its place.
Put(sort, part) ==
    IF \E i \in DOMAIN sort : sort[i][1] = part.field
    THEN [i \in DOMAIN sort |->
            IF sort[i][1] = part.field THEN <<part.field, part.direction>> ELSE sort[i]]
    ELSE Append(sort, <<part.field, part.direction>>)

\* buildSort of the parts of the sort string: the sort object after n of them.
\* Other fields are skipped.
buildSort(parts) ==
    LET sortObj[n \in 0..Len(parts)] ==
          IF n = 0 THEN <<>>
          ELSE IF \E f \in Sortable : f.key = parts[n].field THEN Put(sortObj[n - 1], parts[n])
          ELSE sortObj[n - 1]
    IN  IF sortObj[Len(parts)] = <<>> THEN defaultSort ELSE sortObj[Len(parts)]

\* Document i comes before document j.
Precedes(sort, i, j) ==
    \E n \in DOMAIN sort :
        /\ \A m \in 1..(n - 1) : Documents[i][sort[m][1]] = Documents[j][sort[m][1]]
        /\ sort[n][2] * Documents[i][sort[n][1]] < sort[n][2] * Documents[j][sort[n][1]]

\* The orders in which MongoDB may return the documents.
Orders(sort, ids) ==
    {order \in SetToSeqs(ids) :
       \A m, n \in DOMAIN order : m < n => ~Precedes(sort, order[n], order[m])}

-----------------------------------------------------------------------------
(* Pages                                                                   *)

AtLeast(a, b) == IF a > b THEN a ELSE b
AtMost(a, b) == IF a < b THEN a ELSE b

\* Mutant: the largest page is as large as the client likes.
limitUnbounded(q) == IF q.limit = None THEN MaxLimit ELSE AtLeast(1, q.limit)

\* The limit of a query, 10 by default.
limit(q) == AtMost(MaxLimit, AtLeast(1, IF q.limit = None THEN 10 ELSE q.limit))

Init ==
    /\ query \in Queries
    /\ docs \in SUBSET DOMAIN Documents
    /\ old = docs
    /\ page = 1
    /\ seen = <<>>

\* One page is fetched, and the next one if the answer says that there is one.
Fetch ==
    /\ page # None
    /\ \E order \in Orders(buildSort(query.sort), Selected(query, docs)) :
         LET last == AtMost(page * limit(query), Len(order)) IN
         /\ seen' = Append(seen, SubSeq(order, (page - 1) * limit(query) + 1, last))
         /\ page' = IF last < Len(order) THEN page + 1 ELSE None
    /\ UNCHANGED <<query, docs, old>>

\* Another client registers between two pages: its document is the newest one.
Register ==
    /\ page \notin {1, None}
    /\ \E i \in (DOMAIN Documents) \ docs :
         /\ \A j \in docs : Documents[j].createdAt < Documents[i].createdAt
         /\ docs' = docs \cup {i}
    /\ UNCHANGED <<query, old, page, seen>>

Next == Fetch \/ Register

Spec == Init /\ [][Next]_vars

-----------------------------------------------------------------------------

Asked(d) ==
    /\ \A k \in DOMAIN query.exact : d[k] = query.exact[k]
    /\ \A k \in {"createdAt", "updatedAt"} :
         /\ query.from[k] = None \/ d[k] >= query.from[k]
         /\ query.to[k] = None \/ d[k] <= query.to[k]
    /\ \/ query.search = None
       \/ \E k \in {"username", "email", "role", "firstname", "lastname"} :
            <<query.search, d[k]>> \in Mentions

\* The conditions built from the decorated fields of three classes select the
\* documents the query describes: equal where a value is given, within a range
\* that may be open on either side, and with the term in some text field; never
\* by a password or a picture, whatever the fields are.
SelectsWhatIsAsked ==
    /\ Selected(query, docs) = {i \in docs : Asked(Documents[i])}
    /\ \A f \in Filterable \cup Sortable : f.key \notin {"password", "picture"}

\* The sort string decides the order as its reader expects: by the fields in the
\* order of their first mention, each once and in the direction of its last one,
\* without those that cannot be sorted by, and by the newest if none is left.
SortIsAsked ==
    LET parts == query.sort
        sort == buildSort(parts)
        mentions(field) == {n \in DOMAIN parts : parts[n].field = field}
        first(field) == CHOOSE n \in mentions(field) : \A m \in mentions(field) : n <= m
        last(field) == CHOOSE n \in mentions(field) : \A m \in mentions(field) : m <= n
        asked == {parts[n].field : n \in DOMAIN parts} \cap Ordered
    IN  IF asked = {} THEN sort = defaultSort
        ELSE /\ {sort[n][1] : n \in DOMAIN sort} = asked
             /\ Len(sort) = Cardinality(asked)
             /\ \A m, n \in DOMAIN sort : m < n => first(sort[m][1]) < first(sort[n][1])
             /\ \A n \in DOMAIN sort : sort[n][2] = parts[last(sort[n][1])].direction

\* A client that walks the pages, in pages of at most MaxLimit, finds every document
\* that was there when it began, whoever registers meanwhile and whatever the sort,
\* if the sort leaves no ties and nothing is deleted or changed; and while nothing is
\* registered it finds them in the order of the sort, so each of them once.  With
\* ties a document may come twice and another not at all.
PagesAreComplete ==
    LET sort == buildSort(query.sort)
        separated == \A i, j \in docs : i # j => Precedes(sort, i, j) \/ Precedes(sort, j, i)
        found == {p \in (DOMAIN seen) \X (1..MaxLimit) : p[2] <= Len(seen[p[1]])}
        later(p, q) == p[1] < q[1] \/ (p[1] = q[1] /\ p[2] < q[2])
    IN  /\ \A n \in DOMAIN seen : Len(seen[n]) <= MaxLimit
        /\ page = None /\ separated =>
             Selected(query, old) \subseteq {seen[p[1]][p[2]] : p \in found}
        /\ separated /\ docs = old =>
             \A p, q \in found : later(p, q) => Precedes(sort, seen[p[1]][p[2]], seen[q[1]][q[2]])
=============================================================================

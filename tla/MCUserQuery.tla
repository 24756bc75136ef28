----------------------------- MODULE MCUserQuery -----------------------------
(***************************************************************************)
(* Instances of UserQuery for TLC: texts are numbers, ordered as they are. *)
(***************************************************************************)
EXTENDS UserQuery, TLC

User(created, text, role, enable) ==
    [id |-> text, createdAt |-> created, updatedAt |-> 3 - created, firstname |-> text,
     lastname |-> 10, birthday |-> 1, username |-> text, email |-> 10 + text,
     role |-> role, enable |-> enable, password |-> 7, picture |-> 8]

\* Four accounts: two created together, three of one role.  20 is USER and 21 ADMIN;
\* 1 is true and 0 false.
SomeDocuments == <<User(1, 1, 20, 1), User(1, 2, 21, 1), User(2, 3, 20, 0), User(3, 4, 20, 1)>>

\* Term 1 is in a first and a user name, 2 in every role, 3 in one e-mail address
\* and, were it searched, in every password.
SomeMentions == {<<1, 1>>, <<2, 20>>, <<2, 21>>, <<3, 14>>, <<3, 7>>}

NoRange == [createdAt |-> None, updatedAt |-> None]
Everything == [exact |-> <<>>, from |-> NoRange, to |-> NoRange, search |-> None,
               sort |-> <<>>, limit |-> None]

Parts == {[field |-> f, direction |-> d] : f \in {"createdAt", "role", "username", "password", "id"}, d \in {1, -1}}

Exact == {<<>>} \cup [{"role"} -> {20, 21}] \cup [{"enable"} -> {0, 1}]
            \cup {[username |-> 1, enable |-> b] : b \in {0, 1}}

\* Every combination of filters; every sort string of up to three parts.
SomeQueries ==
    {[Everything EXCEPT !.exact = e, !.from.createdAt = f, !.to.createdAt = t,
                        !.from.updatedAt = u, !.search = term, !.limit = l] :
       e \in Exact, f \in {None, 1, 2}, t \in {None, 1, 2}, u \in {None, 1},
       term \in {None, 1, 2, 3}, l \in {None, 1}} \cup
    {[Everything EXCEPT !.sort = parts, !.limit = l] :
       parts \in UNION {[1..n -> Parts] : n \in 0..3}, l \in {None, 2, 5}}
=============================================================================
